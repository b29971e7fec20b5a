------------------------------ MODULE Volumes -------------------------------
(***************************************************************************)
(* The volumes C:, D: and E:: mounting and change of drive (fs/fat32.c).   *)
(*                                                                         *)
(* The file system works on globals: the selected device, the geometry of  *)
(* its volume and the current directory.  fat32_mount() fills them from    *)
(* the disk and fat32_mudar_disco_ativo() exchanges them with the copies   *)
(* in unidades_sistema.  Both hold fat_lock while they do; file calls do   *)
(* not look at it.  A value is abstracted to the volume it comes from.     *)
(*                                                                         *)
(* The shell calls with interrupts on and can lose the processor between   *)
(* any two steps; system calls of programs run with interrupts off, but    *)
(* for the file calls, which can be preempted once they have called        *)
(* kmalloc(): it always turns interrupts on when it releases its lock.     *)
(***************************************************************************)
EXTENDS Integers, FiniteSets

CONSTANTS
  Callers,  \* contexts that call
  Masked    \* those among them that call with interrupts off

ASSUME VolumesAssumption == Masked \subseteq Callers

Vol == 0 .. 2
Usb == {1, 2}
Present == {0, 1}  \* the flash drive has address 1 and the drive is the address
None == 3      \* zero-initialised globals
Root == "root"
Dirs == [vol : Vol \cup {None}, cluster : {Root, "sub"}]

VARIABLES
  fat32_current_dev_id,
  ctx,           \* disk_bpb, fat_start_sector with data_start_sector,
                 \* fat32_partition_offset, current_dir_cluster
  unidades,      \* unidades_sistema
  fat_lock,
  usb,           \* usb_hardware_inicializado
  call,          \* by caller, the call it is in
  left,          \* by volume, the directory the user was in (history)
  forgotten,     \* volumes that were selected when a mount began (history)
  broken,        \* the last mount failed and no change followed (history)
  overlapped     \* two changes, or a change and a SYS_CHDIR, were under way
                 \* at once (history)

vars == <<fat32_current_dev_id, ctx, unidades, fat_lock, usb, call, left,
          forgotten, broken, overlapped>>
globals == <<fat32_current_dev_id, ctx, unidades>>
history == <<left, forgotten, broken, overlapped>>

dev == fat32_current_dev_id
Idle == [pc |-> "idle", op |-> "none", dev |-> 0, geo |-> None, clean |-> FALSE]

Changing(c) == call[c].op \in {"drive", "test"}
Quiet == \A c \in Callers : ~Changing(c)

\* No other caller is in a call with interrupts off.
HasCpu(c) ==
  \A d \in Masked \ {c} : call[d].pc = "idle" \/ call[d].op = "preemptible"

At(c, pc) == HasCpu(c) /\ call[c].pc = pc
Goto(c, pc) == call' = [call EXCEPT ![c].pc = pc]
Return(c) == call' = [call EXCEPT ![c] = Idle]

-----------------------------------------------------------------------------
\* Changes: SYS_SET_DRIVE, also by the shell's c: d: e:, and SYS_EHCI.

BeginChange(c, op, d) ==
  /\ At(c, "idle")
  /\ call' = [e \in Callers |->
       IF e = c THEN [Idle EXCEPT !.pc = IF op = "test" THEN "usb" ELSE "check",
                                  !.op = op, !.dev = d]
       ELSE [call[e] EXCEPT !.clean = FALSE]]
  /\ overlapped' = (overlapped \/ ~Quiet)
  /\ UNCHANGED <<globals, fat_lock, usb, left, forgotten, broken>>

\* A USB volume is mounted the first time it is selected.
Check(c) ==
  /\ At(c, "check")
  /\ LET d == call[c].dev
     IN Goto(c, IF d \in Usb /\ ~unidades[d].inicializado THEN "usb" ELSE "change")
  /\ UNCHANGED <<globals, fat_lock, usb, history>>

\* The controller, once (SYS_EHCI: always), and the flash drive; any of it can
\* fail.
BringUp(c) ==
  /\ At(c, "usb")
  /\ \/ Return(c) /\ UNCHANGED usb
     \/ Return(c) /\ call[c].op = "drive" /\ usb' = TRUE
     \/ Goto(c, "select") /\ usb' = (usb \/ call[c].op = "drive")
  /\ UNCHANGED <<globals, fat_lock, history>>

-----------------------------------------------------------------------------
\* fat32_mount()

MountFails(c) == Return(c) /\ broken' = TRUE

Select(c) ==
  /\ At(c, "select")
  /\ fat32_current_dev_id' = call[c].dev
  /\ forgotten' = forgotten \cup {dev, call[c].dev}
  /\ \/ Goto(c, "lock") /\ broken' = TRUE
     \/ MountFails(c)      \* no frame for the buffer
  /\ UNCHANGED <<ctx, unidades, fat_lock, usb, left, overlapped>>

Lock(c) ==
  /\ \/ At(c, "lock") /\ Goto(c, "mbr")
     \/ At(c, "wait") /\ Goto(c, "save")
  /\ ~fat_lock /\ fat_lock' = TRUE
  /\ UNCHANGED <<globals, usb, history>>

\* The partition table: unreadable, empty, or read.
ReadMbr(c) ==
  /\ At(c, "mbr")
  /\ \/ /\ MountFails(c)
        /\ fat_lock' = FALSE /\ UNCHANGED ctx
     \/ /\ call[c].dev \in Present
        /\ Goto(c, "vbr")
        /\ ctx' = [ctx EXCEPT !.offset = call[c].dev]
        /\ UNCHANGED <<fat_lock, broken>>
  /\ UNCHANGED <<fat32_current_dev_id, unidades, usb, left, forgotten,
                 overlapped>>

\* Mutant: the new parameter block is not taken over.
Mut_WithBpb(x, d) == x

WithBpb(x, d) == [x EXCEPT !.bpb = d]

\* The boot sector: unreadable, without its signature, or good.
ReadVbr(c) ==
  /\ At(c, "vbr")
  /\ \/ /\ MountFails(c)
        /\ fat_lock' = FALSE
        /\ ctx' \in {ctx, WithBpb(ctx, call[c].dev)}
     \/ /\ Goto(c, "geometry")
        /\ ctx' = WithBpb(ctx, call[c].dev)
        /\ UNCHANGED <<fat_lock, broken>>
  /\ UNCHANGED <<fat32_current_dev_id, unidades, usb, left, forgotten,
                 overlapped>>

Geometry(c) ==
  /\ At(c, "geometry")
  /\ ctx' = [ctx EXCEPT !.starts = ctx.offset,
                        !.dir = [vol |-> ctx.bpb, cluster |-> Root]]
  /\ fat_lock' = FALSE
  /\ Goto(c, "keep")
  /\ UNCHANGED <<fat32_current_dev_id, unidades, usb, history>>

\* fat32_salvar_contexto_disco()
Kept(d) ==
  [inicializado |-> TRUE, bpb |-> ctx.bpb, starts |-> ctx.starts,
   offset |-> ctx.offset,
   dir |-> IF unidades[d].inicializado THEN ctx.dir
           ELSE [vol |-> ctx.bpb, cluster |-> Root]]

Keep(c) ==
  /\ At(c, "keep")
  /\ LET d == call[c].dev
     IN /\ unidades' = [unidades EXCEPT ![d] = Kept(d)]
        /\ left' = [left EXCEPT ![d] = [vol |-> d, cluster |-> Root]]
        /\ forgotten' = forgotten \ {d}
        /\ broken' = FALSE
  /\ IF call[c].op = "test" THEN Return(c) ELSE Goto(c, "change")
  /\ UNCHANGED <<fat32_current_dev_id, ctx, fat_lock, usb, overlapped>>

-----------------------------------------------------------------------------
\* The rest of fat32_mudar_disco_ativo().

Change(c) ==
  /\ At(c, "change")
  /\ IF unidades[call[c].dev].inicializado THEN Goto(c, "wait") ELSE Return(c)
  /\ UNCHANGED <<globals, fat_lock, usb, history>>

\* Mutant: the directory is saved for the drive that comes.
Mut_Leaving(c) == call[c].dev

\* The drive whose directory is saved.
Leaving(c) == dev

SaveDirectory(c) ==
  /\ At(c, "save")
  /\ unidades' = [unidades EXCEPT ![Leaving(c)].dir = ctx.dir]
  /\ fat32_current_dev_id' = call[c].dev
  /\ Goto(c, "restore")
  /\ UNCHANGED <<ctx, fat_lock, usb, history>>

\* Mutant: the start of the data area stays.
Mut_Restored(d) ==
  [bpb |-> unidades[d].bpb, starts |-> ctx.starts,
   offset |-> unidades[d].offset, dir |-> unidades[d].dir]

Restored(d) ==
  [bpb |-> unidades[d].bpb, starts |-> unidades[d].starts,
   offset |-> unidades[d].offset, dir |-> unidades[d].dir]

Restore(c) ==
  /\ At(c, "restore")
  /\ ctx' = Restored(call[c].dev)
  /\ fat_lock' = FALSE
  /\ broken' = FALSE
  /\ Return(c)
  /\ UNCHANGED <<fat32_current_dev_id, unidades, usb, left, forgotten,
                 overlapped>>

-----------------------------------------------------------------------------
\* File calls: a sector is computed from the geometry, then read from the
\* selected device.  SYS_CHDIR ends with a new current directory.

BeginFile(c, op) ==
  /\ At(c, "idle")
  /\ call' = [call EXCEPT ![c] = [Idle EXCEPT !.pc = "locate", !.op = op,
                                              !.clean = Quiet]]
  /\ UNCHANGED <<globals, fat_lock, usb, history>>

Locate(c) ==
  /\ At(c, "locate")
  /\ call' = [call EXCEPT ![c].pc = "sector", ![c].geo = ctx.starts]
  /\ UNCHANGED <<globals, fat_lock, usb, history>>

\* The call of a program takes memory for what it reads or writes: from then on
\* interrupts are on.
Allocate(c) ==
  /\ c \in Masked /\ call[c].op = "file"
  /\ call' = [call EXCEPT ![c].pc = "locate", ![c].op = "preemptible"]

Found(c) == call[c].geo = dev /\ ctx.bpb = dev

Access(c) ==
  /\ At(c, "sector")
  /\ \/ Return(c)
     \/ call[c].op = "chdir" /\ Found(c) /\ Goto(c, "enter")
     \/ Goto(c, "locate")
     \/ Allocate(c)
  /\ UNCHANGED <<globals, fat_lock, usb, history>>

Enter(c) ==
  /\ At(c, "enter")
  /\ \E cluster \in {Root, "sub"} :
       LET dir == [vol |-> call[c].geo, cluster |-> cluster]
       IN /\ ctx' = [ctx EXCEPT !.dir = dir]
          /\ IF call[c].clean
             THEN /\ left' = [left EXCEPT ![dev] = dir]
                  /\ forgotten' = forgotten \ {dev}
                  /\ UNCHANGED overlapped
             ELSE overlapped' = TRUE /\ UNCHANGED <<left, forgotten>>
  /\ Return(c)
  /\ UNCHANGED <<fat32_current_dev_id, unidades, fat_lock, usb, broken>>

-----------------------------------------------------------------------------
Empty == [inicializado |-> FALSE, bpb |-> None, starts |-> None,
          offset |-> None, dir |-> [vol |-> None, cluster |-> Root]]
Mounted(v) == [inicializado |-> TRUE, bpb |-> v, starts |-> v, offset |-> v,
               dir |-> [vol |-> v, cluster |-> Root]]

\* kernel_main() mounts C:, or fails to at any point of it.
Init ==
  /\ fat32_current_dev_id = 0
  /\ broken \in BOOLEAN
  /\ \E offset \in {0, None} : \E bpb \in {offset, None} :
       IF broken
       THEN /\ ctx = [bpb |-> bpb, starts |-> None, offset |-> offset,
                      dir |-> [vol |-> None, cluster |-> Root]]
            /\ unidades = [v \in Vol |-> Empty]
       ELSE /\ unidades = [v \in Vol |-> IF v = 0 THEN Mounted(v) ELSE Empty]
            /\ ctx = [bpb |-> 0, starts |-> 0, offset |-> 0,
                      dir |-> [vol |-> 0, cluster |-> Root]]
  /\ fat_lock = FALSE
  /\ usb = FALSE
  /\ call = [c \in Callers |-> Idle]
  /\ left = [v \in Vol |-> [vol |-> v, cluster |-> Root]]
  /\ forgotten = {}
  /\ overlapped = FALSE

Mount(c) == \/ Select(c) \/ Lock(c) \/ ReadMbr(c) \/ ReadVbr(c)
            \/ Geometry(c) \/ Keep(c)

ChangeStep(c) == \/ Check(c) \/ BringUp(c) \/ Mount(c)
                 \/ Change(c) \/ SaveDirectory(c) \/ Restore(c)

FileStep(c) == Locate(c) \/ Access(c) \/ Enter(c)

Next ==
  \E c \in Callers :
    \/ \E d \in Vol : BeginChange(c, "drive", d)
    \/ c \in Masked /\ BeginChange(c, "test", 1)
    \/ ChangeStep(c)
    \/ \E op \in {"file", "chdir"} : BeginFile(c, op)
    \/ FileStep(c)

Spec == Init /\ [][Next]_vars
-----------------------------------------------------------------------------
TypeOK ==
  /\ fat32_current_dev_id \in Vol
  /\ ctx \in [bpb : Vol \cup {None}, starts : Vol \cup {None},
              offset : Vol \cup {None}, dir : Dirs]
  /\ unidades \in [Vol -> [inicializado : BOOLEAN, bpb : Vol \cup {None},
                           starts : Vol \cup {None}, offset : Vol \cup {None},
                           dir : Dirs]]
  /\ fat_lock \in BOOLEAN /\ usb \in BOOLEAN
  /\ left \in [Vol -> Dirs] /\ forgotten \subseteq Vol

Own(x, v) == x.bpb = v /\ x.starts = v /\ x.offset = v

\* Outside of changes the geometry in use is that of the selected drive, and
\* the copies are each of its own drive, through every sequence of mounts,
\* failures and changes, unless two changes overlapped.  A mount that fails
\* leaves the new drive selected with the old geometry or a part of the new
\* one; the next change of drive that succeeds ends that.
GeometryOwn ==
  /\ TypeOK
  /\ ~overlapped =>
       /\ Quiet /\ ~broken => Own(ctx, dev) /\ unidades[dev].inicializado
       /\ \A v \in Vol : unidades[v].inicializado => Own(unidades[v], v)

\* The current directory of a drive is there again when it is selected again,
\* except for a drive that was selected when another was mounted, or was being
\* mounted itself, until the user enters a directory of it.
DirectoryKept ==
  ~overlapped /\ ~broken /\ Quiet /\ dev \notin forgotten =>
    ctx.dir = left[dev]

\* A file call that no change of drive gets in the way of, and that begins
\* with a volume in order, reads the sectors of the selected volume.
SectorsOwn ==
  [][\A c \in Callers :
       At(c, "sector") /\ ~(call'[c].pc = "sector") /\ call[c].clean
         /\ ~broken /\ ~overlapped
       => call[c].geo = dev]_vars

=============================================================================
