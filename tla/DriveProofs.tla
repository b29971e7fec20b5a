---------------------------- MODULE DriveProofs -----------------------------
(***************************************************************************)
(* The drives.  Volumes: the geometry and the directory in use are those   *)
(* of the selected drive, for any callers, through every sequence of       *)
(* mounts, failures and changes that do not overlap.  UsbStorage: driver   *)
(* and flash drive stay in step, reads deliver the sector asked for and    *)
(* the search finds the device, whatever transfers fail, for any number of *)
(* frames, tries and sectors.                                              *)
(***************************************************************************)
EXTENDS Volumes, UsbStorage, TLAPS

-----------------------------------------------------------------------------
\* Volumes.

\* The steps of a change at which the drive that comes is selected already and
\* its geometry is being read.
Mounting == {"lock", "mbr", "vbr", "geometry", "keep"}
ChangePcs == {"check", "usb", "select", "change", "wait", "save", "restore"} \cup Mounting
FilePcs == {"locate", "sector", "enter"}

Calls == [pc : {"idle"} \cup ChangePcs \cup FilePcs,
          op : {"none", "drive", "test", "file", "preemptible", "chdir"},
          dev : Vol, geo : Vol \cup {None}, clean : BOOLEAN]

\* What a caller is doing is told by where it is; a file call is clean only
\* while no change is under way.
CallsInv ==
  /\ call \in [Callers -> Calls]
  /\ \A c \in Callers : /\ call[c].pc \in ChangePcs <=> Changing(c)
                        /\ call[c].clean => Quiet

\* What a change has done when it comes to a step.
StepInv(c) ==
  LET d == call[c].dev IN
  /\ call[c].pc \in Mounting => dev = d /\ d \in forgotten /\ broken
  /\ call[c].pc \in {"vbr", "geometry", "keep"} => ctx.offset = d
  /\ call[c].pc \in {"geometry", "keep"} => ctx.bpb = d
  /\ call[c].pc = "keep" => ctx.starts = d /\ ctx.dir = [vol |-> d, cluster |-> Root]
  /\ call[c].pc \in {"wait", "save", "restore"} => unidades[d].inicializado
  /\ call[c].pc = "restore" => dev = d

Restoring == \E c \in Callers : call[c].pc = "restore"

\* The copies and the geometry in use.
GeometryInv ==
  /\ \A v \in Vol : unidades[v].inicializado => Own(unidades[v], v)
  /\ ~Restoring /\ ~broken => Own(ctx, dev) /\ unidades[dev].inicializado

\* Where the directory of every drive is.
DirectoryInv ==
  /\ ~Restoring /\ dev \notin forgotten /\ unidades[dev].inicializado =>
       ctx.dir = left[dev]
  /\ \A v \in Vol : (v # dev \/ Restoring) /\ v \notin forgotten
                      /\ unidades[v].inicializado => unidades[v].dir = left[v]

ChangesInv ==
  /\ \A c, e \in Callers : Changing(c) /\ Changing(e) => c = e
  /\ \A c \in Callers : StepInv(c)
  /\ \A c \in Callers : call[c].pc = "sector" /\ call[c].clean /\ ~broken =>
       call[c].geo = dev
  /\ GeometryInv
  /\ DirectoryInv

VolumesInv == TypeOK /\ CallsInv /\ (~overlapped => ChangesInv)

\* A step of a change disturbs nothing but what belongs to its own caller.
LEMMA ChangeFrame ==
  ASSUME VolumesInv, NEW c \in Callers, Changing(c),
         call'[c] \in Calls, call' = [call EXCEPT ![c] = call'[c]],
         call'[c].pc \in ChangePcs <=> call'[c].op \in {"drive", "test"},
         call'[c].clean => call[c].clean, overlapped' = overlapped
  PROVE  /\ CallsInv'
         /\ ~overlapped' /\ StepInv(c)' /\ GeometryInv' /\ DirectoryInv' => ChangesInv'
         /\ ~overlapped => /\ StepInv(c) /\ GeometryInv /\ DirectoryInv
                           /\ Restoring <=> call[c].pc = "restore"
                           /\ Restoring' <=> call'[c].pc = "restore"
  <1>1. call \in [Callers -> Calls] /\ call' \in [Callers -> Calls]
    BY DEF VolumesInv, CallsInv
  <1>2. \A e \in Callers : e # c => call'[e] = call[e]
    BY <1>1
  <1>3. \A e \in Callers : ~call[e].clean /\ ~call'[e].clean
    BY <1>1, <1>2 DEF VolumesInv, CallsInv, Quiet
  <1>4. \A e \in Callers : call'[e].pc \in ChangePcs <=> Changing(e)'
    BY <1>1, <1>2 DEF VolumesInv, CallsInv, Changing
  <1>5. CallsInv'
    BY <1>1, <1>3, <1>4 DEF CallsInv
  <1>6. ASSUME ~overlapped
        PROVE  /\ \A e \in Callers : e # c => ~Changing(e) /\ ~Changing(e)'
               /\ \A e \in Callers : e # c => call[e].pc \notin ChangePcs /\ call'[e].pc \notin ChangePcs
    <2>1. \A e \in Callers : e # c => ~Changing(e)
      BY <1>6 DEF VolumesInv, ChangesInv
    <2>2. \A e \in Callers : e # c => ~Changing(e)'
      BY <1>2, <2>1 DEF Changing
    <2>3. \A e \in Callers : e # c => call[e].pc \notin ChangePcs
      BY <2>1 DEF VolumesInv, CallsInv
    <2> QED BY <1>4, <2>1, <2>2, <2>3
  <1>7. ASSUME ~overlapped', StepInv(c)', GeometryInv', DirectoryInv' PROVE ChangesInv'
    <2>1. \A e \in Callers : StepInv(e)'
      <3> SUFFICES ASSUME NEW e \in Callers, e # c PROVE StepInv(e)'
        BY <1>7
      <3>1. call'[e].pc \notin ChangePcs
        BY <1>6, <1>7
      <3> QED BY <3>1 DEF StepInv, ChangePcs, Mounting
    <2>2. \A d, e \in Callers : Changing(d)' /\ Changing(e)' => d = e
      BY <1>6, <1>7
    <2> QED BY <1>3, <1>7, <2>1, <2>2 DEF ChangesInv
  <1>8. ASSUME ~overlapped
        PROVE  /\ StepInv(c) /\ GeometryInv /\ DirectoryInv
               /\ Restoring <=> call[c].pc = "restore"
               /\ Restoring' <=> call'[c].pc = "restore"
    <2>1. "restore" \in ChangePcs
      BY DEF ChangePcs
    <2> QED BY <1>6, <1>8, <2>1 DEF VolumesInv, ChangesInv, Restoring
  <1> QED BY <1>5, <1>7, <1>8

\* The two ways of a change to leave a step.
LEMMA GotoFrame ==
  ASSUME VolumesInv, NEW c \in Callers, NEW pc \in ChangePcs,
         call[c].pc \in ChangePcs, Goto(c, pc)
  PROVE  /\ Changing(c)
         /\ call'[c] \in Calls /\ call' = [call EXCEPT ![c] = call'[c]]
         /\ call'[c].pc = pc /\ call'[c].op = call[c].op /\ call'[c].dev = call[c].dev
         /\ call'[c].clean = call[c].clean
         /\ call'[c].pc \in ChangePcs <=> call'[c].op \in {"drive", "test"}
  <1>1. call \in [Callers -> Calls] /\ call[c] \in Calls /\ Changing(c)
    BY DEF VolumesInv, CallsInv
  <1>2. call'[c] = [call[c] EXCEPT !.pc = pc] /\ call' = [call EXCEPT ![c] = [call[c] EXCEPT !.pc = pc]]
    BY <1>1 DEF Goto
  <1>3. call'[c] \in Calls
    BY <1>1, <1>2 DEF Calls
  <1> QED BY <1>1, <1>2, <1>3 DEF Calls, Changing

LEMMA ReturnFrame ==
  ASSUME VolumesInv, NEW c \in Callers, Return(c)
  PROVE  /\ call'[c] = Idle
         /\ call'[c] \in Calls /\ call' = [call EXCEPT ![c] = call'[c]]
         /\ call'[c].pc = "idle" /\ ~call'[c].clean /\ call'[c].op = "none"
         /\ call'[c].pc \in ChangePcs <=> call'[c].op \in {"drive", "test"}
  <1>1. call \in [Callers -> Calls]
    BY DEF VolumesInv, CallsInv
  <1>2. call'[c] = Idle /\ call' = [call EXCEPT ![c] = Idle]
    BY <1>1 DEF Return
  <1>3. Idle \in Calls /\ Idle.pc = "idle" /\ ~Idle.clean /\ Idle.op = "none"
    BY DEF Idle, Calls, Vol, None
  <1> QED BY <1>2, <1>3 DEF ChangePcs, Mounting

\* Steps of a change that touch nothing but the call: the look at the table,
\* the controller, the lock.
LEMMA WaitingSteps ==
  ASSUME VolumesInv, NEW c \in Callers,
         Check(c) \/ BringUp(c) \/ Lock(c) \/ Change(c)
  PROVE  VolumesInv'
  <1>1. /\ UNCHANGED <<globals, history>> /\ fat_lock' \in BOOLEAN /\ usb' \in BOOLEAN
        /\ call[c].pc \in {"check", "usb", "lock", "wait", "change"}
        /\ \/ Return(c)
           \/ \E pc \in {"usb", "change", "select", "mbr", "save", "wait"} :
                /\ Goto(c, pc)
                /\ pc = "mbr" => call[c].pc = "lock"
                /\ pc \in {"wait", "save"} =>
                     unidades[call[c].dev].inicializado \/ call[c].pc = "wait"
    BY DEF VolumesInv, TypeOK, Check, BringUp, Lock, Change, At, history
  <1>2. call[c].pc \in ChangePcs /\ call[c].pc # "restore"
    BY <1>1 DEF ChangePcs, Mounting
  <1>3. TypeOK' /\ overlapped' = overlapped
    BY <1>1 DEF VolumesInv, TypeOK, globals, history
  <1>4. ASSUME /\ call'[c].pc # "restore"
               /\ Restoring <=> call[c].pc = "restore"
               /\ Restoring' <=> call'[c].pc = "restore"
               /\ GeometryInv /\ DirectoryInv
        PROVE  GeometryInv' /\ DirectoryInv'
    <2>1. ~Restoring /\ ~Restoring'
      BY <1>2, <1>4
    <2>2. UNCHANGED <<fat32_current_dev_id, ctx, unidades, left, forgotten, broken>>
      BY <1>1 DEF globals, history
    <2> QED BY <1>4, <2>1, <2>2 DEF GeometryInv, DirectoryInv, Own, dev
  <1>5. CASE Return(c)
    <2>1. StepInv(c)'
      BY <1>5, ReturnFrame DEF StepInv, Mounting
    <2>2. Changing(c)
      BY <1>2 DEF VolumesInv, CallsInv
    <2> QED BY <1>3, <1>4, <1>5, <2>1, <2>2, ReturnFrame, ChangeFrame DEF VolumesInv
  <1>6. ASSUME NEW pc \in {"usb", "change", "select", "mbr", "save", "wait"}, Goto(c, pc),
               pc = "mbr" => call[c].pc = "lock",
               pc \in {"wait", "save"} =>
                 unidades[call[c].dev].inicializado \/ call[c].pc = "wait"
        PROVE  VolumesInv'
    <2>1. pc \in ChangePcs
      BY DEF ChangePcs, Mounting
    <2>2. /\ Changing(c) /\ call'[c] \in Calls /\ call' = [call EXCEPT ![c] = call'[c]]
          /\ call'[c].pc = pc /\ call'[c].dev = call[c].dev /\ call'[c].clean = call[c].clean
          /\ call'[c].pc \in ChangePcs <=> call'[c].op \in {"drive", "test"}
      BY <1>2, <1>6, <2>1, GotoFrame
    <2>3. StepInv(c) => StepInv(c)'
      BY <1>1, <1>6, <2>2 DEF StepInv, Mounting, globals, history, dev
    <2> QED BY <1>3, <1>4, <2>2, <2>3, ChangeFrame DEF VolumesInv
  <1> QED BY <1>1, <1>5, <1>6


\* What every step of a mount or of the rest of a change leaves true of its
\* call, whether it goes on or returns.
LEMMA MovedOn ==
  ASSUME VolumesInv, NEW c \in Callers, NEW pc \in ChangePcs,
         call[c].pc \in ChangePcs, Goto(c, pc) \/ Return(c),
         overlapped' = overlapped, TypeOK',
         ~overlapped => StepInv(c)' /\ GeometryInv' /\ DirectoryInv'
  PROVE  VolumesInv'
  <1>1. CASE Goto(c, pc)
    BY <1>1, GotoFrame, ChangeFrame DEF VolumesInv
  <1>2. CASE Return(c)
    <2>1. Changing(c)
      BY DEF VolumesInv, CallsInv
    <2> QED BY <1>2, <2>1, ReturnFrame, ChangeFrame DEF VolumesInv
  <1> QED BY <1>1, <1>2

\* What is known of a call in the middle of a change, before and after a step.
LEMMA Moving ==
  ASSUME VolumesInv, NEW c \in Callers, NEW pc \in ChangePcs,
         call[c].pc \in ChangePcs, Goto(c, pc) \/ Return(c),
         overlapped' = overlapped
  PROVE  /\ call[c].dev \in Vol
         /\ Goto(c, pc) => call'[c].pc = pc /\ call'[c].dev = call[c].dev
         /\ Return(c) => call'[c].pc = "idle"
         /\ ~overlapped => /\ StepInv(c) /\ GeometryInv /\ DirectoryInv
                           /\ Restoring <=> call[c].pc = "restore"
                           /\ Restoring' <=> call'[c].pc = "restore"
  <1>1. call[c].dev \in Vol
    BY DEF VolumesInv, CallsInv, Calls
  <1>2. CASE Goto(c, pc)
    BY <1>1, <1>2, GotoFrame, ChangeFrame, ReturnFrame
  <1>3. CASE Return(c)
    <2>1. Changing(c)
      BY DEF VolumesInv, CallsInv
    <2> QED BY <1>1, <1>3, <2>1, ReturnFrame, ChangeFrame, GotoFrame
  <1> QED BY <1>2, <1>3

LEMMA SelectStep ==
  ASSUME VolumesInv, NEW c \in Callers, Select(c)
  PROVE  VolumesInv'
  <1>1. /\ call[c].pc = "select" /\ (Goto(c, "lock") \/ Return(c))
        /\ fat32_current_dev_id' = call[c].dev /\ broken' = TRUE
        /\ forgotten' = forgotten \cup {dev, call[c].dev}
        /\ UNCHANGED <<ctx, unidades, fat_lock, usb, left, overlapped>>
    BY DEF Select, At, MountFails
  <1>2. "select" \in ChangePcs /\ "lock" \in ChangePcs
    BY DEF ChangePcs, Mounting
  <1>3. call[c].dev \in Vol
    BY DEF VolumesInv, CallsInv, Calls
  <1>4. TypeOK'
    BY <1>1, <1>3 DEF VolumesInv, TypeOK, dev
  <1>5. ASSUME ~overlapped PROVE StepInv(c)' /\ GeometryInv' /\ DirectoryInv'
    <2>1. /\ GeometryInv /\ DirectoryInv /\ ~Restoring /\ ~Restoring'
          /\ Goto(c, "lock") => call'[c].pc = "lock" /\ call'[c].dev = call[c].dev
          /\ Return(c) => call'[c].pc = "idle"
      BY <1>1, <1>2, <1>5, Moving
    <2>2. StepInv(c)'
      BY <1>1, <2>1 DEF StepInv, Mounting, dev
    <2>3. GeometryInv'
      BY <1>1, <2>1 DEF GeometryInv, Own, dev
    <2>4. DirectoryInv'
      BY <1>1, <2>1 DEF DirectoryInv, dev
    <2> QED BY <2>2, <2>3, <2>4
  <1> QED BY <1>1, <1>2, <1>4, <1>5, MovedOn

\* The three reads of a mount change the geometry alone; the selected drive is
\* among the forgotten ones.
LEMMA ReadingSteps ==
  ASSUME VolumesInv, NEW c \in Callers, ReadMbr(c) \/ ReadVbr(c) \/ Geometry(c)
  PROVE  VolumesInv'
  <1> DEFINE d == call[c].dev
  <1>1. /\ UNCHANGED <<fat32_current_dev_id, unidades, usb, left, forgotten, overlapped>>
        /\ fat_lock' \in BOOLEAN /\ broken' \in {broken, TRUE}
        /\ \/ call[c].pc \in {"mbr", "vbr"} /\ Return(c) /\ ctx' \in {ctx, WithBpb(ctx, d)}
           \/ call[c].pc = "mbr" /\ Goto(c, "vbr") /\ ctx' = [ctx EXCEPT !.offset = d]
           \/ call[c].pc = "vbr" /\ Goto(c, "geometry") /\ ctx' = WithBpb(ctx, d)
           \/ /\ call[c].pc = "geometry" /\ Goto(c, "keep")
              /\ ctx' = [ctx EXCEPT !.starts = ctx.offset,
                                    !.dir = [vol |-> ctx.bpb, cluster |-> Root]]
    BY DEF VolumesInv, TypeOK, ReadMbr, ReadVbr, Geometry, At, MountFails, history
  <1>2. /\ call[c].pc \in ChangePcs /\ call[c].pc \in Mounting /\ call[c].pc # "restore"
        /\ {"vbr", "geometry", "keep"} \subseteq ChangePcs
    BY <1>1 DEF ChangePcs, Mounting
  <1>3. d \in Vol
    BY DEF VolumesInv, CallsInv, Calls
  <1>4. TypeOK'
    <2>1. ctx' \in [bpb : Vol \cup {None}, starts : Vol \cup {None},
                    offset : Vol \cup {None}, dir : Dirs]
      <3>1. WithBpb(ctx, d) \in [bpb : Vol \cup {None}, starts : Vol \cup {None},
                                 offset : Vol \cup {None}, dir : Dirs]
        BY <1>3 DEF VolumesInv, TypeOK, WithBpb
      <3>2. [ctx EXCEPT !.offset = d]
              \in [bpb : Vol \cup {None}, starts : Vol \cup {None},
                   offset : Vol \cup {None}, dir : Dirs]
        BY <1>3 DEF VolumesInv, TypeOK
      <3>3. [ctx EXCEPT !.starts = ctx.offset, !.dir = [vol |-> ctx.bpb, cluster |-> Root]]
              \in [bpb : Vol \cup {None}, starts : Vol \cup {None},
                   offset : Vol \cup {None}, dir : Dirs]
        BY DEF VolumesInv, TypeOK, Dirs
      <3> QED BY <1>1, <3>1, <3>2, <3>3 DEF VolumesInv, TypeOK
    <2> QED BY <1>1, <2>1 DEF VolumesInv, TypeOK
  <1>5. PICK pc \in {"vbr", "geometry", "keep"} : Goto(c, pc) \/ Return(c)
    BY <1>1
  <1>6. ASSUME ~overlapped PROVE StepInv(c)' /\ GeometryInv' /\ DirectoryInv'
    <2>1. /\ GeometryInv /\ DirectoryInv /\ StepInv(c) /\ ~Restoring
          /\ Restoring' <=> call'[c].pc = "restore"
          /\ Return(c) => call'[c].pc = "idle"
      BY <1>1, <1>2, <1>5, <1>6, Moving
    <2>2. \A p \in {"vbr", "geometry", "keep"} :
             Goto(c, p) => call'[c].pc = p /\ call'[c].dev = d
      BY <1>1, <1>2, Moving
    <2>3. dev = d /\ d \in forgotten /\ broken /\ dev' = dev /\ broken'
      BY <1>1, <1>2, <2>1 DEF StepInv, dev
    <2>4. ~Restoring'
      BY <1>1, <2>1, <2>2
    <2>5. GeometryInv'
      BY <1>1, <2>1, <2>3, <2>4 DEF GeometryInv, Own
    <2>6. DirectoryInv'
      BY <1>1, <2>1, <2>3, <2>4 DEF DirectoryInv
    <2>7. StepInv(c)'
      <3>1. CASE Return(c)
        BY <2>1, <3>1 DEF StepInv, Mounting
      <3>2. CASE call[c].pc = "mbr" /\ Goto(c, "vbr") /\ ctx' = [ctx EXCEPT !.offset = d]
        <4>1. call'[c].pc = "vbr" /\ call'[c].dev = d /\ ctx'.offset = d
          BY <2>2, <3>2 DEF VolumesInv, TypeOK
        <4> QED BY <1>1, <2>3, <4>1 DEF StepInv, Mounting
      <3>3. CASE call[c].pc = "vbr" /\ Goto(c, "geometry") /\ ctx' = WithBpb(ctx, d)
        <4>1. call'[c].pc = "geometry" /\ call'[c].dev = d /\ ctx'.bpb = d /\ ctx'.offset = ctx.offset
          BY <2>2, <3>3 DEF VolumesInv, TypeOK, WithBpb
        <4> QED BY <1>1, <2>1, <2>3, <3>3, <4>1 DEF StepInv, Mounting
      <3>4. CASE /\ call[c].pc = "geometry" /\ Goto(c, "keep")
                 /\ ctx' = [ctx EXCEPT !.starts = ctx.offset,
                                       !.dir = [vol |-> ctx.bpb, cluster |-> Root]]
        <4>1. /\ call'[c].pc = "keep" /\ call'[c].dev = d
              /\ ctx'.bpb = ctx.bpb /\ ctx'.offset = ctx.offset /\ ctx'.starts = ctx.offset
              /\ ctx'.dir = [vol |-> ctx.bpb, cluster |-> Root]
          BY <2>2, <3>4 DEF VolumesInv, TypeOK
        <4> QED BY <1>1, <2>1, <2>3, <3>4, <4>1 DEF StepInv, Mounting
      <3> QED BY <1>1, <3>1, <3>2, <3>3, <3>4
    <2> QED BY <2>5, <2>6, <2>7
  <1>7. pc \in ChangePcs
    BY <1>2, <1>5
  <1> QED BY <1>1, <1>2, <1>4, <1>5, <1>6, <1>7, MovedOn

LEMMA KeepStep ==
  ASSUME VolumesInv, NEW c \in Callers, Keep(c)
  PROVE  VolumesInv'
  <1> DEFINE d == call[c].dev
  <1>1. /\ call[c].pc = "keep" /\ (Goto(c, "change") \/ Return(c))
        /\ unidades' = [unidades EXCEPT ![d] = Kept(d)]
        /\ left' = [left EXCEPT ![d] = [vol |-> d, cluster |-> Root]]
        /\ forgotten' = forgotten \ {d} /\ broken' = FALSE
        /\ UNCHANGED <<fat32_current_dev_id, ctx, fat_lock, usb, overlapped>>
    BY DEF Keep, At
  <1>2. "keep" \in ChangePcs /\ "change" \in ChangePcs /\ "keep" \in Mounting
    BY DEF ChangePcs, Mounting
  <1>3. d \in Vol
    BY DEF VolumesInv, CallsInv, Calls
  <1>4. TypeOK'
    <2>1. Kept(d) \in [inicializado : BOOLEAN, bpb : Vol \cup {None}, starts : Vol \cup {None},
                       offset : Vol \cup {None}, dir : Dirs]
      BY DEF VolumesInv, TypeOK, Kept, Dirs, Root
    <2>2. [vol |-> d, cluster |-> Root] \in Dirs
      BY <1>3 DEF Dirs
    <2> QED BY <1>1, <1>3, <2>1, <2>2 DEF VolumesInv, TypeOK
  <1>5. /\ unidades'[d] = Kept(d) /\ \A v \in Vol : v # d => unidades'[v] = unidades[v]
        /\ left'[d] = [vol |-> d, cluster |-> Root]
        /\ \A v \in Vol : v # d => left'[v] = left[v]
    BY <1>1, <1>3 DEF VolumesInv, TypeOK
  <1>6. ASSUME ~overlapped PROVE StepInv(c)' /\ GeometryInv' /\ DirectoryInv'
    <2>1. /\ GeometryInv /\ DirectoryInv /\ StepInv(c) /\ ~Restoring /\ ~Restoring'
          /\ call'[c].pc \in {"change", "idle"}
      BY <1>1, <1>2, <1>6, Moving
    <2>2. /\ dev = d /\ dev' = d
          /\ ctx.offset = d /\ ctx.bpb = d /\ ctx.starts = d
          /\ ctx.dir = [vol |-> d, cluster |-> Root] /\ ctx' = ctx
      BY <1>1, <1>2, <2>1 DEF StepInv, dev
    <2>3. /\ Kept(d).inicializado /\ Own(Kept(d), d)
          /\ Kept(d).dir = [vol |-> d, cluster |-> Root]
      BY <2>2 DEF Kept, Own
    <2> HIDE DEF d
    <2>4. StepInv(c)'
      BY <2>1 DEF StepInv, Mounting
    <2>5. GeometryInv'
      BY <1>3, <1>5, <2>1, <2>2, <2>3 DEF GeometryInv, Own
    <2>6. DirectoryInv'
      BY <1>1, <1>3, <1>5, <2>1, <2>2, <2>3 DEF DirectoryInv
    <2> QED BY <2>4, <2>5, <2>6
  <1> QED BY <1>1, <1>2, <1>4, <1>6, MovedOn

LEMMA SaveStep ==
  ASSUME VolumesInv, NEW c \in Callers, SaveDirectory(c)
  PROVE  VolumesInv'
  <1> DEFINE d == call[c].dev
             o == dev
  <1>1. /\ call[c].pc = "save" /\ Goto(c, "restore")
        /\ unidades' = [unidades EXCEPT ![o].dir = ctx.dir]
        /\ fat32_current_dev_id' = d
        /\ UNCHANGED <<ctx, fat_lock, usb, left, forgotten, broken, overlapped>>
    BY DEF SaveDirectory, At, Leaving, history
  <1>2. "save" \in ChangePcs /\ "restore" \in ChangePcs
    BY DEF ChangePcs
  <1>3. d \in Vol /\ o \in Vol
    BY DEF VolumesInv, CallsInv, Calls, TypeOK, dev
  <1>4. TypeOK'
    <2>1. [unidades[o] EXCEPT !.dir = ctx.dir]
            \in [inicializado : BOOLEAN, bpb : Vol \cup {None}, starts : Vol \cup {None},
                 offset : Vol \cup {None}, dir : Dirs]
      BY <1>3 DEF VolumesInv, TypeOK
    <2> QED BY <1>1, <1>3, <2>1 DEF VolumesInv, TypeOK
  <1>5. /\ \A v \in Vol : v # o => unidades'[v] = unidades[v]
        /\ unidades'[o].dir = ctx.dir
        /\ \A v \in Vol : /\ unidades'[v].inicializado = unidades[v].inicializado
                          /\ Own(unidades'[v], v) <=> Own(unidades[v], v)
    BY <1>1, <1>3 DEF VolumesInv, TypeOK, Own
  <1>6. ASSUME ~overlapped PROVE StepInv(c)' /\ GeometryInv' /\ DirectoryInv'
    <2>1. /\ GeometryInv /\ DirectoryInv /\ StepInv(c) /\ ~Restoring /\ Restoring'
          /\ call'[c].pc = "restore" /\ call'[c].dev = d
      BY <1>1, <1>2, <1>6, Moving
    <2>2. dev' = d /\ unidades[d].inicializado
      BY <1>1, <2>1 DEF StepInv, dev
    <2>3. StepInv(c)'
      BY <1>3, <1>5, <2>1, <2>2 DEF StepInv, Mounting
    <2>4. GeometryInv'
      BY <1>5, <2>1 DEF GeometryInv
    <2>5. DirectoryInv'
      BY <1>1, <1>3, <1>5, <2>1 DEF DirectoryInv
    <2> QED BY <2>3, <2>4, <2>5
  <1> QED BY <1>1, <1>2, <1>4, <1>6, MovedOn

LEMMA RestoreStep ==
  ASSUME VolumesInv, NEW c \in Callers, Restore(c)
  PROVE  VolumesInv'
  <1> DEFINE d == call[c].dev
  <1>1. /\ call[c].pc = "restore" /\ Return(c)
        /\ ctx' = Restored(d) /\ fat_lock' = FALSE /\ broken' = FALSE
        /\ UNCHANGED <<fat32_current_dev_id, unidades, usb, left, forgotten, overlapped>>
    BY DEF Restore, At
  <1>2. "restore" \in ChangePcs
    BY DEF ChangePcs
  <1>3. d \in Vol
    BY DEF VolumesInv, CallsInv, Calls
  <1>4. TypeOK'
    <2>1. Restored(d) \in [bpb : Vol \cup {None}, starts : Vol \cup {None},
                           offset : Vol \cup {None}, dir : Dirs]
      BY <1>3 DEF VolumesInv, TypeOK, Restored
    <2> QED BY <1>1, <2>1 DEF VolumesInv, TypeOK
  <1>5. ASSUME ~overlapped PROVE StepInv(c)' /\ GeometryInv' /\ DirectoryInv'
    <2>1. /\ GeometryInv /\ DirectoryInv /\ StepInv(c) /\ Restoring /\ ~Restoring'
          /\ call'[c].pc = "idle"
      BY <1>1, <1>2, <1>5, Moving
    <2>2. dev = d /\ dev' = d /\ unidades[d].inicializado /\ Own(unidades[d], d)
      BY <1>1, <1>3, <2>1 DEF StepInv, GeometryInv, dev
    <2>3. StepInv(c)'
      BY <2>1 DEF StepInv, Mounting
    <2>4. GeometryInv'
      BY <1>1, <2>1, <2>2 DEF GeometryInv, Own, Restored
    <2>5. DirectoryInv'
      BY <1>1, <1>3, <2>1, <2>2 DEF DirectoryInv, Restored
    <2> QED BY <2>3, <2>4, <2>5
  <1> QED BY <1>1, <1>2, <1>4, <1>5, MovedOn


\* A call that begins to change the drive: no file call is clean any more.
LEMMA BeginChangeStep ==
  ASSUME VolumesInv, NEW c \in Callers, NEW op \in {"drive", "test"}, NEW d \in Vol,
         BeginChange(c, op, d)
  PROVE  VolumesInv'
  <1> DEFINE begun == [Idle EXCEPT !.pc = IF op = "test" THEN "usb" ELSE "check",
                                   !.op = op, !.dev = d]
  <1>1. /\ call[c].pc = "idle"
        /\ call' = [e \in Callers |-> IF e = c THEN begun
                                      ELSE [call[e] EXCEPT !.clean = FALSE]]
        /\ overlapped' = (overlapped \/ ~Quiet)
        /\ UNCHANGED <<globals, fat_lock, usb, left, forgotten, broken>>
    BY DEF BeginChange, At
  <1>2. /\ begun.pc \in {"usb", "check"} /\ begun.op = op /\ begun.dev = d /\ ~begun.clean
        /\ begun \in Calls
    BY DEF Idle, Calls, Vol, None, ChangePcs
  <1> HIDE DEF begun
  <1>3. call \in [Callers -> Calls]
    BY DEF VolumesInv, CallsInv
  <1>4. /\ call'[c] = begun
        /\ \A e \in Callers : e # c =>
             /\ call'[e].pc = call[e].pc /\ call'[e].op = call[e].op
             /\ call'[e].dev = call[e].dev
        /\ \A e \in Callers : ~call'[e].clean /\ call'[e] \in Calls
    BY <1>1, <1>2, <1>3 DEF Calls
  <1>5. /\ call' \in [Callers -> Calls]
        /\ \A e \in Callers : call'[e].pc \in ChangePcs <=> Changing(e)'
    <2>1. \A e \in Callers : call'[e].pc \in ChangePcs <=> Changing(e)'
      BY <1>2, <1>4 DEF VolumesInv, CallsInv, Changing, ChangePcs
    <2> QED BY <1>1, <1>4, <2>1
  <1>6. CallsInv'
    BY <1>4, <1>5 DEF CallsInv
  <1>7. TypeOK'
    BY <1>1 DEF VolumesInv, TypeOK, globals
  <1>8. ASSUME ~overlapped' PROVE ChangesInv'
    <2>1. /\ Quiet /\ ChangesInv /\ ~overlapped
          /\ \A e \in Callers : e # c => call'[e].pc \notin ChangePcs /\ ~Changing(e)'
      BY <1>1, <1>4, <1>5, <1>8 DEF VolumesInv, CallsInv, Quiet
    <2>2. ~Restoring /\ ~Restoring'
      BY <1>2, <1>4, <2>1 DEF VolumesInv, CallsInv, Quiet, Restoring, ChangePcs
    <2>3. \A e \in Callers : StepInv(e)'
      BY <1>2, <1>4, <2>1 DEF StepInv, ChangePcs, Mounting
    <2>4. GeometryInv' /\ DirectoryInv'
      BY <1>1, <2>1, <2>2 DEF ChangesInv, GeometryInv, DirectoryInv, Own, dev, globals
    <2> QED BY <1>4, <2>1, <2>3, <2>4 DEF ChangesInv
  <1> QED BY <1>6, <1>7, <1>8 DEF VolumesInv

\* A step of a file call disturbs no change.
LEMMA FileFrame ==
  ASSUME VolumesInv, NEW c \in Callers, ~Changing(c),
         call'[c] \in Calls, call' = [call EXCEPT ![c] = call'[c]],
         call'[c].pc \notin ChangePcs, call'[c].op \notin {"drive", "test"},
         call'[c].clean => call[c].clean \/ Quiet
  PROVE  /\ CallsInv'
         /\ Restoring' <=> Restoring
         /\ \A e \in Callers : e # c => call'[e] = call[e]
         /\ UNCHANGED globals /\ UNCHANGED <<left, forgotten, broken, overlapped>>
              /\ (~overlapped /\ call'[c].pc = "sector" /\ call'[c].clean /\ ~broken =>
                   call'[c].geo = dev)
              => VolumesInv' \/ ~TypeOK'
  <1>1. call \in [Callers -> Calls] /\ call' \in [Callers -> Calls]
    BY DEF VolumesInv, CallsInv
  <1>2. \A e \in Callers : e # c => call'[e] = call[e]
    BY <1>1
  <1>3. \A e \in Callers : Changing(e)' <=> Changing(e)
    BY <1>2 DEF Changing
  <1>4. call[c].clean => Quiet
    BY DEF VolumesInv, CallsInv
  <1>5. CallsInv'
    <2>1. Quiet' <=> Quiet
      BY <1>3 DEF Quiet
    <2>2. \A e \in Callers : call'[e].pc \in ChangePcs <=> Changing(e)'
      <3>1. call'[c].pc \notin ChangePcs /\ ~Changing(c)'
        BY <1>3
      <3> QED BY <1>2, <1>3, <3>1 DEF VolumesInv, CallsInv
    <2>3. \A e \in Callers : call'[e].clean => Quiet'
      BY <1>2, <1>4, <2>1 DEF VolumesInv, CallsInv
    <2> QED BY <1>1, <2>2, <2>3 DEF CallsInv
  <1>6. call[c].pc \notin ChangePcs
    BY DEF VolumesInv, CallsInv
  <1>7. Restoring' <=> Restoring
    <2>1. call[c].pc # "restore" /\ call'[c].pc # "restore"
      BY <1>6 DEF ChangePcs
    <2> QED BY <1>2, <2>1 DEF Restoring
  <1>8. ASSUME UNCHANGED globals, UNCHANGED <<left, forgotten, broken, overlapped>>, TypeOK',
               ~overlapped /\ call'[c].pc = "sector" /\ call'[c].clean /\ ~broken =>
                 call'[c].geo = dev
        PROVE  VolumesInv'
    <2> SUFFICES ASSUME ~overlapped PROVE ChangesInv'
      BY <1>5, <1>8 DEF VolumesInv
    <2>1. ChangesInv
      BY DEF VolumesInv
    <2>2. GeometryInv' /\ DirectoryInv'
      BY <1>7, <1>8, <2>1 DEF ChangesInv, GeometryInv, DirectoryInv, Own, dev, globals
    <2>3. \A e \in Callers : StepInv(e)'
      <3> SUFFICES ASSUME NEW e \in Callers PROVE StepInv(e)'
        OBVIOUS
      <3>1. CASE e = c
        <4>1. call'[c].pc \notin Mounting \cup {"vbr", "geometry", "keep", "wait", "save", "restore"}
          BY DEF ChangePcs, Mounting
        <4> QED BY <3>1, <4>1 DEF StepInv
      <3>2. CASE e # c
        BY <1>2, <1>8, <2>1, <3>2 DEF ChangesInv, StepInv, dev, globals
      <3> QED BY <3>1, <3>2
    <2>4. \A e \in Callers : call'[e].pc = "sector" /\ call'[e].clean /\ ~broken' =>
             call'[e].geo = dev'
      BY <1>2, <1>8, <2>1 DEF ChangesInv, dev, globals
    <2> QED BY <1>3, <2>1, <2>2, <2>3, <2>4 DEF ChangesInv
  <1> QED BY <1>2, <1>5, <1>7, <1>8

LEMMA FileSteps ==
  ASSUME VolumesInv, NEW c \in Callers,
         Locate(c) \/ Access(c) \/ \E op \in {"file", "chdir"} : BeginFile(c, op)
  PROVE  VolumesInv'
  <1>1. /\ UNCHANGED <<globals, fat_lock, usb, history>>
        /\ call[c].pc \in {"idle", "locate", "sector"}
    BY DEF Locate, Access, BeginFile, At
  <1>2. call \in [Callers -> Calls] /\ call[c] \in Calls
    BY DEF VolumesInv, CallsInv
  <1>3. call[c].pc \notin ChangePcs /\ ~Changing(c)
    BY <1>1 DEF VolumesInv, CallsInv, ChangePcs, Mounting
  <1>4. call[c].op \notin {"drive", "test"}
    BY <1>3 DEF Changing
  <1>5. UNCHANGED globals /\ UNCHANGED <<left, forgotten, broken, overlapped>>
    BY <1>1 DEF history
  <1>6. TypeOK'
    BY <1>1 DEF VolumesInv, TypeOK, globals, history
  <1> DEFINE step == /\ call'[c] \in Calls /\ call' = [call EXCEPT ![c] = call'[c]]
                     /\ call'[c].pc \notin ChangePcs /\ call'[c].op \notin {"drive", "test"}
                     /\ call'[c].clean => call[c].clean \/ Quiet
                     /\ ~overlapped /\ call'[c].pc = "sector" /\ call'[c].clean /\ ~broken =>
                          call'[c].geo = dev
  <1>7. ASSUME step PROVE VolumesInv'
    BY <1>3, <1>5, <1>6, <1>7, FileFrame
  <1>8. ASSUME Return(c) PROVE step
    BY <1>8, ReturnFrame
  <1>9. ASSUME NEW pc \in {"locate", "enter"}, Goto(c, pc) PROVE step
    <2>1. call'[c] = [call[c] EXCEPT !.pc = pc] /\ call' = [call EXCEPT ![c] = call'[c]]
      BY <1>2, <1>9 DEF Goto
    <2>2. /\ call'[c] \in Calls /\ call'[c].pc = pc /\ call'[c].op = call[c].op
          /\ call'[c].clean = call[c].clean
      BY <1>2, <2>1 DEF Calls, FilePcs
    <2>3. pc \notin ChangePcs /\ pc # "sector"
      BY DEF ChangePcs, Mounting
    <2> QED BY <1>4, <2>1, <2>2, <2>3
  <1>10. ASSUME NEW op \in {"file", "chdir"}, BeginFile(c, op) PROVE step
    <2> DEFINE begun == [Idle EXCEPT !.pc = "locate", !.op = op, !.clean = Quiet]
    <2>1. call' = [call EXCEPT ![c] = begun] /\ call'[c] = begun
      BY <1>2, <1>10 DEF BeginFile
    <2>2. begun.pc = "locate" /\ begun.op = op /\ (begun.clean <=> Quiet)
      BY DEF Idle
    <2>3. begun \in Calls
      <3> DEFINE q == Quiet
      <3>1. q \in BOOLEAN
        BY DEF Quiet
      <3> HIDE DEF q
      <3>2. [Idle EXCEPT !.pc = "locate", !.op = op] \in Calls
        <4>1. /\ Idle \in Calls /\ "locate" \in {"idle"} \cup ChangePcs \cup FilePcs
              /\ op \in {"none", "drive", "test", "file", "preemptible", "chdir"}
          BY DEF Idle, Calls, FilePcs, Vol, None
        <4> QED BY <4>1 DEF Calls
      <3>3. \A r \in Calls : [r EXCEPT !.clean = q] \in Calls
        BY <3>1 DEF Calls
      <3>4. [[Idle EXCEPT !.pc = "locate", !.op = op] EXCEPT !.clean = q] \in Calls
        BY <3>2, <3>3
      <3>5. begun = [[Idle EXCEPT !.pc = "locate", !.op = op] EXCEPT !.clean = q]
        BY DEF q, Idle
      <3> QED BY <3>4, <3>5
    <2> HIDE DEF begun
    <2>4. begun.pc \notin ChangePcs /\ begun.op \notin {"drive", "test"} /\ begun.pc # "sector"
      BY <2>2 DEF ChangePcs, Mounting
    <2> QED BY <2>1, <2>2, <2>3, <2>4
  <1>11. ASSUME Locate(c) PROVE step
    <2>1. call' = [call EXCEPT ![c].pc = "sector", ![c].geo = ctx.starts]
      BY <1>11 DEF Locate
    <2>2. /\ call'[c] = [call[c] EXCEPT !.pc = "sector", !.geo = ctx.starts]
          /\ call' = [call EXCEPT ![c] = call'[c]]
      BY <1>2, <2>1
    <2>3. /\ call'[c] \in Calls /\ call'[c].pc = "sector" /\ call'[c].op = call[c].op
          /\ call'[c].clean = call[c].clean /\ call'[c].geo = ctx.starts
      BY <1>2, <2>2 DEF Calls, FilePcs, VolumesInv, TypeOK
    <2>4. "sector" \notin ChangePcs
      BY DEF ChangePcs, Mounting
    <2>5. ASSUME ~overlapped, call[c].clean, ~broken PROVE ctx.starts = dev
      <3>1. ~Restoring
        BY <2>5 DEF VolumesInv, CallsInv, Quiet, Restoring, ChangePcs
      <3> QED BY <2>5, <3>1 DEF VolumesInv, ChangesInv, GeometryInv, Own
    <2> QED BY <1>4, <2>2, <2>3, <2>4, <2>5
  <1>12. ASSUME Allocate(c) PROVE step
    <2>1. call' = [call EXCEPT ![c].pc = "locate", ![c].op = "preemptible"]
      BY <1>12 DEF Allocate
    <2>2. /\ call'[c] = [call[c] EXCEPT !.pc = "locate", !.op = "preemptible"]
          /\ call' = [call EXCEPT ![c] = call'[c]]
      BY <1>2, <2>1
    <2>3. /\ call'[c] \in Calls /\ call'[c].pc = "locate"
          /\ call'[c].op = "preemptible" /\ call'[c].clean = call[c].clean
      BY <1>2, <2>2 DEF Calls, FilePcs
    <2>4. "locate" \notin ChangePcs
      BY DEF ChangePcs, Mounting
    <2> QED BY <1>4, <2>2, <2>3, <2>4
  <1> HIDE DEF step
  <1>13. ASSUME Access(c) PROVE step
    BY <1>8, <1>9, <1>12, <1>13 DEF Access
  <1> QED BY <1>7, <1>10, <1>11, <1>13

LEMMA EnterStep ==
  ASSUME VolumesInv, NEW c \in Callers, Enter(c)
  PROVE  VolumesInv'
  <1>1. PICK cluster \in {Root, "sub"} :
          LET dir == [vol |-> call[c].geo, cluster |-> cluster]
          IN /\ ctx' = [ctx EXCEPT !.dir = dir]
             /\ IF call[c].clean
                THEN /\ left' = [left EXCEPT ![dev] = dir]
                     /\ forgotten' = forgotten \ {dev}
                     /\ UNCHANGED overlapped
                ELSE overlapped' = TRUE /\ UNCHANGED <<left, forgotten>>
    BY DEF Enter
  <1>2. PICK dir : /\ dir = [vol |-> call[c].geo, cluster |-> cluster]
                   /\ ctx' = [ctx EXCEPT !.dir = dir]
                   /\ IF call[c].clean
                      THEN /\ left' = [left EXCEPT ![dev] = dir]
                           /\ forgotten' = forgotten \ {dev}
                           /\ UNCHANGED overlapped
                      ELSE overlapped' = TRUE /\ UNCHANGED <<left, forgotten>>
    BY <1>1
  <1>3. /\ call[c].pc = "enter" /\ Return(c)
        /\ UNCHANGED <<fat32_current_dev_id, unidades, fat_lock, usb, broken>>
    BY DEF Enter, At
  <1>4. dir \in Dirs
    BY <1>2 DEF Dirs, VolumesInv, CallsInv, Calls
  <1>5. dev \in Vol
    BY DEF VolumesInv, TypeOK, dev
  <1>6. TypeOK'
    <2>1. ctx' \in [bpb : Vol \cup {None}, starts : Vol \cup {None},
                    offset : Vol \cup {None}, dir : Dirs]
      BY <1>2, <1>4 DEF VolumesInv, TypeOK
    <2>2. left' \in [Vol -> Dirs] /\ forgotten' \subseteq Vol
      BY <1>2, <1>4, <1>5 DEF VolumesInv, TypeOK
    <2> QED BY <1>3, <2>1, <2>2 DEF VolumesInv, TypeOK
  <1>7. /\ CallsInv' /\ Restoring' = Restoring
        /\ \A e \in Callers : e # c => call'[e] = call[e]
        /\ call'[c].pc = "idle" /\ ~call'[c].clean
    <2>1. call[c].pc \notin ChangePcs /\ ~Changing(c)
      BY <1>3 DEF VolumesInv, CallsInv, ChangePcs, Mounting
    <2>2. /\ call'[c] \in Calls /\ call' = [call EXCEPT ![c] = call'[c]]
          /\ call'[c].pc \notin ChangePcs /\ call'[c].op \notin {"drive", "test"}
          /\ ~call'[c].clean /\ call'[c].pc = "idle"
      BY <1>3, ReturnFrame DEF ChangePcs, Mounting
    <2>3. /\ CallsInv' /\ (Restoring' <=> Restoring)
          /\ \A e \in Callers : e # c => call'[e] = call[e]
      BY <2>1, <2>2, FileFrame
    <2>4. Restoring \in BOOLEAN /\ Restoring' \in BOOLEAN
      BY DEF Restoring
    <2> QED BY <2>2, <2>3, <2>4
  <1>8. ASSUME ~overlapped' PROVE ChangesInv'
    <2>1. /\ call[c].clean /\ ~overlapped /\ ChangesInv
          /\ left' = [left EXCEPT ![dev] = dir] /\ forgotten' = forgotten \ {dev}
      BY <1>2, <1>8 DEF VolumesInv
    <2>2. Quiet /\ Quiet'
      <3>1. Quiet
        BY <2>1 DEF VolumesInv, CallsInv
      <3>2. ~Changing(c)'
        BY <1>7 DEF CallsInv, ChangePcs, Mounting
      <3> QED BY <1>7, <3>1, <3>2 DEF Quiet, Changing
    <2>3. ~Restoring /\ ~Restoring'
      BY <1>7, <2>2 DEF VolumesInv, CallsInv, Quiet, Restoring, ChangePcs
    <2>4. /\ ctx'.dir = dir /\ ctx'.bpb = ctx.bpb /\ ctx'.starts = ctx.starts
          /\ ctx'.offset = ctx.offset /\ left'[dev] = dir
          /\ \A v \in Vol : v # dev => left'[v] = left[v]
      BY <1>2, <1>5, <2>1 DEF VolumesInv, TypeOK
    <2>5. dev' = dev /\ unidades' = unidades /\ broken' = broken
      BY <1>3 DEF dev
    <2>6. GeometryInv'
      BY <2>1, <2>3, <2>4, <2>5 DEF ChangesInv, GeometryInv, Own
    <2>7. DirectoryInv'
      BY <1>5, <2>1, <2>3, <2>4, <2>5 DEF ChangesInv, DirectoryInv
    <2>8. \A e \in Callers : StepInv(e)'
      <3>1. \A e \in Callers : call'[e].pc \notin ChangePcs
        BY <1>6, <1>7, <2>2 DEF CallsInv, Quiet
      <3> QED BY <3>1 DEF StepInv, ChangePcs, Mounting
    <2>9. \A e \in Callers : call'[e].pc = "sector" /\ call'[e].clean /\ ~broken' =>
             call'[e].geo = dev'
      BY <1>7, <2>1, <2>5 DEF ChangesInv
    <2> QED BY <2>2, <2>6, <2>7, <2>8, <2>9 DEF ChangesInv, Quiet
  <1> QED BY <1>6, <1>7, <1>8 DEF VolumesInv

LEMMA VolumesStep ==
  ASSUME VolumesInv, [Next]_vars
  PROVE  VolumesInv'
  <1>1. ASSUME NEW c \in Callers, ChangeStep(c) PROVE VolumesInv'
    BY <1>1, WaitingSteps, SelectStep, ReadingSteps, KeepStep, SaveStep, RestoreStep
       DEF ChangeStep, Mount
  <1>2. ASSUME NEW c \in Callers, FileStep(c) PROVE VolumesInv'
    BY <1>2, FileSteps, EnterStep DEF FileStep
  <1>3. ASSUME NEW c \in Callers, NEW op \in {"file", "chdir"}, BeginFile(c, op)
        PROVE  VolumesInv'
    BY <1>3, FileSteps
  <1>4. ASSUME NEW c \in Callers, NEW op \in {"drive", "test"}, NEW d \in Vol,
               BeginChange(c, op, d)
        PROVE  VolumesInv'
    BY <1>4, BeginChangeStep
  <1>5. CASE UNCHANGED vars
    BY <1>5 DEF vars, VolumesInv, TypeOK, CallsInv, Quiet, Changing, ChangesInv, StepInv,
                GeometryInv, DirectoryInv, Restoring, Own, dev
  <1>6. 1 \in Vol
    BY DEF Vol
  <1> QED BY <1>1, <1>2, <1>3, <1>4, <1>5, <1>6 DEF Next

\* The state of the volumes is in order through every sequence of mounts,
\* failures, changes of drive and file calls, for any number of callers, as
\* long as no two changes overlap.
THEOREM VolumesInvariant == Spec => []VolumesInv
  <1>1. Init => VolumesInv
    <2> SUFFICES ASSUME Init PROVE VolumesInv
      OBVIOUS
    <2>1. /\ fat32_current_dev_id = 0 /\ broken \in BOOLEAN /\ fat_lock = FALSE /\ usb = FALSE
          /\ call = [c \in Callers |-> Idle] /\ forgotten = {} /\ overlapped = FALSE
          /\ left = [v \in Vol |-> [vol |-> v, cluster |-> Root]]
      BY DEF Init
    <2>2. PICK offset \in {0, None}, bpb \in {0, None} :
            IF broken
            THEN /\ ctx = [bpb |-> bpb, starts |-> None, offset |-> offset,
                           dir |-> [vol |-> None, cluster |-> Root]]
                 /\ unidades = [v \in Vol |-> Empty]
            ELSE /\ unidades = [v \in Vol |-> IF v = 0 THEN Mounted(v) ELSE Empty]
                 /\ ctx = [bpb |-> 0, starts |-> 0, offset |-> 0,
                           dir |-> [vol |-> 0, cluster |-> Root]]
      BY DEF Init
    <2>3. Idle \in Calls /\ Idle.pc = "idle" /\ ~Idle.clean /\ Idle.op = "none"
      BY DEF Idle, Calls, Vol, None
    <2>4. 0 \in Vol /\ None \notin Vol
      BY DEF Vol, None
    <2>5. TypeOK
      <3>1. /\ ctx \in [bpb : Vol \cup {None}, starts : Vol \cup {None},
                       offset : Vol \cup {None}, dir : Dirs]
        BY <2>2, <2>4 DEF Dirs
      <3>2. /\ Empty \in [inicializado : BOOLEAN, bpb : Vol \cup {None}, starts : Vol \cup {None},
                           offset : Vol \cup {None}, dir : Dirs]
            /\ Mounted(0) \in [inicializado : BOOLEAN, bpb : Vol \cup {None},
                               starts : Vol \cup {None}, offset : Vol \cup {None}, dir : Dirs]
        BY <2>4 DEF Empty, Mounted, Dirs
      <3>3. unidades \in [Vol -> [inicializado : BOOLEAN, bpb : Vol \cup {None},
                                  starts : Vol \cup {None}, offset : Vol \cup {None}, dir : Dirs]]
        BY <2>2, <3>2
      <3>4. left \in [Vol -> Dirs]
        BY <2>1 DEF Dirs
      <3> QED BY <2>1, <2>4, <3>1, <3>3, <3>4 DEF TypeOK
    <2>6. \A c \in Callers : call[c] = Idle /\ ~Changing(c) /\ call[c].pc \notin ChangePcs
      BY <2>1, <2>3 DEF Changing, ChangePcs, Mounting
    <2>7. CallsInv
      BY <2>1, <2>3, <2>6 DEF CallsInv
    <2>8. ~Restoring /\ \A c \in Callers : StepInv(c)
      BY <2>3, <2>6 DEF Restoring, StepInv, Mounting
    <2>9. GeometryInv /\ DirectoryInv
      BY <2>1, <2>2, <2>4, <2>8 DEF GeometryInv, DirectoryInv, Own, Empty, Mounted, dev
    <2> QED BY <2>3, <2>5, <2>6, <2>7, <2>8, <2>9 DEF VolumesInv, ChangesInv
  <1>2. VolumesInv /\ [Next]_vars => VolumesInv'
    BY VolumesStep
  <1> QED BY <1>1, <1>2, PTL DEF Spec

\* While no change is under way none is between its two exchanges.
LEMMA QuietIsRestored ==
  ASSUME VolumesInv, Quiet
  PROVE  ~Restoring
  BY DEF VolumesInv, CallsInv, Quiet, Restoring, ChangePcs

\* GeometryOwn: outside of changes the geometry in use is that of the selected
\* drive, and every copy is its own drive's.
THEOREM GeometryIsOwn == Spec => []GeometryOwn
  <1>1. VolumesInv => GeometryOwn
    BY QuietIsRestored DEF GeometryOwn, VolumesInv, ChangesInv, GeometryInv
  <1> QED BY <1>1, VolumesInvariant, PTL

\* DirectoryKept: a drive that is selected again has its directory again.
THEOREM DirectoryIsKept == Spec => []DirectoryKept
  <1>1. VolumesInv => DirectoryKept
    BY QuietIsRestored DEF DirectoryKept, VolumesInv, ChangesInv, GeometryInv, DirectoryInv
  <1> QED BY <1>1, VolumesInvariant, PTL

\* SectorsOwn: a file call that no change gets in the way of reads the selected
\* volume.
THEOREM SectorsAreOwn == Spec => SectorsOwn
  <1>1. VolumesInv => \A c \in Callers :
          At(c, "sector") /\ ~(call'[c].pc = "sector") /\ call[c].clean
            /\ ~broken /\ ~overlapped
          => call[c].geo = dev
    BY DEF VolumesInv, ChangesInv, At
  <1> QED BY <1>1, VolumesInvariant, PTL DEF SectorsOwn


-----------------------------------------------------------------------------
\* The flash drive.

Pcs == {"idle", "core", "async", "detect", "first", "second", "address", "config",
        "cbw", "data", "csw", "refused"}
Transferring == {"cbw", "data", "csw", "refused"}
Enumerating == {"core", "async", "detect", "first", "second", "address"}
Commands == Sectors \cup {Capacity, Nothing}

Requests == [pc : Pcs, op : {"none", "drive", "test", "read"}, addr : 0 .. 2,
             cmd : Commands, pair : 1 .. 3, try : 1 .. Tries, got : Commands \cup {Csw},
             then : [addr : 0 .. 2, cmd : Commands],
             lost : BOOLEAN, ret : {0, 1}]

Devices == [plugged : BOOLEAN, pair : {1, 2} \X {1, 2}, addr : {0, 1},
            configured : BOOLEAN, out : {0, 1}, in : {0, 1},
            phase : {"command", "data", "status"}, cmd : Commands, halted : BOOLEAN]

Bits == [{"out", "in"} -> {0, 1}]

\* Where the call has to be for what it has yet to do.
UsbTypesInv ==
  /\ ehci_hardware_inicializado \in BOOLEAN /\ async_head \in BOOLEAN
  /\ pair \in {1, 2} \X {1, 2} /\ toggle \in [out : {0, 1}, in : {0, 1}]
  /\ held \in 0 .. Frames
  /\ request \in Requests /\ device \in Devices
  /\ disturbed \in {"no", "yes", "orphan"}
  /\ request.pc \in Enumerating => request.op \in {"drive", "test"}
  /\ request.pc = "config" => request.cmd = Capacity
  /\ request.pc \in Transferring \cup {"config"} <=> request.cmd # Nothing
  /\ request.pc \notin Transferring => request.pair = 1
  /\ request.op = "read" /\ request.cmd = Capacity => request.then.cmd \in Sectors

Phase == IF request.pc = "data" THEN "data"
         ELSE IF request.pc = "csw" THEN "status" ELSE "command"

\* The two ends are at the same place.
Level == /\ toggle.out = device.out /\ toggle.in = device.in
         /\ device.phase = Phase /\ ~device.halted

StepsInv ==
  disturbed = "no" /\ device.configured =>
    /\ Level
    /\ request.cmd = Capacity /\ request.pc = "cbw" => toggle.out = 0 /\ toggle.in = 0
    /\ request.cmd = Capacity => request.pc # "refused"

\* Data that the device holds is the answer to the command under way, or to one
\* that the next will collide with.
AnswersInv ==
  disturbed # "orphan" =>
    /\ request.pc # "csw" /\ device.phase = "data" => toggle.out = device.out
    /\ request.pc = "data" /\ device.phase = "data" => device.cmd = request.cmd
    /\ request.pc = "csw" => /\ device.phase # "data"
                             /\ request.got = request.cmd \/ device.phase = "command"

\* The device is one that READ CAPACITY has to find.
Findable == /\ async_head /\ device.plugged /\ device.addr = 1
            /\ device.pair \in {ep_pairs[1], ep_pairs[2]}

\* While no transfer was lost the search is at the pair of the device, from
\* its beginning, or has not come to it.
SearchInv ==
  /\ Findable /\ request.cmd = Capacity /\ request.pc \in Transferring /\ ~request.lost =>
       /\ device.configured /\ request.addr = 1
       /\ pair = ep_pairs[request.pair] /\ Level
       /\ request.pc = "cbw" => toggle.out = 0 /\ toggle.in = 0
       /\ request.pc = "data" => device.cmd = Capacity
       /\ \/ pair = device.pair
          \/ request.pair = 1 /\ request.pc = "cbw" /\ device.pair = ep_pairs[2]
  /\ request.pc = "config" => request.addr = 1

UsbInv == UsbTypesInv /\ StepsInv /\ AnswersInv /\ SearchInv

LEMMA UsbIdleTyped ==
  /\ UsbIdle \in Requests
  /\ UsbIdle.pc = "idle" /\ UsbIdle.cmd = Nothing /\ UsbIdle.op = "none"
  /\ UsbIdle.pair = 1
  BY UsbAssumption DEF UsbIdle, Requests, Commands, Pcs, Transferring

\* An answer, right or wrong, ends the call.
LEMMA AnswerFrame ==
  ASSUME NEW r \in {0, 1}, NEW lost, lost \in BOOLEAN, Answers(r, lost)
  PROVE  /\ request' \in Requests /\ request'.pc = "idle" /\ request'.cmd = Nothing
         /\ request'.op = "none" /\ request'.ret = r /\ request'.lost = lost
         /\ request'.pair = 1
  <1>1. request' = [UsbIdle EXCEPT !.ret = r, !.lost = lost]
    BY DEF Answers
  <1> QED BY <1>1, UsbIdleTyped DEF Requests

\* Steps that move no packet: what the two ends agree on stays.
LEMMA QuietStep ==
  ASSUME UsbInv, UsbTypesInv', request.pc \notin Transferring,
         request'.pc \notin {"data", "csw", "refused"},
         request'.pc = "cbw" => request'.cmd # Capacity,
         request'.pc = "config" => request'.addr = 1,
         toggle' = toggle, disturbed' = disturbed,
         device'.out = device.out, device'.in = device.in, device'.phase = device.phase,
         device'.halted = device.halted, device'.cmd = device.cmd,
         device'.configured => device.configured
  PROVE  UsbInv'
  <1>1. StepsInv'
    BY DEF UsbInv, StepsInv, Level, Phase, Transferring
  <1>2. AnswersInv'
    BY DEF UsbInv, AnswersInv, Transferring
  <1>3. SearchInv'
    BY DEF UsbInv, SearchInv, Transferring
  <1> QED BY <1>1, <1>2, <1>3 DEF UsbInv

LEMMA CallerSteps ==
  ASSUME UsbInv,
         \/ \E op \in DOMAIN Order : Enumerate(op)
         \/ StorageInit
         \/ \E dev_id \in {1, 2}, lba \in Sectors : ReadSector(dev_id, lba)
  PROVE  UsbInv'
  <1>1. request.pc = "idle" /\ UNCHANGED <<driver, held, device, disturbed>>
    BY DEF Enumerate, StorageInit, ReadSector
  <1> DEFINE good(r) ==
        /\ r \in Requests /\ r.pc \in {"core", "config", "cbw"} /\ r.pair = 1
        /\ r.pc = "core" => r.op \in {"drive", "test"} /\ r.cmd = Nothing
        /\ r.pc = "config" => /\ r.cmd = Capacity /\ r.addr = 1
                              /\ r.op = "read" => r.then.cmd \in Sectors
        /\ r.pc = "cbw" => r.cmd \in Sectors
  <1>2. good(request')
    <2>0. /\ {"core", "config", "cbw"} \subseteq Pcs /\ Capacity \in Commands
          /\ 1 \in 0 .. 2
      BY DEF Pcs, Commands
    <2>1. ASSUME NEW op \in DOMAIN Order, Enumerate(op) PROVE good(request')
      <3>1. op \in {"drive", "test"} /\ request' = [UsbIdle EXCEPT !.pc = "core", !.op = op]
        BY <2>1 DEF Order, Enumerate
      <3> QED BY <3>1, UsbIdleTyped DEF Requests, Pcs
    <2>2. ASSUME StorageInit PROVE good(request')
      <3>1. request' = [UsbIdle EXCEPT !.pc = "config", !.op = "drive", !.addr = 1, !.cmd = Capacity]
        BY <2>2 DEF StorageInit
      <3>2. /\ request' \in Requests /\ request'.pc = "config" /\ request'.cmd = Capacity
            /\ request'.addr = 1 /\ request'.op = "drive" /\ request'.pair = 1
        BY <2>0, <3>1, UsbIdleTyped DEF Requests
      <3> QED BY <3>2
    <2>3. ASSUME NEW dev_id \in {1, 2}, NEW lba \in Sectors, ReadSector(dev_id, lba)
          PROVE  good(request')
      <3>1. CASE ehci_hardware_inicializado
        <4>1. request' = [UsbIdle EXCEPT !.pc = "cbw", !.op = "read", !.addr = dev_id, !.cmd = lba]
          BY <2>3, <3>1 DEF ReadSector
        <4>2. lba \in Commands /\ dev_id \in 0 .. 2
          BY DEF Commands
        <4>3. request' \in Requests /\ request'.pc = "cbw" /\ request'.cmd = lba
              /\ request'.pair = 1
          BY <2>0, <4>1, <4>2, UsbIdleTyped DEF Requests
        <4> QED BY <4>3
      <3>2. CASE ~ehci_hardware_inicializado
        <4> DEFINE waiting == [addr |-> dev_id, cmd |-> lba]
        <4>1. request' = [UsbIdle EXCEPT !.pc = "config", !.op = "read", !.addr = 1,
                                         !.cmd = Capacity, !.then = waiting]
          BY <2>3, <3>2 DEF ReadSector
        <4>2. waiting \in [addr : 0 .. 2, cmd : Commands] /\ waiting.cmd \in Sectors
          BY DEF Commands
        <4> HIDE DEF waiting
        <4>3. request' \in Requests
          BY <2>0, <4>1, <4>2, UsbIdleTyped DEF Requests
        <4>4. /\ request'.pair = 1 /\ request'.pc = "config" /\ request'.cmd = Capacity /\ request'.addr = 1
              /\ request'.then = waiting
          BY <4>1, UsbIdleTyped DEF Requests
        <4> QED BY <4>2, <4>3, <4>4
      <3> QED BY <3>1, <3>2
    <2> QED BY <2>1, <2>2, <2>3
  <1>3. UsbTypesInv'
    <2>1. Capacity # Nothing /\ Nothing \notin Sectors /\ Capacity \notin Sectors
      BY UsbAssumption DEF Capacity, Nothing
    <2> QED BY <1>1, <1>2, <2>1 DEF UsbInv, UsbTypesInv, driver, Transferring, Enumerating
  <1>4. /\ request.pc \notin Transferring /\ request'.pc \notin {"data", "csw", "refused"}
        /\ request'.pc = "cbw" => request'.cmd # Capacity
        /\ request'.pc = "config" => request'.addr = 1
    BY <1>1, <1>2, UsbAssumption DEF Transferring
  <1>5. toggle' = toggle /\ disturbed' = disturbed /\ device' = device
    BY <1>1 DEF driver
  <1> QED BY <1>3, <1>4, <1>5, QuietStep

\* The steps of an enumeration that only look, allocate or reset.
LEMMA EnumerationSteps ==
  ASSUME UsbInv, Core \/ InitAsyncList \/ Detect
  PROVE  UsbInv'
  <1>1. /\ request.pc \in {"core", "async", "detect"} /\ request.op \in {"drive", "test"}
        /\ request \in Requests /\ request.cmd = Nothing /\ device \in Devices
        /\ request.pair = 1
    BY DEF UsbInv, UsbTypesInv, Core, InitAsyncList, Detect, Transferring, Enumerating
  <1>2. /\ UNCHANGED <<ehci_hardware_inicializado, pair, toggle, disturbed>>
        /\ held' \in 0 .. Frames /\ async_head' \in BOOLEAN
    <2>1. held \in 0 .. Frames /\ async_head \in BOOLEAN /\ Frames \in Nat
      BY UsbAssumption DEF UsbInv, UsbTypesInv
    <2>2. CASE Core \/ Detect
      BY <2>1, <2>2 DEF Core, Detect, driver
    <2>3. CASE InitAsyncList
      <3>1. held' \in {held, held + 1} /\ (held = Frames => held' = held)
            /\ async_head' \in {async_head, TRUE}
        BY <2>3 DEF InitAsyncList
      <3>2. held' \in 0 .. Frames
        BY <2>1, <3>1
      <3> QED BY <2>1, <2>3, <3>1, <3>2 DEF InitAsyncList
    <2> QED BY <2>2, <2>3
  <1>3. /\ device' \in Devices /\ device'.out = device.out /\ device'.in = device.in
        /\ device'.phase = device.phase /\ device'.halted = device.halted
        /\ device'.cmd = device.cmd /\ (device'.configured => device.configured)
    <2>1. CASE Core \/ InitAsyncList
      BY <1>1, <2>1 DEF Core, InitAsyncList
    <2>2. CASE Detect
      BY <1>1, <2>2 DEF Detect, Devices
    <2> QED BY <2>1, <2>2
  <1>4. \/ Answers(0, FALSE)
        \/ \E pc \in {"async", "detect", "first"} : request' = [request EXCEPT !.pc = pc]
    <2>1. /\ Order["drive"].core \in {"async", "detect", "first"}
          /\ Order["drive"].async \in {"async", "detect", "first"}
          /\ Order["drive"].detect \in {"async", "detect", "first"}
      BY DEF Order
    <2>2. /\ Order["test"].core \in {"async", "detect", "first"}
          /\ Order["test"].async \in {"async", "detect", "first"}
          /\ Order["test"].detect \in {"async", "detect", "first"}
      BY DEF Order
    <2>3. /\ Order[request.op].core \in {"async", "detect", "first"}
          /\ Order[request.op].async \in {"async", "detect", "first"}
          /\ Order[request.op].detect \in {"async", "detect", "first"}
      BY <1>1, <2>1, <2>2
    <2> QED BY <2>3 DEF Core, InitAsyncList, Detect
  <1>5. request' \in Requests /\ request'.cmd = Nothing /\ request'.pair = 1
        /\ request'.pc \in {"idle", "async", "detect", "first"}
        /\ (request'.pc \in {"async", "detect", "first"} => request'.op \in {"drive", "test"})
    <2>1. CASE Answers(0, FALSE)
      <3> DEFINE lost == FALSE
      <3>1. lost \in BOOLEAN /\ Answers(0, lost)
        BY <2>1
      <3> HIDE DEF lost
      <3> QED BY <3>1, AnswerFrame
    <2>2. ASSUME NEW pc \in {"async", "detect", "first"}, request' = [request EXCEPT !.pc = pc]
          PROVE  /\ request' \in Requests /\ request'.cmd = Nothing /\ request'.pair = 1
                 /\ request'.pc \in {"idle", "async", "detect", "first"}
                 /\ request'.pc \in {"async", "detect", "first"} => request'.op \in {"drive", "test"}
      BY <1>1, <2>2 DEF Requests, Pcs
    <2> QED BY <1>4, <2>1, <2>2
  <1>6. UsbTypesInv'
    <2>1. Capacity # Nothing
      BY DEF Capacity, Nothing
    <2> QED BY <1>2, <1>3, <1>5, <2>1 DEF UsbInv, UsbTypesInv, Transferring, Enumerating
  <1>7. /\ request.pc \notin Transferring /\ request'.pc \notin {"data", "csw", "refused"}
        /\ request'.pc # "cbw" /\ request'.pc # "config"
    BY <1>1, <1>5 DEF Transferring
  <1>8. toggle' = toggle /\ disturbed' = disturbed
    BY <1>2
  <1>9. /\ request'.pc = "cbw" => request'.cmd # Capacity
        /\ request'.pc = "config" => request'.addr = 1
    BY <1>7
  <1> QED BY <1>3, <1>6, <1>7, <1>8, <1>9, QuietStep

\* The search for a device begins with SET_CONFIGURATION.
LEMMA ToStorageInitTyped ==
  ASSUME request \in Requests, ToStorageInit
  PROVE  /\ request' \in Requests /\ request'.pc = "config" /\ request'.addr = 1
         /\ request'.cmd = Capacity /\ request'.op = request.op
         /\ request'.then = request.then /\ request'.pair = request.pair
  <1>1. "config" \in Pcs /\ 1 \in 0 .. 2 /\ Capacity \in Commands
    BY DEF Pcs, Commands
  <1> QED BY <1>1 DEF ToStorageInit, Requests

\* A control transfer takes a frame, or there is none; only one that the device
\* hears changes it.
LEMMA ControlOutcome ==
  ASSUME NEW addr, NEW STATE d, NEW ACTION ok, Control(addr, d, ok)
  PROVE  /\ held' \in {held, held + 1} /\ (held = Frames => held' = held)
         /\ (device' = device \/ device' = d)
         /\ \/ device.plugged /\ device.addr = addr /\ ok /\ device' = d
            \/ ~async_head /\ ControlFails(FALSE) /\ device' = device
            \/ ControlFails(TRUE) /\ device' = device
            \/ ControlFails(device.plugged /\ device.addr = addr)
  <1> DEFINE hears == device.plugged /\ device.addr = addr
  <1>1. \/ ~async_head /\ ControlFails(FALSE) /\ held' = held /\ device' = device
        \/ held = Frames /\ ControlFails(TRUE) /\ held' = held /\ device' = device
        \/ held < Frames /\ hears /\ ok /\ device' = d /\ held' = held
        \/ /\ held < Frames /\ ControlFails(hears) /\ held' = held + 1
           /\ device' = device \/ device' = d
    BY DEF Control
  <1>2. held < Frames => held # Frames
    BY UsbAssumption
  <1> HIDE DEF hears
  <1>3. held' \in {held, held + 1} /\ (held = Frames => held' = held)
    BY <1>1, <1>2
  <1> QED BY <1>1, <1>3 DEF hears

LEMMA IdentifyStep ==
  ASSUME UsbInv, Identify
  PROVE  UsbInv'
  <1>1. /\ request.pc \in {"first", "second", "address"} /\ request.op \in {"drive", "test"}
        /\ request \in Requests /\ request.cmd = Nothing /\ device \in Devices
        /\ held \in 0 .. Frames /\ Frames \in Nat /\ request.pair = 1
    BY UsbAssumption DEF UsbInv, UsbTypesInv, Identify, Transferring, Enumerating
  <1>2. UNCHANGED <<driver, disturbed>>
    BY DEF Identify
  <1>3. held' \in {held, held + 1} /\ (held = Frames => held' = held)
    BY ControlOutcome DEF Identify
  <1>4. device' = device \/ device' = [device EXCEPT !.addr = 1]
    BY DEF Identify, Control
  <1>5. \/ ToStorageInit
        \/ request' = [request EXCEPT !.pc = "second"]
        \/ request' = [request EXCEPT !.pc = "address"]
    BY <1>1 DEF Identify, Control, ControlFails
  <1>6. held' \in 0 .. Frames
    BY <1>1, <1>3
  <1>7. /\ device' \in Devices /\ device'.out = device.out /\ device'.in = device.in
        /\ device'.phase = device.phase /\ device'.halted = device.halted
        /\ device'.cmd = device.cmd /\ device'.configured = device.configured
    BY <1>1, <1>4 DEF Devices
  <1>8. /\ request' \in Requests /\ request'.op \in {"drive", "test"} /\ request'.pair = 1
        /\ \/ request'.pc = "config" /\ request'.cmd = Capacity /\ request'.addr = 1
           \/ request'.pc \in {"second", "address"} /\ request'.cmd = Nothing
    <2>1. CASE ToStorageInit
      BY <1>1, <2>1, ToStorageInitTyped
    <2>2. ASSUME NEW pc \in {"second", "address"}, request' = [request EXCEPT !.pc = pc]
          PROVE  request' \in Requests /\ request'.op \in {"drive", "test"} /\ request'.pc = pc
                 /\ request'.cmd = Nothing /\ request'.pair = 1
      <3>1. pc \in Pcs
        BY DEF Pcs
      <3> QED BY <1>1, <2>2, <3>1 DEF Requests
    <2> QED BY <1>5, <2>1, <2>2
  <1>9. UsbTypesInv'
    <2>1. Capacity # Nothing
      BY DEF Capacity, Nothing
    <2> QED BY <1>2, <1>6, <1>7, <1>8, <2>1
        DEF UsbInv, UsbTypesInv, Transferring, Enumerating, driver
  <1>10. /\ request.pc \notin Transferring /\ request'.pc \notin {"data", "csw", "refused", "cbw"}
         /\ request'.pc = "config" => request'.addr = 1
    BY <1>1, <1>8 DEF Transferring
  <1>11. toggle' = toggle /\ disturbed' = disturbed
    BY <1>2 DEF driver
  <1> QED BY <1>7, <1>9, <1>10, <1>11, QuietStep

LEMMA SetConfigurationStep ==
  ASSUME UsbInv, SetConfiguration
  PROVE  /\ UsbInv'
         /\ Findable /\ request'.pc = "idle" => request'.lost
  <1> DEFINE hears == device.plugged /\ device.addr = 1
  <1>1. /\ request.pc = "config" /\ request.cmd = Capacity /\ request.addr = 1
        /\ request \in Requests /\ device \in Devices /\ held \in 0 .. Frames /\ Frames \in Nat
        /\ request.op = "read" => request.then.cmd \in Sectors
        /\ request.pair = 1
    <2>1. request.pc = "config"
      BY DEF SetConfiguration
    <2> QED BY <2>1, UsbAssumption DEF UsbInv, UsbTypesInv, SearchInv, Transferring
  <1>2. /\ UNCHANGED <<ehci_hardware_inicializado, async_head>>
        /\ held' \in {held, held + 1} /\ (held = Frames => held' = held)
    BY ControlOutcome DEF SetConfiguration
  <1>3. held' \in 0 .. Frames
    BY <1>1, <1>2
  <1>4. /\ Fresh \in Devices /\ Fresh.configured /\ Fresh.out = 0 /\ Fresh.in = 0
        /\ Fresh.phase = "command" /\ ~Fresh.halted /\ Fresh.plugged = device.plugged
        /\ Fresh.addr = device.addr /\ Fresh.pair = device.pair
    BY <1>1 DEF Fresh, Devices
  <1>5. /\ "cbw" \in Pcs /\ Capacity # Nothing
        /\ ep_pairs[1] \in {1, 2} \X {1, 2}
        /\ Toggles0(toggle) \in [out : {0, 1}, in : {0, 1}]
        /\ Toggles0(toggle).out = 0 /\ Toggles0(toggle).in = 0
    BY DEF Pcs, Capacity, Nothing, ep_pairs, Toggles0
  <1>6. ASSUME NEW lost, lost \in BOOLEAN, Answers(0, lost), Findable => lost,
               device' = device \/ device' = Fresh
        PROVE  UsbInv' /\ (Findable /\ request'.pc = "idle" => request'.lost)
    <2>1. /\ request' \in Requests /\ request'.pc = "idle" /\ request'.cmd = Nothing
          /\ request'.op = "none" /\ request'.lost = lost /\ request'.pair = 1
      BY <1>6, AnswerFrame
    <2>2. UNCHANGED <<pair, toggle>>
          /\ disturbed' = IF device' # device /\ disturbed = "no" THEN "yes" ELSE disturbed
      BY <2>1 DEF SetConfiguration
    <2>3. device' \in Devices
      BY <1>1, <1>4, <1>6
    <2>4. UsbTypesInv'
      BY <1>2, <1>3, <1>5, <2>1, <2>2, <2>3 DEF UsbInv, UsbTypesInv, Transferring, Enumerating
    <2>5. StepsInv'
      BY <1>1, <2>1, <2>2 DEF UsbInv, StepsInv, Level, Phase
    <2>6. AnswersInv'
      BY <1>1, <1>4, <1>6, <2>1, <2>2 DEF UsbInv, AnswersInv
    <2>7. SearchInv'
      BY <2>1 DEF SearchInv, Transferring
    <2> QED BY <1>6, <2>1, <2>4, <2>5, <2>6, <2>7 DEF UsbInv
  <1>7. ASSUME hears, device' = Fresh, request' = [request EXCEPT !.pc = "cbw"]
        PROVE  UsbInv' /\ (Findable /\ request'.pc = "idle" => request'.lost)
    <2>1. /\ request' \in Requests /\ request'.pc = "cbw" /\ request'.cmd = Capacity
          /\ request'.addr = 1 /\ request'.op = request.op /\ request'.then = request.then
          /\ request'.pair = request.pair
      BY <1>1, <1>5, <1>7 DEF Requests
    <2>2. pair' = ep_pairs[1] /\ toggle' = Toggles0(toggle) /\ disturbed' = "no"
      BY <2>1 DEF SetConfiguration
    <2>3. UsbTypesInv'
      BY <1>1, <1>2, <1>3, <1>4, <1>5, <1>7, <2>1, <2>2 DEF UsbInv, UsbTypesInv, Transferring, Enumerating
    <2>4. Level' /\ toggle'.out = 0 /\ toggle'.in = 0
      BY <1>4, <1>5, <1>7, <2>1, <2>2 DEF Level, Phase
    <2>5. StepsInv' /\ AnswersInv'
      BY <1>4, <1>7, <2>1, <2>4 DEF StepsInv, AnswersInv
    <2>6. SearchInv'
      BY <1>1, <1>4, <1>7, <2>1, <2>2, <2>4 DEF SearchInv, Findable
    <2> QED BY <2>1, <2>3, <2>5, <2>6 DEF UsbInv
  <1>8. \/ hears /\ device' = Fresh /\ request' = [request EXCEPT !.pc = "cbw"]
        \/ ~async_head /\ Answers(0, FALSE) /\ device' = device
        \/ Answers(0, TRUE) /\ device' = device
        \/ Answers(0, hears) /\ (device' = device \/ device' = Fresh)
    BY <1>1 DEF SetConfiguration, Control, ControlFails
  <1>9. CASE ~async_head /\ Answers(0, FALSE) /\ device' = device
    <2> DEFINE lost == FALSE
    <2>1. lost \in BOOLEAN /\ Answers(0, lost) /\ ~Findable
      BY <1>9 DEF Findable
    <2> HIDE DEF lost
    <2> QED BY <1>6, <1>9, <2>1
  <1>10. CASE Answers(0, TRUE) /\ device' = device
    <2> DEFINE lost == TRUE
    <2>1. lost \in BOOLEAN /\ Answers(0, lost) /\ lost
      BY <1>10
    <2> HIDE DEF lost
    <2> QED BY <1>6, <1>10, <2>1
  <1>11. CASE Answers(0, hears) /\ (device' = device \/ device' = Fresh)
    <2>1. hears \in BOOLEAN /\ (Findable => hears)
      BY <1>1 DEF Findable, Devices
    <2> HIDE DEF hears
    <2> QED BY <1>6, <1>11, <2>1
  <1> QED BY <1>7, <1>8, <1>9, <1>10, <1>11


\* A transfer that fails ends a read; READ CAPACITY is tried again, with the
\* same pair of endpoints or from the beginning with the next.
LEMMA FailedOutcome ==
  ASSUME UsbInv, request.pc \in Transferring, NEW i, NEW STATE lost, lost \in BOOLEAN,
         Failed(i, lost)
  PROVE  /\ request' \in Requests /\ UNCHANGED ehci_hardware_inicializado
         /\ \/ /\ request'.pc = "idle" /\ request'.cmd = Nothing /\ request'.op = "none"
               /\ request'.pair = 1 /\ request'.ret = 0 /\ UNCHANGED <<pair, toggle>>
               /\ request.cmd = Capacity => /\ request.pair = 3
                                            /\ request'.lost = (request.lost \/ lost)
            \/ /\ request.cmd = Capacity
               /\ request'.pc = "cbw" /\ request'.cmd = Capacity /\ request'.op = request.op
               /\ request'.then = request.then /\ request'.addr = request.addr
               /\ request'.lost = (request.lost \/ lost)
               /\ \/ request'.pair = request.pair /\ UNCHANGED <<pair, toggle>>
                  \/ /\ request'.pair = request.pair + 1 /\ pair' = ep_pairs[request'.pair]
                     /\ request'.pair \in {2, 3} /\ toggle' = [out |-> 0, in |-> 0]
  <1>1. /\ request \in Requests /\ Tries \in Nat \ {0} /\ Len(ep_pairs) = 3
        /\ request.try \in 1 .. Tries /\ request.pair \in 1 .. 3
        /\ request.lost \in BOOLEAN /\ "cbw" \in Pcs /\ 1 \in 1 .. Tries
    BY UsbAssumption DEF UsbInv, UsbTypesInv, Requests, ep_pairs, Pcs
  <1>2. UNCHANGED ehci_hardware_inicializado
    BY DEF Failed
  <1>3. CASE request.cmd # Capacity
    <2>1. Answers(0, lost) /\ UNCHANGED <<pair, toggle>>
      BY <1>3 DEF Failed
    <2> QED BY <1>2, <1>3, <2>1, AnswerFrame
  <1>4. CASE request.cmd = Capacity
    <2> DEFINE l == request.lost \/ lost
    <2>1. l \in BOOLEAN /\ NextTry(l)
      BY <1>4 DEF Failed
    <2>2. l = (request.lost \/ lost)
      OBVIOUS
    <2> HIDE DEF l
    <2>3. CASE /\ request.try < Tries
               /\ request' = [request EXCEPT !.pc = "cbw", !.try = @ + 1, !.lost = l]
               /\ UNCHANGED <<pair, toggle>>
      <3>1. request.try + 1 \in 1 .. Tries
        BY <1>1, <2>3
      <3>2. /\ request' \in Requests /\ request'.pc = "cbw" /\ request'.cmd = request.cmd
            /\ request'.op = request.op /\ request'.then = request.then
            /\ request'.addr = request.addr /\ request'.lost = l
            /\ request'.pair = request.pair
        BY <1>1, <2>1, <2>3, <3>1 DEF Requests
      <3> QED BY <1>2, <1>4, <2>2, <2>3, <3>2
    <2>4. CASE /\ request.try = Tries /\ request.pair < Len(ep_pairs)
               /\ request' = [request EXCEPT !.pc = "cbw", !.try = 1, !.pair = @ + 1, !.lost = l]
               /\ pair' = ep_pairs[request.pair + 1]
               /\ toggle' = Toggles0(toggle)
      <3>1. request.pair + 1 \in 1 .. 3 /\ request.pair + 1 \in {2, 3}
        BY <1>1, <2>4
      <3>2. /\ request' \in Requests /\ request'.pc = "cbw" /\ request'.cmd = request.cmd
            /\ request'.op = request.op /\ request'.then = request.then
            /\ request'.addr = request.addr /\ request'.lost = l
            /\ request'.pair = request.pair + 1
        BY <1>1, <2>1, <2>4, <3>1 DEF Requests
      <3>3. toggle' = [out |-> 0, in |-> 0] /\ pair' = ep_pairs[request'.pair]
        BY <2>4, <3>2 DEF Toggles0
      <3> QED BY <1>2, <1>4, <2>2, <3>1, <3>2, <3>3
    <2>5. CASE /\ request.try = Tries /\ request.pair = Len(ep_pairs)
               /\ Answers(0, l) /\ UNCHANGED <<pair, toggle>>
      <3>1. /\ request' \in Requests /\ request'.pc = "idle" /\ request'.cmd = Nothing
            /\ request'.op = "none" /\ request'.ret = 0 /\ request'.lost = l
            /\ request'.pair = 1
        BY <2>1, <2>5, AnswerFrame
      <3> QED BY <1>1, <1>2, <2>2, <2>5, <3>1
    <2> QED BY <2>1, <2>3, <2>4, <2>5 DEF NextTry
  <1> QED BY <1>3, <1>4

\* The search has come to the pair of the device, and nothing was lost.
AtDevice == /\ Findable /\ request.cmd = Capacity /\ ~request.lost
            /\ pair = device.pair

\* What a failed transfer leaves, if it counts as lost where the search must
\* not miss the device.
LEMMA FailStep ==
  ASSUME UsbInv, request.pc \in Transferring, NEW i, NEW STATE lost, lost \in BOOLEAN,
         Failed(i, lost), AtDevice => lost,
         held' \in 0 .. Frames, UNCHANGED async_head, device' \in Devices,
         device'.plugged = device.plugged, device'.pair = device.pair,
         device'.addr = device.addr, device'.configured = device.configured,
         device' = device \/ Hears(i),
         request.pc = "cbw" => i = 1,
         request.pc = "refused" => request.cmd = Capacity
  PROVE  /\ UsbInv'
         /\ request'.pc = "idle" => request'.ret = 0
         /\ Findable /\ request.cmd = Capacity /\ request'.pc = "idle" => request'.lost
  <1>1. /\ request' \in Requests /\ UNCHANGED ehci_hardware_inicializado
        /\ \/ /\ request'.pc = "idle" /\ request'.cmd = Nothing /\ request'.op = "none"
              /\ request'.pair = 1 /\ request'.ret = 0 /\ UNCHANGED <<pair, toggle>>
              /\ request.cmd = Capacity => /\ request.pair = 3
                                           /\ request'.lost = (request.lost \/ lost)
           \/ /\ request.cmd = Capacity
              /\ request'.pc = "cbw" /\ request'.cmd = Capacity /\ request'.op = request.op
              /\ request'.then = request.then /\ request'.addr = request.addr
              /\ request'.lost = (request.lost \/ lost)
              /\ \/ request'.pair = request.pair /\ UNCHANGED <<pair, toggle>>
                 \/ /\ request'.pair = request.pair + 1 /\ pair' = ep_pairs[request'.pair]
                    /\ request'.pair \in {2, 3} /\ toggle' = [out |-> 0, in |-> 0]
    BY FailedOutcome
  <1>2. /\ request \in Requests /\ device \in Devices /\ request.pair \in 1 .. 3
        /\ pair \in {1, 2} \X {1, 2} /\ toggle \in [out : {0, 1}, in : {0, 1}]
        /\ disturbed \in {"no", "yes", "orphan"}
    BY DEF UsbInv, UsbTypesInv, Requests
  <1>3. disturbed' = IF disturbed = "orphan" \/ Orphan THEN "orphan"
                     ELSE IF Reaches(i) \/ device'.phase # "command" THEN "yes"
                     ELSE disturbed
    BY DEF Failed, Disturbs
  <1>4. Capacity # Nothing /\ \A p \in {2, 3} : ep_pairs[p] \in {1, 2} \X {1, 2}
    <2>1. Capacity # Nothing
      BY ONLY DEF Capacity, Nothing
    <2>2. \A p \in {2, 3} : ep_pairs[p] \in {1, 2} \X {1, 2}
      BY ONLY DEF ep_pairs
    <2> QED BY <2>1, <2>2
  <1>5. UsbTypesInv'
    <2>1. pair' \in {1, 2} \X {1, 2} /\ toggle' \in [out : {0, 1}, in : {0, 1}]
      BY <1>1, <1>2, <1>4
    <2>2. disturbed' \in {"no", "yes", "orphan"}
      BY <1>2, <1>3
    <2>3. ehci_hardware_inicializado' \in BOOLEAN /\ async_head' \in BOOLEAN
      BY <1>1 DEF UsbInv, UsbTypesInv
    <2>4. /\ request'.pc \in {"cbw", "idle"}
          /\ request'.pc = "idle" => request'.cmd = Nothing /\ request'.pair = 1 /\ request'.op = "none"
          /\ request'.pc = "cbw" => /\ request'.cmd = Capacity
                                    /\ request'.op = "read" => request'.then.cmd \in Sectors
      BY <1>1 DEF UsbInv, UsbTypesInv
    <2> QED BY <1>1, <1>4, <2>1, <2>2, <2>3, <2>4 DEF UsbTypesInv, Transferring, Enumerating
  <1>6. ASSUME disturbed' = "no", device'.configured
        PROVE  /\ disturbed = "no" /\ ~Reaches(i) /\ device' = device
               /\ request.pc = "cbw" /\ Level
               /\ request.cmd = Capacity => toggle.out = 0 /\ toggle.in = 0
    <2>1. disturbed = "no" /\ ~Reaches(i) /\ device'.phase = "command"
      BY <1>3, <1>6
    <2>2. device' = device
      BY <2>1 DEF Hears
    <2>3. /\ Level /\ (request.cmd = Capacity /\ request.pc = "cbw" => toggle.out = 0 /\ toggle.in = 0)
          /\ request.cmd = Capacity => request.pc # "refused"
      BY <1>6, <2>1, <2>2 DEF UsbInv, StepsInv
    <2>4. request.pc = "cbw"
      BY <2>1, <2>2, <2>3 DEF Level, Phase, Transferring
    <2> QED BY <2>1, <2>2, <2>3, <2>4
  <1>7. StepsInv'
    <2> SUFFICES ASSUME disturbed' = "no", device'.configured
                 PROVE  /\ Level'
                        /\ request'.cmd = Capacity /\ request'.pc = "cbw" =>
                             toggle'.out = 0 /\ toggle'.in = 0
                        /\ request'.pc # "refused"
      BY DEF StepsInv
    <2>1. toggle'.out = toggle.out /\ toggle'.in = toggle.in
      BY <1>1, <1>6
    <2>2. request'.pc \in {"cbw", "idle"} /\ (request'.cmd = Capacity => request.cmd = Capacity)
      BY <1>1, <1>4
    <2> QED BY <1>6, <2>1, <2>2 DEF Level, Phase
  <1>8. AnswersInv'
    <2>1. request'.pc \in {"cbw", "idle"}
      BY <1>1
    <2> QED BY <1>3, <2>1 DEF AnswersInv, Orphan
  <1>9. SearchInv' /\ (Findable /\ request.cmd = Capacity /\ request'.pc = "idle" => request'.lost)
    <2>1. ASSUME Findable, request.cmd = Capacity, ~request'.lost
          PROVE  /\ request'.pc = "cbw" /\ ~request.lost /\ device' = device
                 /\ device.configured /\ request.addr = 1 /\ Level /\ request.pc = "cbw"
                 /\ toggle.out = 0 /\ toggle.in = 0
                 /\ request.pair = 1 /\ device.pair = ep_pairs[2] /\ pair = ep_pairs[1]
      <3>1. ~request.lost /\ ~lost
        BY <1>1, <2>1
      <3>2. pair # device.pair
        BY <2>1, <3>1 DEF AtDevice
      <3>3. /\ request.pair = 1 /\ request.pc = "cbw" /\ device.pair = ep_pairs[2]
            /\ pair = ep_pairs[request.pair] /\ Level /\ device.configured /\ request.addr = 1
            /\ toggle.out = 0 /\ toggle.in = 0
        BY <2>1, <3>1, <3>2 DEF UsbInv, SearchInv
      <3>4. pair[1] = 1 /\ device.pair[1] = 2
        BY <3>3 DEF ep_pairs
      <3>5. device' = device
        BY <3>3, <3>4 DEF Hears, Reaches
      <3> QED BY <1>1, <2>1, <3>1, <3>3, <3>5
    <2>2. Findable' => Findable
      BY DEF Findable
    <2>3. request'.pc # "config"
      BY <1>1
    <2>4. ASSUME Findable', request'.cmd = Capacity, request'.pc \in Transferring, ~request'.lost
          PROVE  /\ device'.configured /\ request'.addr = 1
                 /\ pair' = ep_pairs[request'.pair] /\ Level'
                 /\ request'.pc = "cbw" /\ toggle'.out = 0 /\ toggle'.in = 0
                 /\ \/ pair' = device'.pair
                    \/ request'.pair = 1 /\ device'.pair = ep_pairs[2]
      <3>1. request.cmd = Capacity
        BY <1>1, <1>4, <2>4
      <3>2. toggle'.out = 0 /\ toggle'.in = 0
        BY <1>1, <2>1, <2>2, <2>4, <3>1
      <3>3. Level'
        BY <2>1, <2>2, <2>4, <3>1, <3>2 DEF Level, Phase
      <3>4. \/ request'.pair = 1 /\ pair' = pair
            \/ request'.pair = 2 /\ pair' = ep_pairs[2]
        BY <1>1, <2>1, <2>2, <2>4, <3>1
      <3> QED BY <1>1, <2>1, <2>2, <2>4, <3>1, <3>2, <3>3, <3>4
    <2>5. SearchInv'
      BY <2>3, <2>4 DEF SearchInv
    <2> QED BY <2>1, <2>5
  <1>10. request'.pc = "idle" => request'.ret = 0
    BY <1>1
  <1> QED BY <1>5, <1>7, <1>8, <1>9, <1>10 DEF UsbInv

LEMMA AnswerTyped ==
  ASSUME device \in Devices, request \in Requests
  PROVE  /\ Answer \in Devices
         /\ Answer.plugged = device.plugged /\ Answer.pair = device.pair
         /\ Answer.addr = device.addr /\ Answer.configured = device.configured
         /\ Answer.in = device.in
         /\ Repeated => Answer = device
         /\ ~Repeated /\ device.phase = "command" =>
              /\ Answer.phase = "data" /\ Answer.cmd = request.cmd
              /\ Answer.out = 1 - device.out /\ Answer.halted = device.halted
         /\ ~Repeated /\ device.phase # "command" => Answer.halted
  <1>1. CASE Repeated
    BY <1>1 DEF Answer
  <1>2. CASE ~Repeated /\ device.phase = "command"
    <2>1. Answer = [device EXCEPT !.phase = "data", !.cmd = request.cmd, !.out = 1 - @]
      BY <1>2 DEF Answer
    <2>2. 1 - device.out \in {0, 1} /\ request.cmd \in Commands
      BY DEF Devices, Requests
    <2> QED BY <1>2, <2>1, <2>2 DEF Devices
  <1>3. CASE ~Repeated /\ device.phase # "command"
    <2>1. Answer = [device EXCEPT !.halted = TRUE]
      BY <1>3 DEF Answer
    <2> QED BY <1>3, <2>1 DEF Devices
  <1> QED BY <1>1, <1>2, <1>3

\* A bit has been flipped.
LEMMA FlippedTyped ==
  ASSUME toggle \in [out : {0, 1}, in : {0, 1}]
  PROVE  /\ Flipped(toggle, "out") \in [out : {0, 1}, in : {0, 1}]
         /\ Flipped(toggle, "out").out = 1 - toggle.out /\ Flipped(toggle, "out").in = toggle.in
         /\ Flipped(toggle, "in") \in [out : {0, 1}, in : {0, 1}]
         /\ Flipped(toggle, "in").in = 1 - toggle.in /\ Flipped(toggle, "in").out = toggle.out
  <1>1. /\ Flipped(toggle, "out") = [toggle EXCEPT !.out = 1 - toggle.out]
        /\ Flipped(toggle, "in") = [toggle EXCEPT !.in = 1 - toggle.in]
    BY DEF Flipped
  <1>2. 1 - toggle.out \in {0, 1} /\ 1 - toggle.in \in {0, 1}
    OBVIOUS
  <1> QED BY <1>1, <1>2

LEMMA SendCbwStep ==
  ASSUME UsbInv, SendCbw
  PROVE  /\ UsbInv'
         /\ request'.pc = "idle" => request'.ret = 0
         /\ Findable /\ request.cmd = Capacity /\ request'.pc = "idle" => request'.lost
  <1>1. /\ request.pc = "cbw" /\ request.pc \in Transferring /\ request.cmd # Nothing
        /\ request \in Requests /\ device \in Devices /\ held \in 0 .. Frames /\ Frames \in Nat
        /\ toggle \in [out : {0, 1}, in : {0, 1}] /\ pair \in {1, 2} \X {1, 2}
        /\ UNCHANGED async_head
    BY UsbAssumption DEF UsbInv, UsbTypesInv, SendCbw, Transferring
  <1>2. /\ Answer \in Devices
        /\ Answer.plugged = device.plugged /\ Answer.pair = device.pair
        /\ Answer.addr = device.addr /\ Answer.configured = device.configured
        /\ Answer.in = device.in
        /\ Repeated => Answer = device
        /\ ~Repeated /\ device.phase = "command" =>
             /\ Answer.phase = "data" /\ Answer.cmd = request.cmd
             /\ Answer.out = 1 - device.out /\ Answer.halted = device.halted
        /\ ~Repeated /\ device.phase # "command" => Answer.halted
    BY <1>1, AnswerTyped
  <1>3. AtDevice => Hears(1) /\ ~Answer.halted
    <2> SUFFICES ASSUME AtDevice PROVE Hears(1) /\ ~Answer.halted
      OBVIOUS
    <2>1. device.configured /\ request.addr = 1 /\ Level
      BY <1>1 DEF AtDevice, UsbInv, SearchInv
    <2>2. ~Repeated /\ device.phase = "command" /\ ~device.halted
      BY <1>1, <2>1 DEF Level, Phase, Repeated
    <2>3. Hears(1)
      BY <2>1, <2>2 DEF AtDevice, Findable, Hears, Reaches
    <2> QED BY <1>2, <2>2, <2>3
  <1>4. \/ NoFrame(1)
        \/ /\ held < Frames /\ held' = held + 1
           /\ device' = device \/ (Hears(1) /\ device' = Answer)
           /\ Failed(1, Hears(1) /\ ~Answer.halted)
        \/ /\ held < Frames /\ held' = held + 1
           /\ Hears(1) /\ ~Answer.halted /\ device' = Answer
           /\ request' = [request EXCEPT !.pc = "data"]
           /\ toggle' = Flipped(toggle, "out")
           /\ UNCHANGED <<pair, ehci_hardware_inicializado, disturbed>>
    BY DEF SendCbw
  <1>5. CASE NoFrame(1)
    <2> DEFINE lost == TRUE
    <2>1. lost \in BOOLEAN /\ Failed(1, lost) /\ lost /\ held' = held /\ device' = device
      BY <1>5 DEF NoFrame
    <2> HIDE DEF lost
    <2> QED BY <1>1, <2>1, FailStep
  <1>6. CASE /\ held < Frames /\ held' = held + 1
             /\ device' = device \/ (Hears(1) /\ device' = Answer)
             /\ Failed(1, Hears(1) /\ ~Answer.halted)
    <2> DEFINE lost == Hears(1) /\ ~Answer.halted
    <2>1. lost \in BOOLEAN /\ Failed(1, lost) /\ (AtDevice => lost)
      BY <1>3, <1>6
    <2>2. /\ device' \in Devices /\ (device' = device \/ Hears(1))
          /\ device'.plugged = device.plugged /\ device'.pair = device.pair
          /\ device'.addr = device.addr /\ device'.configured = device.configured
      BY <1>1, <1>2, <1>6
    <2>3. held' \in 0 .. Frames
      BY <1>1, <1>6
    <2> HIDE DEF lost
    <2> QED BY <1>1, <2>1, <2>2, <2>3, FailStep
  <1>7. CASE /\ held < Frames /\ held' = held + 1
             /\ Hears(1) /\ ~Answer.halted /\ device' = Answer
             /\ request' = [request EXCEPT !.pc = "data"]
             /\ toggle' = Flipped(toggle, "out")
             /\ UNCHANGED <<pair, ehci_hardware_inicializado, disturbed>>
    <2>1. held' \in 0 .. Frames
      BY <1>1, <1>7
    <2>2. /\ request' \in Requests /\ request'.pc = "data" /\ request'.cmd = request.cmd
          /\ request'.op = request.op /\ request'.then = request.then
          /\ request'.addr = request.addr /\ request'.pair = request.pair
          /\ request'.lost = request.lost
      <3>1. "data" \in Pcs
        BY DEF Pcs
      <3> QED BY <1>1, <1>7, <3>1 DEF Requests
    <2>3. /\ toggle' \in [out : {0, 1}, in : {0, 1}]
          /\ toggle'.out = 1 - toggle.out /\ toggle'.in = toggle.in
      BY <1>1, <1>7, FlippedTyped
    <2>4. UsbTypesInv'
      BY <1>1, <1>2, <1>7, <2>1, <2>2, <2>3 DEF UsbInv, UsbTypesInv, Transferring, Enumerating
    <2>5. ASSUME Level PROVE Level' /\ device'.cmd = request.cmd
      <3>1. ~Repeated /\ device.phase = "command" /\ ~device.halted
        BY <1>1, <2>5 DEF Level, Phase, Repeated
      <3> QED BY <1>2, <1>7, <2>2, <2>3, <2>5, <3>1 DEF Level, Phase
    <2>6. StepsInv'
      BY <1>2, <1>7, <2>2, <2>5 DEF UsbInv, StepsInv
    <2>7. AnswersInv'
      <3> SUFFICES ASSUME disturbed # "orphan", device'.phase = "data"
                   PROVE  toggle'.out = device'.out /\ device'.cmd = request'.cmd
        BY <1>7, <2>2 DEF AnswersInv
      <3>1. device.phase = "data" => toggle.out = device.out
        BY <1>1 DEF UsbInv, AnswersInv
      <3>2. ~Repeated
        BY <1>2, <1>7, <3>1 DEF Repeated
      <3>3. device.phase = "command"
        BY <1>2, <1>7, <3>2
      <3> QED BY <1>2, <1>7, <2>2, <2>3, <3>2, <3>3 DEF Repeated
    <2>8. SearchInv'
      <3> SUFFICES ASSUME Findable', request'.cmd = Capacity, ~request'.lost
                   PROVE  /\ device'.configured /\ request'.addr = 1
                          /\ pair' = ep_pairs[request'.pair] /\ Level'
                          /\ device'.cmd = Capacity /\ pair' = device'.pair
        BY <2>2 DEF SearchInv
      <3>1. Findable /\ request.cmd = Capacity /\ ~request.lost
        BY <1>1, <1>2, <1>7, <2>2 DEF Findable
      <3>2. /\ device.configured /\ request.addr = 1 /\ pair = ep_pairs[request.pair] /\ Level
            /\ \/ pair = device.pair
               \/ request.pair = 1 /\ device.pair = ep_pairs[2]
        BY <1>1, <3>1 DEF UsbInv, SearchInv
      <3>3. device.pair[1] = pair[1]
        BY <1>7 DEF Hears, Reaches
      <3>4. pair = device.pair
        BY <3>2, <3>3 DEF ep_pairs
      <3> QED BY <1>2, <1>7, <2>2, <2>5, <3>1, <3>2, <3>4
    <2> QED BY <2>2, <2>4, <2>6, <2>7, <2>8 DEF UsbInv
  <1> QED BY <1>4, <1>5, <1>6, <1>7

LEMMA AfterTyped ==
  ASSUME NEW d, d \in Devices
  PROVE  /\ After(d) \in Devices
         /\ After(d).plugged = d.plugged /\ After(d).pair = d.pair /\ After(d).addr = d.addr
         /\ After(d).configured = d.configured /\ After(d).out = d.out
         /\ After(d).halted = d.halted /\ After(d).in = 1 - d.in
         /\ After(d).phase = IF d.phase = "data" THEN "status" ELSE "command"
  <1>1. 1 - d.in \in {0, 1} /\ d.in \in {0, 1}
    BY DEF Devices
  <1> QED BY <1>1 DEF After, Devices

LEMMA ReceiveStep ==
  ASSUME UsbInv, Receive
  PROVE  /\ UsbInv'
         /\ \/ request'.pc # "idle" \/ request'.ret = 0 \/ request.cmd = Capacity
            \/ disturbed = "orphan" \/ (request.pc = "csw" /\ request.got = request.cmd)
         /\ Findable /\ request.cmd = Capacity /\ request'.pc = "idle" /\ request'.ret = 0
              => request'.lost
  <1>1. /\ request.pc \in {"data", "csw"} /\ request.pc \in Transferring /\ request.cmd # Nothing
        /\ request \in Requests /\ device \in Devices /\ held \in 0 .. Frames /\ Frames \in Nat
        /\ toggle \in [out : {0, 1}, in : {0, 1}] /\ pair \in {1, 2} \X {1, 2}
        /\ UNCHANGED async_head
    BY UsbAssumption DEF UsbInv, UsbTypesInv, Receive, Transferring
  <1> DEFINE d == Current
  <1>2. /\ d \in Devices
        /\ d.plugged = device.plugged /\ d.pair = device.pair
        /\ d.addr = device.addr /\ d.configured = device.configured
        /\ d.out = device.out /\ d.halted = device.halted
        /\ \/ d = device
           \/ /\ device.in # toggle.in /\ device.phase # "command"
              /\ d.phase = IF device.phase = "data" THEN "status" ELSE "command"
        /\ device.in = toggle.in => d = device
    BY <1>1, AfterTyped DEF Current
  <1>3. /\ After(d) \in Devices
        /\ After(d).plugged = device.plugged /\ After(d).pair = device.pair
        /\ After(d).addr = device.addr /\ After(d).configured = device.configured
        /\ After(d).out = device.out /\ After(d).halted = device.halted
        /\ After(d).in = 1 - d.in
        /\ After(d).phase = IF d.phase = "data" THEN "status" ELSE "command"
    BY <1>2, AfterTyped
  <1>4. AtDevice => Hears(2) /\ Fits
    <2> SUFFICES ASSUME AtDevice PROVE Hears(2) /\ Fits
      OBVIOUS
    <2>1. /\ device.configured /\ request.addr = 1 /\ Level
          /\ request.pc = "data" => device.cmd = Capacity
      BY <1>1 DEF AtDevice, UsbInv, SearchInv
    <2>2. d = device /\ ~device.halted
          /\ (request.pc = "data" => device.phase = "data" /\ Ready(d) = Capacity)
          /\ (request.pc = "csw" => device.phase = "status")
      BY <1>1, <1>2, <2>1 DEF Level, Phase, Ready
    <2>3. Hears(2)
      BY <2>1, <2>2 DEF AtDevice, Findable, Hears, Reaches
    <2> QED BY <1>1, <2>2, <2>3 DEF Fits
  <1>5. \/ NoFrame(2)
        \/ /\ held < Frames /\ held' = held + 1
           /\ \/ device' = device
              \/ Hears(2) /\ (device' = d \/ device' = After(d))
           /\ Failed(2, Hears(2) /\ Fits)
        \/ /\ held < Frames /\ held' = held + 1
           /\ Hears(2) /\ Fits /\ device' = After(d)
           /\ toggle' = Flipped(toggle, "in")
           /\ \/ Refused
              \/ /\ IF request.pc = "data"
                    THEN /\ request' = [request EXCEPT !.pc = "csw", !.got = Ready(d)]
                         /\ UNCHANGED ehci_hardware_inicializado
                    ELSE IF request.cmd = Capacity THEN CapacityDone
                    ELSE Answers(1, FALSE) /\ UNCHANGED ehci_hardware_inicializado
                 /\ UNCHANGED disturbed
           /\ UNCHANGED pair
    BY DEF Receive
  <1> HIDE DEF d
  <1>6. CASE NoFrame(2)
    <2> DEFINE lost == TRUE
    <2>1. lost \in BOOLEAN /\ Failed(2, lost) /\ lost /\ held' = held /\ device' = device
      BY <1>6 DEF NoFrame
    <2> HIDE DEF lost
    <2>2. /\ UsbInv' /\ (request'.pc = "idle" => request'.ret = 0)
          /\ (Findable /\ request.cmd = Capacity /\ request'.pc = "idle" => request'.lost)
      BY <1>1, <2>1, FailStep
    <2> QED BY <2>2
  <1>7. CASE /\ held < Frames /\ held' = held + 1
             /\ \/ device' = device
                \/ Hears(2) /\ (device' = d \/ device' = After(d))
             /\ Failed(2, Hears(2) /\ Fits)
    <2> DEFINE lost == Hears(2) /\ Fits
    <2>1. lost \in BOOLEAN /\ Failed(2, lost) /\ (AtDevice => lost)
      BY <1>4, <1>7
    <2>2. /\ device' \in Devices /\ (device' = device \/ Hears(2))
          /\ device'.plugged = device.plugged /\ device'.pair = device.pair
          /\ device'.addr = device.addr /\ device'.configured = device.configured
      BY <1>1, <1>2, <1>3, <1>7
    <2>3. held' \in 0 .. Frames
      BY <1>1, <1>7
    <2> HIDE DEF lost
    <2>4. /\ UsbInv' /\ (request'.pc = "idle" => request'.ret = 0)
          /\ (Findable /\ request.cmd = Capacity /\ request'.pc = "idle" => request'.lost)
      BY <1>1, <2>1, <2>2, <2>3, FailStep
    <2> QED BY <2>4
  <1>8. ASSUME held < Frames, held' = held + 1, Hears(2), Fits, device' = After(d),
               toggle' = Flipped(toggle, "in"), UNCHANGED pair
        PROVE  /\ held' \in 0 .. Frames /\ device' \in Devices
               /\ toggle' \in [out : {0, 1}, in : {0, 1}]
               /\ toggle'.in = 1 - toggle.in /\ toggle'.out = toggle.out
               /\ Level => /\ toggle'.in = device'.in /\ toggle'.out = device'.out
                           /\ ~device'.halted
                           /\ device'.phase = IF request.pc = "data" THEN "status" ELSE "command"
    <2>1. /\ held' \in 0 .. Frames /\ device' \in Devices
      BY <1>1, <1>3, <1>8
    <2>2. /\ toggle' \in [out : {0, 1}, in : {0, 1}]
          /\ toggle'.in = 1 - toggle.in /\ toggle'.out = toggle.out
      BY <1>1, <1>8, FlippedTyped
    <2>3. ASSUME Level
          PROVE  /\ toggle'.in = device'.in /\ toggle'.out = device'.out /\ ~device'.halted
                 /\ device'.phase = IF request.pc = "data" THEN "status" ELSE "command"
      <3>1. d = device /\ device.in = toggle.in /\ device.out = toggle.out /\ ~device.halted
            /\ device.phase = IF request.pc = "data" THEN "data" ELSE "status"
        BY <1>1, <1>2, <2>3 DEF Level, Phase
      <3> QED BY <1>3, <1>8, <2>2, <3>1
    <2> QED BY <2>1, <2>2, <2>3
  <1>9. CASE /\ held < Frames /\ held' = held + 1
             /\ Hears(2) /\ Fits /\ device' = After(d)
             /\ toggle' = Flipped(toggle, "in") /\ UNCHANGED <<pair, disturbed>>
             /\ request.pc = "data"
             /\ request' = [request EXCEPT !.pc = "csw", !.got = Ready(d)]
             /\ UNCHANGED ehci_hardware_inicializado
    <2>1. /\ request' \in Requests /\ request'.pc = "csw" /\ request'.cmd = request.cmd
          /\ request'.op = request.op /\ request'.then = request.then
          /\ request'.addr = request.addr /\ request'.pair = request.pair
          /\ request'.lost = request.lost /\ request'.got = Ready(d)
      <3>1. "csw" \in Pcs /\ Ready(d) \in Commands \cup {Csw}
        BY <1>2 DEF Pcs, Ready, Devices
      <3> QED BY <1>1, <1>9, <3>1 DEF Requests
    <2>2. UsbTypesInv'
      BY <1>1, <1>8, <1>9, <2>1 DEF UsbInv, UsbTypesInv, Transferring, Enumerating
    <2>3. Level => Level'
      BY <1>8, <1>9, <2>1 DEF Level, Phase
    <2>4. StepsInv'
      BY <1>3, <1>9, <2>1, <2>3 DEF UsbInv, StepsInv
    <2>5. AnswersInv'
      <3> SUFFICES ASSUME disturbed # "orphan"
                   PROVE  /\ device'.phase # "data"
                          /\ Ready(d) = request.cmd \/ device'.phase = "command"
        BY <1>9, <2>1 DEF AnswersInv
      <3>1. device.phase = "data" => device.cmd = request.cmd
        BY <1>9 DEF UsbInv, AnswersInv
      <3>2. d.phase = "data" => d = device
        BY <1>2
      <3> QED BY <1>3, <1>9, <3>1, <3>2 DEF Ready
    <2>6. SearchInv'
      <3>1. Findable' <=> Findable
        BY <1>1, <1>3, <1>9 DEF Findable
      <3> QED BY <1>3, <1>9, <2>1, <2>3, <3>1 DEF UsbInv, SearchInv, Transferring
    <2> QED BY <2>1, <2>2, <2>4, <2>5, <2>6 DEF UsbInv
  <1>10. ASSUME held < Frames, held' = held + 1, Hears(2), Fits, device' = After(d),
                toggle' = Flipped(toggle, "in"), UNCHANGED <<pair, disturbed>>,
                request.pc = "csw", ehci_hardware_inicializado' \in BOOLEAN,
                request' \in Requests,
                \/ /\ request'.pc = "idle" /\ request'.cmd = Nothing /\ request'.op = "none"
                   /\ request'.pair = 1 /\ request'.ret = 1
                \/ request'.pc = "cbw" /\ request'.cmd \in Sectors
         PROVE  /\ UsbInv'
                /\ disturbed = "orphan" \/ request.got = request.cmd
                /\ request'.pc = "idle" => request'.ret = 1
    <2>1. Nothing \notin Sectors /\ Capacity \notin Sectors /\ Capacity # Nothing
      BY UsbAssumption DEF Capacity, Nothing
    <2>2. UsbTypesInv'
      BY <1>1, <1>8, <1>10, <2>1 DEF UsbInv, UsbTypesInv, Transferring, Enumerating
    <2>3. Level => Level'
      BY <1>8, <1>10 DEF Level, Phase
    <2>4. StepsInv'
      BY <1>3, <1>10, <2>1, <2>3 DEF UsbInv, StepsInv
    <2>5. d.phase = "status"
      BY <1>10 DEF Fits, d
    <2>6. AnswersInv'
      BY <1>3, <1>10, <2>5 DEF AnswersInv
    <2>7. SearchInv'
      BY <1>10, <2>1 DEF SearchInv
    <2>8. disturbed # "orphan" => request.got = request.cmd
      BY <1>2, <1>10, <2>5 DEF UsbInv, AnswersInv
    <2> QED BY <1>10, <2>2, <2>4, <2>6, <2>7, <2>8 DEF UsbInv
  <1>11. CASE /\ held < Frames /\ held' = held + 1
              /\ Hears(2) /\ Fits /\ device' = After(d)
              /\ toggle' = Flipped(toggle, "in") /\ UNCHANGED <<pair, disturbed>>
              /\ request.pc = "csw"
              /\ IF request.cmd = Capacity THEN CapacityDone
                 ELSE Answers(1, FALSE) /\ UNCHANGED ehci_hardware_inicializado
    <2>1. CASE request.cmd = Capacity /\ request.op = "read"
      <3> DEFINE addr == request.then.addr
                 cmd == request.then.cmd
      <3>1. addr \in 0 .. 2 /\ cmd \in Sectors /\ cmd \in Commands /\ "cbw" \in Pcs
        BY <1>1, <2>1 DEF UsbInv, UsbTypesInv, Requests, Commands, Pcs
      <3>2. /\ ehci_hardware_inicializado' = TRUE
            /\ request' = [UsbIdle EXCEPT !.pc = "cbw", !.op = "read", !.addr = addr, !.cmd = cmd]
        BY <1>11, <2>1 DEF CapacityDone
      <3> HIDE DEF addr, cmd
      <3>3. request' \in Requests /\ request'.pc = "cbw" /\ request'.cmd \in Sectors
        BY <3>1, <3>2, UsbIdleTyped DEF Requests
      <3> QED BY <1>10, <1>11, <2>1, <3>2, <3>3
    <2>2. ASSUME NEW lost, lost \in BOOLEAN, Answers(1, lost), UNCHANGED ehci_hardware_inicializado
          PROVE  /\ UsbInv' /\ request'.ret = 1
                 /\ disturbed = "orphan" \/ request.got = request.cmd
      <3>1. /\ request' \in Requests /\ request'.pc = "idle" /\ request'.cmd = Nothing
            /\ request'.op = "none" /\ request'.pair = 1 /\ request'.ret = 1
        BY <2>2, AnswerFrame
      <3>2. ehci_hardware_inicializado' \in BOOLEAN
        BY <2>2 DEF UsbInv, UsbTypesInv
      <3> QED BY <1>10, <1>11, <3>1, <3>2
    <2>3. CASE request.cmd = Capacity /\ request.op # "read"
      <3>1. request.lost \in BOOLEAN /\ Answers(1, request.lost)
            /\ UNCHANGED ehci_hardware_inicializado
        BY <1>1, <1>11, <2>3 DEF CapacityDone, Requests
      <3> QED BY <1>11, <2>2, <3>1
    <2>4. CASE request.cmd # Capacity
      <3> DEFINE lost == FALSE
      <3>1. lost \in BOOLEAN /\ Answers(1, lost) /\ UNCHANGED ehci_hardware_inicializado
        BY <1>11, <2>4
      <3> HIDE DEF lost
      <3> QED BY <1>11, <2>2, <2>4, <3>1
    <2> QED BY <2>1, <2>3, <2>4
  <1>12. CASE /\ held < Frames /\ held' = held + 1
              /\ Hears(2) /\ Fits /\ device' = After(d)
              /\ toggle' = Flipped(toggle, "in") /\ UNCHANGED pair
              /\ Refused
    <2>1. /\ request.pc = "csw" /\ request' = [request EXCEPT !.pc = "refused", !.lost = TRUE]
          /\ disturbed' = IF request.cmd = Capacity /\ disturbed = "no" THEN "yes" ELSE disturbed
          /\ UNCHANGED ehci_hardware_inicializado
      BY <1>12 DEF Refused
    <2>2. /\ request' \in Requests /\ request'.pc = "refused" /\ request'.cmd = request.cmd
          /\ request'.op = request.op /\ request'.then = request.then
          /\ request'.pair = request.pair /\ request'.lost
      <3>1. "refused" \in Pcs
        BY DEF Pcs
      <3> QED BY <1>1, <2>1, <3>1 DEF Requests
    <2>3. disturbed' \in {"no", "yes", "orphan"}
      BY <2>1 DEF UsbInv, UsbTypesInv
    <2>4. UsbTypesInv'
      BY <1>1, <1>8, <1>12, <2>1, <2>2, <2>3 DEF UsbInv, UsbTypesInv, Transferring, Enumerating
    <2>5. Level => Level'
      BY <1>8, <1>12, <2>1, <2>2 DEF Level, Phase
    <2>6. StepsInv'
      BY <1>3, <1>12, <2>1, <2>2, <2>5 DEF UsbInv, StepsInv
    <2>7. d.phase = "status"
      BY <1>12, <2>1 DEF Fits, d
    <2>8. AnswersInv'
      BY <1>3, <1>12, <2>2, <2>7 DEF AnswersInv
    <2>9. SearchInv'
      BY <2>2 DEF SearchInv
    <2> QED BY <2>2, <2>4, <2>6, <2>8, <2>9 DEF UsbInv
  <1> QED BY <1>1, <1>5, <1>6, <1>7, <1>9, <1>11, <1>12

\* The end of a command that the device refused.
LEMMA GiveUpStep ==
  ASSUME UsbInv, GiveUp
  PROVE  /\ UsbInv'
         /\ request'.pc = "idle" => request'.ret = 0
         /\ Findable /\ request.cmd = Capacity /\ request'.pc = "idle" => request'.lost
  <1> DEFINE lost == TRUE
  <1>1. /\ request.pc = "refused" /\ request.pc \in Transferring
        /\ held' = held /\ device' = device /\ async_head' = async_head
        /\ held \in 0 .. Frames /\ device \in Devices /\ lost \in BOOLEAN /\ lost
    BY DEF GiveUp, UsbInv, UsbTypesInv, Transferring
  <1>2. IF request.cmd = Capacity THEN Failed(2, lost)
        ELSE Answers(0, lost) /\ UNCHANGED <<pair, toggle, disturbed, ehci_hardware_inicializado>>
    BY DEF GiveUp
  <1> HIDE DEF lost
  <1>3. CASE request.cmd = Capacity
    BY <1>1, <1>2, <1>3, FailStep
  <1>4. CASE request.cmd # Capacity
    <2>1. /\ request' \in Requests /\ request'.pc = "idle" /\ request'.cmd = Nothing
          /\ request'.op = "none" /\ request'.ret = 0 /\ request'.pair = 1
      BY <1>1, <1>2, <1>4, AnswerFrame
    <2>2. UNCHANGED <<pair, toggle, disturbed, ehci_hardware_inicializado>>
      BY <1>2, <1>4
    <2>3. UsbTypesInv'
      BY <1>1, <2>1, <2>2 DEF UsbInv, UsbTypesInv, Transferring, Enumerating
    <2>4. StepsInv'
      BY <1>1, <2>1, <2>2 DEF UsbInv, StepsInv, Level, Phase
    <2>5. AnswersInv'
      BY <1>1, <2>1, <2>2 DEF UsbInv, AnswersInv
    <2>6. SearchInv'
      BY <2>1 DEF SearchInv, Transferring
    <2> QED BY <1>4, <2>1, <2>3, <2>4, <2>5, <2>6 DEF UsbInv
  <1> QED BY <1>3, <1>4

LEMMA UsbStep ==
  ASSUME UsbInv, [UsbNext]_usbVars
  PROVE  UsbInv'
  <1>1. CASE UNCHANGED usbVars
    BY <1>1 DEF usbVars, UsbInv, UsbTypesInv, StepsInv, AnswersInv, SearchInv, Level, Phase,
                Findable, driver
  <1> QED BY <1>1, CallerSteps, EnumerationSteps, IdentifyStep, SetConfigurationStep,
             SendCbwStep, ReceiveStep, GiveUpStep DEF UsbNext

\* Of every step only the last of a call that works on a command answers it.
LEMMA Answered ==
  ASSUME UsbInv, [UsbNext]_usbVars, request.pc # "idle", request'.pc = "idle",
         request.cmd # Nothing
  PROVE  /\ request.cmd \in Sectors /\ request.pc = "csw" /\ request'.ret = 1
              /\ disturbed # "orphan"
            => request.got = request.cmd
         /\ request.cmd = Capacity /\ request'.ret = 0 /\ Findable => request'.lost
  <1>1. Capacity \notin Sectors
    BY UsbAssumption
  <1>2. request.pc \in Transferring \cup {"config"}
    BY DEF UsbInv, UsbTypesInv
  <1>3. SetConfiguration \/ SendCbw \/ Receive \/ GiveUp
    <2>1. request' # request
      OBVIOUS
    <2> QED BY <1>2, <2>1 DEF UsbNext, usbVars, Enumerate, StorageInit, ReadSector, Core,
               InitAsyncList, Detect, Identify, Transferring
  <1>4. CASE SetConfiguration
    <2>1. request.pc = "config"
      BY <1>4 DEF SetConfiguration
    <2> QED BY <1>4, <2>1, SetConfigurationStep
  <1>5. CASE SendCbw
    BY <1>5, SendCbwStep
  <1>6. CASE Receive
    BY <1>1, <1>6, ReceiveStep
  <1>7. CASE GiveUp
    BY <1>1, <1>7, GiveUpStep
  <1> QED BY <1>3, <1>4, <1>5, <1>6, <1>7

\* The driver and the flash drive, whatever fails and when: what each knows of
\* the other's packet bits, command and endpoints.
THEOREM UsbInvariant == UsbSpec => []UsbInv
  <1>1. UsbInit => UsbInv
    <2> SUFFICES ASSUME UsbInit PROVE UsbInv
      OBVIOUS
    <2>1. PICK plugged \in BOOLEAN, p \in {1, 2} \X {1, 2} :
            device = [plugged |-> plugged, pair |-> p, addr |-> 0, configured |-> FALSE,
                      out |-> 0, in |-> 0, phase |-> "command", cmd |-> Nothing,
                      halted |-> FALSE]
      BY DEF UsbInit
    <2>2. device \in Devices /\ ~device.configured /\ device.phase = "command"
      BY <2>1 DEF Devices, Commands
    <2>3. /\ request = UsbIdle /\ toggle = [out |-> 0, in |-> 0] /\ pair = <<2, 1>>
          /\ held = 0 /\ disturbed = "no"
          /\ ehci_hardware_inicializado = FALSE /\ async_head = FALSE
      BY DEF UsbInit
    <2>4. held \in 0 .. Frames
      BY <2>3, UsbAssumption
    <2>5. UsbTypesInv
      BY <2>2, <2>3, <2>4, UsbIdleTyped DEF UsbTypesInv, Transferring, Enumerating
    <2> QED BY <2>2, <2>3, <2>5, UsbIdleTyped
            DEF UsbInv, StepsInv, AnswersInv, SearchInv, Transferring
  <1>2. UsbInv /\ [UsbNext]_usbVars => UsbInv'
    BY UsbStep
  <1> QED BY <1>1, <1>2, PTL DEF UsbSpec

\* InStep: between calls the two ends agree, as long as no transfer that the
\* device had a part in has failed.
THEOREM EndsInStep == UsbSpec => []InStep
  <1>1. UsbInv => InStep
    <2> SUFFICES ASSUME UsbInv PROVE InStep
      OBVIOUS
    <2>1. toggle \in [{"out", "in"} -> {0, 1}]
      BY DEF UsbInv, UsbTypesInv
    <2>2. UsbTypes
      BY <2>1, UsbAssumption DEF UsbInv, UsbTypesInv, UsbTypes, Requests, Devices, ep_pairs
    <2> QED BY <2>2 DEF InStep, UsbInv, StepsInv, Level, Phase
  <1> QED BY <1>1, UsbInvariant, PTL

\* ReadsTrue: a read that succeeds delivers the sector that was asked for,
\* whatever failed before, but for a command taken for not sent.
THEOREM ReadsAreTrue == UsbSpec => ReadsTrue
  <1> DEFINE True == request.pc = "csw" /\ request.cmd \in Sectors /\ request'.pc = "idle"
                       /\ request'.ret = 1 /\ disturbed # "orphan"
                     => request.got = request.cmd
  <1>1. UsbInv /\ [UsbNext]_usbVars => True
    BY Answered, UsbAssumption
  <1>2. ReadsTrue <=> [][True]_usbVars
    BY DEF ReadsTrue
  <1> HIDE DEF True
  <1> QED BY <1>1, <1>2, UsbInvariant, PTL DEF UsbSpec

\* FindsDevice: the search misses a device that answers at one of the first two
\* pairs of endpoints only if a transfer is lost or there is no frame.
THEOREM SearchFindsDevice == UsbSpec => FindsDevice
  <1> DEFINE Finds == /\ request.cmd = Capacity /\ request.pc # "idle" /\ request'.pc = "idle"
                      /\ request'.ret = 0 /\ async_head
                      /\ device.plugged /\ device.addr = 1 /\ device.pair \in {ep_pairs[1], ep_pairs[2]}
                      => request'.lost
  <1>1. UsbInv /\ [UsbNext]_usbVars => Finds
    <2>1. Capacity # Nothing
      BY DEF Capacity, Nothing
    <2> QED BY <2>1, Answered DEF Findable
  <1>2. FindsDevice <=> [][Finds]_usbVars
    BY DEF FindsDevice
  <1> HIDE DEF Finds
  <1> QED BY <1>1, <1>2, UsbInvariant, PTL DEF UsbSpec

=============================================================================
