----------------------------- MODULE FileSystem -----------------------------
(***************************************************************************)
(* The FAT32 driver: the calls that programs and the shell make through    *)
(* drivers/syscall.c to copy, append to, remove and rename files, make     *)
(* directories and move between them, on one mounted volume (fs/*.c).      *)
(*                                                                         *)
(* Calls come one after another; a call is a sequence of writes to the     *)
(* disk, each a step with the reads that precede it, and the power may     *)
(* fail between any two.  A cluster is a row of Cells cells of the 32      *)
(* bytes of a directory entry, and so is the data of a file: a cell is an  *)
(* entry or a piece of data, whatever the cluster it lies in is used for.  *)
(* Names are in the 8.3 form that fat32_to_83_filename() gives them.  A    *)
(* directory has one cluster: the driver makes none longer, and one with   *)
(* more differs from it only in the number of its places.                  *)
(***************************************************************************)
EXTENDS Integers, Sequences, SequencesExt, FiniteSetsExt

CONSTANTS
  Cells,         \* cells in a cluster
  LastCluster,          \* the last cluster of the volume
  root_cluster,  \* the BPB's, where the root directory begins
  Names,         \* names of files and directories
  Here,          \* "no directory part", in the path given to a copy
  Marks,         \* what cells of data are told apart by
  Inputs,        \* the data that callers append, sequences of cells
  Sizes          \* sizes, in cells, of the file found on the volume at first

VARIABLES
  fat,                  \* the table, of which the last entry used is LastCluster
  disk,                 \* by cluster and place, its cells
  current_dir_cluster,
  call,                 \* the call under way: its progress and its locals
  suspect,              \* see Misuse
  lost                  \* a call or the power failed with clusters in hand

vars == <<fat, disk, current_dir_cluster, call, suspect, lost>>

Cluster == 2 .. LastCluster
EOC == LastCluster + 1           \* any value from FAT32_EOC up
Row == 0 .. Cells - 1
Place == Cluster \X Row

Dots == {".", ".."}

Cell == [is : {"zero", "deleted", "data", "file", "dir"},
         name : Names \cup Dots \cup Marks \cup {""},
         first : 0 .. LastCluster, size : Nat]
DataCell == [is : {"zero", "data"}, name : Marks \cup {""}, first : {0}, size : {0}]

ASSUME FileSystemAssumption ==
  /\ Cells \in Nat /\ Cells > 2
  /\ LastCluster \in Nat /\ root_cluster \in Cluster
  /\ Names \cap Dots = {} /\ Here \notin Names /\ "old" \in Marks
  /\ Inputs \subseteq Seq(DataCell)
  \* The file that is found on the volume has room there.
  /\ \A s \in Sizes : s \in Nat /\ s <= (LastCluster - root_cluster) * Cells

Zero == [is |-> "zero", name |-> "", first |-> 0, size |-> 0]
Deleted == [Zero EXCEPT !.is = "deleted"]
Piece(x) == [Zero EXCEPT !.is = "data", !.name = x]
Entry(is, n, c, s) == [is |-> is, name |-> n, first |-> c, size |-> s]
Live(e) == e.is \in {"file", "dir"}

CellAt(p) == disk[p[1]][p[2]]
Put(p, e) == [disk EXCEPT ![p[1]][p[2]] = e]

Idle == [pc |-> "idle", data |-> <<>>, done |-> 0, dir |-> 0, name |-> "",
         at |-> <<0, 0>>, first |-> 0, prev |-> 0, cur |-> 0]

-----------------------------------------------------------------------------
\* Chains and directories (fat32_logic.c).

\* fat32_get_next_cluster(), and the clusters that it leads to from c on, up to
\* where a search gives up.
NextCluster(table, c) == IF c \in Cluster THEN table[c] ELSE EOC

ChainIn(table, c) ==
  LET at[i \in 0 .. LastCluster] == IF i = 0 THEN c ELSE NextCluster(table, at[i - 1])
      ends == {i \in 0 .. LastCluster : at[i] \notin Cluster}
  IN [i \in 1 .. Min(ends \cup {LastCluster}) |-> at[i - 1]]

Chain(c) == ChainIn(fat, c)

\* fat32_cluster_to_lba(): numbers below 2 stand for the root directory.
Located(c) == IF c < 2 THEN root_cluster ELSE c

\* fat32_find_free_cluster()
FreeClusters == {c \in Cluster : fat[c] = 0}
FindFree == {c \in FreeClusters : \A b \in FreeClusters : c <= b}

\* fat32_find_entry(): the search ends at the first place never used.
Named(e, n) == Live(e) /\ e.name = n

Find(d, n) ==
  {<<d, i>> : i \in {k \in Row :
     /\ Named(disk[d][k], n)
     /\ \A j \in 0 .. k - 1 : disk[d][j].is # "zero" /\ ~Named(disk[d][j], n)}}

\* The first free place of a directory.
Vacant(e) == e.is \in {"zero", "deleted"}

Slot(d) ==
  {<<d, i>> : i \in {k \in Row :
     Vacant(disk[d][k]) /\ \A j \in 0 .. k - 1 : ~Vacant(disk[d][j])}}

\* What fat32_read_file() puts in the buffer.
Content(e) ==
  LET ch == Chain(e.first)
  IN [i \in 1 .. Min({e.size, Len(ch) * Cells}) |->
        disk[ch[(i - 1) \div Cells + 1]][(i - 1) % Cells]]

ClustersFor(s) == (s + Cells - 1) \div Cells

-----------------------------------------------------------------------------
\* Uses from which the driver does not protect the volume: appending to what
\* has no data (an empty file, a directory) or to a file that a call or the
\* power cut short left with clusters it does not need; removing or renaming
\* directories.
AppendMisused(e) == e.size = 0 \/ Len(Chain(e.first)) > ClustersFor(e.size)
RemoveMisused(e) == e.is = "dir"
RenameMisused(e) == e.name \in Dots

\* Calls begin when none is under way.  Bound: none begins on a volume that is
\* suspect already, about which nothing is claimed.
Begin == call.pc = "idle" /\ ~suspect

Misuse(m) == suspect' = m

\* Where a call stands once the chain from c on is all there is left to free.
Freeing(k, c) == IF c \in Cluster THEN [k EXCEPT !.pc = "free", !.cur = c]
                 ELSE IF k.data = <<>> THEN Idle
                 ELSE [k EXCEPT !.pc = "take"]

\* fat32_delete_file(): the entry goes first, then its chain.
Strike(p, k) ==
  /\ disk' = Put(p, Deleted)
  /\ call' = Freeing(k, CellAt(p).first)
  /\ Misuse(RemoveMisused(CellAt(p)))

DeleteFile(n) ==
  /\ Begin
  /\ \E p \in Find(current_dir_cluster, n) : Strike(p, Idle)
  /\ UNCHANGED <<fat, current_dir_cluster, lost>>

\* Mutant: only the first cluster of the chain is freed.
Mut_FreeNext ==
  /\ call.pc = "free"
  /\ fat' = [fat EXCEPT ![call.cur] = 0]
  /\ call' = Freeing(call, EOC)
  /\ UNCHANGED <<disk, current_dir_cluster, suspect, lost>>

FreeNext ==
  /\ call.pc = "free"
  /\ fat' = [fat EXCEPT ![call.cur] = 0]
  /\ call' = Freeing(call, fat[call.cur])
  /\ UNCHANGED <<disk, current_dir_cluster, suspect, lost>>

-----------------------------------------------------------------------------
\* fat32_copy_file(): read the source, then fat32_write_file().

\* The directory that the path d/name leads to.
TargetDir(d) ==
  IF d = Here THEN {current_dir_cluster}
  ELSE {IF CellAt(p).first = 0 THEN 2 ELSE CellAt(p).first :
          p \in {q \in Find(current_dir_cluster, d) : CellAt(q).is = "dir"}}

\* The entry it replaces: the whole path is looked for in the current
\* directory, where no entry has a name with a bar in it.
Replaced(d, n) == IF d = Here THEN Find(current_dir_cluster, n) ELSE {}

\* A source without data counts as a read error.
Copy(s, d, n) ==
  /\ Begin
  /\ \E p \in Find(current_dir_cluster, s), t \in TargetDir(d) :
       LET k == [Idle EXCEPT !.data = Content(CellAt(p)), !.dir = t, !.name = n]
       IN /\ CellAt(p).size > 0
          /\ IF Replaced(d, n) = {}
             THEN /\ call' = [k EXCEPT !.pc = "take"]
                  /\ UNCHANGED <<disk, suspect>>
             ELSE \E q \in Replaced(d, n) : Strike(q, k)
  /\ UNCHANGED <<fat, current_dir_cluster, lost>>

\* The next cluster is found and linked to the one before.
Take ==
  /\ call.pc = "take"
  /\ \E c \in FindFree :
       /\ fat' = IF call.prev = 0 THEN fat ELSE [fat EXCEPT ![call.prev] = c]
       /\ call' = [call EXCEPT !.pc = "fill", !.cur = c,
                               !.first = IF @ = 0 THEN c ELSE @]
  /\ UNCHANGED <<disk, current_dir_cluster, suspect, lost>>

\* FS_DISK_FULL: the clusters written so far stay marked.
TakeFails ==
  /\ call.pc = "take"
  /\ FreeClusters = {}
  /\ call' = Idle
  /\ lost' = (lost \/ call.first # 0)
  /\ UNCHANGED <<fat, disk, current_dir_cluster, suspect>>

\* A cluster with the data from number done on, and zeros after them.
Filled(data, done) ==
  [i \in Row |->
     IF done + i < Len(data) THEN data[done + i + 1] ELSE Zero]

\* Mutant: a last cluster that is not full counts as full.
Mut_Progress == call.done + Cells

\* How much of the data is written with this cluster.
Progress == Min({call.done + Cells, Len(call.data)})

Fill ==
  /\ call.pc = "fill"
  /\ disk' = [disk EXCEPT ![call.cur] = Filled(call.data, call.done)]
  /\ call' = [call EXCEPT !.pc = "close"]
  /\ UNCHANGED <<fat, current_dir_cluster, suspect, lost>>

\* Mutant: the cluster is not marked as the end of the chain.
Mut_Close ==
  /\ call.pc = "close"
  /\ call' = [call EXCEPT !.pc = IF Progress < Len(call.data) THEN "take"
                                                              ELSE "enter",
                          !.done = Progress, !.prev = call.cur]
  /\ UNCHANGED <<fat, disk, current_dir_cluster, suspect, lost>>

Close ==
  /\ call.pc = "close"
  /\ fat' = [fat EXCEPT ![call.cur] = EOC]
  /\ call' = [call EXCEPT !.pc = IF Progress < Len(call.data) THEN "take"
                                                              ELSE "enter",
                          !.done = Progress, !.prev = call.cur]
  /\ UNCHANGED <<disk, current_dir_cluster, suspect, lost>>

\* The entry, of a file or of a new directory, goes to the first free place.
NewEntry == IF call.data = <<>> THEN Entry("dir", call.name, call.first, 0)
            ELSE Entry("file", call.name, call.first, Len(call.data))

Enter ==
  /\ call.pc = "enter"
  /\ \E p \in Slot(call.dir) : disk' = Put(p, NewEntry)
  /\ call' = Idle
  /\ UNCHANGED <<fat, current_dir_cluster, suspect, lost>>

\* The directory is full, and is not extended: the clusters stay marked.
EnterFails ==
  /\ call.pc = "enter"
  /\ Slot(call.dir) = {}
  /\ call' = Idle
  /\ lost' = TRUE
  /\ UNCHANGED <<fat, disk, current_dir_cluster, suspect>>

-----------------------------------------------------------------------------
\* fat32_append_file()

\* The end of the chain from c on; 0 if an entry on the way is free.
ChainEnd(c) ==
  LET ch == Chain(c)
  IN IF ch = <<>> THEN c
     ELSE IF fat[Last(ch)] = EOC THEN Last(ch) ELSE 0

AppendFile(n, data) ==
  /\ Begin
  /\ \E p \in Find(current_dir_cluster, n) :
       LET e    == CellAt(p)
           pos  == e.size % Cells
           tail == ChainEnd(e.first)
           room == IF pos # 0 \/ e.size = 0 THEN Cells - pos ELSE 0
           done == Min({room, Len(data)})
       IN /\ disk' = [disk EXCEPT ![Located(tail)] =
                        [i \in Row |->
                           IF pos <= i /\ i < pos + done THEN data[i - pos + 1]
                           ELSE @[i]]]
          /\ call' = [Idle EXCEPT !.pc = IF done = Len(data) THEN "commit"
                                                             ELSE "grow",
                                  !.data = data, !.done = done,
                                  !.at = p, !.prev = tail]
          /\ Misuse(AppendMisused(e))
  /\ UNCHANGED <<fat, current_dir_cluster, lost>>

\* The chain is lengthened by a cluster that its own entry still calls free.
Grow ==
  /\ call.pc = "grow"
  /\ \E c \in FindFree :
       /\ fat' = [fat EXCEPT ![call.prev] = c]
       /\ call' = [call EXCEPT !.pc = "mark", !.cur = c]
  /\ UNCHANGED <<disk, current_dir_cluster, suspect, lost>>

\* FS_DISK_FULL: the size is not updated, the new clusters stay in the chain.
GrowFails ==
  /\ call.pc = "grow"
  /\ FreeClusters = {}
  /\ call' = Idle
  /\ UNCHANGED <<fat, disk, current_dir_cluster, suspect, lost>>

\* Mutant: the new end of the chain is not marked.
Mut_Mark ==
  /\ call.pc = "mark"
  /\ call' = [call EXCEPT !.pc = "pour"]
  /\ UNCHANGED <<fat, disk, current_dir_cluster, suspect, lost>>

Mark ==
  /\ call.pc = "mark"
  /\ fat' = [fat EXCEPT ![call.cur] = EOC]
  /\ call' = [call EXCEPT !.pc = "pour"]
  /\ UNCHANGED <<disk, current_dir_cluster, suspect, lost>>

\* Mutant: the data are taken from the beginning again.
Mut_Pour ==
  /\ call.pc = "pour"
  /\ disk' = [disk EXCEPT ![call.cur] = Filled(call.data, 0)]
  /\ call' = [call EXCEPT !.pc = IF Progress < Len(call.data) THEN "grow"
                                                              ELSE "commit",
                          !.done = Progress, !.prev = call.cur]
  /\ UNCHANGED <<fat, current_dir_cluster, suspect, lost>>

Pour ==
  /\ call.pc = "pour"
  /\ disk' = [disk EXCEPT ![call.cur] = Filled(call.data, call.done)]
  /\ call' = [call EXCEPT !.pc = IF Progress < Len(call.data) THEN "grow"
                                                              ELSE "commit",
                          !.done = Progress, !.prev = call.cur]
  /\ UNCHANGED <<fat, current_dir_cluster, suspect, lost>>

Commit ==
  /\ call.pc = "commit"
  /\ disk' = Put(call.at, [CellAt(call.at) EXCEPT !.size = @ + Len(call.data)])
  /\ call' = Idle
  /\ UNCHANGED <<fat, current_dir_cluster, suspect, lost>>

-----------------------------------------------------------------------------
\* Directories: fat32_create_dir(), SYS_CHDIR and fat32_rename().

MakeDir(n) ==
  /\ Begin
  /\ Find(current_dir_cluster, n) = {}
  /\ \E c \in FindFree :
       /\ fat' = [fat EXCEPT ![c] = EOC]
       /\ call' = [Idle EXCEPT !.pc = "dots", !.dir = current_dir_cluster,
                               !.name = n, !.first = c]
  /\ UNCHANGED <<disk, current_dir_cluster, suspect, lost>>

\* Mutant: ".." is given the directory's own cluster.
Mut_ParentOf(d, c) == c

\* The cluster that ".." records for a directory c in d: 0 for the root.
ParentOf(d, c) == IF d = 2 THEN 0 ELSE d

WriteDots ==
  /\ call.pc = "dots"
  /\ disk' = [disk EXCEPT ![call.first] =
                [i \in Row |->
                   CASE i = 0 -> Entry("dir", ".", call.first, 0)
                     [] i = 1 -> Entry("dir", "..",
                                       ParentOf(call.dir, call.first), 0)
                     [] OTHER -> Zero]]
  /\ call' = [call EXCEPT !.pc = "enter"]
  /\ UNCHANGED <<fat, current_dir_cluster, suspect, lost>>

\* kmalloc() has no memory: the cluster stays marked.
DotsFail ==
  /\ call.pc = "dots"
  /\ call' = Idle
  /\ lost' = TRUE
  /\ UNCHANGED <<fat, disk, current_dir_cluster, suspect>>

ChangeDir(n) ==
  /\ Begin
  /\ \E p \in Find(current_dir_cluster, n) :
       /\ CellAt(p).is = "dir"
       /\ current_dir_cluster' = IF CellAt(p).first = 0 THEN 2
                                 ELSE CellAt(p).first
  /\ UNCHANGED <<fat, disk, call, suspect, lost>>

Rename(o, n) ==
  /\ Begin
  /\ Find(current_dir_cluster, n) = {}
  /\ \E p \in Find(current_dir_cluster, o) :
       /\ disk' = Put(p, [CellAt(p) EXCEPT !.name = n])
       /\ Misuse(RenameMisused(CellAt(p)))
  /\ UNCHANGED <<fat, current_dir_cluster, call, lost>>

-----------------------------------------------------------------------------
\* The power fails, or task and all are killed; the volume is mounted again.
\* An append that has linked a cluster and not yet marked it leaves a chain
\* that ends in a free cluster.
Crash ==
  /\ call' = Idle
  /\ current_dir_cluster' = root_cluster
  /\ suspect' = (suspect \/ call.pc = "mark")
  /\ lost' = (lost \/ call.pc # "idle")
  /\ UNCHANGED <<fat, disk>>

\* A volume made elsewhere, with one file in its root directory.
Init ==
  /\ \E n \in Names, s \in Sizes :
       LET own == root_cluster + 1 .. root_cluster + ClustersFor(s)
       IN /\ fat = [c \in 0 .. LastCluster |->
                      CASE c \in own -> IF c + 1 \in own THEN c + 1 ELSE EOC
                        [] c < 2 \/ c = root_cluster -> EOC
                        [] OTHER -> 0]
          /\ disk = [c \in Cluster |-> [i \in Row |->
                       IF c = root_cluster /\ i = 0
                       THEN Entry("file", n,
                                  IF s = 0 THEN 0 ELSE root_cluster + 1, s)
                       ELSE IF c \in own THEN Piece("old") ELSE Zero]]
  /\ current_dir_cluster = root_cluster
  /\ call = Idle
  /\ suspect = FALSE
  /\ lost = FALSE

CopyStep == Take \/ TakeFails \/ Fill \/ Close
AppendStep == Grow \/ GrowFails \/ Mark \/ Pour \/ Commit
MakeDirStep == WriteDots \/ DotsFail
EnterStep == Enter \/ EnterFails

Next ==
  \/ \E n \in Names \cup Dots : DeleteFile(n) \/ ChangeDir(n)
  \/ \E n \in Names \cup Dots, data \in Inputs : AppendFile(n, data)
  \/ \E s, n \in Names, d \in Names \cup Dots \cup {Here} : Copy(s, d, n)
  \/ \E n \in Names : MakeDir(n)
  \/ \E o \in Names \cup Dots, n \in Names : Rename(o, n)
  \/ FreeNext \/ CopyStep \/ AppendStep \/ MakeDirStep \/ EnterStep
  \/ Crash

Spec == Init /\ [][Next]_vars
-----------------------------------------------------------------------------
\* What the volume holds: the entries of files and directories (nothing but a
\* directory looks like one before the volume is suspect) and the directories.
Entries == {p \in Place : Live(CellAt(p)) /\ CellAt(p).name \notin Dots}
DirEntries == {p \in Entries : CellAt(p).is = "dir"}
Directories == {root_cluster} \cup {CellAt(p).first : p \in DirEntries}
ChainOf(p) == Chain(CellAt(p).first)

Call == [pc : {"idle", "free", "take", "fill", "close", "enter", "grow",
               "mark", "pour", "commit", "dots"},
         data : Seq(DataCell),
         done : Nat, dir : Cluster \cup {0}, name : Names \cup {""},
         at : Place \cup {<<0, 0>>}, first : 0 .. LastCluster,
         prev : 0 .. LastCluster, cur : 0 .. LastCluster]

TypeOK ==
  /\ fat \in [0 .. LastCluster -> 0 .. EOC]
  /\ disk \in [Cluster -> [Row -> Cell]]
  /\ current_dir_cluster \in Cluster
  /\ call \in Call /\ call.done <= Len(call.data)
  /\ suspect \in BOOLEAN /\ lost \in BOOLEAN

\* After every write, so that the power may fail then: no cluster belongs to
\* two files or directories, or to one of them twice.
NoCrossLink ==
  ~suspect =>
    \A p \in Entries :
      /\ IsInjective(ChainOf(p))
      /\ root_cluster \notin ToSet(ChainOf(p))
      /\ \A q \in Entries \ {p} : ToSet(ChainOf(p)) \cap ToSet(ChainOf(q)) = {}

\* After every write, the chain of a file or directory ends as such and is as
\* long as its size needs.  The one exception is the file being appended to
\* while the end of its chain is not yet marked.
ChainsWhole ==
  ~suspect =>
    \A p \in Entries \ (IF call.pc = "mark" THEN {call.at} ELSE {}) :
      /\ Len(ChainOf(p)) >= ClustersFor(CellAt(p).size)
      /\ ChainOf(p) # <<>> => fat[Last(ChainOf(p))] = EOC
      /\ CellAt(p).is = "dir" => ChainOf(p) # <<>>

\* Until a call or the power fails with clusters in hand, each cluster marked
\* in the table belongs to a file, a directory or the call under way.
InHand == ToSet(Chain(call.first)) \cup ToSet(Chain(call.cur)) \cup {call.cur}

NoLeak ==
  ~suspect /\ ~lost =>
    \A c \in Cluster :
      fat[c] # 0 => \/ c \in {root_cluster} \cup InHand
                    \/ \E p \in Entries : c \in ToSet(ChainOf(p))

\* The directories form a tree that can be walked both ways: an entry lies in a
\* directory that the tree has, and "." and ".." of the one it stands for lead to
\* that one and to the one that holds the entry.  The current directory, which
\* all programs share, is one of them.
TreeSound ==
  ~suspect =>
    /\ current_dir_cluster \in Directories
    /\ \A p \in Entries : p[1] \in Directories
    /\ \A p \in DirEntries :
         LET c == CellAt(p).first
         IN /\ \E q \in Find(c, ".") : CellAt(q).first = c
            /\ \E q \in Find(c, "..") :
                 p[1] = IF CellAt(q).first = 0 THEN 2 ELSE CellAt(q).first

\* What the disk looks like between any two writes: see its parts.
DiskSound == TypeOK /\ NoCrossLink /\ ChainsWhole /\ NoLeak /\ TreeSound

\* What callers are promised of their files.
Files == {[place |-> p, name |-> CellAt(p).name, data |-> Content(CellAt(p))] :
            p \in Entries \ DirEntries}

S == INSTANCE FileStore WITH files <- Files, buffer <- call.data

StoreSpec == S!Spec
\* "Adiciona conteudo ao final de um arquivo existente" (fat32_file.h:70): when
\* an append returns FS_SUCCESS the file has at its end what was appended.
AppendsAtEnd ==
  [][Commit => \E f \in Files :
                 /\ f.place = call.at
                 /\ [f EXCEPT !.data = @ \o call.data] \in Files']_vars
=============================================================================
