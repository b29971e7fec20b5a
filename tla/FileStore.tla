----------------------------- MODULE FileStore -----------------------------
(***************************************************************************)
(* What the FAT32 driver promises of its files, whatever happens to FAT    *)
(* and clusters below: a file appears with the whole of the data that were *)
(* read from another, grows only at its end and by the whole of what was   *)
(* appended, changes its name without changing its data, and disappears;   *)
(* and no operation touches a second file.                                 *)
(***************************************************************************)
EXTENDS Sequences

CONSTANTS Inputs   \* the data that callers append

VARIABLES
  files,   \* the files, each with its place, its name and its data
  buffer,  \* the data that a call has in hand, <<>> if none
  suspect  \* the volume has been used in a way that voids the promise

vars == <<files, buffer, suspect>>

\* The operations, by the files that are gone after them and those that are
\* new: a copy is begun (and the file that it replaces removed), an append is
\* begun, a copy or an append is completed, a file is removed or renamed, a
\* call fails or the machine stops.
BeginCopy(gone, new) ==
  /\ new = {} /\ (gone = {} \/ \E f \in gone : gone = {f})
  /\ \E f \in files : buffer' = f.data

BeginAppend(gone, new) == new = {} /\ gone = {} /\ buffer' \in Inputs

Create(gone, new) ==
  /\ gone = {} /\ \E f \in new : new = {f} /\ f.data = buffer
  /\ buffer' = <<>>

Extend(gone, new) ==
  /\ \E f \in gone : gone = {f} /\ new = {[f EXCEPT !.data = @ \o buffer]}
  /\ buffer' = <<>>

Remove(gone, new) ==
  /\ new = {} /\ \E f \in gone : gone = {f}
  /\ UNCHANGED buffer

Rename(gone, new) ==
  /\ \E f \in gone, g \in new :
       gone = {f} /\ new = {g} /\ g = [f EXCEPT !.name = g.name]
  /\ UNCHANGED buffer

GiveUp(gone, new) == gone = {} /\ new = {} /\ buffer' = <<>>

Step(gone, new) ==
  \/ BeginCopy(gone, new) \/ BeginAppend(gone, new)
  \/ Create(gone, new) \/ Extend(gone, new)
  \/ Remove(gone, new) \/ Rename(gone, new) \/ GiveUp(gone, new)

Init == buffer = <<>> /\ ~suspect

Next == \/ suspect'
        \/ /\ ~suspect'
           /\ \E old \in {files}, now \in {files'} : Step(old \ now, now \ old)

Spec == Init /\ [][Next]_vars
=============================================================================
