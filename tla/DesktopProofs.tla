--------------------------- MODULE DesktopProofs ---------------------------
(***************************************************************************)
(* For any number of slots and any programs: type correctness, and that    *)
(* the Explorer's records agree, the stack and the focus in StackSound,    *)
(* the focus and the drag in DragHasFocus; and that the slots are sound as *)
(* long as registrations stand alone.                                      *)
(***************************************************************************)
EXTENDS Desktop, TLAPS

LEMMA TopIsSlot == Top \in Slot /\ 0 \in Slot
BY DesktopAssumption DEF Slot, Top

\* A step of the program p changes its own record, or the one of its prey.
LEMMA ProgramType ==
  ASSUME TypeOK, NEW p \in Pids, Register(p) \/ Work(p) \/ Start(p)
  PROVE  program' \in [Pids -> Program]
<1> USE DEF TypeOK
<1>1. Outside \in Program /\ Ended \in Program
  BY TopIsSlot DEF Outside, Ended, Program
<1>2. program[p] \in Program /\ Mine(p) \in Slot
  BY DEF Mine, Program
<1>3. ASSUME NEW pc \in {"look", "take", "frame", "stamp", "loop", "poll",
                         "done", "seek", "unmark", "kill", "close"},
             Now(p, pc)
      PROVE  program' \in [Pids -> Program]
  <2>1. [program[p] EXCEPT !.pc = pc] \in Program
    BY <1>2 DEF Program
  <2>2. QED
    BY <2>1, <1>3 DEF Now
<1>4. CASE Gone(p)
  BY <1>1, <1>4 DEF Gone
<1>5. CASE Start(p)
  BY <1>3, <1>5 DEF Start
<1>6. CASE Look(p)
  <2>1. CASE program' = [program EXCEPT ![p].slot = @ + 1] /\ Mine(p) < Top
    <3>1. Mine(p) + 1 \in Slot
      BY <1>2, <2>1, DesktopAssumption DEF Slot, Top
    <3>2. [program[p] EXCEPT !.slot = @ + 1] \in Program
      BY <3>1, <1>2 DEF Program, Mine
    <3>3. QED
      BY <2>1, <3>2
  <2>2. QED
    BY <1>6, <2>1, <1>3, <1>4 DEF Look
<1>7. CASE Take(p) \/ Frame(p) \/ Stamp(p) \/ Loop(p) \/ Done(p) \/ Unmark(p)
  BY <1>7, <1>3 DEF Take, Frame, Stamp, Loop, Done, Unmark
<1>8. CASE Poll(p)
  <2>1. ASSUME NEW q \in Pids,
               program' = [program EXCEPT ![p].pc = "seek", ![p].prey = q]
        PROVE  program' \in [Pids -> Program]
    <3>1. [program[p] EXCEPT !.pc = "seek", !.prey = q] \in Program
      BY <1>2 DEF Program
    <3>2. program' = [program EXCEPT
            ![p] = [program[p] EXCEPT !.pc = "seek", !.prey = q]]
      BY <2>1, <1>2 DEF Program
    <3>3. QED
      BY <3>1, <3>2
  <2>2. QED
    BY <1>8, <2>1, <1>3 DEF Poll
<1>9. CASE Seek(p)
  <2>1. CASE program' = [program EXCEPT ![p].i = @ + 1] /\ program[p].i < Top
    <3>1. program[p].i + 1 \in Slot
      BY <1>2, <2>1, DesktopAssumption DEF Slot, Top, Program
    <3>2. [program[p] EXCEPT !.i = @ + 1] \in Program
      BY <3>1, <1>2 DEF Program
    <3>3. QED
      BY <2>1, <3>2
  <2>2. QED
    BY <1>9, <2>1, <1>3 DEF Seek
<1>10. CASE Kill(p)
  <2>1. [program[p] EXCEPT !.pc = "done", !.i = 0, !.prey = 0] \in Program
    BY <1>2, TopIsSlot DEF Program
  <2>2. QED
    BY <1>1, <2>1, <1>10 DEF Kill
<1>11. CASE Close(p)
  BY <1>11, <1>4 DEF Close
<1>12. QED
  BY <1>5, <1>6, <1>7, <1>8, <1>9, <1>10, <1>11 DEF Register, Work

\* The slots after a step of a program.
LEMMA SlotsType ==
  ASSUME TypeOK, NEW p \in Pids, Register(p) \/ Work(p) \/ Start(p)
  PROVE  /\ is_active' \in [Slot -> BOOLEAN] /\ pid' \in [Slot -> Pids \cup {0}]
         /\ has_click_event' \in [Slot -> BOOLEAN]
         /\ framed' \in [Slot -> BOOLEAN]
<1> USE DEF TypeOK, slots
<1>1. Mine(p) \in Slot /\ program[p].i \in Slot
  BY DEF Mine, Program
<1>2. CASE \/ Start(p) \/ Look(p) \/ Loop(p) \/ Poll(p) \/ Seek(p) \/ Kill(p)
  BY <1>2 DEF Start, Look, Loop, Poll, Seek, Kill
<1>3. CASE Take(p) \/ Unmark(p) \/ Close(p)
  BY <1>1, <1>3 DEF Take, Unmark, Close
<1>4. CASE Frame(p) \/ Done(p)
  BY <1>1, <1>4 DEF Frame, Done
<1>5. CASE Stamp(p)
  BY <1>1, <1>5 DEF Stamp
<1>6. QED
  BY <1>2, <1>3, <1>4, <1>5 DEF Register, Work

\* A program leaves the Explorer's variables alone.
LEMMA ProgramApart ==
  ASSUME NEW p \in Pids, Register(p) \/ Work(p) \/ Start(p)
  PROVE  UNCHANGED <<own, explorer>>
BY DEF Register, Work, Start, Look, Take, Frame, Stamp, Loop, Poll, Done,
       Seek, Unmark, Kill, Close, Apart

-----------------------------------------------------------------------------
\* bring_to_front() moves the window to the end of the stack and gives every
\* other one a place of its own.
LEMMA BringToFrontSound ==
  ASSUME z_stack \in [Slot -> Slot], NEW k \in Slot,
         \A i, j \in Slot : z_stack[i] = z_stack[j] => i = j
  PROVE  /\ BringToFront(z_stack[k]) \in [Slot -> Slot]
         /\ BringToFront(z_stack[k])[Top] = z_stack[k]
         /\ \A i, j \in Slot :
              BringToFront(z_stack[k])[i] = BringToFront(z_stack[k])[j] => i = j
<1> DEFINE s == z_stack[k]
           z == BringToFront(s)
<1>1. Position(s) = k
  BY DEF Position
<1>2. z = [i \in Slot |-> IF i < k THEN z_stack[i]
                          ELSE IF i < Top THEN z_stack[i + 1] ELSE s]
  BY <1>1 DEF BringToFront
<1> HIDE DEF z
<1>3. \A i \in Slot : i < Top => i + 1 \in Slot
  BY DesktopAssumption DEF Slot, Top
<1>4. z \in [Slot -> Slot]
  BY <1>2, <1>3
<1>5. z[Top] = s
  BY <1>2, TopIsSlot, DesktopAssumption DEF Slot, Top
<1>6. ASSUME NEW i \in Slot, NEW j \in Slot, z[i] = z[j]
      PROVE  i = j
  <2> DEFINE at(n) == IF n < k THEN n ELSE IF n < Top THEN n + 1 ELSE k
  <2>1. \A n \in Slot : at(n) \in Slot /\ z[n] = z_stack[at(n)]
    BY <1>2, <1>3
  <2>2. at(i) = at(j)
    BY <2>1, <1>6
  <2>3. QED
    BY <2>2, DesktopAssumption DEF Slot, Top
<1>7. QED
  BY <1>4, <1>5, <1>6 DEF z

\* The invariant: a hit test runs only for a press, with no drag under way.
Pressed == explorer.pc = "hit" => was_clicked /\ dragging_slot = -1

Inv == TypeOK /\ StackSound /\ DragHasFocus /\ Pressed

\* Initially.
LEMMA InitInv == Init => Inv
<1> SUFFICES ASSUME Init PROVE Inv
  OBVIOUS
<1> USE DEF Init
<1>1. TypeOK
  BY TopIsSlot DEF TypeOK, Outside, Program
<1>2. StackSound
  BY DEF StackSound
<1>3. DragHasFocus /\ Pressed
  BY DEF DragHasFocus, Pressed
<1>4. QED
  BY <1>1, <1>2, <1>3 DEF Inv

\* Where the Explorer goes on after a slot.
LEMMA PastType ==
  ASSUME NEW i \in Slot, Past(i)
  PROVE  \E j \in Slot, pc \in {"collect", "input"} :
           explorer' = [pc |-> pc, i |-> j]
<1>1. i < Top => i + 1 \in Slot
  BY DesktopAssumption DEF Slot, Top
<1>2. QED
  BY <1>1, TopIsSlot DEF Past, Go

\* Every step of the Explorer leads to a place that it has.
LEMMA ExplorerType ==
  ASSUME TypeOK, ExplorerStep
  PROVE  /\ explorer' \in [pc : {"collect", "forget", "unstamp", "unframe",
                                 "input", "hit", "shut", "click", "compose"},
                           i : Slot]
         /\ explorer'.pc = "hit" => Press \/ Miss
<1>1. explorer.i \in Slot /\ z_stack[explorer.i] \in Slot
  BY DEF TypeOK
<1>2. CASE Collect \/ Unframe
  BY <1>1, <1>2, PastType DEF Collect, Unframe, Go
<1>3. CASE Miss
  <2>1. explorer.i > 0 => explorer.i - 1 \in Slot
    BY <1>1, DesktopAssumption DEF Slot
  <2>2. QED
    BY <1>3, <2>1, TopIsSlot DEF Miss, Go
<1>4. CASE Press
  BY <1>4, TopIsSlot DEF Press, Go
<1>5. CASE Hit
  BY <1>1, <1>5, TopIsSlot DEF Hit, Go
<1>6. CASE \/ Forget \/ Unstamp \/ Release \/ Shut \/ Click \/ Compose
  BY <1>1, <1>6, TopIsSlot
     DEF Forget, Unstamp, Release, Shut, Click, Compose, Go
<1>7. CASE Hold
  <2>1. \/ active_focus_slot \in Slot /\ Go("click", active_focus_slot)
        \/ Go("compose", 0)
    BY <1>7 DEF Hold, TypeOK
  <2>2. QED
    BY <1>1, <2>1, TopIsSlot DEF Go
<1>8. QED
  BY <1>2, <1>3, <1>4, <1>5, <1>6, <1>7 DEF ExplorerStep

\* The slots after a step of the Explorer.
LEMMA CollectedType ==
  ASSUME TypeOK, ExplorerStep
  PROVE  /\ is_active' \in [Slot -> BOOLEAN] /\ pid' \in [Slot -> Pids \cup {0}]
         /\ has_click_event' \in [Slot -> BOOLEAN]
         /\ framed' \in [Slot -> BOOLEAN]
         /\ program' \in [Pids -> Program]
<1> USE DEF TypeOK, slots, Alone
<1>1. CASE Collect \/ Forget \/ Release \/ Press \/ Hold \/ Miss \/ Hit \/ Compose
  BY <1>1 DEF Collect, Forget, Release, Press, Hold, Miss, Hit, Compose
<1>2. CASE Unstamp \/ Unframe
  BY <1>2 DEF Unstamp, Unframe
<1>3. CASE Shut \/ Click
  BY <1>3 DEF Shut, Click
<1>4. QED
  BY <1>1, <1>2, <1>3 DEF ExplorerStep

\* The records of the Explorer agree after each of its steps.
LEMMA RecordsAgree ==
  ASSUME Inv, ExplorerStep
  PROVE  /\ active_focus_slot' \in Slot \cup {-1}
         /\ z_stack' \in [Slot -> Slot]
         /\ dragging_slot' \in Slot \cup {-1} /\ was_clicked' \in BOOLEAN
         /\ StackSound' /\ DragHasFocus' /\ Pressed'
<1> USE DEF Inv, TypeOK
<1>1. CASE Collect \/ Unstamp \/ Unframe \/ Hold \/ Shut \/ Click \/ Compose
  <2>1. UNCHANGED own
    BY <1>1 DEF Collect, Unstamp, Unframe, Hold, Shut, Click, Compose
  <2>2. explorer'.pc # "hit"
    BY <1>1, ExplorerType
       DEF Collect, Unstamp, Unframe, Hold, Shut, Click, Compose, Press, Miss, In
  <2>3. QED
    BY <2>1, <2>2 DEF own, StackSound, DragHasFocus, Pressed
<1>2. CASE Forget
  <2>1. explorer'.pc # "hit" /\ was_clicked' = was_clicked /\ z_stack' = z_stack
    BY <1>2 DEF Forget, Go
  <2>2. \/ active_focus_slot' = -1
        \/ active_focus_slot' = active_focus_slot
    BY <1>2 DEF Forget
  <2>3. \/ dragging_slot' = -1
        \/ dragging_slot' = dragging_slot /\ active_focus_slot' = active_focus_slot
    BY <1>2 DEF Forget, DragHasFocus
  <2>4. QED
    BY <2>1, <2>2, <2>3 DEF StackSound, DragHasFocus, Pressed
<1>3. CASE Release
  BY <1>3 DEF Release, Go, StackSound, DragHasFocus, Pressed
<1>4. CASE Press
  BY <1>4 DEF Press, Go, StackSound, DragHasFocus, Pressed
<1>5. CASE Miss
  BY <1>5 DEF Miss, In, Go, own, StackSound, DragHasFocus, Pressed
<1>6. CASE Hit
  <2> DEFINE s == z_stack[explorer.i]
  <2>1. s \in Slot /\ active_focus_slot' = s /\ z_stack' = Raised(s)
    BY <1>6 DEF Hit
  <2>2. was_clicked' /\ dragging_slot' \in {-1, s} /\ explorer'.pc # "hit"
    BY <1>6 DEF Hit, In, Go, Pressed
  <2>3. CASE active_focus_slot = s
    BY <2>1, <2>2, <2>3 DEF Raised, StackSound, DragHasFocus, Pressed
  <2>4. CASE active_focus_slot # s
    <3>1. z_stack' = BringToFront(s)
      BY <2>1, <2>4 DEF Raised
    <3>2. explorer.i \in Slot
      OBVIOUS
    <3>3. /\ z_stack' \in [Slot -> Slot] /\ z_stack'[Top] = s
          /\ \A i, j \in Slot : z_stack'[i] = z_stack'[j] => i = j
      BY <3>1, <3>2, BringToFrontSound DEF StackSound
    <3>4. QED
      BY <2>1, <2>2, <3>3 DEF StackSound, DragHasFocus, Pressed
  <2>5. QED
    BY <2>3, <2>4
<1>7. QED
  BY <1>1, <1>2, <1>3, <1>4, <1>5, <1>6 DEF ExplorerStep

\* Every step keeps the invariant.
LEMMA NextInv == Inv /\ [Next]_vars => Inv'
<1> SUFFICES ASSUME Inv, [Next]_vars PROVE Inv'
  OBVIOUS
<1>1. CASE Next
  <2>1. disturbed' \in BOOLEAN
    <3>1. Disturbance' \in BOOLEAN
      BY DEF Disturbance, Closing
    <3>2. QED
      BY <1>1, <3>1 DEF Next, Inv, TypeOK
  <2>2. CASE ExplorerStep
    BY <2>1, <2>2, ExplorerType, CollectedType, RecordsAgree DEF Inv, TypeOK
  <2>3. ASSUME NEW p \in Pids, Start(p) \/ Register(p) \/ Work(p)
        PROVE  Inv'
    <3>1. UNCHANGED <<own, explorer>>
      BY <2>3, ProgramApart
    <3>2. TypeOK'
      BY <2>1, <2>3, <3>1, ProgramType, SlotsType DEF Inv, TypeOK, own
    <3>3. QED
      BY <3>1, <3>2 DEF own, Inv, StackSound, DragHasFocus, Pressed
  <2>4. QED
    BY <1>1, <2>2, <2>3 DEF Next, Step
<1>2. CASE UNCHANGED vars
  BY <1>2 DEF vars, slots, own, Inv, TypeOK, StackSound, DragHasFocus, Pressed
<1>3. QED
  BY <1>1, <1>2

-----------------------------------------------------------------------------
LEMMA InvHolds == Spec => []Inv
BY InitInv, NextInv, PTL DEF Spec

\* The state of the windows, of the Explorer and of the programs is always well
\* formed, whatever the number of slots and programs.
THEOREM DesktopTypes == Spec => []TypeOK
<1>1. Inv => TypeOK
  BY DEF Inv
<1>2. QED
  BY <1>1, InvHolds, PTL

\* bring_to_front() keeps the stack a permutation through every sequence of
\* clicks, and the window that has the focus is in front.
THEOREM FocusIsInFront == Spec => []StackSound
<1>1. Inv => StackSound
  BY DEF Inv
<1>2. QED
  BY <1>1, InvHolds, PTL

\* main() never moves a window that has lost the focus or whose slot has been
\* collected.
THEOREM DragIsCurrent == Spec => []DragHasFocus
<1>1. Inv => DragHasFocus
  BY DEF Inv
<1>2. QED
  BY <1>1, InvHolds, PTL

\* Everything that clicks, drags, closings and collections keep, together.
THEOREM FrontStaysSound == Spec => []FrontSound
<1>1. Inv => FrontSound
  BY DEF Inv, FrontSound
<1>2. QED
  BY <1>1, InvHolds, PTL
-----------------------------------------------------------------------------
\* No two programs that have taken a slot, or are about to, have the same.
OneSlot ==
  \A p, q \in Pids : Running(p) /\ Running(q) /\ p # q => Mine(p) # Mine(q)

\* The slot of an open window bears the program's pid and its buffers; until
\* it is stamped it bears no pid, but has its buffers already.
Stamped ==
  \A p \in Pids :
    /\ Windowed(p) /\ is_active[Mine(p)] => pid[Mine(p)] = p /\ framed[Mine(p)]
    /\ program[p].pc \in {"take", "frame", "stamp"} => pid[Mine(p)] = 0
    /\ At(p, "stamp") => framed[Mine(p)]

\* An open window has a program.
Owned == \A i \in Slot : is_active[i] => \E p \in Pids : Running(p) /\ Mine(p) = i

\* A slot that is being collected stays closed.
Collecting ==
  explorer.pc \in {"forget", "unstamp", "unframe"} => ~is_active[explorer.i]

\* What the task manager knows of its prey's window: it is not among the slots
\* that it has seen; it is the one that it found; it is closed.
Hunting(m) ==
  LET q == program[m].prey
      open == Windowed(q) /\ is_active[Mine(q)]
  IN /\ program[m].pc \in {"seek", "unmark", "kill"} => m \in Managers /\ q \in Pids
     /\ program[m].pc \notin {"seek", "unmark", "kill"} => program[m].i = 0
     /\ At(m, "seek") => (open => Mine(q) >= program[m].i)
     /\ At(m, "unmark") => (open => Mine(q) = program[m].i)
     /\ At(m, "kill") => ~open

SlotsInv ==
  ~disturbed => /\ ~Disturbance /\ OneSlot /\ Stamped /\ Owned /\ Collecting
                /\ \A m \in Pids : Hunting(m)

\* While a program registers and nothing disturbs it, no window is on its way
\* out, no other program registers, and no task manager is after it.
LEMMA Undisturbed ==
  ASSUME ~Disturbance, NEW p \in Pids, Registering(p)
  PROVE  /\ \A q \in Pids : Windowed(q) => is_active[Mine(q)]
         /\ \A i \in Slot : is_active[i] \/ pid[i] = 0
         /\ explorer.pc \notin {"forget", "unstamp", "unframe"}
         /\ \A q \in Pids : Registering(q) => q = p
         /\ \A m \in Managers : program[m].prey # p
  BY DEF Disturbance, Closing, Closed

Calm == TypeOK /\ ~Disturbance /\ OneSlot /\ Stamped /\ Owned /\ Collecting
          /\ \A m \in Pids : Hunting(m)

Kept == OneSlot' /\ Stamped' /\ Owned' /\ Collecting' /\ \A m \in Pids : Hunting(m)'

\* What a program does when only its place in the code changes.
LEMMA Moved ==
  ASSUME TypeOK, NEW p \in Pids, NEW pc, Now(p, pc)
  PROVE  /\ program'[p].pc = pc /\ program'[p].slot = program[p].slot
         /\ program'[p].i = program[p].i /\ program'[p].prey = program[p].prey
  BY DEF TypeOK, Now, Program

\* A step of a program that registers.
LEMMA RegisterKeeps ==
  ASSUME Calm, NEW p \in Pids, Register(p) \/ Start(p), ~Disturbance'
  PROVE  Kept
<1> USE DEF Calm
<1>a. \A q \in Pids : program[q] \in Program /\ Mine(q) \in Slot
  BY DEF TypeOK, Mine, Program
<1>b. \A q \in Pids : q # p => program'[q] = program[q]
  BY DEF Register, Start, Look, Take, Frame, Stamp, Now, Gone, TypeOK
<1>c. explorer' = explorer
  BY ProgramApart DEF Register, Start
<1>1. CASE Start(p)
  <2>1. /\ program'[p].pc = "look" /\ At(p, "none")
        /\ program'[p].i = program[p].i /\ program'[p].prey = program[p].prey
    BY <1>1, <1>a, Moved DEF Start, At, Program
  <2>2. UNCHANGED slots
    BY <1>1 DEF Start
  <2>3. QED
    BY <2>1, <2>2, <1>a, <1>b, <1>c
       DEF slots, Kept, OneSlot, Stamped, Owned, Collecting, Hunting, Running, Windowed, Mine, At
<1>d. Register(p) => Registering(p)
  BY DEF Register, Registering, Look, Take, Frame, Stamp, At
<1>2. CASE Look(p)
  <2>1. At(p, "look") /\ UNCHANGED slots
    BY <1>2 DEF Look
  <2>2. Registering(p)
    BY <2>1 DEF Registering, At
  <2>3. CASE ~is_active[Mine(p)] /\ Now(p, "take")
    <3>1. /\ program'[p].pc = "take" /\ program'[p].slot = program[p].slot
          /\ program'[p].i = program[p].i /\ program'[p].prey = program[p].prey
      BY <2>3, Moved
    <3>2. \A q \in Pids : q # p /\ Running(q) => is_active[Mine(q)]
      BY <2>2, Undisturbed DEF Running, Windowed, Registering
    <3>3. QED
      BY <2>1, <2>2, <2>3, <3>1, <3>2, <1>a, <1>b, <1>c, Undisturbed
         DEF slots, Kept, OneSlot, Stamped, Owned, Collecting, Hunting, Running, Windowed, Mine, At
  <2>4. CASE Mine(p) < Top /\ program' = [program EXCEPT ![p].slot = @ + 1]
    <3>1. /\ program'[p].pc = "look"
          /\ program'[p].i = program[p].i /\ program'[p].prey = program[p].prey
      BY <2>1, <2>4, <1>a DEF TypeOK, At, Program
    <3>2. QED
      BY <2>1, <3>1, <1>a, <1>b, <1>c
         DEF slots, Kept, OneSlot, Stamped, Owned, Collecting, Hunting, Running, Windowed, Mine, At
  <2>5. CASE Gone(p)
    <3>1. program'[p] = Ended /\ Ended.pc = "gone" /\ Ended.i = 0
      BY <2>5 DEF Gone, TypeOK, Ended, Outside
    <3>2. QED
      BY <2>1, <3>1, <1>a, <1>b, <1>c
         DEF slots, Kept, OneSlot, Stamped, Owned, Collecting, Hunting, Running, Windowed, Mine, At
  <2>6. QED
    BY <1>2, <2>3, <2>4, <2>5 DEF Look
<1>3. CASE Take(p)
  <2>1. /\ At(p, "take")
        /\ program'[p].pc = "frame" /\ program'[p].slot = program[p].slot
        /\ program'[p].i = program[p].i /\ program'[p].prey = program[p].prey
        /\ is_active' = [is_active EXCEPT ![Mine(p)] = TRUE]
        /\ UNCHANGED <<pid, has_click_event, framed>>
    BY <1>3, Moved DEF Take
  <2>2. Registering(p)
    BY <2>1 DEF Registering, At
  <2>3. /\ \A i \in Slot : i # Mine(p) => is_active'[i] = is_active[i]
        /\ is_active'[Mine(p)]
    BY <2>1, <1>a DEF TypeOK
  <2>4. QED
    BY <2>1, <2>2, <2>3, <1>a, <1>b, <1>c, Undisturbed
       DEF slots, Kept, OneSlot, Stamped, Owned, Collecting, Hunting, Running, Windowed, Mine, At
<1>4. CASE Frame(p)
  <2>1. /\ At(p, "frame")
        /\ program'[p].pc = "stamp" /\ program'[p].slot = program[p].slot
        /\ program'[p].i = program[p].i /\ program'[p].prey = program[p].prey
        /\ framed' = [framed EXCEPT ![Mine(p)] = TRUE]
        /\ UNCHANGED <<is_active, pid>>
    BY <1>4, Moved DEF Frame
  <2>2. \A i \in Slot : framed[i] => framed'[i]
    BY <2>1 DEF TypeOK
  <2>3. framed'[Mine(p)]
    BY <2>1, <1>a DEF TypeOK
  <2>4. QED
    BY <2>1, <2>2, <2>3, <1>a, <1>b, <1>c
       DEF slots, Kept, OneSlot, Stamped, Owned, Collecting, Hunting, Running, Windowed, Mine, At
<1>5. CASE Stamp(p)
  <2>1. /\ At(p, "stamp")
        /\ program'[p].pc = "loop" /\ program'[p].slot = program[p].slot
        /\ program'[p].i = program[p].i /\ program'[p].prey = program[p].prey
        /\ pid' = [pid EXCEPT ![Mine(p)] = p]
        /\ UNCHANGED <<is_active, framed>>
    BY <1>5, Moved DEF Stamp
  <2>2. Registering(p)
    BY <2>1 DEF Registering, At
  <2>3. /\ \A i \in Slot : i # Mine(p) => pid'[i] = pid[i]
        /\ pid'[Mine(p)] = p
    BY <2>1, <1>a DEF TypeOK
  <2>4. \A m \in Pids : program[m].pc \in {"seek", "unmark", "kill"} =>
          m \in Managers /\ program[m].prey # p
    BY <2>2, Undisturbed DEF Hunting
  <2>5. QED
    BY <2>1, <2>3, <2>4, <1>a, <1>b, <1>c
       DEF slots, Kept, OneSlot, Stamped, Owned, Collecting, Hunting, Running, Windowed, Mine, At
<1>6. QED
  BY <1>1, <1>2, <1>3, <1>4, <1>5 DEF Register

\* A step of a program that has a window.
LEMMA WorkKeeps ==
  ASSUME Calm, NEW p \in Pids, Work(p), ~Disturbance'
  PROVE  Kept
<1> USE DEF Calm
<1>a. \A q \in Pids : program[q] \in Program /\ Mine(q) \in Slot
  BY DEF TypeOK, Mine, Program
<1>b. \A q \in Pids : ~Kill(p) /\ q # p => program'[q] = program[q]
  BY DEF Work, Loop, Poll, Done, Seek, Unmark, Close, Now, Gone, TypeOK
<1>c. explorer' = explorer
  BY ProgramApart
<1>1. CASE Loop(p) \/ Done(p)
  <2>1. PICK pc \in {"poll", "close", "loop"} :
         /\ program'[p].pc = pc /\ program'[p].slot = program[p].slot
         /\ program'[p].i = program[p].i /\ program'[p].prey = program[p].prey
    BY <1>1, Moved DEF Loop, Done
  <2>2. program[p].pc \in {"loop", "done"} /\ UNCHANGED <<is_active, pid, framed>>
    BY <1>1 DEF Loop, Done, At, slots
  <2>3. ~Kill(p)
    BY <2>2 DEF Kill, At
  <2>4. QED
    BY <2>1, <2>2, <2>3, <1>a, <1>b, <1>c
       DEF slots, Kept, OneSlot, Stamped, Owned, Collecting, Hunting, Running, Windowed, Mine, At
<1>2. CASE Poll(p)
  <2>1. At(p, "poll") /\ UNCHANGED slots /\ ~Kill(p)
    BY <1>2 DEF Poll, Kill, At
  <2>2. CASE \E pc \in {"loop", "done"} : Now(p, pc)
    <3>1. PICK pc \in {"loop", "done"} :
           /\ program'[p].pc = pc /\ program'[p].slot = program[p].slot
           /\ program'[p].i = program[p].i /\ program'[p].prey = program[p].prey
      BY <2>2, Moved
    <3>2. QED
      BY <2>1, <3>1, <1>a, <1>b, <1>c
         DEF slots, Kept, OneSlot, Stamped, Owned, Collecting, Hunting, Running, Windowed, Mine, At
  <2>3. ASSUME p \in Managers, NEW q \in Pids,
               program' = [program EXCEPT ![p].pc = "seek", ![p].prey = q]
        PROVE  Kept
    <3>1. /\ program'[p].pc = "seek" /\ program'[p].prey = q
          /\ program'[p].i = program[p].i /\ program'[p].slot = program[p].slot
      BY <2>3, <1>a DEF TypeOK, Program
    <3>2. program[p].i = 0
      BY <2>1 DEF Hunting, At
    <3>3. \A r \in Pids : Mine(r) >= 0
      BY <1>a DEF Slot
    <3>4. p \in Managers /\ q \in Pids
      BY <2>3
    <3>5. QED
      <4>1. OneSlot'
        BY <2>1, <3>1, <3>2, <3>3, <3>4, <1>a, <1>b, <1>c
           DEF OneSlot, Running, Mine, At, slots
      <4>2. Stamped'
        BY <2>1, <3>1, <3>2, <3>3, <3>4, <1>a, <1>b, <1>c
           DEF Stamped, Windowed, Mine, At, slots
      <4>3. Owned'
        BY <2>1, <3>1, <3>2, <3>3, <3>4, <1>a, <1>b, <1>c
           DEF Owned, Running, Mine, At, slots
      <4>4. Collecting'
        BY <2>1, <3>1, <3>2, <3>3, <3>4, <1>a, <1>b, <1>c
           DEF Collecting, Mine, At, slots
      <4>5. \A m \in Pids : Hunting(m)'
        BY <2>1, <3>1, <3>2, <3>3, <3>4, <1>a, <1>b, <1>c
           DEF Hunting, Windowed, Mine, At, slots
      <4>6. QED
        BY <4>1, <4>2, <4>3, <4>4, <4>5 DEF Kept
  <2>4. QED
    BY <1>2, <2>2, <2>3 DEF Poll
<1>3. CASE Seek(p)
  <2>1. At(p, "seek") /\ UNCHANGED slots /\ ~Kill(p)
    BY <1>3 DEF Seek, Kill, At
  <2> DEFINE i == program[p].i
             q == program[p].prey
  <2>2. i \in Slot /\ q \in Pids /\ p \in Managers
    BY <2>1, <1>a DEF Program, Hunting, At
  <2>3. ~Registering(q)
    BY <2>2 DEF Disturbance
  <2>4. CASE pid[i] = q /\ is_active[i] /\ Now(p, "unmark")
    <3>1. /\ program'[p].pc = "unmark" /\ program'[p].slot = program[p].slot
          /\ program'[p].i = program[p].i /\ program'[p].prey = program[p].prey
      BY <2>4, Moved
    <3>2. PICK r \in Pids : Running(r) /\ Mine(r) = i
      BY <2>2, <2>4 DEF Owned
    <3>3. r = q /\ Windowed(q)
      BY <3>2, <2>2, <2>4, DesktopAssumption DEF Stamped, Running, Windowed
    <3>4. Mine(q) = i
      BY <3>2, <3>3
    <3>5. QED
      BY <2>1, <2>2, <3>1, <3>4, <1>a, <1>b, <1>c
         DEF slots, Kept, OneSlot, Stamped, Owned, Collecting, Hunting, Running, Windowed, Mine, At
  <2>5. CASE ~(pid[i] = q /\ is_active[i])
    <3>1. Windowed(q) /\ is_active[Mine(q)] => Mine(q) > i
      <4>1. Windowed(q) /\ is_active[Mine(q)] => Mine(q) >= i
        BY <2>1, <2>2 DEF Hunting
      <4>2. Windowed(q) /\ is_active[Mine(q)] => Mine(q) # i
        BY <2>2, <2>5 DEF Stamped
      <4>3. QED
        BY <4>1, <4>2, <2>2, <1>a DEF Slot
    <3>2. CASE i < Top /\ program' = [program EXCEPT ![p].i = @ + 1]
      <4>1. /\ program'[p].pc = "seek" /\ program'[p].i = i + 1
            /\ program'[p].prey = q /\ program'[p].slot = program[p].slot
        BY <2>1, <3>2, <1>a DEF TypeOK, Program, At
      <4>2. Windowed(q) /\ is_active[Mine(q)] => Mine(q) >= i + 1
        BY <3>1, <2>2, <1>a DEF Slot
      <4>3. QED
        BY <2>1, <2>2, <4>1, <4>2, <1>a, <1>b, <1>c
           DEF slots, Kept, OneSlot, Stamped, Owned, Collecting, Hunting, Running, Windowed, Mine, At
    <3>3. CASE i >= Top /\ Now(p, "kill")
      <4>1. /\ program'[p].pc = "kill" /\ program'[p].slot = program[p].slot
            /\ program'[p].i = program[p].i /\ program'[p].prey = program[p].prey
        BY <3>3, Moved
      <4>2. ~(Windowed(q) /\ is_active[Mine(q)])
        <5>1. Mine(q) \in Slot
          BY <2>2, <1>a
        <5>2. ~(Mine(q) > i)
          BY <5>1, <3>3, <2>2, DesktopAssumption DEF Slot, Top
        <5>3. QED
          BY <5>2, <3>1
      <4>3. QED
        <5>1. OneSlot'
          BY <2>1, <2>2, <4>1, <4>2, <1>a, <1>b, <1>c
             DEF OneSlot, Running, Mine, At, slots
        <5>2. Stamped'
          BY <2>1, <2>2, <4>1, <4>2, <1>a, <1>b, <1>c
             DEF Stamped, Windowed, Mine, At, slots
        <5>3. Owned'
          BY <2>1, <2>2, <4>1, <4>2, <1>a, <1>b, <1>c
             DEF Owned, Running, Mine, At, slots
        <5>4. Collecting'
          BY <2>1, <2>2, <4>1, <4>2, <1>a, <1>b, <1>c
             DEF Collecting, Mine, At, slots
        <5>5. \A m \in Pids : Hunting(m)'
          BY <2>1, <2>2, <4>1, <4>2, <1>a, <1>b, <1>c
             DEF Hunting, Windowed, Mine, At, slots
        <5>6. QED
          BY <5>1, <5>2, <5>3, <5>4, <5>5 DEF Kept
    <3>4. QED
      BY <1>3, <2>2, <2>5, <3>2, <3>3, DesktopAssumption DEF Seek, Slot, Top
  <2>6. QED
    BY <1>3, <2>4, <2>5 DEF Seek
<1>4. CASE Unmark(p)
  <2> DEFINE i == program[p].i
             q == program[p].prey
  <2>1. /\ At(p, "unmark")
        /\ program'[p].pc = "kill" /\ program'[p].slot = program[p].slot
        /\ program'[p].i = program[p].i /\ program'[p].prey = program[p].prey
        /\ is_active' = [is_active EXCEPT ![i] = FALSE]
        /\ UNCHANGED <<pid, framed>> /\ ~Kill(p)
    BY <1>4, Moved DEF Unmark, At, Kill
  <2>2. i \in Slot /\ q \in Pids /\ p \in Managers
    BY <2>1, <1>a DEF Program, Hunting, At
  <2>3. /\ \A j \in Slot : is_active'[j] => is_active[j]
        /\ ~is_active'[i]
    BY <2>1, <2>2 DEF TypeOK
  <2>4. QED
    BY <2>1, <2>2, <2>3, <1>a, <1>b, <1>c
       DEF slots, Kept, OneSlot, Stamped, Owned, Collecting, Hunting, Running, Windowed, Mine, At
<1>5. CASE Kill(p)
  <2> DEFINE q == program[p].prey
  <2>1. At(p, "kill") /\ UNCHANGED slots
    BY <1>5 DEF Kill
  <2>2. q \in Pids /\ p \in Managers /\ ~(Windowed(q) /\ is_active[Mine(q)])
    BY <2>1, <1>a DEF Program, Hunting, At
  <2>3. ~Registering(q)
    BY <2>2 DEF Disturbance
  <2>4. \A r \in Pids :
          \/ r = q /\ ~At(q, "none") /\ program'[r] = Ended
          \/ r = p /\ program'[r].pc = "done" /\ program'[r].i = 0
                   /\ program'[r].slot = program[r].slot
          \/ r # p /\ program'[r] = program[r]
    BY <1>5, <1>a DEF Kill, Program
  <2>5. Ended.pc = "gone" /\ Ended.i = 0
    BY DEF Ended, Outside
  <2>6. \A r \in Pids : Running(r)' <=> Running(r) /\ program'[r] # Ended
    BY <2>1, <2>4, <2>5 DEF Running, At
  <2>7. \A r \in Pids : Windowed(r)' => Windowed(r) /\ program'[r].slot = program[r].slot
    BY <2>1, <2>4, <2>5 DEF Windowed, At
  <2>8. QED
    <3>1. OneSlot'
      BY <2>1, <2>2, <2>3, <2>4, <2>5, <1>a, <1>c
         DEF OneSlot, Running, Mine, At, slots
    <3>2. Stamped'
      BY <2>1, <2>2, <2>3, <2>4, <2>5, <1>a, <1>c
         DEF Stamped, Windowed, Mine, At, slots
    <3>3. Owned'
      <4>1. \A r \in Pids : Running(r) /\ is_active[Mine(r)] => r # q
        BY <2>2, <2>3 DEF Running, Windowed, Registering
      <4>2. \A r \in Pids : r # q /\ Running(r) =>
              Running(r)' /\ program'[r].slot = program[r].slot
        BY <2>1, <2>4 DEF Running, At
      <4>3. is_active' = is_active
        BY <2>1 DEF slots
      <4>4. QED
        BY <4>1, <4>2, <4>3 DEF Owned, Mine
    <3>4. Collecting'
      BY <2>1, <2>2, <2>3, <2>4, <2>5, <1>a, <1>c
         DEF Collecting, Mine, At, slots
    <3>5. \A m \in Pids : Hunting(m)'
      BY <2>1, <2>2, <2>3, <2>4, <2>5, <1>a, <1>c
         DEF Hunting, Windowed, Mine, At, slots
    <3>6. QED
      BY <3>1, <3>2, <3>3, <3>4, <3>5 DEF Kept
<1>6. CASE Close(p)
  <2>1. /\ At(p, "close") /\ program'[p] = Ended
        /\ is_active' = [is_active EXCEPT ![Mine(p)] = FALSE]
        /\ UNCHANGED <<pid, framed>> /\ ~Kill(p)
    BY <1>6 DEF Close, Gone, TypeOK, At, Kill
  <2>2. /\ \A j \in Slot : is_active'[j] => is_active[j] /\ j # Mine(p)
    BY <2>1, <1>a DEF TypeOK
  <2>3. Ended.pc = "gone" /\ Ended.i = 0
    BY DEF Ended, Outside
  <2>4. QED
    BY <2>1, <2>2, <2>3, <1>a, <1>b, <1>c
       DEF slots, Kept, OneSlot, Stamped, Owned, Collecting, Hunting, Running, Windowed, Mine, At
<1>7. QED
  BY <1>1, <1>2, <1>3, <1>4, <1>5, <1>6 DEF Work

\* A step of the Explorer: it closes slots, and takes from closed ones what is
\* written in them.
LEMMA ExplorerKeeps ==
  ASSUME Calm, ExplorerStep, ~Disturbance'
  PROVE  Kept
<1> USE DEF Calm
<1>a. \A q \in Pids : program[q] \in Program /\ Mine(q) \in Slot
  BY DEF TypeOK, Mine, Program
<1>b. program' = program /\ explorer.i \in Slot
  BY DEF ExplorerStep, Alone, Collect, Forget, Unstamp, Unframe, Release, Press,
         Hold, Miss, Hit, Shut, Click, Compose, TypeOK
<1>c. \A i \in Slot : is_active'[i] => is_active[i]
  BY DEF ExplorerStep, slots, Collect, Forget, Unstamp, Unframe, Release, Press,
         Hold, Miss, Hit, Shut, Click, Compose, TypeOK
<1>d. explorer'.pc \in {"forget", "unstamp", "unframe"} => ~is_active[explorer'.i]
  <2>1. \A i : Past(i) => explorer'.pc \in {"collect", "input"}
    BY DEF Past, Go
  <2>2. CASE Collect \/ Unframe
    BY <2>1, <2>2 DEF Collect, Unframe, Closed, Go
  <2>3. CASE Forget \/ Unstamp
    BY <2>3 DEF Forget, Unstamp, Go, In, Collecting
  <2>4. CASE \/ Release \/ Press \/ Hold \/ Miss \/ Hit \/ Shut \/ Click \/ Compose
    BY <2>4 DEF Release, Press, Hold, Miss, Hit, Shut, Click, Compose, Go
  <2>5. QED
    BY <2>2, <2>3, <2>4 DEF ExplorerStep
<1>1. CASE ~Unstamp /\ ~Unframe
  <2>1. UNCHANGED <<pid, framed>>
    BY <1>1 DEF ExplorerStep, slots, Collect, Forget, Release, Press,
                Hold, Miss, Hit, Shut, Click, Compose
  <2>2. is_active' = is_active \/ Shut
    BY <1>1 DEF ExplorerStep, slots, Collect, Forget, Release, Press,
                Hold, Miss, Hit, Click, Compose
  <2>3. explorer'.i \in Slot
    BY ExplorerType
  <2>4. QED
    BY <2>1, <2>3, <1>a, <1>b, <1>c, <1>d
       DEF slots, Kept, OneSlot, Stamped, Owned, Collecting, Hunting, Running, Windowed, Mine, At
<1>2. CASE Unstamp \/ Unframe
  <2>1. /\ is_active' = is_active /\ ~is_active[explorer.i]
        /\ \A i \in Slot : i # explorer.i => pid'[i] = pid[i] /\ framed'[i] = framed[i]
        /\ pid'[explorer.i] \in {0, pid[explorer.i]}
    BY <1>2, <1>b DEF Unstamp, Unframe, In, TypeOK, Collecting
  <2>2. explorer.pc \in {"unstamp", "unframe"}
    BY <1>2 DEF Unstamp, Unframe, In
  <2>3. \A q \in Pids : ~Registering(q)
    BY <2>2, Undisturbed
  <2>4. QED
    BY <2>1, <2>3, <1>a, <1>b, <1>d
       DEF slots, Kept, OneSlot, Stamped, Owned, Collecting, Hunting, Running, Windowed, Mine, At, Registering
<1>3. QED
  BY <1>1, <1>2

\* Every step keeps the slots in order.
LEMMA SlotsNext == Inv /\ SlotsInv /\ [Next]_vars => SlotsInv'
<1> SUFFICES ASSUME Inv, SlotsInv, [Next]_vars, ~disturbed'
             PROVE  ~Disturbance' /\ Kept
  BY DEF SlotsInv, Kept
<1>1. CASE Next
  <2>1. ~disturbed /\ ~Disturbance'
    BY <1>1 DEF Next
  <2>2. Calm
    BY <2>1 DEF Calm, SlotsInv, Inv
  <2>3. Kept
    BY <1>1, <2>1, <2>2, RegisterKeeps, WorkKeeps, ExplorerKeeps DEF Next, Step
  <2>4. QED
    BY <2>1, <2>3
<1>2. CASE UNCHANGED vars
  BY <1>2 DEF vars, slots, own, SlotsInv, Kept, Disturbance, Closing, Closed,
              Registering, OneSlot, Stamped, Owned, Collecting, Hunting, Running,
              Windowed, Mine, At
<1>3. QED
  BY <1>1, <1>2

LEMMA SlotsInit == Init => SlotsInv
<1> SUFFICES ASSUME Init PROVE SlotsInv
  OBVIOUS
<1>1. \A p \in Pids : program[p].pc = "none" /\ program[p].i = 0
  BY DEF Init, Outside
<1>2. explorer.pc = "collect" /\ \A i \in Slot : ~is_active[i] /\ pid[i] = 0
  BY DEF Init
<1>3. QED
  BY <1>1, <1>2
     DEF SlotsInv, Disturbance, Registering, OneSlot, Stamped, Owned, Collecting,
         Hunting, Running, Windowed, At

\* For any number of slots, programs and task managers: as long as registrations
\* stand alone, no two programs share a slot, an open window is stamped with its
\* program's pid and has its buffers, and has a program.
THEOREM SlotsStaySound == Spec => []SlotsSound
<1>1. Inv /\ SlotsInv => SlotsSound
  <2>1. \A p \in Pids : Windowed(p) => Running(p)
    BY DEF Windowed, Running
  <2>2. QED
    BY <2>1 DEF SlotsInv, SlotsSound, OneSlot, Stamped, Owned
<1>2. QED
  BY <1>1, InvHolds, SlotsInit, SlotsNext, PTL DEF Spec
=============================================================================
