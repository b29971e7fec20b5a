------------------------------ MODULE Desktop ------------------------------
(***************************************************************************)
(* The windows of Ring 3 programs: slots of shared memory that a program   *)
(* takes for its window (Runtime_sdk/components/TOS_IPC.c), the loop in    *)
(* which every program reads its slot (tarefa.c and the programs written   *)
(* like it), and the Explorer, which collects the slots of windows that    *)
(* are closed, hands clicks out, drags and composes                        *)
(* (Software_Explorer/explorer.c).                                         *)
(*                                                                         *)
(* Everybody is preempted between any two accesses to the slots: a step is *)
(* a read of a slot and what follows from it in private memory, or a       *)
(* write.  The words of a slot that only mean something together (both     *)
(* buffers and the measures of the window) are one here.  Only the         *)
(* Explorer takes the lock of the slots, which is therefore always free    *)
(* and keeps nobody out.  Where windows lie on the screen is left to       *)
(* chance: a click meets any of the active ones.                           *)
(***************************************************************************)
EXTENDS Integers, FiniteSets

CONSTANTS
  MAX_EXTERNAL_APPS,  \* window slots
  Pids,      \* bound: the programs started, each once and with a pid of its own
  Managers   \* those that are the task manager, which ends others

Slot == 0 .. MAX_EXTERNAL_APPS - 1

ASSUME DesktopAssumption ==
  /\ MAX_EXTERNAL_APPS \in Nat \ {0}
  /\ Pids \subseteq Nat \ {0} /\ Managers \subseteq Pids

VARIABLES
  \* IPC_WINDOW_LIST, by slot
  is_active, pid, has_click_event,
  framed,             \* the buffers are set and the window has a size
  \* IPC_CONTROL
  active_focus_slot,
  \* the Explorer's own
  z_stack, dragging_slot, was_clicked,
  explorer,           \* how far it is, and the slot or height it has come to
  program,            \* by pid: how far it is and its locals
  disturbed           \* history: see Disturbance

slots == <<is_active, pid, has_click_event, framed>>
own == <<active_focus_slot, z_stack, dragging_slot, was_clicked>>
vars == <<slots, own, explorer, program, disturbed>>

Top == MAX_EXTERNAL_APPS - 1

-----------------------------------------------------------------------------
\* A program. It begins with OS_IPC_RegisterApp().

At(p, pc) == program[p].pc = pc
Now(p, pc) == program' = [program EXCEPT ![p].pc = pc]
Mine(p) == program[p].slot

Outside == [pc |-> "none", slot |-> 0, i |-> 0, prey |-> 0]
Ended == [Outside EXCEPT !.pc = "gone"]
Gone(p) == program' = [program EXCEPT ![p] = Ended]

\* The steps of a program touch nothing of the Explorer's.
Apart == UNCHANGED <<own, explorer>>

\* A program is loaded; pids are given in ascending order.
Start(p) ==
  /\ At(p, "none") /\ \A q \in Pids : q < p => ~At(q, "none")
  /\ Now(p, "look")
  /\ UNCHANGED slots /\ Apart

\* A slot is found free, or the next is looked at; without any the program ends.
Look(p) ==
  /\ At(p, "look")
  /\ IF ~is_active[Mine(p)] THEN Now(p, "take")
     ELSE IF Mine(p) < Top THEN program' = [program EXCEPT ![p].slot = @ + 1]
     ELSE Gone(p)
  /\ UNCHANGED slots /\ Apart

Take(p) ==
  /\ At(p, "take")
  /\ is_active' = [is_active EXCEPT ![Mine(p)] = TRUE]
  /\ Now(p, "frame")
  /\ UNCHANGED <<pid, has_click_event, framed>> /\ Apart

Frame(p) ==
  /\ At(p, "frame")
  /\ framed' = [framed EXCEPT ![Mine(p)] = TRUE]
  /\ has_click_event' = [has_click_event EXCEPT ![Mine(p)] = FALSE]
  /\ Now(p, "stamp")
  /\ UNCHANGED <<is_active, pid>> /\ Apart

Stamp(p) ==
  /\ At(p, "stamp")
  /\ pid' = [pid EXCEPT ![Mine(p)] = p]
  /\ Now(p, "loop")
  /\ UNCHANGED <<is_active, has_click_event, framed>> /\ Apart

\* Mutant: only the program with the focus looks whether its window is closed.
Mut_Loop(p) ==
  /\ At(p, "loop")
  /\ Now(p, IF is_active[Mine(p)] \/ active_focus_slot # Mine(p)
            THEN "poll" ELSE "close")
  /\ UNCHANGED slots /\ Apart

\* The loop: end if the window is closed; if it has the focus and a click, act.
Loop(p) ==
  /\ At(p, "loop")
  /\ Now(p, IF is_active[Mine(p)] THEN "poll" ELSE "close")
  /\ UNCHANGED slots /\ Apart

HasClick(p) == active_focus_slot = Mine(p) /\ has_click_event[Mine(p)]

\* What the click does: in the task manager it may mean to end the program q.
Poll(p) ==
  /\ At(p, "poll")
  /\ \/ ~HasClick(p) /\ Now(p, "loop")
     \/ HasClick(p) /\ Now(p, "done")
     \/ /\ HasClick(p) /\ p \in Managers
        /\ \E q \in Pids :
             program' = [program EXCEPT ![p].pc = "seek", ![p].prey = q]
  /\ UNCHANGED slots /\ Apart

Done(p) ==
  /\ At(p, "done")
  /\ has_click_event' = [has_click_event EXCEPT ![Mine(p)] = FALSE]
  /\ Now(p, "loop")
  /\ UNCHANGED <<is_active, pid, framed>> /\ Apart

\* OnBtnKillClick(): the window of the prey is closed, then the prey is killed.
Seek(p) ==
  LET i == program[p].i
  IN /\ At(p, "seek")
     /\ IF pid[i] = program[p].prey /\ is_active[i] THEN Now(p, "unmark")
        ELSE IF i < Top THEN program' = [program EXCEPT ![p].i = @ + 1]
        ELSE Now(p, "kill")
     /\ UNCHANGED slots /\ Apart

\* Mutant: the window is left as it is.
Mut_Unmark(p) ==
  /\ At(p, "unmark")
  /\ Now(p, "kill")
  /\ UNCHANGED slots /\ Apart

Unmark(p) ==
  /\ At(p, "unmark")
  /\ is_active' = [is_active EXCEPT ![program[p].i] = FALSE]
  /\ Now(p, "kill")
  /\ UNCHANGED <<pid, has_click_event, framed>> /\ Apart

Kill(p) ==
  LET q == program[p].prey
  IN /\ At(p, "kill")
     /\ program' = [r \in Pids |->
          IF r = q /\ ~At(q, "none") THEN Ended
          ELSE IF r = p THEN [program[p] EXCEPT !.pc = "done", !.i = 0, !.prey = 0]
          ELSE program[r]]
     /\ UNCHANGED slots /\ Apart

\* Tratar_Fechamento_Software(), and the end.
Close(p) ==
  /\ At(p, "close")
  /\ is_active' = [is_active EXCEPT ![Mine(p)] = FALSE]
  /\ Gone(p)
  /\ UNCHANGED <<pid, has_click_event, framed>> /\ Apart

Register(p) == Look(p) \/ Take(p) \/ Frame(p) \/ Stamp(p)
Work(p) == \/ Loop(p) \/ Poll(p) \/ Done(p)
           \/ Seek(p) \/ Unmark(p) \/ Kill(p) \/ Close(p)

-----------------------------------------------------------------------------
\* The Explorer.

In(pc) == explorer.pc = pc
Go(pc, i) == explorer' = [pc |-> pc, i |-> i]

\* What it does touches nothing of the programs' own.
Alone == UNCHANGED program

\* Mutant: one slot too many.
Mut_PastTop(i) == IF i <= Top THEN Go("collect", i + 1) ELSE Go("input", 0)

\* Mutant: one slot too few.
Mut_PastShort(i) == IF i < Top - 1 THEN Go("collect", i + 1) ELSE Go("input", 0)

\* Coletar_Slots_Inativos(), slot after slot.
Past(i) == IF i < Top THEN Go("collect", i + 1) ELSE Go("input", 0)

Closed(i) == pid[i] # 0 /\ ~is_active[i]

Collect ==
  /\ In("collect")
  /\ IF Closed(explorer.i) THEN Go("forget", explorer.i) ELSE Past(explorer.i)
  /\ UNCHANGED <<slots, own>> /\ Alone

\* Mutant: the window that is dragged is not forgotten.
Mut_Forget ==
  /\ In("forget")
  /\ active_focus_slot' = IF active_focus_slot = explorer.i THEN -1
                          ELSE active_focus_slot
  /\ Go("unstamp", explorer.i)
  /\ UNCHANGED <<slots, z_stack, was_clicked, dragging_slot>> /\ Alone

Forget ==
  /\ In("forget")
  /\ active_focus_slot' = IF active_focus_slot = explorer.i THEN -1
                          ELSE active_focus_slot
  /\ dragging_slot' = IF dragging_slot = explorer.i THEN -1 ELSE dragging_slot
  /\ Go("unstamp", explorer.i)
  /\ UNCHANGED <<slots, z_stack, was_clicked>> /\ Alone

Unstamp ==
  /\ In("unstamp")
  /\ pid' = [pid EXCEPT ![explorer.i] = 0]
  /\ Go("unframe", explorer.i)
  /\ UNCHANGED <<is_active, has_click_event, framed, own>> /\ Alone

Unframe ==
  /\ In("unframe")
  /\ framed' = [framed EXCEPT ![explorer.i] = FALSE]
  /\ has_click_event' = [has_click_event EXCEPT ![explorer.i] = FALSE]
  /\ Past(explorer.i)
  /\ UNCHANGED <<is_active, pid, own>> /\ Alone

\* main(): what the mouse says, a press first of all for the taskbar and the
\* start menu.
Release ==
  /\ In("input")
  /\ was_clicked' = FALSE
  /\ dragging_slot' = -1
  /\ Go("compose", 0)
  /\ UNCHANGED <<slots, active_focus_slot, z_stack>> /\ Alone

Press ==
  /\ In("input") /\ ~was_clicked
  /\ was_clicked' = TRUE
  /\ \/ Go("compose", 0)
     \/ dragging_slot = -1 /\ Go("hit", Top)
  /\ UNCHANGED <<slots, active_focus_slot, z_stack, dragging_slot>> /\ Alone

\* Held: the window moves, or the focused one, if it is seen active, has one
\* click more.
Hold ==
  /\ In("input") /\ was_clicked
  /\ LET s == active_focus_slot
     IN IF dragging_slot = -1 /\ s # -1 /\ is_active[s]
        THEN Go("click", s)
        ELSE Go("compose", 0)
  /\ UNCHANGED <<slots, own>> /\ Alone

Position(s) == CHOOSE k \in Slot : z_stack[k] = s

\* Mutant: what lies above is not moved down.
Mut_BringToFront(s) == [z_stack EXCEPT ![Top] = s]

\* bring_to_front()
BringToFront(s) ==
  [k \in Slot |-> IF k < Position(s) THEN z_stack[k]
                  ELSE IF k < Top THEN z_stack[k + 1] ELSE s]

\* Processar_Clique_Janela(), from the top of the stack down: the window is
\* inactive or does not lie under the pointer, or it does and has the focus.
Miss ==
  /\ In("hit")
  /\ IF explorer.i > 0 THEN Go("hit", explorer.i - 1) ELSE Go("compose", 0)
  /\ UNCHANGED <<slots, own>> /\ Alone

Raised(s) == IF active_focus_slot # s THEN BringToFront(s) ELSE z_stack

\* The button [X] and the inside need a window with a size.  What follows the
\* look at is_active touches the Explorer's own state only, so it is one step.
Hit ==
  LET s == z_stack[explorer.i]
  IN /\ In("hit") /\ is_active[s]
     /\ active_focus_slot' = s
     /\ z_stack' = Raised(s)
     /\ \/ dragging_slot' = s /\ Go("compose", 0)
        \/ /\ framed[s] /\ UNCHANGED dragging_slot
           /\ \E pc \in {"shut", "click"} : Go(pc, s)
     /\ UNCHANGED <<slots, was_clicked>> /\ Alone

Shut ==
  /\ In("shut")
  /\ is_active' = [is_active EXCEPT ![explorer.i] = FALSE]
  /\ Go("compose", 0)
  /\ UNCHANGED <<pid, has_click_event, framed, own>> /\ Alone

Click ==
  /\ In("click")
  /\ has_click_event' = [has_click_event EXCEPT ![explorer.i] = TRUE]
  /\ Go("compose", 0)
  /\ UNCHANGED <<is_active, pid, framed, own>> /\ Alone

\* Executar_Pipeline_Composicao() reads only; then the Explorer sleeps.
Compose ==
  /\ In("compose")
  /\ Go("collect", 0)
  /\ UNCHANGED <<slots, own>> /\ Alone

ExplorerStep ==
  \/ Collect \/ Forget \/ Unstamp \/ Unframe
  \/ Release \/ Press \/ Hold
  \/ Miss \/ Hit \/ Shut \/ Click \/ Compose

-----------------------------------------------------------------------------
\* A program looks for a slot or makes it its own; it has one.
Registering(p) == program[p].pc \in {"look", "take", "frame", "stamp"}
Windowed(p) == program[p].pc \notin {"none", "look", "take", "frame", "stamp",
                                     "gone"}
Running(p) == program[p].pc \notin {"none", "look", "gone"}

\* A window is on its way out: it is closed, and its program has not ended or
\* the Explorer has not collected it.
Closing ==
  \/ \E p \in Pids : Windowed(p) /\ ~is_active[Mine(p)]
  \/ \E i \in Slot : Closed(i)
  \/ explorer.pc \in {"forget", "unstamp", "unframe"}

\* What the programs and the Explorer do not guard against: that a program
\* registers while another does, while a window is on its way out, or while
\* the task manager is about to end it.
Disturbance ==
  \E p \in Pids :
    /\ Registering(p)
    /\ \/ Closing
       \/ \E q \in Pids \ {p} : Registering(q)
       \/ \E q \in Managers : program[q].prey = p

\* Video memory, in which the slots lie, is taken to be zero when the machine
\* is turned on; nothing else initialises them.
Init ==
  /\ is_active = [i \in Slot |-> FALSE] /\ pid = [i \in Slot |-> 0]
  /\ has_click_event = [i \in Slot |-> FALSE] /\ framed = [i \in Slot |-> FALSE]
  /\ active_focus_slot = 0
  /\ z_stack = [i \in Slot |-> i]
  /\ dragging_slot = -1 /\ was_clicked = FALSE
  /\ explorer = [pc |-> "collect", i |-> 0]
  /\ program = [p \in Pids |-> Outside]
  /\ disturbed = FALSE

Step == \/ ExplorerStep
        \/ \E p \in Pids : Start(p) \/ Register(p) \/ Work(p)

Next == Step /\ disturbed' = (disturbed \/ Disturbance')

\* Nobody is kept from the CPU (EverybodyRuns of the process manager).
Fairness ==
  /\ WF_vars(ExplorerStep /\ Next)
  /\ \A p \in Pids : WF_vars((Register(p) \/ Work(p)) /\ Next)

Spec == Init /\ [][Next]_vars /\ Fairness

-----------------------------------------------------------------------------
Program == [pc : {"none", "look", "take", "frame", "stamp", "loop", "poll",
                  "done", "seek", "unmark", "kill", "close", "gone"},
            slot : Slot, i : Slot, prey : Pids \cup {0}]

TypeOK ==
  /\ is_active \in [Slot -> BOOLEAN] /\ pid \in [Slot -> Pids \cup {0}]
  /\ has_click_event \in [Slot -> BOOLEAN] /\ framed \in [Slot -> BOOLEAN]
  /\ active_focus_slot \in Slot \cup {-1}
  /\ z_stack \in [Slot -> Slot]
  /\ dragging_slot \in Slot \cup {-1} /\ was_clicked \in BOOLEAN
  /\ explorer \in [pc : {"collect", "forget", "unstamp", "unframe", "input",
                         "hit", "shut", "click", "compose"}, i : Slot]
  /\ program \in [Pids -> Program]
  /\ disturbed \in BOOLEAN

\* Whatever is clicked, closed and collected in whatever order: every slot has
\* one place in the stack, and the window with the focus is the one in front.
\* Except for slot 0, which has the focus by the zeros of the memory.
StackSound ==
  /\ \A j, k \in Slot : z_stack[j] = z_stack[k] => j = k
  /\ active_focus_slot \in {-1, 0} \/ active_focus_slot = z_stack[Top]

\* A window that is dragged is the one with the focus, and the button is held:
\* the collection of a slot and the release leave no drag behind.
DragHasFocus ==
  \/ dragging_slot = -1
  \/ was_clicked /\ dragging_slot = active_focus_slot

\* What clicks, drags, closings and collections keep: see the parts.
FrontSound == TypeOK /\ StackSound /\ DragHasFocus

\* As long as registrations stand alone, the slots are sound: no two programs
\* have one slot; the slot of an open window bears its program's pid, by which
\* the task manager finds it, and its buffers; and an open window has a program,
\* also after the task manager has ended some.
SlotsSound ==
  ~disturbed =>
    /\ \A p, q \in Pids : Windowed(p) /\ Windowed(q) /\ p # q => Mine(p) # Mine(q)
    /\ \A p \in Pids : Windowed(p) /\ is_active[Mine(p)] =>
         pid[Mine(p)] = p /\ framed[Mine(p)]
    /\ \A i \in Slot : is_active[i] => \E p \in Pids : Running(p) /\ Mine(p) = i

\* The slot of a window that is closed is free again in the end, or taken.
ClosedAreCollected ==
  \A i \in Slot : pid[i] # 0 /\ ~is_active[i] ~> pid[i] = 0 \/ is_active[i]

\* A program whose window is closed, by [X] or by the task manager, ends;
\* unless a registration has been disturbed, and another program has its slot.
CloseIsHeeded ==
  \A p \in Pids :
    Windowed(p) /\ ~is_active[Mine(p)] ~> At(p, "gone") \/ disturbed
=============================================================================
