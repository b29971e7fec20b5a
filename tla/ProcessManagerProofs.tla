------------------------ MODULE ProcessManagerProofs ------------------------
(***************************************************************************)
(* Theorems about ProcessManager, for every number of processes and every  *)
(* bound.  The inductive invariant IInv adds to the stated invariants what *)
(* the mailbox, task_c and task_d remember about processes.                *)
(***************************************************************************)
EXTENDS ProcessManager, FiniteSetTheorems, TLAPS

\* A process that may fill the mailbox.
Requester(p) == p \in Procs /\ (p = Shell \/ p >= FirstApp)

\* While task_d places the child it made, c, under the requester r: c is younger
\* than r, nobody's parent, not in possession of the keyboard, and not the
\* process that task_c made.
Linking == {"link", "look", "focus", "unfocus", "point"}
NewChild(r, c) ==
  /\ c \in Procs /\ c >= FirstApp /\ r < c
  /\ \A q \in Procs : parent_pid[q] # c
  /\ foreground_process # c
  /\ launcher.pc = "focus" => launcher.child # c

\* What the bookkeeping variables refer to: pids from next_pid on are unused,
\* and every remembered pid is that of a process.
Bookkeeping ==
  /\ next_pid >= FirstApp
  /\ \A p \in Pid : p >= next_pid => state[p] = "NONE"
  /\ foreground_process \in Procs
  /\ tem_pedido_exec => Requester(pai_solicitante_pid)
  /\ spawner.pc # "idle" => Requester(spawner.parent)
  /\ spawner.pc \in Linking => NewChild(spawner.parent, spawner.child)
  /\ spawner.pc \in {"unfocus", "point"} => is_foreground[spawner.child]
  /\ launcher.pc = "focus" => launcher.child \in Procs

IInv == TypeOK /\ CpuOwner /\ VitalAlive /\ FocusAgrees /\ Ancestry /\ Bookkeeping

-----------------------------------------------------------------------------
\* What timer_handler() does to the process table, whichever call entered it:
\* st is the table with the caller's own state already changed.
LEMMA TimerStep ==
  ASSUME BoundsAssumption, TypeOK, CpuOwner,
         NEW st \in [Pid -> States], NEW left \in [Pid -> 0 .. MaxSleep],
         \A p \in Pid : p # current_process => st[p] = state[p],
         st[current_process] # "NONE",
         TimerHandler(st, left)
  PROVE  /\ state' \in [Pid -> States]
         /\ wake' \in [Pid -> 0 .. MaxSleep]
         /\ current_process' \in Pid
         /\ Procs' = Procs
         /\ CpuOwner'
         /\ \A p \in Pid : st[p] \in {"READY", "RUNNING"}
                             => state'[p] \in {"READY", "RUNNING"}
         /\ \A p \in Pid : st[p] # "ZOMBIE" => state'[p] # "ZOMBIE"
<1> DEFINE new == Settled(st, left)
<1>1. new \in [Pid -> States]
  BY DEF Settled, States
<1>2. \A p \in Pid : new[p] # "RUNNING"
  BY DEF Settled, CpuOwner, TypeOK
<1>3. \A p \in Pid : /\ new[p] = "NONE" <=> state[p] = "NONE"
                     /\ st[p] \in {"READY", "RUNNING"} => new[p] = "READY"
                     /\ st[p] # "ZOMBIE" => new[p] # "ZOMBIE"
  BY DEF Settled, CpuOwner, TypeOK
<1>4. PICK p \in Selected(new) :
         /\ current_process' = p
         /\ state' = [new EXCEPT ![p] = "RUNNING"]
  BY DEF TimerHandler
<1>5. p \in Procs
  BY DEF Selected, Candidates, Procs, CpuOwner, TypeOK, Boot
<1>6. wake' = left
  BY DEF TimerHandler
<1>7. p \in Pid /\ state[p] # "NONE"
  BY <1>5 DEF Procs
<1>8. Procs' = Procs
  BY <1>1, <1>3, <1>4, <1>7 DEF Procs
<1>9. CpuOwner'
  BY <1>1, <1>2, <1>4, <1>7 DEF CpuOwner
<1>10. QED
  BY <1>1, <1>3, <1>4, <1>6, <1>7, <1>8, <1>9 DEF States
-----------------------------------------------------------------------------
\* Handing the focus over when a process dies leaves it with a process of the
\* list that considers itself in the foreground.
LEMMA HandFocus ==
  ASSUME TypeOK, foreground_process \in Procs, NEW p \in Procs,
         HandFocusToParent(p)
  PROVE  /\ is_foreground' \in [Pid -> BOOLEAN]
         /\ foreground_process' \in Procs
         /\ is_foreground[foreground_process] => is_foreground'[foreground_process']
         /\ \A q \in Pid : is_foreground[q] => is_foreground'[q]
         /\ \A q : foreground_process # q /\ (\A r \in Procs : parent_pid[r] # q)
                   => foreground_process' # q
<1>1. is_foreground \in [Pid -> BOOLEAN] /\ Procs \subseteq Pid
  BY DEF TypeOK, Procs
<1>2. CASE is_foreground[p] /\ parent_pid[p] \in Procs
  <2>1. /\ is_foreground' = [is_foreground EXCEPT ![parent_pid[p]] = TRUE]
        /\ foreground_process' = parent_pid[p]
        /\ parent_pid[p] \in Pid
    BY <1>1, <1>2 DEF HandFocusToParent
  <2>2. QED
    BY <1>1, <1>2, <2>1
<1>3. CASE ~(is_foreground[p] /\ parent_pid[p] \in Procs)
  <2>1. UNCHANGED <<is_foreground, foreground_process>>
    BY <1>3 DEF HandFocusToParent
  <2>2. QED
    BY <1>1, <2>1
<1>4. QED
  BY <1>2, <1>3

\* What create_process() does to the table: a process younger than all others,
\* the others as they were.
LEMMA Created ==
  ASSUME BoundsAssumption, IInv, CreateProcess,
         current_process' = current_process,
         state[current_process] = "RUNNING"
  PROVE  /\ next_pid \in Pid
         /\ Procs' = Procs \cup {next_pid}
         /\ \A p \in Procs : p < next_pid
         /\ \A p \in Procs : state'[p] = state[p] /\ is_foreground'[p] = is_foreground[p]
                             /\ parent_pid'[p] = parent_pid[p]
         /\ state' \in [Pid -> States] /\ wake' \in [Pid -> 0 .. MaxSleep]
         /\ is_foreground' \in [Pid -> BOOLEAN] /\ parent_pid' \in [Pid -> 0 .. MaxPid]
         /\ halted' \in [Pid -> BOOLEAN] /\ next_pid' \in 1 .. MaxPid + 1
         /\ CpuOwner' /\ VitalAlive'
         /\ \A p \in Procs' : parent_pid'[p] < p
         /\ next_pid' >= FirstApp
         /\ \A p \in Pid : p >= next_pid' => state'[p] = "NONE"
<1>1. next_pid \in Pid /\ state[next_pid] = "NONE" /\ next_pid >= 5
  BY DEF IInv, CreateProcess, TypeOK, Pid, Bookkeeping, FirstApp, BoundsAssumption
<1>2. /\ state' = [state EXCEPT ![next_pid] = "READY"]
      /\ state \in [Pid -> States] /\ next_pid' = next_pid + 1
      /\ parent_pid' = [parent_pid EXCEPT ![next_pid] = current_process]
      /\ parent_pid \in [Pid -> 0 .. MaxPid]
      /\ current_process \in Pid
  BY DEF IInv, CreateProcess, TypeOK
<1>3. Procs' = Procs \cup {next_pid}
  BY <1>1, <1>2 DEF Procs
<1>4. \A p \in Procs : p < next_pid
  <2> SUFFICES ASSUME NEW p \in Procs, ~(p < next_pid) PROVE FALSE
    OBVIOUS
  <2>1. p \in Pid /\ state[p] # "NONE"
    BY DEF Procs
  <2>2. p >= next_pid
    BY <2>1, <1>1 DEF Pid
  <2>3. QED
    BY <2>1, <2>2 DEF IInv, Bookkeeping
<1>5. next_pid \notin Procs
  BY <1>1 DEF Procs
<1>6. state' \in [Pid -> States] /\ wake' \in [Pid -> 0 .. MaxSleep]
  BY <1>1, <1>2 DEF CreateProcess, IInv, TypeOK, States, BoundsAssumption
<1>7. is_foreground' \in [Pid -> BOOLEAN] /\ halted' \in [Pid -> BOOLEAN]
  BY <1>1 DEF CreateProcess, IInv, TypeOK
<1>8. parent_pid' \in [Pid -> 0 .. MaxPid] /\ next_pid' \in 1 .. MaxPid + 1
  BY <1>1, <1>2 DEF Pid, BoundsAssumption
<1>9. \A p \in Procs : /\ state'[p] = state[p]
                       /\ is_foreground'[p] = is_foreground[p]
                       /\ parent_pid'[p] = parent_pid[p]
  BY <1>1, <1>2, <1>5 DEF CreateProcess, IInv, TypeOK, Procs
<1>10. CpuOwner'
  BY <1>1, <1>2 DEF IInv, CpuOwner
<1>11. VitalAlive'
  BY <1>1, <1>2, <1>3 DEF IInv, VitalAlive, Alive, Boot, Shell, TaskC, Procs
<1>12. \A p \in Procs' : parent_pid'[p] < p
  <2>1. current_process < next_pid
    BY <1>2, <1>4 DEF Procs
  <2>2. parent_pid'[next_pid] < next_pid
    BY <1>1, <1>2, <2>1
  <2>3. \A p \in Procs : parent_pid'[p] < p
    BY <1>9 DEF IInv, Ancestry
  <2>4. QED
    BY <1>3, <2>2, <2>3
<1>13. \A p \in Pid : p >= next_pid' => state'[p] = "NONE"
  <2> SUFFICES ASSUME NEW p \in Pid, p >= next_pid' PROVE state'[p] = "NONE"
    OBVIOUS
  <2>1. p >= next_pid /\ p # next_pid
    BY <1>1, <1>2 DEF Pid
  <2>2. QED
    BY <2>1, <1>2 DEF IInv, Bookkeeping
<1>14. next_pid' >= FirstApp
  BY <1>1, <1>2 DEF Pid, FirstApp
<1>15. QED
  BY <1>1, <1>3, <1>4, <1>6, <1>7, <1>8, <1>9, <1>10, <1>11, <1>12, <1>13, <1>14
-----------------------------------------------------------------------------
\* The initial states satisfy the invariant.
LEMMA InitIInv == ASSUME BoundsAssumption, Init PROVE IInv
<1>1. \A p \in {Boot, Shell, TaskC, TaskD} : p \in Pid /\ p < FirstApp
  BY DEF BoundsAssumption, Boot, Shell, TaskC, TaskD, FirstApp, Pid
<1>0. /\ next_pid = FirstApp /\ pai_solicitante_pid = 0
      /\ tem_pedido_exec = FALSE /\ reading = FALSE
      /\ launcher = [pc |-> "load", child |-> 0]
      /\ spawner = [pc |-> "idle", parent |-> 0, child |-> 0]
  BY DEF Init
<1>2. Procs = {p \in Pid : p <= TaskD}
  BY DEF Init, Procs
<1>3. TypeOK
  <2>1. is_foreground \in [Pid -> BOOLEAN]
    <3>1. \A p \in Pid : (p = Shell) \in BOOLEAN
      OBVIOUS
    <3>2. QED
      BY <3>1 DEF Init
  <2>2. state \in [Pid -> States] /\ wake \in [Pid -> 0 .. MaxSleep]
    BY DEF Init, States, BoundsAssumption
  <2>3. parent_pid \in [Pid -> 0 .. MaxPid] /\ halted \in [Pid -> BOOLEAN]
    BY <1>1 DEF Init, Boot, BoundsAssumption, Pid
  <2>4. /\ current_process \in Pid /\ foreground_process \in Pid
    BY <1>1 DEF Init
  <2>4a. next_pid \in 1 .. MaxPid + 1
    <3>1. next_pid = 5
      BY <1>0 DEF FirstApp
    <3>2. QED
      BY <3>1 DEF BoundsAssumption
  <2>4b. tem_pedido_exec \in BOOLEAN /\ reading \in BOOLEAN
    BY <1>0
  <2>4c. pai_solicitante_pid \in 0 .. MaxPid
    <3>1. pai_solicitante_pid = 0
      BY <1>0
    <3>2. QED
      BY <3>1 DEF BoundsAssumption
  <2>5. /\ launcher \in [pc : {"load", "focus", "idle"}, child : 0 .. MaxPid]
        /\ spawner \in [pc : SpawnerPc,
                        parent : 0 .. MaxPid, child : 0 .. MaxPid]
    <3>1. /\ launcher = [pc |-> "load", child |-> 0]
          /\ spawner = [pc |-> "idle", parent |-> 0, child |-> 0]
      BY <1>0
    <3>2. QED
      BY <3>1 DEF BoundsAssumption, SpawnerPc
  <2>6. QED
    BY <2>1, <2>2, <2>3, <2>4, <2>4a, <2>4b, <2>4c, <2>5 DEF TypeOK
<1>4. CpuOwner
  BY <1>1 DEF Init, CpuOwner, Boot, TaskD
<1>5. VitalAlive
  BY <1>1, <1>2 DEF Init, VitalAlive, Alive, Boot, Shell, TaskC, TaskD
<1>6. FocusAgrees
  BY <1>1 DEF Init, FocusAgrees
<1>7. Ancestry
  BY <1>2 DEF Init, Ancestry, Boot, Shell, TaskC, TaskD, Pid
<1>8. Bookkeeping
  BY <1>1, <1>2 DEF Init, Bookkeeping, Linking, FirstApp, TaskD, Shell, Pid
<1>9. QED
  BY <1>3, <1>4, <1>5, <1>6, <1>7, <1>8 DEF IInv

\* Every call that ends in the timer handler leaves the mailbox, the tasks and
\* the genealogy alone, or refers them to processes that exist.
LEMMA YieldKeeps ==
  ASSUME BoundsAssumption, IInv,
         NEW st \in [Pid -> States], NEW left \in [Pid -> 0 .. MaxSleep],
         \A p \in Pid : p # current_process => st[p] = state[p],
         st[current_process] # "NONE",
         st[Boot] \in {"READY", "RUNNING"},
         st[Shell] # "ZOMBIE", st[TaskC] # "ZOMBIE",
         TimerHandler(st, left),
         UNCHANGED <<parent_pid, next_pid, launcher, spawner>>
  PROVE  /\ state' \in [Pid -> States] /\ wake' \in [Pid -> 0 .. MaxSleep]
         /\ current_process' \in Pid /\ Procs' = Procs
         /\ CpuOwner' /\ VitalAlive' /\ Ancestry'
         /\ \A p \in Pid : p >= next_pid' => state'[p] = "NONE"
<1>1. /\ state' \in [Pid -> States] /\ wake' \in [Pid -> 0 .. MaxSleep]
      /\ current_process' \in Pid /\ Procs' = Procs /\ CpuOwner'
      /\ \A p \in Pid : st[p] \in {"READY", "RUNNING"}
                          => state'[p] \in {"READY", "RUNNING"}
      /\ \A p \in Pid : st[p] # "ZOMBIE" => state'[p] # "ZOMBIE"
  BY TimerStep DEF IInv
<1>2. VitalAlive'
  <2>1. {Boot, Shell, TaskC} \subseteq Pid /\ {Boot, Shell, TaskC} \subseteq Procs
    BY DEF IInv, VitalAlive, Alive, Procs
  <2>2. QED
    BY <1>1, <2>1 DEF VitalAlive, Alive
<1>3. Ancestry'
  BY <1>1 DEF IInv, Ancestry
<1>4. \A p \in Pid : p >= next_pid' => state'[p] = "NONE"
  <2> SUFFICES ASSUME NEW p \in Pid, p >= next_pid PROVE state'[p] = "NONE"
    OBVIOUS
  <2>1. p \notin Procs
    BY DEF IInv, Bookkeeping, Procs
  <2>2. QED
    BY <1>1, <2>1 DEF Procs
<1>5. QED
  BY <1>1, <1>2, <1>3, <1>4

\* The ticks left after one more tick are a number of ticks again.
LEMMA ElapsedType == ASSUME BoundsAssumption, TypeOK
                     PROVE  Elapsed \in [Pid -> 0 .. MaxSleep]
BY DEF Elapsed, TypeOK, BoundsAssumption

\* What is known of the child and the requester while task_d places the child.
LEMMA Linked ==
  ASSUME IInv, spawner.pc \in Linking
  PROVE  /\ spawner.child \in Procs /\ spawner.child \in Pid
         /\ spawner.child >= FirstApp
         /\ Requester(spawner.parent) /\ spawner.parent \in Pid
         /\ spawner.parent < spawner.child /\ spawner.parent # spawner.child
         /\ \A q \in Procs : parent_pid[q] # spawner.child
         /\ foreground_process # spawner.child
         /\ launcher.pc = "focus" => launcher.child # spawner.child
         /\ spawner.pc # "idle"
         /\ spawner.pc \in {"unfocus", "point"} => is_foreground[spawner.child]
<1>1. NewChild(spawner.parent, spawner.child) /\ spawner.pc # "idle"
  BY DEF IInv, Bookkeeping, Linking
<1>2. Requester(spawner.parent)
  BY <1>1 DEF IInv, Bookkeeping
<1>3. spawner.pc \in {"unfocus", "point"} => is_foreground[spawner.child]
  BY DEF IInv, Bookkeeping
<1>4. spawner.child \in Pid /\ spawner.parent \in Pid
  BY <1>1, <1>2 DEF NewChild, Requester, Procs
<1>5. QED
  BY <1>1, <1>2, <1>3, <1>4 DEF NewChild, Pid

\* The caller of a system call is the shell or a program, and it is running.
LEMMA CallerRuns ==
  ASSUME BoundsAssumption, IInv, Caller(current_process)
  PROVE  /\ current_process \in Pid /\ Requester(current_process)
         /\ state[current_process] = "RUNNING"
         /\ current_process \notin {Boot, TaskC, TaskD}
BY DEF IInv, Caller, CpuOwner, TypeOK, Requester, Procs, Boot, Shell, TaskC,
       TaskD, FirstApp, Pid
-----------------------------------------------------------------------------
\* Every step keeps the invariant.
LEMMA NextIInv == ASSUME BoundsAssumption, IInv, [Next]_vars PROVE IInv'
<1> USE DEF IInv, SpawnerPc
<1>0. /\ Boot \in Pid /\ Shell \in Pid /\ TaskC \in Pid
      /\ \A p \in {Boot, Shell, TaskC} : p # current_process => state[p] # "ZOMBIE"
      /\ state[Boot] \in {"READY", "RUNNING"}
      /\ state[Shell] # "ZOMBIE" /\ state[TaskC] # "ZOMBIE"
      /\ state[current_process] # "NONE" /\ current_process \in Pid
      /\ state \in [Pid -> States]
  BY DEF VitalAlive, Alive, Procs, CpuOwner, TypeOK
<1>reading. reading' \in BOOLEAN
  <2>1. reading \in BOOLEAN /\ is_foreground[Shell] \in BOOLEAN
    BY <1>0 DEF TypeOK
  <2>2. CASE Tick \/ LauncherStep \/ UNCHANGED vars
    BY <2>1, <2>2 DEF Tick, LauncherStep, LauncherLoad, LauncherFocus, vars
  <2>3. CASE SpawnStep
    BY <2>1, <2>3 DEF SpawnStep, SpawnTake, SpawnLoad, SpawnLink, SpawnLook,
                      SpawnFocus, SpawnUnfocus, SpawnPoint, SpawnWake
  <2>4. CASE ShellLook
    BY <2>1, <2>4 DEF ShellLook
  <2>5. ASSUME NEW n \in 1 .. MaxSleep, Sleep(n) PROVE reading' \in BOOLEAN
    BY <2>1, <2>5 DEF Sleep, LooksAgain
  <2>6. CASE Exit \/ KillSelf \/ Exec
    BY <2>1, <2>6 DEF Exit, KillSelf, Exec, LooksAgain
  <2>7. ASSUME NEW t \in KillTargets, KillOther(t) PROVE reading' \in BOOLEAN
    BY <2>1, <2>7 DEF KillOther, LooksAgain
  <2>8. QED
    BY <2>2, <2>3, <2>4, <2>5, <2>6, <2>7 DEF Next
<1> USE <1>reading
<1>tick. CASE Tick
  <2>1. TimerHandler(state, Elapsed) /\ Elapsed \in [Pid -> 0 .. MaxSleep]
    BY <1>tick, ElapsedType DEF Tick
  <2>2. UNCHANGED <<is_foreground, parent_pid, halted, foreground_process,
                    next_pid, tem_pedido_exec, pai_solicitante_pid, launcher,
                    spawner>>
    BY <1>tick DEF Tick
  <2>3. /\ state' \in [Pid -> States] /\ wake' \in [Pid -> 0 .. MaxSleep]
        /\ current_process' \in Pid /\ Procs' = Procs
        /\ CpuOwner' /\ VitalAlive' /\ Ancestry'
        /\ \A p \in Pid : p >= next_pid' => state'[p] = "NONE"
    BY <1>0, <2>1, <2>2, YieldKeeps
  <2>4. TypeOK'
    BY <2>2, <2>3 DEF TypeOK
  <2>5. FocusAgrees'
    BY <2>2 DEF FocusAgrees
  <2>6. Bookkeeping'
    BY <2>2, <2>3 DEF Bookkeeping, Requester, NewChild, Linking
  <2>7. QED
    BY <2>3, <2>4, <2>5, <2>6
<1>reads. CASE ShellLook
  <2>1. /\ reading' = is_foreground[Shell]
        /\ UNCHANGED <<state, wake, is_foreground, parent_pid, halted,
                       current_process, foreground_process, next_pid,
                       tem_pedido_exec, pai_solicitante_pid, launcher, spawner>>
    BY <1>reads DEF ShellLook
  <2>2. TypeOK'
    BY <1>0, <2>1 DEF TypeOK
  <2>3. CpuOwner' /\ VitalAlive' /\ FocusAgrees' /\ Ancestry' /\ Bookkeeping'
    BY <2>1 DEF CpuOwner, VitalAlive, Alive, FocusAgrees, Ancestry, Bookkeeping,
                Requester, NewChild, Procs
  <2>4. QED
    BY <2>2, <2>3
<1>sleep. ASSUME NEW n \in 1 .. MaxSleep, Sleep(n) PROVE IInv'
  <2> DEFINE st == [state EXCEPT ![current_process] = "WAITING"]
             left == [Elapsed EXCEPT ![current_process] = n - 1]
  <2>0. Requester(current_process) /\ current_process \notin {Boot, TaskC, TaskD}
    BY <1>sleep, CallerRuns DEF Sleep
  <2>1. TimerHandler(st, left)
    BY <1>sleep DEF Sleep
  <2>1a. left \in [Pid -> 0 .. MaxSleep]
    BY <1>0, ElapsedType DEF BoundsAssumption
  <2>1b. /\ st \in [Pid -> States]
         /\ \A p \in Pid : p # current_process => st[p] = state[p]
         /\ st[current_process] = "WAITING"
         /\ st[Boot] \in {"READY", "RUNNING"}
         /\ st[Shell] # "ZOMBIE" /\ st[TaskC] # "ZOMBIE"
    BY <1>0, <2>0 DEF States
  <2>2. UNCHANGED <<is_foreground, parent_pid, halted, foreground_process,
                    next_pid, tem_pedido_exec, pai_solicitante_pid, launcher,
                    spawner>>
    BY <1>sleep DEF Sleep
  <2> HIDE DEF st, left
  <2>3. /\ state' \in [Pid -> States] /\ wake' \in [Pid -> 0 .. MaxSleep]
        /\ current_process' \in Pid /\ Procs' = Procs
        /\ CpuOwner' /\ VitalAlive' /\ Ancestry'
        /\ \A p \in Pid : p >= next_pid' => state'[p] = "NONE"
    BY <2>1, <2>1a, <2>1b, <2>2, YieldKeeps
  <2>4. TypeOK'
    BY <2>2, <2>3 DEF TypeOK
  <2>5. FocusAgrees'
    BY <2>2 DEF FocusAgrees
  <2>6. Bookkeeping'
    BY <2>2, <2>3 DEF Bookkeeping, Requester, NewChild, Linking
  <2>7. QED
    BY <2>3, <2>4, <2>5, <2>6
<1>die. ASSUME \/ Exit \/ KillSelf
        PROVE  IInv'
  <2> DEFINE st == [state EXCEPT ![current_process] = "ZOMBIE"]
  <2>0. Caller(current_process) /\ current_process # Shell
    <3>1. CASE Exit
      BY <3>1 DEF Exit, Shell, FirstApp
    <3>2. CASE KillSelf
      BY <3>2 DEF KillSelf, Killable, Shell
    <3>3. QED
      BY <1>die, <3>1, <3>2
  <2>0a. current_process \notin {Boot, Shell, TaskC, TaskD}
    BY <2>0, CallerRuns
  <2>1. /\ TimerHandler(st, Elapsed) /\ HandFocusToParent(current_process)
        /\ halted' = [halted EXCEPT ![current_process] = TRUE]
        /\ UNCHANGED <<parent_pid, next_pid, tem_pedido_exec,
                       pai_solicitante_pid, launcher, spawner>>
    BY <1>die DEF Exit, KillSelf
  <2>1b. /\ st \in [Pid -> States]
         /\ \A p \in Pid : p # current_process => st[p] = state[p]
         /\ st[current_process] = "ZOMBIE"
         /\ st[Boot] \in {"READY", "RUNNING"}
         /\ st[Shell] # "ZOMBIE" /\ st[TaskC] # "ZOMBIE"
    BY <1>0, <2>0a DEF States
  <2> HIDE DEF st
  <2>3. /\ state' \in [Pid -> States] /\ wake' \in [Pid -> 0 .. MaxSleep]
        /\ current_process' \in Pid /\ Procs' = Procs
        /\ CpuOwner' /\ VitalAlive' /\ Ancestry'
        /\ \A p \in Pid : p >= next_pid' => state'[p] = "NONE"
    BY <2>1, <2>1b, ElapsedType, YieldKeeps
  <2>3a. /\ is_foreground' \in [Pid -> BOOLEAN]
         /\ foreground_process' \in Procs
         /\ is_foreground[foreground_process] => is_foreground'[foreground_process']
         /\ \A q \in Pid : is_foreground[q] => is_foreground'[q]
         /\ \A q : foreground_process # q /\ (\A r \in Procs : parent_pid[r] # q)
                   => foreground_process' # q
    BY <1>0, <2>1, HandFocus DEF Bookkeeping, Procs
  <2>4. TypeOK'
    BY <1>0, <2>1, <2>3, <2>3a DEF TypeOK, Procs
  <2>5. FocusAgrees'
    BY <2>1, <2>3a DEF FocusAgrees
  <2>6. Bookkeeping'
    <3>1. spawner.pc \in Linking => NewChild(spawner.parent, spawner.child)'
      BY <2>1, <2>3, <2>3a, Linked DEF NewChild
    <3>2. spawner.pc \in {"unfocus", "point"} => is_foreground'[spawner.child]
      BY <2>3a, Linked DEF Linking
    <3>3. QED
      BY <2>1, <2>3, <2>3a, <3>1, <3>2 DEF Bookkeeping, Requester
  <2>7. QED
    BY <2>3, <2>4, <2>5, <2>6
<1>exec. CASE Exec
  <2> DEFINE st == [state EXCEPT ![current_process] = "WAITING"]
  <2>0. Requester(current_process) /\ current_process \notin {Boot, TaskC, TaskD}
    BY <1>exec, CallerRuns DEF Exec
  <2>1. TimerHandler(st, Elapsed)
    BY <1>exec DEF Exec
  <2>1b. /\ st \in [Pid -> States]
         /\ \A p \in Pid : p # current_process => st[p] = state[p]
         /\ st[current_process] = "WAITING"
         /\ st[Boot] \in {"READY", "RUNNING"}
         /\ st[Shell] # "ZOMBIE" /\ st[TaskC] # "ZOMBIE"
    BY <1>0, <2>0 DEF States
  <2>2. /\ UNCHANGED <<is_foreground, parent_pid, halted, foreground_process,
                       next_pid, launcher, spawner>>
        /\ tem_pedido_exec' = TRUE /\ pai_solicitante_pid' = current_process
    BY <1>exec DEF Exec
  <2> HIDE DEF st
  <2>3. /\ state' \in [Pid -> States] /\ wake' \in [Pid -> 0 .. MaxSleep]
        /\ current_process' \in Pid /\ Procs' = Procs
        /\ CpuOwner' /\ VitalAlive' /\ Ancestry'
        /\ \A p \in Pid : p >= next_pid' => state'[p] = "NONE"
    BY <2>1, <2>1b, <2>2, ElapsedType, YieldKeeps
  <2>4. TypeOK'
    <3>1. tem_pedido_exec' \in BOOLEAN
      BY <2>2
    <3>2. pai_solicitante_pid' \in 0 .. MaxPid
      BY <1>0, <2>2 DEF Pid, BoundsAssumption
    <3>3. QED
      BY <2>2, <2>3, <3>1, <3>2 DEF TypeOK
  <2>5. FocusAgrees'
    BY <2>2 DEF FocusAgrees
  <2>6. Bookkeeping'
    BY <2>0, <2>2, <2>3 DEF Bookkeeping, Requester, NewChild, Linking
  <2>7. QED
    BY <2>3, <2>4, <2>5, <2>6
<1>kill. ASSUME NEW t \in KillTargets, KillOther(t) PROVE IInv'
  <2>1. /\ t \in Procs /\ t \in Pid /\ t > 3 /\ t # current_process
        /\ state' = [state EXCEPT ![t] = "ZOMBIE"]
        /\ HandFocusToParent(t)
        /\ UNCHANGED <<wake, parent_pid, halted, current_process, next_pid,
                       tem_pedido_exec, pai_solicitante_pid, launcher, spawner>>
    BY <1>kill DEF KillOther, Killable, Alive, Procs
  <2>2. Procs' = Procs
    BY <1>0, <2>1 DEF Procs
  <2>3. /\ is_foreground' \in [Pid -> BOOLEAN]
        /\ foreground_process' \in Procs
        /\ is_foreground[foreground_process] => is_foreground'[foreground_process']
        /\ \A q \in Pid : is_foreground[q] => is_foreground'[q]
        /\ \A q : foreground_process # q /\ (\A r \in Procs : parent_pid[r] # q)
                  => foreground_process' # q
    BY <2>1, HandFocus DEF Bookkeeping
  <2>4. TypeOK'
    BY <2>1, <2>3 DEF TypeOK, States, Procs
  <2>5. CpuOwner'
    BY <1>0, <2>1 DEF CpuOwner, Boot
  <2>6. VitalAlive'
    BY <1>0, <2>1, <2>2 DEF VitalAlive, Alive, Boot, Shell, TaskC
  <2>7. FocusAgrees' /\ Ancestry'
    BY <2>1, <2>2, <2>3 DEF FocusAgrees, Ancestry
  <2>8. \A p \in Pid : p >= next_pid' => state'[p] = "NONE"
    BY <1>0, <2>1 DEF Bookkeeping, Procs
  <2>9. Bookkeeping'
    <3>1. spawner.pc \in Linking => NewChild(spawner.parent, spawner.child)'
      BY <2>1, <2>2, <2>3, Linked DEF NewChild
    <3>2. spawner.pc \in {"unfocus", "point"} => is_foreground'[spawner.child]
      BY <2>3, Linked DEF Linking
    <3>3. QED
      BY <2>1, <2>2, <2>3, <2>8, <3>1, <3>2 DEF Bookkeeping, Requester
  <2>10. QED
    BY <2>4, <2>5, <2>6, <2>7, <2>9
<1>runs. /\ \A t \in {TaskC, TaskD} : current_process = t => state[t] = "RUNNING"
         /\ next_pid \in 1 .. MaxPid + 1 /\ next_pid >= FirstApp
  BY DEF CpuOwner, Boot, TaskC, TaskD, TypeOK, Bookkeeping
<1>fails. ASSUME CreateFails, UNCHANGED current_process
          PROVE  /\ UNCHANGED <<state, wake, is_foreground, parent_pid, halted>>
                 /\ Procs' = Procs /\ CpuOwner' /\ VitalAlive'
                 /\ next_pid' \in 1 .. MaxPid + 1 /\ next_pid' >= FirstApp
                 /\ \A p \in Pid : p >= next_pid' => state'[p] = "NONE"
  <2>1. /\ UNCHANGED <<state, wake, is_foreground, parent_pid, halted>>
        /\ next_pid' \in 1 .. MaxPid + 1
        /\ next_pid' = next_pid \/ next_pid' = next_pid + 1
    BY <1>fails DEF CreateFails
  <2>2. next_pid' >= FirstApp /\ next_pid' >= next_pid
    BY <1>runs, <2>1 DEF FirstApp
  <2>3. \A p \in Pid : p >= next_pid' => state'[p] = "NONE"
    BY <1>runs, <2>1, <2>2 DEF Bookkeeping, Pid
  <2>4. Procs' = Procs /\ CpuOwner' /\ VitalAlive'
    BY <2>1, <1>fails DEF Procs, CpuOwner, VitalAlive, Alive
  <2>5. QED
    BY <2>1, <2>2, <2>3, <2>4
<1>load. CASE LauncherLoad
  <2>1. /\ current_process = TaskC
        /\ UNCHANGED <<current_process, foreground_process, tem_pedido_exec,
                       pai_solicitante_pid, spawner>>
    BY <1>load DEF LauncherLoad
  <2>2. ASSUME CreateProcess, launcher' = [pc |-> "focus", child |-> next_pid]
        PROVE  IInv'
    <3>1. /\ next_pid \in Pid
          /\ Procs' = Procs \cup {next_pid}
          /\ \A p \in Procs : p < next_pid
          /\ \A p \in Procs : state'[p] = state[p] /\ is_foreground'[p] = is_foreground[p]
                              /\ parent_pid'[p] = parent_pid[p]
          /\ state' \in [Pid -> States] /\ wake' \in [Pid -> 0 .. MaxSleep]
          /\ is_foreground' \in [Pid -> BOOLEAN] /\ parent_pid' \in [Pid -> 0 .. MaxPid]
          /\ halted' \in [Pid -> BOOLEAN] /\ next_pid' \in 1 .. MaxPid + 1
          /\ CpuOwner' /\ VitalAlive'
          /\ \A p \in Procs' : parent_pid'[p] < p
          /\ next_pid' >= FirstApp
          /\ \A p \in Pid : p >= next_pid' => state'[p] = "NONE"
      BY <1>runs, <2>1, <2>2, Created
    <3>2. launcher' \in [pc : {"load", "focus", "idle"}, child : 0 .. MaxPid]
      BY <2>2, <3>1 DEF Pid, BoundsAssumption
    <3>3. TypeOK'
      BY <2>1, <3>1, <3>2 DEF TypeOK
    <3>4. FocusAgrees'
      BY <2>1, <3>1 DEF FocusAgrees, Bookkeeping
    <3>4a. next_pid \notin Procs /\ parent_pid'[next_pid] = TaskC
      <4>1. next_pid \notin Procs
        BY <3>1 DEF Procs, Pid
      <4>2. QED
        BY <2>1, <2>2, <3>1, <4>1 DEF CreateProcess, TypeOK
    <3>5. Ancestry'
      <4>1. spawner.pc \in {"look", "focus", "unfocus", "point"}
              => parent_pid'[spawner.child] = spawner.parent
        BY <3>1, Linked DEF Ancestry, Linking
      <4>2. QED
        BY <2>1, <3>1, <4>1 DEF Ancestry
    <3>6. Bookkeeping'
      <4>1. launcher'.pc = "focus" /\ launcher'.child = next_pid
        BY <2>2
      <4>2. ASSUME spawner.pc \in Linking
            PROVE  NewChild(spawner.parent, spawner.child)'
        <5>1. \A q \in Procs' : parent_pid'[q] # spawner.child
          <6>1. /\ spawner.child \in Pid /\ spawner.child >= FirstApp
                /\ \A q \in Procs : parent_pid[q] # spawner.child
            BY <4>2, Linked
          <6>2. TaskC # spawner.child
            BY <6>1 DEF TaskC, FirstApp, Pid
          <6>3. QED
            BY <3>1, <3>4a, <6>1, <6>2
        <5>2. next_pid # spawner.child
          BY <3>4a, <4>2, Linked
        <5>3. QED
          BY <2>1, <3>1, <4>1, <4>2, <5>1, <5>2, Linked DEF NewChild
      <4>3. spawner.pc \in {"unfocus", "point"} => is_foreground'[spawner.child]
        BY <3>1, Linked DEF Linking
      <4>4. QED
        BY <2>1, <3>1, <4>1, <4>2, <4>3 DEF Bookkeeping, Requester
    <3>7. QED
      BY <3>1, <3>3, <3>4, <3>5, <3>6
  <2>3. ASSUME CreateFails, launcher' = [pc |-> "idle", child |-> 0]
        PROVE  IInv'
    <3>1. /\ UNCHANGED <<state, wake, is_foreground, parent_pid, halted>>
          /\ Procs' = Procs /\ CpuOwner' /\ VitalAlive'
          /\ next_pid' \in 1 .. MaxPid + 1 /\ next_pid' >= FirstApp
          /\ \A p \in Pid : p >= next_pid' => state'[p] = "NONE"
      BY <2>1, <2>3, <1>fails
    <3>2. launcher' \in [pc : {"load", "focus", "idle"}, child : 0 .. MaxPid]
      BY <2>3 DEF BoundsAssumption
    <3>3. TypeOK'
      BY <2>1, <3>1, <3>2 DEF TypeOK
    <3>4. FocusAgrees' /\ Ancestry'
      BY <2>1, <3>1 DEF FocusAgrees, Ancestry
    <3>5. Bookkeeping'
      BY <2>1, <2>3, <3>1 DEF Bookkeeping, Requester, NewChild, Linking
    <3>6. QED
      BY <3>1, <3>3, <3>4, <3>5
  <2>4. QED
    BY <1>load, <2>2, <2>3 DEF LauncherLoad
<1>focus. CASE LauncherFocus
  <2>1. /\ launcher.pc = "focus"
        /\ is_foreground' = [is_foreground EXCEPT ![foreground_process] = FALSE,
                                                  ![launcher.child] = TRUE]
        /\ foreground_process' = launcher.child
        /\ launcher' = [launcher EXCEPT !.pc = "idle"]
        /\ UNCHANGED <<state, wake, parent_pid, halted, current_process, next_pid,
                       tem_pedido_exec, pai_solicitante_pid, spawner>>
    BY <1>focus DEF LauncherFocus
  <2>2. launcher.child \in Procs /\ launcher.child \in Pid
    BY <2>1 DEF Bookkeeping, Procs
  <2>3. Procs' = Procs /\ CpuOwner' /\ VitalAlive' /\ Ancestry'
    BY <2>1 DEF Procs, CpuOwner, VitalAlive, Alive, Ancestry
  <2>4. is_foreground' \in [Pid -> BOOLEAN] /\ FocusAgrees'
    BY <2>1, <2>2 DEF TypeOK, FocusAgrees
  <2>5. launcher' \in [pc : {"load", "focus", "idle"}, child : 0 .. MaxPid]
    BY <2>1 DEF TypeOK
  <2>6. TypeOK'
    BY <2>1, <2>2, <2>4, <2>5 DEF TypeOK
  <2>7. launcher'.pc = "idle"
    BY <2>1 DEF TypeOK
  <2>8. Bookkeeping'
    <3>1. spawner.pc \in Linking => NewChild(spawner.parent, spawner.child)'
      BY <2>1, <2>3, <2>7, Linked DEF NewChild
    <3>2. spawner.pc \in {"unfocus", "point"} => is_foreground'[spawner.child]
      <4>1. is_foreground \in [Pid -> BOOLEAN]
        BY DEF TypeOK
      <4>2. QED
        BY <2>1, <2>2, <4>1, Linked DEF Linking
    <3>3. QED
      BY <2>1, <2>2, <2>3, <2>7, <3>1, <3>2 DEF Bookkeeping, Requester
  <2>9. QED
    BY <2>3, <2>4, <2>6, <2>8
<1>take. CASE SpawnTake
  <2>1. /\ tem_pedido_exec /\ spawner.pc = "idle"
        /\ spawner' = [pc |-> "load", parent |-> pai_solicitante_pid, child |-> 0]
        /\ tem_pedido_exec' = FALSE /\ pai_solicitante_pid' = 0
        /\ UNCHANGED <<state, wake, is_foreground, parent_pid, halted,
                       current_process, foreground_process, next_pid, launcher>>
    BY <1>take DEF SpawnTake
  <2>2. Procs' = Procs /\ CpuOwner' /\ VitalAlive' /\ FocusAgrees'
    BY <2>1 DEF Procs, CpuOwner, VitalAlive, Alive, FocusAgrees
  <2>3. Ancestry'
    BY <2>1, <2>2 DEF Ancestry
  <2>4. tem_pedido_exec' \in BOOLEAN
    BY <2>1
  <2>5. /\ spawner' \in [pc : SpawnerPc,
                          parent : 0 .. MaxPid, child : 0 .. MaxPid]
        /\ pai_solicitante_pid' \in 0 .. MaxPid
    BY <2>1 DEF TypeOK, BoundsAssumption
  <2>6. TypeOK'
    BY <2>1, <2>4, <2>5 DEF TypeOK
  <2>7. ~tem_pedido_exec' /\ Requester(spawner.parent)' /\ spawner'.pc = "load"
    BY <2>1, <2>2 DEF Bookkeeping, Requester
  <2>8. Bookkeeping'
    BY <2>1, <2>2, <2>7 DEF Bookkeeping, Linking
  <2>9. QED
    BY <2>2, <2>3, <2>6, <2>8
<1>spawned. CASE SpawnLoad
  <2>1. /\ current_process = TaskD /\ spawner.pc = "load"
        /\ UNCHANGED <<current_process, foreground_process, tem_pedido_exec,
                       pai_solicitante_pid, launcher>>
    BY <1>spawned DEF SpawnLoad
  <2>2. ASSUME CreateProcess,
               spawner' = [spawner EXCEPT !.pc = "link", !.child = next_pid]
        PROVE  IInv'
    <3>1. /\ next_pid \in Pid
          /\ Procs' = Procs \cup {next_pid}
          /\ \A p \in Procs : p < next_pid
          /\ \A p \in Procs : state'[p] = state[p] /\ is_foreground'[p] = is_foreground[p]
                              /\ parent_pid'[p] = parent_pid[p]
          /\ state' \in [Pid -> States] /\ wake' \in [Pid -> 0 .. MaxSleep]
          /\ is_foreground' \in [Pid -> BOOLEAN] /\ parent_pid' \in [Pid -> 0 .. MaxPid]
          /\ halted' \in [Pid -> BOOLEAN] /\ next_pid' \in 1 .. MaxPid + 1
          /\ CpuOwner' /\ VitalAlive'
          /\ \A p \in Procs' : parent_pid'[p] < p
          /\ next_pid' >= FirstApp
          /\ \A p \in Pid : p >= next_pid' => state'[p] = "NONE"
      BY <1>runs, <2>1, <2>2, Created
    <3>2. /\ spawner'.pc = "link" /\ spawner'.child = next_pid
          /\ spawner'.parent = spawner.parent
      BY <2>2 DEF TypeOK
    <3>3. spawner' \in [pc : SpawnerPc,
                        parent : 0 .. MaxPid, child : 0 .. MaxPid]
      <4>1. next_pid \in 0 .. MaxPid
        BY <3>1 DEF Pid, BoundsAssumption
      <4>2. spawner \in [pc : SpawnerPc,
                         parent : 0 .. MaxPid, child : 0 .. MaxPid]
        BY DEF TypeOK
      <4>3. QED
        BY <2>2, <4>1, <4>2
    <3>4. TypeOK'
      BY <2>1, <3>1, <3>3 DEF TypeOK
    <3>5. FocusAgrees'
      BY <2>1, <3>1 DEF FocusAgrees, Bookkeeping
    <3>6. Ancestry'
      BY <3>1, <3>2 DEF Ancestry
    <3>7. Bookkeeping'
      <4>1. next_pid \notin Procs
        BY <3>1 DEF Procs, Pid
      <4>2. parent_pid'[next_pid] = TaskD
        BY <2>1, <2>2, <3>1 DEF CreateProcess, TypeOK
      <4>3. next_pid >= FirstApp
        BY DEF Bookkeeping
      <4>4. \A q \in Procs' : parent_pid'[q] # next_pid
        <5>1. TaskD # next_pid
          BY <3>1, <4>3 DEF TaskD, FirstApp, Pid
        <5>2. ASSUME NEW q \in Procs PROVE parent_pid'[q] # next_pid
          <6>1. parent_pid[q] < q /\ q < next_pid /\ parent_pid'[q] = parent_pid[q]
            BY <3>1 DEF Ancestry
          <6>2. parent_pid[q] \in Int /\ q \in Int /\ next_pid \in Int
            BY <3>1 DEF Procs, Pid, TypeOK
          <6>3. QED
            BY <6>1, <6>2
        <5>3. QED
          BY <3>1, <4>2, <5>1, <5>2
      <4>5. spawner.parent \in Procs /\ spawner.parent < next_pid
        BY <2>1, <3>1 DEF Bookkeeping, Requester
      <4>6. NewChild(spawner.parent, spawner.child)'
        BY <2>1, <3>1, <3>2, <4>1, <4>3, <4>4, <4>5 DEF NewChild, Bookkeeping
      <4>7. QED
        BY <2>1, <3>1, <3>2, <4>6 DEF Bookkeeping, Requester
    <3>8. QED
      BY <3>1, <3>4, <3>5, <3>6, <3>7
  <2>3. ASSUME CreateFails, spawner' = [spawner EXCEPT !.pc = "wake"]
        PROVE  IInv'
    <3>1. /\ UNCHANGED <<state, wake, is_foreground, parent_pid, halted>>
          /\ Procs' = Procs /\ CpuOwner' /\ VitalAlive'
          /\ next_pid' \in 1 .. MaxPid + 1 /\ next_pid' >= FirstApp
          /\ \A p \in Pid : p >= next_pid' => state'[p] = "NONE"
      BY <2>1, <2>3, <1>fails
    <3>2. /\ spawner' \in [pc : SpawnerPc,
                           parent : 0 .. MaxPid, child : 0 .. MaxPid]
          /\ spawner'.pc = "wake" /\ spawner'.parent = spawner.parent
      BY <2>3 DEF TypeOK
    <3>3. TypeOK'
      BY <2>1, <3>1, <3>2 DEF TypeOK
    <3>4. FocusAgrees' /\ Ancestry'
      BY <2>1, <3>1, <3>2 DEF FocusAgrees, Ancestry
    <3>5. Bookkeeping'
      BY <2>1, <3>1, <3>2 DEF Bookkeeping, Requester, NewChild, Linking
    <3>6. QED
      BY <3>1, <3>3, <3>4, <3>5
  <2>4. QED
    BY <1>spawned, <2>2, <2>3 DEF SpawnLoad
<1>link. CASE SpawnLink
  <2>1. /\ spawner.pc = "link"
        /\ parent_pid' = [parent_pid EXCEPT ![spawner.child] = spawner.parent]
        /\ spawner' = [spawner EXCEPT !.pc = "look"]
        /\ UNCHANGED <<state, wake, is_foreground, halted, current_process,
                       foreground_process, next_pid, tem_pedido_exec,
                       pai_solicitante_pid, launcher>>
    BY <1>link DEF SpawnLink
  <2>2. /\ spawner.child \in Procs /\ spawner.child \in Pid
        /\ Requester(spawner.parent) /\ spawner.parent < spawner.child
    BY <2>1, Linked DEF Linking
  <2>3. Procs' = Procs /\ CpuOwner' /\ VitalAlive' /\ FocusAgrees'
    BY <2>1 DEF Procs, CpuOwner, VitalAlive, Alive, FocusAgrees
  <2>4. /\ spawner' \in [pc : SpawnerPc,
                          parent : 0 .. MaxPid, child : 0 .. MaxPid]
        /\ spawner'.pc = "look" /\ spawner'.parent = spawner.parent
        /\ spawner'.child = spawner.child
    BY <2>1 DEF TypeOK
  <2>5. parent_pid' \in [Pid -> 0 .. MaxPid]
    BY <2>1 DEF TypeOK
  <2>6. TypeOK'
    BY <2>1, <2>4, <2>5 DEF TypeOK
  <2>7. Ancestry'
    BY <2>1, <2>2, <2>3, <2>4 DEF Ancestry, TypeOK, Procs
  <2>8. Bookkeeping'
    BY <2>1, <2>2, <2>3, <2>4 DEF Bookkeeping, Requester, NewChild, Linking
  <2>9. QED
    BY <2>3, <2>6, <2>7, <2>8
<1>look. CASE SpawnLook
  <2> DEFINE to == IF is_foreground[spawner.parent] THEN "focus" ELSE "wake"
  <2>1. /\ spawner.pc = "look"
        /\ spawner' = [spawner EXCEPT !.pc = to]
        /\ UNCHANGED <<state, wake, is_foreground, parent_pid, halted,
                       current_process, foreground_process, next_pid,
                       tem_pedido_exec, pai_solicitante_pid, reading, launcher>>
    BY <1>look DEF SpawnLook
  <2>2. Procs' = Procs /\ CpuOwner' /\ VitalAlive'
    BY <2>1 DEF Procs, CpuOwner, VitalAlive, Alive
  <2>3. /\ spawner' \in [pc : SpawnerPc, parent : 0 .. MaxPid, child : 0 .. MaxPid]
        /\ spawner'.pc = to /\ spawner'.parent = spawner.parent
        /\ spawner'.child = spawner.child /\ to \in {"focus", "wake"}
    BY <2>1 DEF TypeOK
  <2>4. TypeOK'
    BY <2>1, <2>3 DEF TypeOK
  <2>5. FocusAgrees' /\ Ancestry'
    BY <2>1, <2>2, <2>3 DEF FocusAgrees, Ancestry
  <2>6. Bookkeeping'
    BY <2>1, <2>2, <2>3 DEF Bookkeeping, Requester, NewChild, Linking
  <2>7. QED
    BY <2>2, <2>4, <2>5, <2>6
<1>pass. CASE SpawnFocus
  <2>1. /\ spawner.pc = "focus"
        /\ is_foreground' = [is_foreground EXCEPT ![spawner.child] = TRUE]
        /\ spawner' = [spawner EXCEPT !.pc = "unfocus"]
        /\ UNCHANGED <<state, wake, parent_pid, halted, current_process,
                       foreground_process, next_pid, tem_pedido_exec,
                       pai_solicitante_pid, reading, launcher>>
    BY <1>pass DEF SpawnFocus
  <2>2. spawner.child \in Pid /\ is_foreground \in [Pid -> BOOLEAN]
    BY <2>1 DEF Bookkeeping, NewChild, Linking, Procs, TypeOK
  <2>3. Procs' = Procs /\ CpuOwner' /\ VitalAlive'
    BY <2>1 DEF Procs, CpuOwner, VitalAlive, Alive
  <2>4. /\ spawner' \in [pc : SpawnerPc, parent : 0 .. MaxPid, child : 0 .. MaxPid]
        /\ spawner'.pc = "unfocus" /\ spawner'.parent = spawner.parent
        /\ spawner'.child = spawner.child
    BY <2>1 DEF TypeOK
  <2>5. /\ is_foreground' \in [Pid -> BOOLEAN]
        /\ \A q \in Pid : is_foreground[q] => is_foreground'[q]
        /\ is_foreground'[spawner.child]
    BY <2>1, <2>2
  <2>6. TypeOK'
    BY <2>1, <2>4, <2>5 DEF TypeOK
  <2>7. FocusAgrees' /\ Ancestry'
    BY <2>1, <2>3, <2>4, <2>5 DEF FocusAgrees, Ancestry, TypeOK
  <2>8. Bookkeeping'
    BY <2>1, <2>3, <2>4, <2>5 DEF Bookkeeping, Requester, NewChild, Linking
  <2>9. QED
    BY <2>3, <2>6, <2>7, <2>8
<1>unfocus. CASE SpawnUnfocus
  <2>1. /\ spawner.pc = "unfocus"
        /\ is_foreground' = [is_foreground EXCEPT ![spawner.parent] = FALSE]
        /\ spawner' = [spawner EXCEPT !.pc = "point"]
        /\ UNCHANGED <<state, wake, parent_pid, halted, current_process,
                       foreground_process, next_pid, tem_pedido_exec,
                       pai_solicitante_pid, launcher>>
    BY <1>unfocus DEF SpawnUnfocus
  <2>2. /\ spawner.child \in Pid /\ spawner.parent # spawner.child
        /\ is_foreground[spawner.child] /\ is_foreground \in [Pid -> BOOLEAN]
    BY <2>1, Linked DEF Linking, TypeOK
  <2>3. Procs' = Procs /\ CpuOwner' /\ VitalAlive'
    BY <2>1 DEF Procs, CpuOwner, VitalAlive, Alive
  <2>4. /\ spawner' \in [pc : SpawnerPc, parent : 0 .. MaxPid, child : 0 .. MaxPid]
        /\ spawner'.pc = "point" /\ spawner'.parent = spawner.parent
        /\ spawner'.child = spawner.child
    BY <2>1 DEF TypeOK
  <2>5. is_foreground' \in [Pid -> BOOLEAN] /\ is_foreground'[spawner.child]
    BY <2>1, <2>2
  <2>6. TypeOK'
    BY <2>1, <2>4, <2>5 DEF TypeOK
  <2>7. FocusAgrees' /\ Ancestry'
    BY <2>1, <2>3, <2>4 DEF FocusAgrees, Ancestry
  <2>8. Bookkeeping'
    BY <2>1, <2>3, <2>4, <2>5 DEF Bookkeeping, Requester, NewChild, Linking
  <2>9. QED
    BY <2>3, <2>6, <2>7, <2>8
<1>point. CASE SpawnPoint
  <2>1. /\ spawner.pc = "point"
        /\ foreground_process' = spawner.child
        /\ spawner' = [spawner EXCEPT !.pc = "wake"]
        /\ UNCHANGED <<state, wake, is_foreground, parent_pid, halted,
                       current_process, next_pid, tem_pedido_exec,
                       pai_solicitante_pid, launcher>>
    BY <1>point DEF SpawnPoint
  <2>2. /\ spawner.child \in Procs /\ spawner.child \in Pid
        /\ is_foreground[spawner.child]
    BY <2>1 DEF Bookkeeping, NewChild, Linking, Procs
  <2>3. Procs' = Procs /\ CpuOwner' /\ VitalAlive'
    BY <2>1 DEF Procs, CpuOwner, VitalAlive, Alive
  <2>4. /\ spawner' \in [pc : SpawnerPc, parent : 0 .. MaxPid, child : 0 .. MaxPid]
        /\ spawner'.pc = "wake" /\ spawner'.parent = spawner.parent
    BY <2>1 DEF TypeOK
  <2>6. TypeOK'
    BY <2>1, <2>2, <2>4 DEF TypeOK
  <2>7. FocusAgrees' /\ Ancestry'
    BY <2>1, <2>2, <2>3, <2>4 DEF FocusAgrees, Ancestry
  <2>8. Bookkeeping'
    BY <2>1, <2>2, <2>3, <2>4 DEF Bookkeeping, Requester, NewChild, Linking
  <2>9. QED
    BY <2>3, <2>6, <2>7, <2>8
<1>wake. CASE SpawnWake
  <2>1. /\ current_process = TaskD /\ spawner.pc = "wake"
        /\ state' = [state EXCEPT ![spawner.parent] = "READY"]
        /\ spawner' = [pc |-> "idle", parent |-> 0, child |-> 0]
        /\ UNCHANGED <<wake, is_foreground, parent_pid, halted, current_process,
                       foreground_process, next_pid, tem_pedido_exec,
                       pai_solicitante_pid, launcher>>
    BY <1>wake DEF SpawnWake
  <2>2. /\ spawner.parent \in Procs /\ spawner.parent \in Pid
        /\ spawner.parent \notin {Boot, TaskC, TaskD}
    BY <2>1 DEF Bookkeeping, Requester, NewChild, Linking, Procs, Boot, Shell, TaskC, TaskD, FirstApp, Pid
  <2>3. /\ Procs' = Procs /\ state' \in [Pid -> States]
        /\ \A p \in Pid : p # spawner.parent => state'[p] = state[p]
        /\ state'[spawner.parent] = "READY"
    BY <1>0, <2>1, <2>2 DEF Procs, States
  <2>4. CpuOwner'
    BY <1>0, <1>runs, <2>1, <2>2, <2>3 DEF CpuOwner
  <2>5. VitalAlive'
    BY <1>0, <2>2, <2>3 DEF VitalAlive, Alive
  <2>6. /\ spawner' \in [pc : SpawnerPc,
                          parent : 0 .. MaxPid, child : 0 .. MaxPid]
        /\ spawner'.pc = "idle"
    BY <2>1 DEF BoundsAssumption
  <2>7. TypeOK'
    BY <2>1, <2>3, <2>6 DEF TypeOK
  <2>8. FocusAgrees' /\ Ancestry'
    BY <2>1, <2>3, <2>6 DEF FocusAgrees, Ancestry
  <2>9. \A p \in Pid : p >= next_pid' => state'[p] = "NONE"
    BY <2>1, <2>2, <2>3 DEF Bookkeeping, Procs
  <2>10. Bookkeeping'
    BY <2>1, <2>3, <2>6, <2>9 DEF Bookkeeping, Requester, NewChild, Linking
  <2>11. QED
    BY <2>4, <2>5, <2>7, <2>8, <2>10
<1>stutter. CASE UNCHANGED vars
  BY <1>stutter DEF vars, TypeOK, CpuOwner, VitalAlive, Alive, FocusAgrees,
                    Ancestry, Bookkeeping, Requester, NewChild, Procs
<1>q. QED
  BY <1>tick, <1>reads, <1>sleep, <1>die, <1>exec, <1>kill, <1>load, <1>focus, <1>take,
     <1>spawned, <1>link, <1>look, <1>pass, <1>unfocus, <1>point, <1>wake, <1>stutter
     DEF Next, LauncherStep, SpawnStep
-----------------------------------------------------------------------------
\* The reachable states satisfy the inductive invariant.
THEOREM Inductive == Spec => []IInv
<1>1. Init => IInv
  BY InitIInv, BoundsAssumption
<1>2. IInv /\ [Next]_vars => IInv'
  BY NextIInv, BoundsAssumption
<1>3. QED
  BY <1>1, <1>2, PTL DEF Spec

\* Every variable keeps its type, for every number of processes.
THEOREM TypeCorrect == Spec => []TypeOK
<1>1. IInv => TypeOK
  BY DEF IInv
<1>2. QED
  BY <1>1, Inductive, PTL

\* schedule() never leaves the CPU with two owners or with none: one process
\* is RUNNING and it is current_process.
THEOREM OneCpuOwner == Spec => []CpuOwner
<1>1. IInv => CpuOwner
  BY DEF IInv
<1>2. QED
  BY <1>1, Inductive, PTL

\* No sequence of calls kills the kernel task, the shell or task_c, or puts
\* the kernel task to sleep.
THEOREM VitalTasksLive == Spec => []VitalAlive
<1>1. IInv => VitalAlive
  BY DEF IInv
<1>2. QED
  BY <1>1, Inductive, PTL

\* foreground_process always points to a process that has is_foreground set,
\* whoever exits, is killed, is launched or is spawned.
THEOREM FocusConsistent == Spec => []FocusAgrees
<1>1. IInv => FocusAgrees
  BY DEF IInv
<1>2. QED
  BY <1>1, Inductive, PTL

\* Parents are older than their children, and task_d hangs the child it makes
\* under the process whose request it serves.
THEOREM ParentsAreOlder == Spec => []Ancestry
<1>1. IInv => Ancestry
  BY DEF IInv
<1>2. QED
  BY <1>1, Inductive, PTL

\* Together they are what the process manager keeps at all times.
THEOREM ProcessesStaySound == Spec => []ProcessesSound
<1>1. IInv => ProcessesSound
  BY DEF IInv, ProcessesSound
<1>2. QED
  BY <1>1, Inductive, PTL
-----------------------------------------------------------------------------
\* The list is short enough for the search of schedule() to go all round it.
SearchGoesRound == MaxPid <= MaxAttempts + 1

\* Then the search of schedule() always finds a ready process, the kernel's own
\* at the latest, and it dispatches no other: the dead stay dead, and sleepers
\* are dispatched when they have nothing left to wait.
LEMMA DispatchesReady ==
  ASSUME BoundsAssumption, SearchGoesRound, TypeOK,
         NEW st \in [Pid -> States], NEW left \in [Pid -> 0 .. MaxSleep],
         Boot \in Procs,
         st[Boot] = "READY" \/ (st[Boot] = "RUNNING" /\ Boot = current_process),
         TimerHandler(st, left)
  PROVE  /\ wake' = left
         /\ \A p \in Pid : st[p] = "ZOMBIE" => state'[p] = "ZOMBIE"
         /\ \A p \in Pid : st[p] = "WAITING" /\ state'[p] # "WAITING" => left[p] = 0
<1> DEFINE new == Settled(st, left)
<1>1. new \in [Pid -> States] /\ Boot \in Pid /\ new[Boot] = "READY"
  BY DEF Settled, States, Procs
<1>2. \A p \in Procs : Cardinality(Ahead(current_process, p)) <= MaxAttempts + 1
  <2> SUFFICES ASSUME NEW p \in Procs
               PROVE  Cardinality(Ahead(current_process, p)) <= MaxAttempts + 1
    OBVIOUS
  <2>1. Ahead(current_process, p) \subseteq Pid
    BY DEF Ahead, Procs
  <2>2. IsFiniteSet(Pid) /\ Cardinality(Pid) = MaxPid
    <3>1. 1 \in Int /\ MaxPid \in Int /\ MaxPid >= 5
      BY DEF BoundsAssumption
    <3>2. IsFiniteSet(1 .. MaxPid)
          /\ Cardinality(1 .. MaxPid) = IF 1 > MaxPid THEN 0 ELSE MaxPid - 1 + 1
      BY <3>1, FS_Interval, Zenon
    <3>3. QED
      BY <3>1, <3>2 DEF Pid
  <2>3. /\ IsFiniteSet(Ahead(current_process, p))
        /\ Cardinality(Ahead(current_process, p)) <= Cardinality(Pid)
    BY <2>1, <2>2, FS_Subset
  <2>4. Cardinality(Ahead(current_process, p)) \in Nat
    BY <2>3, FS_CardinalityType
  <2>5. QED
    BY <2>2, <2>3, <2>4 DEF SearchGoesRound, BoundsAssumption
<1>3. Boot \in Candidates(new)
  BY <1>1, <1>2 DEF Candidates
<1>4. Selected(new) \subseteq {p \in Pid : new[p] = "READY"}
  BY <1>3 DEF Selected, Candidates, Procs
<1>5. PICK p \in Pid : /\ new[p] = "READY"
                       /\ state' = [new EXCEPT ![p] = "RUNNING"]
  BY <1>4 DEF TimerHandler
<1>6. wake' = left
  BY DEF TimerHandler
<1>7. \A q \in Pid : /\ st[q] = "ZOMBIE" => new[q] = "ZOMBIE"
                     /\ st[q] = "WAITING" /\ new[q] # "WAITING" => left[q] = 0
  BY DEF Settled
<1>8. ASSUME NEW q \in Pid, st[q] = "ZOMBIE" PROVE state'[q] = "ZOMBIE"
  BY <1>1, <1>5, <1>7, <1>8
<1>9. ASSUME NEW q \in Pid, st[q] = "WAITING", state'[q] # "WAITING"
      PROVE  left[q] = 0
  BY <1>1, <1>5, <1>7, <1>9
<1>10. QED
  BY <1>6, <1>8, <1>9

\* What a step may do to the dead and to the waiting: the formula of which
\* RevivedOnlyByExec and WaitsItsTicks are the two halves.
LEMMA StepRespectsWaiting ==
  ASSUME BoundsAssumption, SearchGoesRound, IInv, [Next]_vars, NEW q \in Pid
  PROVE  /\ state[q] = "ZOMBIE" /\ state'[q] # "ZOMBIE"
               => SpawnWake /\ q = spawner.parent
         /\ state[q] = "WAITING" /\ state'[q] \in {"READY", "RUNNING"}
               => wake'[q] = 0 \/ (SpawnWake /\ q = spawner.parent)
<1> DEFINE Respected ==
      /\ state[q] = "ZOMBIE" /\ state'[q] # "ZOMBIE"
            => SpawnWake /\ q = spawner.parent
      /\ state[q] = "WAITING" /\ state'[q] \in {"READY", "RUNNING"}
            => wake'[q] = 0 \/ (SpawnWake /\ q = spawner.parent)
<1>0. /\ TypeOK /\ Boot \in Procs /\ Boot \in Pid /\ state \in [Pid -> States]
      /\ state[Boot] = "READY" \/ (state[Boot] = "RUNNING" /\ Boot = current_process)
      /\ state[current_process] \notin {"ZOMBIE", "WAITING"}
      /\ current_process \in Pid
      /\ Elapsed \in [Pid -> 0 .. MaxSleep]
  BY ElapsedType DEF IInv, VitalAlive, Alive, Procs, CpuOwner, TypeOK
<1>1. ASSUME NEW st \in [Pid -> States], NEW left \in [Pid -> 0 .. MaxSleep],
             \A p \in Pid : p # current_process => st[p] = state[p],
             current_process = Boot => st[Boot] = state[Boot],
             TimerHandler(st, left)
      PROVE  Respected
  <2>1. st[Boot] = "READY" \/ (st[Boot] = "RUNNING" /\ Boot = current_process)
    BY <1>0, <1>1
  <2>2. /\ wake' = left
        /\ \A p \in Pid : st[p] = "ZOMBIE" => state'[p] = "ZOMBIE"
        /\ \A p \in Pid : st[p] = "WAITING" /\ state'[p] # "WAITING" => left[p] = 0
    BY <1>0, <1>1, <2>1, DispatchesReady
  <2>3. q # current_process \/ state[q] \notin {"ZOMBIE", "WAITING"}
    BY <1>0
  <2>4. QED
    BY <1>1, <2>2, <2>3
<1>tick. CASE Tick
  BY <1>0, <1>1, <1>tick DEF Tick
<1>sleep. ASSUME NEW n \in 1 .. MaxSleep, Sleep(n) PROVE Respected
  <2>1. current_process # Boot
    BY <1>sleep, CallerRuns DEF Sleep
  <2>2. TimerHandler([state EXCEPT ![current_process] = "WAITING"],
                     [Elapsed EXCEPT ![current_process] = n - 1])
    BY <1>sleep DEF Sleep
  <2>3. [state EXCEPT ![current_process] = "WAITING"] \in [Pid -> States]
    BY <1>0 DEF States
  <2>4. [Elapsed EXCEPT ![current_process] = n - 1] \in [Pid -> 0 .. MaxSleep]
    BY <1>0 DEF BoundsAssumption
  <2>5. \A p \in Pid : p # current_process =>
                         [state EXCEPT ![current_process] = "WAITING"][p] = state[p]
    BY <1>0
  <2>6. QED
    BY <1>1, <2>1, <2>2, <2>3, <2>4, <2>5
<1>yield. ASSUME NEW s \in {"ZOMBIE", "WAITING"}, Caller(current_process),
                 TimerHandler([state EXCEPT ![current_process] = s], Elapsed)
          PROVE  Respected
  <2>1. current_process # Boot
    BY <1>yield, CallerRuns
  <2>2. [state EXCEPT ![current_process] = s] \in [Pid -> States]
    BY <1>0 DEF States
  <2>3. \A p \in Pid : p # current_process =>
                         [state EXCEPT ![current_process] = s][p] = state[p]
    BY <1>0
  <2>4. QED
    BY <1>0, <1>1, <1>yield, <2>1, <2>2, <2>3
<1>die. CASE Exit \/ KillSelf
  BY <1>die, <1>yield DEF Exit, KillSelf
<1>exec. CASE Exec
  BY <1>exec, <1>yield DEF Exec
<1>kill. ASSUME NEW t \in KillTargets, KillOther(t) PROVE Respected
  <2>1. state' = [state EXCEPT ![t] = "ZOMBIE"]
    BY <1>kill DEF KillOther
  <2>2. QED
    BY <1>0, <2>1
<1>create. ASSUME CreateProcess PROVE Respected
  <2>1. /\ state' = [state EXCEPT ![next_pid] = "READY"]
        /\ next_pid \in Pid => state[next_pid] = "NONE"
    BY <1>create DEF CreateProcess, IInv, TypeOK, Bookkeeping, Pid, BoundsAssumption
  <2>2. QED
    BY <1>0, <2>1
<1>still. ASSUME UNCHANGED state PROVE Respected
  BY <1>still
<1>reads. CASE ShellLook
  BY <1>reads, <1>still DEF ShellLook
<1>launch. CASE LauncherStep
  BY <1>launch, <1>create, <1>still
     DEF LauncherStep, LauncherLoad, LauncherFocus, CreateFails
<1>spawn. CASE SpawnTake \/ SpawnLoad \/ SpawnLink \/ SpawnLook \/ SpawnFocus
               \/ SpawnUnfocus \/ SpawnPoint
  BY <1>spawn, <1>create, <1>still
     DEF SpawnTake, SpawnLoad, SpawnLink, SpawnLook, SpawnFocus, SpawnUnfocus,
         SpawnPoint, CreateFails
<1>back. CASE SpawnWake
  <2>1. state' = [state EXCEPT ![spawner.parent] = "READY"]
    BY <1>back DEF SpawnWake
  <2>2. QED
    BY <1>0, <1>back, <2>1
<1>stutter. CASE UNCHANGED vars
  BY <1>stutter, <1>still DEF vars
<1>q. QED
  BY <1>tick, <1>reads, <1>sleep, <1>die, <1>exec, <1>kill, <1>launch, <1>spawn, <1>back,
     <1>stutter DEF Next, SpawnStep

\* As long as the search goes all round the list, the only way back from the
\* dead is to be the requester that task_d wakes.
THEOREM DeadRevivedOnlyByExec ==
  ASSUME SearchGoesRound PROVE Spec => RevivedOnlyByExec
<1>1. IInv /\ [Next]_vars
        => [\A p \in Pid : state[p] = "ZOMBIE" /\ state'[p] # "ZOMBIE"
                            => SpawnWake /\ p = spawner.parent]_vars
  BY StepRespectsWaiting, BoundsAssumption
<1>2. QED
  BY <1>1, Inductive, PTL DEF Spec, RevivedOnlyByExec

\* And sleepers sleep their time, save those that task_d calls back.
THEOREM SleepersWait ==
  ASSUME SearchGoesRound PROVE Spec => WaitsItsTicks
<1>1. IInv /\ [Next]_vars
        => [\A p \in Pid :
              state[p] = "WAITING" /\ state'[p] \in {"READY", "RUNNING"}
                => wake'[p] = 0 \/ (SpawnWake /\ p = spawner.parent)]_vars
  BY StepRespectsWaiting, BoundsAssumption
<1>2. QED
  BY <1>1, Inductive, PTL DEF Spec, WaitsItsTicks
=============================================================================
