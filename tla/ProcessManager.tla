--------------------------- MODULE ProcessManager ---------------------------
(***************************************************************************)
(* The process manager of the kernel: the process list, the round-robin    *)
(* scheduler entered through vector 0x20, sleeping, termination, SYS_KILL, *)
(* the one-entry exec mailbox served by task_d, and the keyboard focus     *)
(* that these operations hand from process to process (drivers/proc.c,     *)
(* drivers/timer.c, drivers/apps.c and the process calls of                *)
(* drivers/syscall.c).                                                     *)
(*                                                                         *)
(* There is one CPU: an action is a stretch of kernel code that no         *)
(* interrupt can divide, executed by current_process, and the timer        *)
(* interrupt is an action of its own that may come between any two.        *)
(*                                                                         *)
(* The list that head points to is the set Procs: create_process numbers   *)
(* processes upwards and always inserts at the head, so following next     *)
(* pointers is visiting Procs in descending order of pid.  system_ticks    *)
(* is compared only with wake_up_time, so wake[p] keeps what is left of    *)
(* wake_up_time - system_ticks, down to 0.                                 *)
(***************************************************************************)
EXTENDS Integers, FiniteSets

CONSTANTS
  MaxPid,       \* bound: the last pid the model hands out
  MaxSleep,     \* bound: the longest sleep asked for, in ticks
  MaxAttempts,  \* the 256 of the search loop in schedule()
  KillTargets   \* the pids that callers pass to SYS_KILL

ASSUME BoundsAssumption ==
  /\ MaxPid \in Nat /\ MaxPid >= 5
  /\ MaxSleep \in Nat \ {0}
  /\ MaxAttempts \in Nat
  /\ KillTargets \subseteq Nat

VARIABLES
  state,               \* process_t.state, "NONE" while the pid is unused
  wake,                \* ticks left until wake_up_time
  is_foreground,       \* process_t.is_foreground
  parent_pid,          \* process_t.parent_pid
  halted,              \* the process is in the hlt loop after its own death
  current_process,     \* pid of the process on the CPU
  foreground_process,  \* pid the keyboard belongs to
  next_pid,
  tem_pedido_exec,     \* the mailbox of SYS_EXEC is full
  pai_solicitante_pid, \* who filled it
  reading,             \* the shell has found itself in the foreground and is
                       \* at the keyboard, or at the command typed there
  launcher,            \* progress of task_c, and the pid it created
  spawner              \* progress of task_d and its two locals

vars == <<state, wake, is_foreground, parent_pid, halted, current_process,
          foreground_process, next_pid, tem_pedido_exec, pai_solicitante_pid,
          reading, launcher, spawner>>

Pid == 1 .. MaxPid

\* The processes kernel_main creates, in the order it creates them.
Boot     == 1   \* "Kernel_Task": kernel_main itself once the timer runs
Shell    == 2
TaskC    == 3   \* "App_Launcher"
TaskD    == 4   \* "App_Exec"
FirstApp == 5

States == {"NONE", "ZOMBIE", "READY", "RUNNING", "WAITING"}

\* Where task_d may be in process_spawn_pending().
SpawnerPc == {"idle", "load", "link", "look", "focus", "unfocus", "point",
              "wake"}

Procs == {p \in Pid : state[p] # "NONE"}
Alive == {p \in Procs : state[p] # "ZOMBIE"}

TypeOK ==
  /\ state \in [Pid -> States]
  /\ wake \in [Pid -> 0 .. MaxSleep]
  /\ is_foreground \in [Pid -> BOOLEAN]
  /\ parent_pid \in [Pid -> 0 .. MaxPid]
  /\ halted \in [Pid -> BOOLEAN]
  /\ current_process \in Pid
  /\ foreground_process \in Pid
  /\ next_pid \in 1 .. MaxPid + 1
  /\ tem_pedido_exec \in BOOLEAN
  /\ pai_solicitante_pid \in 0 .. MaxPid
  /\ reading \in BOOLEAN
  /\ launcher \in [pc : {"load", "focus", "idle"}, child : 0 .. MaxPid]
  /\ spawner \in [pc : SpawnerPc,
                  parent : 0 .. MaxPid, child : 0 .. MaxPid]

-----------------------------------------------------------------------------
\* schedule(): the wake-up scan, the save of the running process, the search.

\* Mutant: the search always starts at head.
Mut_AheadFromHead(c, p) == {q \in Procs : p <= q}

\* The entries the search looks at on its way from c's successor to p.
Ahead(c, p) == IF p < c THEN {q \in Procs : p <= q /\ q < c}
                        ELSE {q \in Procs : p <= q \/ q < c}

\* The ready entries within the 1 + MaxAttempts that the search looks at.
Candidates(st) ==
  {p \in Procs : /\ st[p] = "READY"
                 /\ Cardinality(Ahead(current_process, p)) <= MaxAttempts + 1}

\* The entry schedule() settles on: the first candidate, and without any the
\* current process if it is ready and else whatever head points to.
Selected(st) ==
  LET ready == Candidates(st)
  IN IF ready # {}
     THEN {p \in ready : ready \cap Ahead(current_process, p) = {p}}
     ELSE IF st[current_process] = "READY"
          THEN {current_process}
          ELSE {p \in Procs : \A q \in Procs : q <= p}

\* Mutant: the remaining time is decremented without looking at zero.
Mut_ElapsedUnguarded == [p \in Pid |-> wake[p] - 1]

Elapsed == [p \in Pid |-> IF wake[p] > 0 THEN wake[p] - 1 ELSE 0]

\* Mutants of the wake-up scan and of the save: the running process is not
\* put back to READY; state 3 is not tested; sleepers wake a tick early; the
\* scan looks for another state than that which sys_sleep() sets.
Mut_SettledKeepsRunning(st, left) ==
  [p \in Pid |-> IF st[p] = "WAITING" /\ left[p] = 0 THEN "READY" ELSE st[p]]
Mut_SettledWakesAny(st, left) ==
  [p \in Pid |-> IF p \in Procs /\ left[p] = 0 THEN "READY" ELSE st[p]]
Mut_SettledWakesEarly(st, left) ==
  [p \in Pid |->
     IF \/ st[p] = "WAITING" /\ left[p] <= 1
        \/ st[p] = "RUNNING" /\ p = current_process
     THEN "READY" ELSE st[p]]

Mut_SettledOtherState(st, left) ==
  [p \in Pid |->
     IF st[p] = "RUNNING" /\ p = current_process THEN "READY" ELSE st[p]]

\* States after one tick, when the handler finds the processes in states st
\* with left[p] ticks to sleep: sleepers whose time has come are ready again
\* and so is the process that was running.
Settled(st, left) ==
  [p \in Pid |->
     IF \/ st[p] = "WAITING" /\ left[p] = 0
        \/ st[p] = "RUNNING" /\ p = current_process
     THEN "READY" ELSE st[p]]

\* timer_handler(): system_ticks++ and schedule(), for IRQ 0 and for the
\* int $0x20 that ends the calls which give up the CPU.
TimerHandler(st, left) ==
  LET settled == Settled(st, left)
  IN /\ wake' = left
     /\ \E p \in Selected(settled) :
          /\ current_process' = p
          /\ state' = [settled EXCEPT ![p] = "RUNNING"]

\* IRQ 0 at a point where interrupts are on, or force_reschedule().
Tick ==
  /\ TimerHandler(state, Elapsed)
  /\ UNCHANGED <<is_foreground, parent_pid, halted, foreground_process,
                 next_pid, tem_pedido_exec, pai_solicitante_pid, reading,
                 launcher, spawner>>

-----------------------------------------------------------------------------
\* Calls of a process.

\* shell_task() looks whether the keyboard is its own, and only then, with
\* interrupts on, takes a key from it or sleeps, or runs the command that the
\* key completes: by then the focus may be gone.
ShellLook ==
  /\ current_process = Shell
  /\ reading' = is_foreground[Shell]
  /\ UNCHANGED <<state, wake, is_foreground, parent_pid, halted,
                 current_process, foreground_process, next_pid,
                 tem_pedido_exec, pai_solicitante_pid, launcher, spawner>>

\* The shell calls from there; a Ring 3 program may call at any time, unless it
\* is back in the hlt loop after its death.
Caller(p) == /\ p = current_process
             /\ \/ p = Shell /\ reading
                \/ p >= FirstApp /\ ~halted[p]

\* After a call the shell looks again.
LooksAgain == reading' = (reading /\ current_process # Shell)

\* Mutant: only the pointer moves to the parent, not the flag.
Mut_HandFocusPointerOnly(p) ==
  /\ UNCHANGED is_foreground
  /\ IF is_foreground[p] /\ parent_pid[p] \in Procs
     THEN foreground_process' = parent_pid[p]
     ELSE UNCHANGED foreground_process

\* The process that inherits the focus when p dies: p's parent, if p was in
\* the foreground and the parent is still in the list.
HandFocusToParent(p) ==
  IF is_foreground[p] /\ parent_pid[p] \in Procs
  THEN /\ is_foreground' = [is_foreground EXCEPT ![parent_pid[p]] = TRUE]
       /\ foreground_process' = parent_pid[p]
  ELSE UNCHANGED <<is_foreground, foreground_process>>

\* SYS_SLEEP: sys_sleep(ms) with ticks_to_wait = n.  The int $0x20 that puts
\* the process to sleep is itself a tick.
Sleep(n) ==
  /\ Caller(current_process)
  /\ TimerHandler([state EXCEPT ![current_process] = "WAITING"],
                  [Elapsed EXCEPT ![current_process] = n - 1])
  /\ LooksAgain
  /\ UNCHANGED <<is_foreground, parent_pid, halted, foreground_process,
                 next_pid, tem_pedido_exec, pai_solicitante_pid, launcher,
                 spawner>>

\* SYS_EXIT, through terminate_current_process().
Exit ==
  /\ Caller(current_process) /\ current_process >= FirstApp
  /\ HandFocusToParent(current_process)
  /\ halted' = [halted EXCEPT ![current_process] = TRUE]
  /\ TimerHandler([state EXCEPT ![current_process] = "ZOMBIE"], Elapsed)
  /\ UNCHANGED <<parent_pid, next_pid, tem_pedido_exec, pai_solicitante_pid,
                 reading, launcher, spawner>>

\* Mutant: task_c is not protected.
Mut_KillableFromThree == {p \in Alive : p > 2}

\* The pids kill_process() acts upon; for the others it returns at once.
Killable == {p \in Alive : p > 3}

\* SYS_KILL of another process: the caller keeps the CPU.
KillOther(t) ==
  /\ Caller(current_process)
  /\ t \in Killable /\ t # current_process
  /\ state' = [state EXCEPT ![t] = "ZOMBIE"]
  /\ HandFocusToParent(t)
  /\ LooksAgain
  /\ UNCHANGED <<wake, parent_pid, halted, current_process, next_pid,
                 tem_pedido_exec, pai_solicitante_pid, launcher, spawner>>

\* SYS_KILL of the caller itself.
KillSelf ==
  /\ Caller(current_process)
  /\ current_process \in Killable \cap KillTargets
  /\ HandFocusToParent(current_process)
  /\ halted' = [halted EXCEPT ![current_process] = TRUE]
  /\ TimerHandler([state EXCEPT ![current_process] = "ZOMBIE"], Elapsed)
  /\ UNCHANGED <<parent_pid, next_pid, tem_pedido_exec, pai_solicitante_pid,
                 reading, launcher, spawner>>

\* SYS_EXEC with the mailbox empty; with the mailbox full it returns -2 and
\* changes nothing.
Exec ==
  /\ Caller(current_process)
  /\ ~tem_pedido_exec
  /\ tem_pedido_exec' = TRUE
  /\ pai_solicitante_pid' = current_process
  /\ TimerHandler([state EXCEPT ![current_process] = "WAITING"], Elapsed)
  /\ LooksAgain
  /\ UNCHANGED <<is_foreground, parent_pid, halted, foreground_process,
                 next_pid, launcher, spawner>>

-----------------------------------------------------------------------------
\* create_process(), at the end of create_elf_process().

CreateProcess ==
  /\ next_pid <= MaxPid
  /\ state' = [state EXCEPT ![next_pid] = "READY"]
  /\ wake' = [wake EXCEPT ![next_pid] = 0]
  /\ is_foreground' = [is_foreground EXCEPT ![next_pid] = FALSE]
  /\ parent_pid' = [parent_pid EXCEPT ![next_pid] = current_process]
  /\ halted' = [halted EXCEPT ![next_pid] = FALSE]
  /\ next_pid' = next_pid + 1

\* The program cannot be loaded, or memory runs out.  The pid is already
\* taken when it is the kernel stack that cannot be allocated.
CreateFails ==
  /\ next_pid' \in {next_pid, next_pid + 1} \cap (1 .. MaxPid + 1)
  /\ UNCHANGED <<state, wake, is_foreground, parent_pid, halted>>

\* task_c: create the Explorer, then give it the focus.
LauncherLoad ==
  /\ current_process = TaskC /\ launcher.pc = "load"
  /\ \/ CreateProcess /\ launcher' = [pc |-> "focus", child |-> next_pid]
     \/ CreateFails /\ launcher' = [pc |-> "idle", child |-> 0]
  /\ UNCHANGED <<current_process, foreground_process, tem_pedido_exec,
                 pai_solicitante_pid, reading, spawner>>

LauncherFocus ==
  /\ current_process = TaskC /\ launcher.pc = "focus"
  /\ is_foreground' = [is_foreground EXCEPT ![foreground_process] = FALSE,
                                            ![launcher.child] = TRUE]
  /\ foreground_process' = launcher.child
  /\ launcher' = [launcher EXCEPT !.pc = "idle"]
  /\ UNCHANGED <<state, wake, parent_pid, halted, current_process, next_pid,
                 tem_pedido_exec, pai_solicitante_pid, reading, spawner>>

\* task_d: process_spawn_pending().  Interrupts are on between its parts.
SpawnTake ==
  /\ current_process = TaskD /\ spawner.pc = "idle"
  /\ tem_pedido_exec
  /\ spawner' = [pc |-> "load", parent |-> pai_solicitante_pid, child |-> 0]
  /\ tem_pedido_exec' = FALSE
  /\ pai_solicitante_pid' = 0
  /\ UNCHANGED <<state, wake, is_foreground, parent_pid, halted,
                 current_process, foreground_process, next_pid, reading,
                 launcher>>

\* Mutant: a program that cannot be loaded is tried again.
Mut_SpawnLoadRetries ==
  /\ current_process = TaskD /\ spawner.pc = "load"
  /\ \/ /\ CreateProcess
        /\ spawner' = [spawner EXCEPT !.pc = "link", !.child = next_pid]
     \/ CreateFails /\ UNCHANGED spawner
  /\ UNCHANGED <<current_process, foreground_process, tem_pedido_exec,
                 pai_solicitante_pid, reading, launcher>>

SpawnLoad ==
  /\ current_process = TaskD /\ spawner.pc = "load"
  /\ \/ /\ CreateProcess
        /\ spawner' = [spawner EXCEPT !.pc = "link", !.child = next_pid]
     \/ /\ CreateFails
        /\ spawner' = [spawner EXCEPT !.pc = "wake"]
  /\ UNCHANGED <<current_process, foreground_process, tem_pedido_exec,
                 pai_solicitante_pid, reading, launcher>>

\* Mutant: child and parent swapped.
Mut_SpawnLinkSwapped ==
  /\ current_process = TaskD /\ spawner.pc = "link"
  /\ parent_pid' = [parent_pid EXCEPT ![spawner.parent] = spawner.child]
  /\ spawner' = [spawner EXCEPT !.pc = "look"]
  /\ UNCHANGED <<state, wake, is_foreground, halted, current_process,
                 foreground_process, next_pid, tem_pedido_exec,
                 pai_solicitante_pid, reading, launcher>>

SpawnLink ==
  /\ current_process = TaskD /\ spawner.pc = "link"
  /\ parent_pid' = [parent_pid EXCEPT ![spawner.child] = spawner.parent]
  /\ spawner' = [spawner EXCEPT !.pc = "look"]
  /\ UNCHANGED <<state, wake, is_foreground, halted, current_process,
                 foreground_process, next_pid, tem_pedido_exec,
                 pai_solicitante_pid, reading, launcher>>

\* The focus passes to the child in a test of the parent's flag and three
\* writes; a tick may separate any two of them.
SpawnLook ==
  /\ current_process = TaskD /\ spawner.pc = "look"
  /\ spawner' = [spawner EXCEPT !.pc =
                   IF is_foreground[spawner.parent] THEN "focus" ELSE "wake"]
  /\ UNCHANGED <<state, wake, is_foreground, parent_pid, halted,
                 current_process, foreground_process, next_pid,
                 tem_pedido_exec, pai_solicitante_pid, reading, launcher>>

SpawnFocus ==
  /\ current_process = TaskD /\ spawner.pc = "focus"
  /\ is_foreground' = [is_foreground EXCEPT ![spawner.child] = TRUE]
  /\ spawner' = [spawner EXCEPT !.pc = "unfocus"]
  /\ UNCHANGED <<state, wake, parent_pid, halted, current_process,
                 foreground_process, next_pid, tem_pedido_exec,
                 pai_solicitante_pid, reading, launcher>>

SpawnUnfocus ==
  /\ current_process = TaskD /\ spawner.pc = "unfocus"
  /\ is_foreground' = [is_foreground EXCEPT ![spawner.parent] = FALSE]
  /\ spawner' = [spawner EXCEPT !.pc = "point"]
  /\ UNCHANGED <<state, wake, parent_pid, halted, current_process,
                 foreground_process, next_pid, tem_pedido_exec,
                 pai_solicitante_pid, reading, launcher>>

SpawnPoint ==
  /\ current_process = TaskD /\ spawner.pc = "point"
  /\ foreground_process' = spawner.child
  /\ spawner' = [spawner EXCEPT !.pc = "wake"]
  /\ UNCHANGED <<state, wake, is_foreground, parent_pid, halted,
                 current_process, next_pid, tem_pedido_exec,
                 pai_solicitante_pid, reading, launcher>>

SpawnWake ==
  /\ current_process = TaskD /\ spawner.pc = "wake"
  /\ state' = [state EXCEPT ![spawner.parent] = "READY"]
  /\ spawner' = [pc |-> "idle", parent |-> 0, child |-> 0]
  /\ UNCHANGED <<wake, is_foreground, parent_pid, halted, current_process,
                 foreground_process, next_pid, tem_pedido_exec,
                 pai_solicitante_pid, reading, launcher>>

-----------------------------------------------------------------------------
\* kernel_main: the four processes exist, none has been scheduled yet.
Init ==
  /\ state = [p \in Pid |-> IF p <= TaskD THEN "READY" ELSE "NONE"]
  /\ wake = [p \in Pid |-> 0]
  /\ is_foreground = [p \in Pid |-> p = Shell]
  /\ parent_pid = [p \in Pid |-> IF p \in {Shell, TaskC, TaskD} THEN Boot ELSE 0]
  /\ halted = [p \in Pid |-> FALSE]
  /\ current_process = Boot
  /\ foreground_process = Shell
  /\ next_pid = FirstApp
  /\ tem_pedido_exec = FALSE
  /\ pai_solicitante_pid = 0
  /\ reading = FALSE
  /\ launcher = [pc |-> "load", child |-> 0]
  /\ spawner = [pc |-> "idle", parent |-> 0, child |-> 0]

LauncherStep == LauncherLoad \/ LauncherFocus
SpawnStep == \/ SpawnTake \/ SpawnLoad \/ SpawnLink
             \/ SpawnLook \/ SpawnFocus \/ SpawnUnfocus \/ SpawnPoint
             \/ SpawnWake

Next ==
  \/ Tick
  \/ ShellLook
  \/ \E n \in 1 .. MaxSleep : Sleep(n)
  \/ Exit
  \/ \E t \in KillTargets : KillOther(t)
  \/ KillSelf
  \/ Exec
  \/ LauncherStep
  \/ SpawnStep

Spec == Init /\ [][Next]_vars

\* The timer never stops, and task_d, when it is scheduled again and again, gets
\* on with its work: it needs far less than a time slice between hlts.
Fairness == WF_vars(Tick) /\ SF_vars(SpawnStep)

FairSpec == Spec /\ Fairness
-----------------------------------------------------------------------------
\* Safety.

\* The CPU has one owner: nobody but current_process is RUNNING, and it is
\* (kernel_main alone is still marked READY until its first tick).
CpuOwner ==
  /\ \A p \in Pid : state[p] = "RUNNING" => p = current_process
  /\ \/ state[current_process] = "RUNNING"
     \/ current_process = Boot /\ state[Boot] = "READY"

\* Whatever is killed and however the mailbox is used, the kernel, the shell
\* and task_c live, and the kernel's own loop can always be scheduled, which
\* is what keeps schedule() from its last resort of running head unchecked.
VitalAlive ==
  /\ {Boot, Shell, TaskC} \subseteq Alive
  /\ state[Boot] \in {"READY", "RUNNING"}

\* The two records of the focus agree: the process the keyboard belongs to
\* considers itself in the foreground, save between the last two writes with
\* which task_d passes the focus on.
FocusAgrees == spawner.pc # "point" => is_foreground[foreground_process]

\* A process is younger than its parent, so handing the focus to parents
\* climbs a tree; and a child that task_d has linked belongs to the process
\* whose request is being served, not to task_d.
Ancestry ==
  /\ \A p \in Procs : parent_pid[p] < p
  /\ spawner.pc \in {"look", "focus", "unfocus", "point"}
       => parent_pid[spawner.child] = spawner.parent

\* What schedule() and the calls that change processes keep at all times, each
\* through what the others leave behind: one owner of the processor, somebody to
\* dispatch, one focus and a tree of parents.
ProcessesSound == TypeOK /\ CpuOwner /\ VitalAlive /\ FocusAgrees /\ Ancestry

\* The dead come back in one way only: as the process whose SYS_EXEC task_d
\* is completing.
RevivedOnlyByExec ==
  [][\A p \in Pid : state[p] = "ZOMBIE" /\ state'[p] # "ZOMBIE"
                      => SpawnWake /\ p = spawner.parent]_vars

\* A waiting process stays so until its ticks are over, unless task_d calls
\* it back.
WaitsItsTicks ==
  [][\A p \in Pid : state[p] = "WAITING" /\ state'[p] \in {"READY", "RUNNING"}
                      => wake'[p] = 0 \/ (SpawnWake /\ p = spawner.parent)]_vars

\* A dead process stays dead until it is reaped (proc.c:647).
DeadStaysDead ==
  [][\A p \in Pid : state[p] = "ZOMBIE" => state'[p] = "ZOMBIE"]_vars

\* Liveness.

\* Round robin starves nobody and no wait is for ever: the shell, task_d and
\* the programs run again whenever they stop running, unless killed.
Workers == {Shell, TaskD} \cup (FirstApp .. MaxPid)
EverybodyRuns ==
  [](\A p \in Workers : state[p] \in {"READY", "WAITING"}
                         => <>(state[p] \in {"RUNNING", "ZOMBIE"}))

\* A request put in the mailbox is taken out, and task_d finishes each one
\* it has taken, also when the program cannot be loaded.
ExecServed ==
  [](/\ tem_pedido_exec => <>~tem_pedido_exec
     /\ spawner.pc # "idle" => <>(spawner.pc = "idle"))
=============================================================================
