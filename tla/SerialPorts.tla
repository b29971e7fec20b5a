---------------------------- MODULE SerialPorts -----------------------------
(***************************************************************************)
(* The serial ports: drivers/hw/serial.c, the calls SYS_SERIAL_*, the      *)
(* lines of the interrupt controller they use, and the component TOSSerial *)
(* through which a program has one.                                        *)
(*                                                                         *)
(* System calls and handlers run with interrupts off, so each is one step; *)
(* a change of speed is two calls, and the processor can be taken away     *)
(* between them.  COM1 and COM3 are on line 4, COM2 and COM4 on line 3.    *)
(* The handler of line 4 serves COM1 whoever asked, and line 3 has no      *)
(* handler at all: its interrupt stops the machine, or the program that    *)
(* was running.  A line tells of a change: it must fall to be heard again. *)
(*                                                                         *)
(* A byte is Own if it arrived since the port was opened and the port has  *)
(* not been closed, Stray if not.  What is written to a port changes       *)
(* nothing here.                                                           *)
(***************************************************************************)
EXTENDS Integers, Sequences, FiniteSets

CONSTANTS
    Programs,    \* tasks that may have one TOSSerial each
    Wanted,      \* the port numbers that they ask for
    RxSize,      \* cells of rx_buffer (256)
    Fifo         \* bytes that the chip holds (16)

ASSUME SerialAssumption ==
    Wanted \subseteq 1 .. 4 /\ RxSize \in Nat \ {0} /\ Fifo \in Nat \ {0}

VARIABLES
    ports,       \* system_serial_ports: base known, in_use and the ring
    ier,         \* ports whose chip may interrupt
    fifo,        \* external: the bytes in each chip
    masked,      \* lines masked in the controller
    requested,   \* lines that have risen and have not been answered
    unanswered,  \* line 3 has been taken and not acknowledged
    task,        \* each program: what it is doing
    serial,      \* its TOSSerial
    halted       \* the machine has stopped

machine == <<ports, ier, fifo, masked, requested, unanswered, halted>>
serialVars == <<machine, task, serial>>

Numbers == 1 .. 4
Served == 1
Line(n) == IF n \in {1, 3} THEN 4 ELSE 3
Lines == {3, 4}
Own == "own"
Stray == "stray"
Closed == -1
Busy == -2

\* What a line of the bus shows
High(l, i, f) == \E n \in i : Line(n) = l /\ f[n] # <<>>

\* Lines that rise are remembered, lines that fall are forgotten.
Wire(i, f) ==
    /\ ier' = i /\ fifo' = f
    /\ requested' = { l \in Lines :
          High(l, i, f) /\ (l \in requested \/ ~High(l, ier, fifo)) }

pic_mask(l) == masked' = masked \union {l}
pic_unmask(l) == masked' = masked \ {l}

\* driver_serial_init without the reset of the ring
Mut_driver_serial_init(p) == [p EXCEPT !.known = TRUE, !.in_use = FALSE]

driver_serial_init(p) == [known |-> TRUE, in_use |-> FALSE, rx |-> <<>>]

\* The line is left as the last program that closed a port left it.
Mut_Opened(n) ==
    /\ Wire(ier \union {n}, [fifo EXCEPT ![n] = <<>>])
    /\ ports' = [ports EXCEPT ![n] = [driver_serial_init(@) EXCEPT !.in_use = TRUE]]
    /\ UNCHANGED <<masked, unanswered, halted>>

\* The chip's queue is emptied by the value 0xC7.
Opened(n) ==
    /\ Wire(ier \union {n}, [fifo EXCEPT ![n] = <<>>])
    /\ ports' = [ports EXCEPT ![n] = [driver_serial_init(@) EXCEPT !.in_use = TRUE]]
    /\ pic_unmask(Line(n))
    /\ UNCHANGED <<unanswered, halted>>

\* SYS_SERIAL_OPEN: what it does, and what it returns
Mut_SysOpen(n, ret) == ret = n /\ Opened(n)

SysOpen(n, ret) ==
    \/ ports[n].in_use /\ ret = Busy /\ UNCHANGED machine
    \/ ~ports[n].in_use /\ ret = n /\ Opened(n)

\* SYS_SERIAL_CLOSE, which masks the line of the port for its neighbour too
SysClose(n) ==
    IF ~ports[n].in_use THEN UNCHANGED machine
    ELSE /\ Wire(ier \ {n}, [fifo EXCEPT ![n] = [i \in DOMAIN @ |-> Stray]])
         /\ pic_mask(Line(n))
         /\ ports' = [ports EXCEPT ![n].in_use = FALSE, ![n].rx = <<>>]
         /\ UNCHANGED <<unanswered, halted>>

NoSerial == [number |-> 0, Handle |-> Closed, Active |-> FALSE]
Has(c) == serial[c].Active /\ serial[c].Handle # Closed /\ serial[c].Handle # Busy
Ready(c) == ~halted /\ task[c] = "runs"

\* OS_CreateSerial
OS_CreateSerial(c) ==
    /\ ~halted /\ task[c] = "dead"
    /\ task' = [task EXCEPT ![c] = "runs"]
    /\ \E n \in Wanted : serial' = [serial EXCEPT ![c] = [NoSerial EXCEPT !.number = n]]
    /\ UNCHANGED machine

OS_Serial_Open(c) ==
    /\ Ready(c) /\ ~serial[c].Active
    /\ \E ret \in Wanted \union {Busy} :
          /\ SysOpen(serial[c].number, ret)
          /\ serial' = [serial EXCEPT ![c].Handle = ret, ![c].Active = (ret # Busy)]
    /\ UNCHANGED task

CloseSerial(c) ==
    /\ SysClose(serial[c].Handle)
    /\ serial' = [serial EXCEPT ![c].Active = FALSE, ![c].Handle = Closed]

OS_Serial_Close(c) ==
    /\ Ready(c) /\ Has(c)
    /\ CloseSerial(c)
    /\ UNCHANGED task

\* OS_Serial_SetBaud of an open port: closed ...
OS_Serial_SetBaud(c) ==
    /\ Ready(c) /\ Has(c)
    /\ SysClose(serial[c].Handle)
    /\ task' = [task EXCEPT ![c] = "reopens"]
    /\ UNCHANGED serial

\* ... and opened again, or lost to whoever was faster, with Active as it was
Reopen(c) ==
    /\ ~halted /\ task[c] = "reopens"
    /\ \E ret \in Wanted \union {Busy} :
          SysOpen(serial[c].number, ret) /\ serial' = [serial EXCEPT ![c].Handle = ret]
    /\ task' = [task EXCEPT ![c] = "runs"]

\* SYS_SERIAL_READ of one byte
OS_Serial_Read(c) ==
    /\ Ready(c) /\ Has(c)
    /\ LET p == ports[serial[c].Handle]
       IN  /\ p.in_use /\ p.rx # <<>>
           /\ ports' = [ports EXCEPT ![serial[c].Handle].rx = Tail(@)]
    /\ UNCHANGED <<ier, fifo, masked, requested, unanswered, halted, task, serial>>

\* Tratar_Fechamento_Software; the program looks at its TOSSerial no more.
Mut_CloseProgram(c) ==
    /\ Ready(c)
    /\ serial' = [serial EXCEPT ![c] = NoSerial] /\ UNCHANGED machine
    /\ task' = [task EXCEPT ![c] = "ends"]

CloseProgram(c) ==
    /\ Ready(c)
    /\ IF Has(c) THEN SysClose(serial[c].Handle) ELSE UNCHANGED machine
    /\ task' = [task EXCEPT ![c] = "ends"]
    /\ serial' = [serial EXCEPT ![c] = NoSerial]

Exit(c) ==
    /\ ~halted /\ task[c] = "ends"
    /\ task' = [task EXCEPT ![c] = "dead"]
    /\ UNCHANGED <<machine, serial>>

\* SYS_KILL: kill_process knows nothing of ports.
Killed(c) ==
    /\ ~halted /\ task[c] # "dead"
    /\ task' = [task EXCEPT ![c] = "dead"] /\ serial' = [serial EXCEPT ![c] = NoSerial]
    /\ UNCHANGED machine

\* A byte comes in; a chip that is full loses it.
Arrive(n) ==
    /\ ~halted /\ Len(fifo[n]) < Fifo
    /\ LET byte == IF ports[n].in_use THEN Own ELSE Stray
       IN  Wire(ier, [fifo EXCEPT ![n] = Append(@, byte)])
    /\ UNCHANGED <<ports, masked, unanswered, halted, task, serial>>

Taken(l) == l \in requested /\ l \notin masked /\ ~(l = 4 /\ unanswered) /\ ~halted
Answered(l) == requested' = requested \ {l}

Room(p) == RxSize - 1 - Len(p.rx)
Least(a, b) == IF a < b THEN a ELSE b

\* isr_serial and driver_serial_handle_interrupt(&system_serial_ports[0]):
\* everything in the chip of COM1 goes to its ring, as far as there is room
\* there.  If COM1 has never been opened, its registers are looked for at
\* addresses 0 to 5, and the loop ends if what is found at 5 ends it.
driver_serial_handle_interrupt ==
    LET p == ports[Served]
        n == Least(Room(p), Len(fifo[Served]))
    IN  IF p.known
        THEN /\ ports' = [ports EXCEPT ![Served].rx = @ \o SubSeq(fifo[Served], 1, n)]
             /\ fifo' = [fifo EXCEPT ![Served] = <<>>]
             /\ UNCHANGED halted
        ELSE halted' \in BOOLEAN /\ UNCHANGED <<ports, fifo>>

IRQ4 ==
    /\ Taken(4) /\ Answered(4)
    /\ driver_serial_handle_interrupt
    /\ UNCHANGED <<ier, masked, unanswered, task, serial>>

\* The gate of line 3 is empty: exception_handler halts the machine if the
\* kernel was running; a program is sent to kernel_main_return_point for good.
IRQ3 ==
    /\ Taken(3) /\ Answered(3)
    /\ unanswered' = TRUE
    /\ \/ halted' = TRUE /\ UNCHANGED <<task, serial>>
       \/ \E c \in Programs : /\ task[c] \in {"runs", "reopens", "ends"}
                              /\ task' = [task EXCEPT ![c] = "crashed"]
                              /\ serial' = [serial EXCEPT ![c] = NoSerial]
                              /\ UNCHANGED halted
    /\ UNCHANGED <<ports, ier, fifo, masked>>

\* A key stroke is acknowledged twice, by the handler and by its stub: the
\* second time it is line 3 that is acknowledged.
KeyAcknowledged ==
    /\ unanswered /\ ~halted
    /\ unanswered' = FALSE
    /\ UNCHANGED <<ports, ier, fifo, masked, requested, halted, task, serial>>

SerialInit ==
    /\ ports = [n \in Numbers |-> [known |-> FALSE, in_use |-> FALSE, rx |-> <<>>]]
    /\ ier = {} /\ fifo = [n \in Numbers |-> <<>>]
    /\ masked = {3}                                      \* 0xE8, in init_idt
    /\ requested = {} /\ unanswered = FALSE
    /\ task = [c \in Programs |-> "dead"]
    /\ serial = [c \in Programs |-> NoSerial]
    /\ halted = FALSE

SerialNext ==
    \/ \E c \in Programs :
          \/ OS_CreateSerial(c) \/ OS_Serial_Open(c) \/ OS_Serial_Close(c)
          \/ OS_Serial_SetBaud(c) \/ Reopen(c) \/ OS_Serial_Read(c)
          \/ CloseProgram(c) \/ Exit(c) \/ Killed(c)
    \/ \E n \in Wanted : Arrive(n)
    \/ IRQ4 \/ IRQ3 \/ KeyAcknowledged

SerialSpec == SerialInit /\ [][SerialNext]_serialVars

\* Interrupts are on whenever a program runs: a line that asks is answered.
SerialFair == SerialSpec /\ WF_serialVars(IRQ4)
-----------------------------------------------------------------------------
\* The number of programs that believe they have port n
Holders(n) == { c \in Programs : Has(c) /\ serial[c].Handle = n /\ task[c] = "runs" }

\* A port has one program at a time, and a program that believes it has a
\* port does: openings, closings, changes of speed and deaths of two
\* programs in any order never leave two on one port (syscall.c:157, the
\* lock that serial.h:24 speaks of).
OneHolder ==
    \A n \in Wanted : Cardinality(Holders(n)) <= 1 /\ (Holders(n) # {} => ports[n].in_use)

\* Nobody reads what was sent to somebody else: whatever waits in the ring
\* and in the chip of a port that is open arrived since it was opened, also
\* when a neighbour's interrupt filled the ring of the closed port.
OwnBytes ==
    \A n \in Wanted : ports[n].in_use =>
        \A s \in {ports[n].rx, fifo[n]} : \A i \in DOMAIN s : s[i] = Own

\* What opening and closing keep of the ports: see the parts.
PortsSound == OneHolder /\ OwnBytes

\* A port is only left open with no program to close it by a program that is
\* killed or crashes while it has it (proc.c:641): closing its window,
\* changing the speed and losing the race for it do not.
LeftOpenOnlyByDeath ==
    [][ \A n \in Wanted :
          ( /\ Holders(n) # {} /\ Holders(n)' = {}
            /\ ports[n].in_use /\ ports'[n].in_use )
          => \E c \in Holders(n) : task'[c] \in {"dead", "crashed"} ]_serialVars

\* COM1 hears what comes as long as nobody uses another port: its bytes go
\* from the chip to the ring (serial.c:77-94).  With a port open beside it,
\* it may not: see the README.
Pending == ports[Served].in_use /\ fifo[Served] # <<>>
HeardAlone ==
    [](\A n \in Wanted \ {Served} : ~ports[n].in_use) => (Pending ~> ~Pending)
=============================================================================
