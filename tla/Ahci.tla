-------------------------------- MODULE Ahci --------------------------------
(***************************************************************************)
(* The SATA disk: storage_read_sectors() and storage_write_sectors() of    *)
(* drive C: through the AHCI driver (drivers/pd/storage.c, drivers/hw/     *)
(* ahci_*.c).                                                              *)
(*                                                                         *)
(* A port has one command table, used through slot 0, and all disks share  *)
(* one bounce buffer; no lock guards them.  The loader (task_c, task_d)    *)
(* and the shell call with interrupts on and can lose the processor        *)
(* between any two steps; system calls run with interrupts off.  The       *)
(* driver waits by polling, with a counter that bounds the wait.           *)
(*                                                                         *)
(* The controller takes the table from memory when it executes a command,  *)
(* and may execute it late, never, or report an error; after an error it   *)
(* stands still, because the driver does not restart the port.             *)
(***************************************************************************)
EXTENDS Integers, SequencesExt

CONSTANTS
  Callers,          \* contexts that call
  Masked,           \* those among them that call with interrupts off
  Lbas,             \* sectors that are read and written
  Values,           \* contents of a sector
  Blank,            \* what is on the disk at boot
  NoData,           \* what a buffer holds before it is read into
  Ports,            \* ports of the controller
  MAX_SATA_DISKS,
  Polls,            \* the 2000000 (or 100000) rounds of a polling loop
  Word              \* 2^32: the counter of rounds is a uint32_t

ASSUME AhciAssumption ==
  /\ Masked \subseteq Callers /\ Blank \in Values /\ NoData \notin Values
  /\ Lbas \subseteq {n \in Nat : n \div 65536 < 65536}    \* uint32_t
  /\ Ports \subseteq Nat /\ MAX_SATA_DISKS \in Nat
  /\ Polls \in Nat \ {0} /\ Word \in Nat /\ Polls < Word

VARIABLES
  discos,    \* g_ahci_system.discos: ports of the disks found at boot
  table,     \* the command header and table of slot 0
  bounce,    \* the bounce buffer
  ci, is30, tfd,  \* the port's registers: PxCI bit 0, PxIS.TFES, PxTFD.ERR
  disk,      \* contents of the disk, by sector
  call,      \* by caller, the call it is in and its local variables
  buffer,    \* by caller, its own buffer
  result     \* by caller, what its last call returned

vars == <<discos, table, bounce, ci, is30, tfd, disk, call, buffer, result>>
port == <<ci, is30, tfd>>

Idle == [pc |-> "idle", op |-> "read", lba |-> 0, timeout |-> 0,
         alone |-> FALSE, after |-> FALSE]

InCall(c) == call[c].pc # "idle"
HasCpu(c) == \A d \in Masked \ {c} : ~InCall(d)

-----------------------------------------------------------------------------
\* The counter of a polling loop: "while (timeout--)" also decrements it when
\* it ends the loop.
Decremented(n) == (n - 1) % Word

\* What "timeout == 0" is after a wait of k rounds; more than Polls is for ever.
ExpiredAfter(k) == IF k <= Polls THEN Polls - k = 0 ELSE Decremented(0) = 0

\* ahci_hal_inicializar(): each port with a disk is given its memory once its
\* engine has stopped (after stop[p] rounds); the first ones go into discos.
Configured(p, stop) == ~ExpiredAfter(stop[p])

Discos(linked, signed, stop) ==
  IF linked \cap signed = {} THEN <<>>
  ELSE LET all == SetToSortSeq({p \in signed : Configured(p, stop)}, <)
       IN SubSeq(all, 1, IF Len(all) < MAX_SATA_DISKS THEN Len(all)
                         ELSE MAX_SATA_DISKS)

-----------------------------------------------------------------------------
\* Mutant: the short form of the address is always used.
Mut_lba48(lba) == FALSE

lba48(lba) == lba > 268435455     \* 0x0FFFFFFF

\* The octets of a number, the lowest first.
Unit == <<1, 256, 65536, 16777216>>
Octet(n, i) == (n \div Unit[i]) % 256

\* The command header and the FIS in the command table.
Command(op, lba) ==
  [w       |-> op = "write",
   command |-> CASE op = "read" /\ lba48(lba)  -> "READ DMA EXT"
                 [] op = "read" /\ ~lba48(lba) -> "READ DMA"
                 [] op = "write" /\ lba48(lba) -> "WRITE DMA EXT"
                 [] OTHER                      -> "WRITE DMA",
   device  |-> IF lba48(lba) THEN 64 ELSE 224 + (Octet(lba, 4) % 16),
   low     |-> <<Octet(lba, 1), Octet(lba, 2), Octet(lba, 3)>>,
   high    |-> IF lba48(lba) THEN Octet(lba, 4) ELSE 0]

\* The sector that the disk takes from a command.
Sector(t) ==
  t.low[1] + Unit[2] * t.low[2] + Unit[3] * t.low[3]
    + Unit[4] * (IF t.command \in {"READ DMA EXT", "WRITE DMA EXT"}
                  THEN t.high ELSE t.device % 16)

-----------------------------------------------------------------------------
\* storage_read_sectors() and storage_write_sectors(), one sector each.

Begin(c, op, lba, v) ==
  /\ HasCpu(c) /\ ~InCall(c)
  /\ discos # <<>>
  /\ buffer' = [buffer EXCEPT ![c] = v]
  /\ call' = [d \in Callers |->
       IF d = c
       THEN [pc |-> IF op = "write" THEN "fill" ELSE "table", op |-> op,
             lba |-> lba, timeout |-> Polls, after |-> tfd,
             alone |-> ~ci /\ \A e \in Callers : ~InCall(e)]
       ELSE [call[d] EXCEPT !.alone = FALSE]]
  /\ UNCHANGED <<discos, table, bounce, port, disk, result>>

Read(c) == \E lba \in Lbas : Begin(c, "read", lba, NoData)
Write(c) == \E lba \in Lbas, v \in Values : Begin(c, "write", lba, v)

\* No disk was found at boot.
Refuse(c) ==
  /\ HasCpu(c) /\ ~InCall(c)
  /\ discos = <<>>
  /\ result' = [result EXCEPT ![c] = 0]
  /\ UNCHANGED <<discos, table, bounce, port, disk, call, buffer>>

FillBounce(c) ==
  /\ HasCpu(c) /\ call[c].pc = "fill"
  /\ bounce' = buffer[c]
  /\ call' = [call EXCEPT ![c].pc = "table"]
  /\ UNCHANGED <<discos, table, port, disk, buffer, result>>

\* The writes that build the table are one step: half of a table is seen only
\* by a command that is issued already, or mixed with that of another caller,
\* and of the properties the one about contents is for a call alone.
BuildTable(c) ==
  /\ HasCpu(c) /\ call[c].pc = "table"
  /\ is30' = FALSE
  /\ table' = Command(call[c].op, call[c].lba)
  /\ call' = [call EXCEPT ![c].pc = "issue"]
  /\ UNCHANGED <<discos, bounce, ci, tfd, disk, buffer, result>>

Issue(c) ==
  /\ HasCpu(c) /\ call[c].pc = "issue"
  /\ ci' = TRUE
  /\ call' = [call EXCEPT ![c].pc = "poll"]
  /\ UNCHANGED <<discos, table, bounce, is30, tfd, disk, buffer, result>>

Return(c, r) ==
  /\ call' = [call EXCEPT ![c] = Idle]
  /\ result' = [result EXCEPT ![c] = r]

\* Mutant: only the interrupt status is looked at.
Mut_PortError == is30

PortError == is30 \/ tfd

\* Mutant: the counter is not decremented.
Mut_Rounds(n) == n

Rounds(n) == Decremented(n)

\* What follows the loop, with left in the counter.
AfterLoop(c, left) ==
  /\ is30' = is30
  /\ IF left # 0 /\ call[c].op = "read"
     THEN /\ call' = [call EXCEPT ![c].pc = "copy", ![c].timeout = left]
          /\ UNCHANGED result
     ELSE Return(c, IF left = 0 THEN 0 ELSE 1)

Poll(c) ==
  /\ HasCpu(c) /\ call[c].pc = "poll"
  /\ LET left == Rounds(call[c].timeout)
     IN \/ (call[c].timeout = 0 \/ ~ci) /\ AfterLoop(c, left)
        \/ /\ call[c].timeout # 0 /\ ci /\ PortError
           /\ is30' = FALSE
           /\ Return(c, 0)
        \/ /\ call[c].timeout # 0 /\ ci /\ ~PortError
           /\ call' = [call EXCEPT ![c].timeout = left]
           /\ UNCHANGED <<is30, result>>
  /\ UNCHANGED <<discos, table, bounce, ci, tfd, disk, buffer>>

Copy(c) ==
  /\ HasCpu(c) /\ call[c].pc = "copy"
  /\ buffer' = [buffer EXCEPT ![c] = bounce]
  /\ Return(c, 1)
  /\ UNCHANGED <<discos, table, bounce, port, disk>>

-----------------------------------------------------------------------------
\* The controller and the disk.

Transfer ==
  /\ ci /\ ~tfd
  /\ ci' = FALSE
  /\ Sector(table) \in Lbas
  /\ IF table.w
     THEN disk' = [disk EXCEPT ![Sector(table)] = bounce] /\ UNCHANGED bounce
     ELSE bounce' = disk[Sector(table)] /\ UNCHANGED disk
  /\ UNCHANGED <<discos, table, is30, tfd, call, buffer, result>>

DiskError ==
  /\ ci /\ ~tfd
  /\ is30' = TRUE /\ tfd' = TRUE
  /\ UNCHANGED <<discos, table, bounce, ci, disk, call, buffer, result>>

-----------------------------------------------------------------------------
Init ==
  /\ \E linked, signed \in SUBSET Ports, stop \in [Ports -> 1 .. Polls + 1] :
       discos = Discos(linked, signed, stop)
  /\ table = Command("read", 0)
  /\ bounce = NoData
  /\ ci = FALSE /\ is30 = FALSE /\ tfd = FALSE
  /\ disk = [lba \in Lbas |-> Blank]
  /\ call = [c \in Callers |-> Idle]
  /\ buffer = [c \in Callers |-> NoData]
  /\ result = [c \in Callers |-> 1]

Work(c) == FillBounce(c) \/ BuildTable(c) \/ Issue(c) \/ Poll(c) \/ Copy(c)

Next == \/ \E c \in Callers : Read(c) \/ Write(c) \/ Refuse(c) \/ Work(c)
        \/ Transfer
        \/ DiskError

Spec == Init /\ [][Next]_vars

\* The scheduler gives every caller that has begun its turns: strong fairness,
\* since a caller with interrupts off can be in its way again and again.  The
\* disk promises nothing.
FairSpec == Spec /\ \A c \in Callers : SF_vars(Work(c))
-----------------------------------------------------------------------------
Returns(c, r) == InCall(c) /\ call'[c].pc = "idle" /\ result'[c] = r

\* The loop ended because the counter ran out.
RanOut(c) == \/ call[c].pc = "poll" /\ call[c].timeout = 0
             \/ call[c].pc = "copy" /\ call[c].timeout = Word - 1

\* A transfer that reports success has moved the sector: what the caller has
\* in its buffer is what is on the disk at the address it asked for.  Only for
\* a call with the table and the bounce buffer to itself, from a port that has
\* no command left over, and whose wait did not run out.
TransferTrue ==
  [][\A c \in Callers :
       Returns(c, 1) /\ call[c].alone /\ ~RanOut(c)
         => buffer'[c] = disk'[call[c].lba]]_vars

\* After an error the port is out of service, and every call that begins then
\* says so: none delivers what an earlier one left in the bounce buffer.
NoSuccessAfterError ==
  [][\A c \in Callers : call[c].after => ~Returns(c, 1)]_vars

\* A call returns, even from a disk that has stopped answering.
CallsReturn == \A c \in Callers : InCall(c) ~> ~InCall(c)
=============================================================================
