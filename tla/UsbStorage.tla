----------------------------- MODULE UsbStorage -----------------------------
(***************************************************************************)
(* The USB flash drive: enumeration through the EHCI controller            *)
(* (drivers/pd/ehci_core.c) and the bulk-only transport of SCSI commands   *)
(* (drivers/pd/ehci_storage.c), one transfer per step, one call at a time. *)
(*                                                                         *)
(* A read is three transfers: the command (CBW), the data, the status      *)
(* (CSW).  Each pipe numbers its packets modulo 2 at both ends; the driver *)
(* keeps its two bits in globals, and flips one when a transfer succeeds.  *)
(* Nothing resets a pipe after a failure but SET_CONFIGURATION.            *)
(*                                                                         *)
(* Faults: the device does not see a transfer (or answers too late), it    *)
(* does its part and the driver takes the transfer for failed, or it       *)
(* refuses the command in its status.                                      *)
(***************************************************************************)
EXTENDS Integers, Sequences

CONSTANTS
  Sectors,  \* sectors that are read
  Frames,   \* what pmm_alloc_block() has for this driver
  Tries     \* of READ CAPACITY with each pair of endpoints

VARIABLES
  ehci_hardware_inicializado,
  async_head,   \* async_head_virt # NULL
  pair,         \* usb_bulk_out_ep, usb_bulk_in_ep
  toggle,       \* toggle_out, toggle_in
  held,         \* frames allocated and not freed
  request,      \* the call under way
  device,          \* the device
  disturbed     \* since its last SET_CONFIGURATION the device has seen a transfer
                \* that failed, or has refused READ CAPACITY ("yes"), a command
                \* that the driver takes for not sent ("orphan"), or none (history)

usbVars == <<ehci_hardware_inicializado, async_head, pair, toggle, held,
             request, device, disturbed>>
driver == <<ehci_hardware_inicializado, async_head, pair, toggle>>

\* ep_pairs: endpoint numbers, out and in.
ep_pairs == <<<<1, 1>>, <<2, 1>>, <<1, 2>>>>

Capacity == "READ CAPACITY"
Csw == "CSW"
Nothing == "nothing"

\* A sector is a number, none of the other packets.
ASSUME UsbAssumption == /\ Frames \in Nat /\ Tries \in Nat \ {0}
                        /\ {Capacity, Csw, Nothing} \cap Sectors = {}

\* then: the read that waits for the lazy initialisation; lost: a transfer of
\* this call failed that the device could have carried out, or the device
\* refused its command.
UsbIdle == [pc |-> "idle", op |-> "none", addr |-> 0, cmd |-> Nothing, pair |-> 1,
            try |-> 1, got |-> Nothing, then |-> [addr |-> 0, cmd |-> Nothing],
            lost |-> FALSE, ret |-> 1]

\* What follows each step of an enumeration, for SYS_SET_DRIVE and SYS_EHCI.
Order == [drive |-> [core |-> "async", async |-> "detect", detect |-> "first"],
          test  |-> [core |-> "detect", detect |-> "async", async |-> "first"]]

Answers(r, lost) == request' = [UsbIdle EXCEPT !.ret = r, !.lost = lost]

-----------------------------------------------------------------------------
\* Callers.

\* SYS_SET_DRIVE and SYS_EHCI begin with the controller.
Enumerate(op) ==
  /\ request.pc = "idle"
  /\ request' = [UsbIdle EXCEPT !.pc = "core", !.op = op]
  /\ UNCHANGED <<driver, held, device, disturbed>>

\* fat32_mudar_disco_ativo() when the controller has been initialised.
StorageInit ==
  /\ request.pc = "idle"
  /\ request' = [UsbIdle EXCEPT !.pc = "config", !.op = "drive", !.addr = 1,
                          !.cmd = Capacity]
  /\ UNCHANGED <<driver, held, device, disturbed>>

\* ehci_storage_read_sectors() of one sector, with its lazy initialisation;
\* D: is the device at address 1 and E: the one at address 2.
ReadSector(dev_id, lba) ==
  /\ request.pc = "idle"
  /\ request' = IF ehci_hardware_inicializado
             THEN [UsbIdle EXCEPT !.pc = "cbw", !.op = "read", !.addr = dev_id,
                               !.cmd = lba]
             ELSE [UsbIdle EXCEPT !.pc = "config", !.op = "read", !.addr = 1,
                               !.cmd = Capacity,
                               !.then = [addr |-> dev_id, cmd |-> lba]]
  /\ UNCHANGED <<driver, held, device, disturbed>>

-----------------------------------------------------------------------------
\* Enumeration.

Core ==
  /\ request.pc = "core"
  /\ \/ request' = [request EXCEPT !.pc = Order[request.op].core]
     \/ Answers(0, FALSE)
  /\ UNCHANGED <<driver, held, device, disturbed>>

InitAsyncList ==
  /\ request.pc = "async"
  /\ IF held = Frames
     THEN Answers(0, FALSE) /\ UNCHANGED <<held, async_head>>
     ELSE /\ held' = held + 1 /\ async_head' = TRUE
          /\ Answers(0, FALSE) \/ request' = [request EXCEPT !.pc = Order[request.op].async]
  /\ UNCHANGED <<ehci_hardware_inicializado, pair, toggle, device, disturbed>>

\* The port's reset takes the device back to address 0.
Detect ==
  /\ request.pc = "detect"
  /\ IF device.plugged
     THEN device' = [device EXCEPT !.addr = 0, !.configured = FALSE]
     ELSE UNCHANGED device
  /\ IF device.plugged \/ request.op = "test"
     THEN request' = [request EXCEPT !.pc = Order[request.op].detect]
     ELSE Answers(0, FALSE)
  /\ UNCHANGED <<driver, held, disturbed>>

\* A control transfer failed: ehci_storage_init() gives up, while the callers
\* of ehci_ler_identificacao() go on whatever it returns.
ToStorageInit ==
  request' = [request EXCEPT !.pc = "config", !.addr = 1, !.cmd = Capacity]

ControlFails(lost) ==
  IF request.pc = "config" THEN Answers(0, lost) ELSE ToStorageInit

\* ehci_enviar_controle() to address addr, after which the device is d.  The
\* frame comes back only from a transfer that succeeds.
Control(addr, d, ok) ==
  LET hears == device.plugged /\ device.addr = addr
  IN \/ ~async_head /\ ControlFails(FALSE) /\ UNCHANGED <<held, device>>
     \/ async_head /\ held = Frames /\ ControlFails(TRUE) /\ UNCHANGED <<held, device>>
     \/ /\ async_head /\ held < Frames
        /\ \/ hears /\ ok /\ device' = d /\ UNCHANGED held
           \/ /\ ControlFails(hears) /\ held' = held + 1
              /\ device' = device \/ (hears /\ device' = d)

\* ehci_ler_identificacao(): two descriptors, if the first tells the length of
\* the second, and SET_ADDRESS.
Identify ==
  /\ \/ /\ request.pc = "first"
        /\ Control(0, device, \/ request' = [request EXCEPT !.pc = "second"]
                              \/ ToStorageInit)
     \/ /\ request.pc = "second"
        /\ Control(0, device, request' = [request EXCEPT !.pc = "address"])
     \/ /\ request.pc = "address"
        /\ Control(0, [device EXCEPT !.addr = 1], ToStorageInit)
  /\ UNCHANGED <<driver, disturbed>>

-----------------------------------------------------------------------------
\* ehci_storage_init().

\* toggle_out = toggle_in = 0
Toggles0(t) == [out |-> 0, in |-> 0]

Fresh == [device EXCEPT !.configured = TRUE, !.out = 0, !.in = 0,
                     !.phase = "command", !.halted = FALSE]

SetConfiguration ==
  /\ request.pc = "config"
  /\ Control(1, Fresh, request' = [request EXCEPT !.pc = "cbw"])
  /\ IF request'.pc = "cbw"
     THEN pair' = ep_pairs[1] /\ toggle' = Toggles0(toggle)
     ELSE UNCHANGED <<pair, toggle>>
  /\ disturbed' = IF request'.pc = "cbw" THEN "no"
                  ELSE IF device' # device /\ disturbed = "no" THEN "yes"
                  ELSE disturbed
  /\ UNCHANGED <<ehci_hardware_inicializado, async_head>>

\* Mutant: the next pair is counted and not used.
Mut_NextTrySamePair(lost) ==
  \/ /\ request.try < Tries \/ request.pair < Len(ep_pairs)
     /\ request' = [request EXCEPT !.pc = "cbw", !.lost = lost,
                             !.try = IF @ < Tries THEN @ + 1 ELSE 1,
                             !.pair = IF request.try < Tries THEN @ ELSE @ + 1]
     /\ UNCHANGED <<pair, toggle>>
  \/ /\ request.try = Tries /\ request.pair = Len(ep_pairs)
     /\ Answers(0, lost)
     /\ UNCHANGED <<pair, toggle>>

\* READ CAPACITY failed: again, or with the next pair, or the end.
NextTry(lost) ==
  \/ /\ request.try < Tries
     /\ request' = [request EXCEPT !.pc = "cbw", !.try = @ + 1, !.lost = lost]
     /\ UNCHANGED <<pair, toggle>>
  \/ /\ request.try = Tries /\ request.pair < Len(ep_pairs)
     /\ request' = [request EXCEPT !.pc = "cbw", !.try = 1, !.pair = @ + 1,
                             !.lost = lost]
     /\ pair' = ep_pairs[request.pair + 1]
     /\ toggle' = Toggles0(toggle)
  \/ /\ request.try = Tries /\ request.pair = Len(ep_pairs)
     /\ Answers(0, lost)
     /\ UNCHANGED <<pair, toggle>>

\* It succeeded: ehci_storage_init() returns, to its caller or to the read
\* that was waiting for it.
CapacityDone ==
  IF request.op = "read"
  THEN /\ ehci_hardware_inicializado' = TRUE
       /\ request' = [UsbIdle EXCEPT !.pc = "cbw", !.op = "read",
                     !.addr = request.then.addr, !.cmd = request.then.cmd]
  ELSE Answers(1, request.lost) /\ UNCHANGED ehci_hardware_inicializado

-----------------------------------------------------------------------------
\* ehci_enviar_bulk() and ehci_bot_transfer().

\* The endpoint exists at the device: 1 is out, 2 is in.
Reaches(i) == /\ device.plugged /\ device.configured
              /\ device.addr = request.addr /\ device.pair[i] = pair[i]

Hears(i) == Reaches(i) /\ ~device.halted

\* Mutant: the bit of commands is not flipped.
Mut_Flipped(t, i) == IF i = "out" THEN t ELSE [t EXCEPT ![i] = 1 - @]

\* After a transfer of one packet that succeeded.
Flipped(t, i) == [t EXCEPT ![i] = 1 - @]

\* The device holds the data of a command that the driver takes for not sent:
\* its bit did not flip, or was reset for the next pair of endpoints.
Orphan == device'.phase = "data" /\ toggle'.out # device'.out

Disturbs(i) ==
  disturbed' = IF disturbed = "orphan" \/ Orphan THEN "orphan"
               ELSE IF Reaches(i) \/ device'.phase # "command" THEN "yes"
               ELSE disturbed

\* Mutant: the result of the data's transfer is not looked at.
Mut_Failed(i, lost) ==
  /\ IF request.pc = "data"
     THEN request' = [request EXCEPT !.pc = "csw"] /\ UNCHANGED <<pair, toggle>>
     ELSE IF request.cmd = Capacity THEN NextTry(request.lost \/ lost)
     ELSE Answers(0, lost) /\ UNCHANGED <<pair, toggle>>
  /\ Disturbs(i)
  /\ UNCHANGED ehci_hardware_inicializado

\* A transfer failed, and with it the command.
Failed(i, lost) ==
  /\ IF request.cmd = Capacity THEN NextTry(request.lost \/ lost)
     ELSE Answers(0, lost) /\ UNCHANGED <<pair, toggle>>
  /\ Disturbs(i)
  /\ UNCHANGED ehci_hardware_inicializado

NoFrame(i) == held = Frames /\ UNCHANGED <<held, device>> /\ Failed(i, TRUE)

\* What the device does with a command: one with the wrong bit is taken for a
\* repetition, acknowledged and dropped; one that comes while another is being
\* carried out halts it.
Repeated == toggle.out # device.out
Answer ==
  IF Repeated THEN device
  ELSE IF device.phase = "command"
  THEN [device EXCEPT !.phase = "data", !.cmd = request.cmd, !.out = 1 - @]
  ELSE [device EXCEPT !.halted = TRUE]

SendCbw ==
  /\ request.pc = "cbw"
  /\ \/ NoFrame(1)
     \/ /\ held < Frames /\ held' = held + 1
        /\ \/ /\ Hears(1) /\ ~Answer.halted
              /\ device' = Answer
              /\ request' = [request EXCEPT !.pc = "data"]
              /\ toggle' = Flipped(toggle, "out")
              /\ UNCHANGED <<pair, ehci_hardware_inicializado, disturbed>>
           \/ /\ device' = device \/ (Hears(1) /\ device' = Answer)
              /\ Failed(1, Hears(1) /\ ~Answer.halted)
  /\ UNCHANGED async_head

\* The packet the device has ready, and the device when it is acknowledged.
Ready(d) == IF d.phase = "data" THEN d.cmd ELSE Csw
After(d) == [d EXCEPT !.in = 1 - @,
                      !.phase = IF d.phase = "data" THEN "status" ELSE "command"]

\* The controller acknowledges and drops a packet with the wrong bit.
Current == IF device.in = toggle.in \/ device.phase = "command" THEN device ELSE After(device)

\* The data, or the status: 512 bytes do not fit where 13 are expected, nor
\* 512 or 13 where READ CAPACITY expects 8.
Fits == \/ /\ request.pc = "data" /\ Current.phase # "command"
           /\ request.cmd = Capacity => Ready(Current) = Capacity
        \/ request.pc = "csw" /\ Current.phase = "status"

\* The status is not that of success, or has not its signature.
Refused ==
  /\ request.pc = "csw"
  /\ request' = [request EXCEPT !.pc = "refused", !.lost = TRUE]
  /\ disturbed' = IF request.cmd = Capacity /\ disturbed = "no" THEN "yes"
                  ELSE disturbed
  /\ UNCHANGED ehci_hardware_inicializado

Receive ==
  /\ request.pc \in {"data", "csw"}
  /\ \/ NoFrame(2)
     \/ /\ held < Frames /\ held' = held + 1
        /\ \/ /\ Hears(2) /\ Fits
              /\ device' = After(Current)
              /\ toggle' = Flipped(toggle, "in")
              /\ \/ Refused
                 \/ /\ IF request.pc = "data"
                       THEN /\ request' = [request EXCEPT !.pc = "csw", !.got = Ready(Current)]
                            /\ UNCHANGED ehci_hardware_inicializado
                       ELSE IF request.cmd = Capacity THEN CapacityDone
                       ELSE Answers(1, FALSE) /\ UNCHANGED ehci_hardware_inicializado
                    /\ UNCHANGED disturbed
              /\ UNCHANGED pair
           \/ /\ \/ device' = device
                 \/ /\ Hears(2)
                    /\ device' = Current \/ (Current.phase # "command" /\ device' = After(Current))
              /\ Failed(2, Hears(2) /\ Fits)
  /\ UNCHANGED async_head

\* ehci_bot_transfer() fails for it, with both ends in step.
GiveUp ==
  /\ request.pc = "refused"
  /\ UNCHANGED <<held, device, async_head>>
  /\ IF request.cmd = Capacity THEN Failed(2, TRUE)
     ELSE /\ Answers(0, TRUE)
          /\ UNCHANGED <<pair, toggle, disturbed, ehci_hardware_inicializado>>

-----------------------------------------------------------------------------
UsbInit ==
  /\ ehci_hardware_inicializado = FALSE
  /\ async_head = FALSE
  /\ pair = <<2, 1>>
  /\ toggle = [out |-> 0, in |-> 0]
  /\ held = 0
  /\ request = UsbIdle
  /\ \E plugged \in BOOLEAN, p \in {1, 2} \X {1, 2} :
       device = [plugged |-> plugged, pair |-> p, addr |-> 0, configured |-> FALSE,
              out |-> 0, in |-> 0, phase |-> "command", cmd |-> Nothing,
              halted |-> FALSE]
  /\ disturbed = "no"

UsbNext ==
  \/ \E op \in DOMAIN Order : Enumerate(op)
  \/ StorageInit
  \/ \E dev_id \in {1, 2}, lba \in Sectors : ReadSector(dev_id, lba)
  \/ Core \/ InitAsyncList \/ Detect \/ Identify
  \/ SetConfiguration
  \/ SendCbw \/ Receive \/ GiveUp

UsbSpec == UsbInit /\ [][UsbNext]_usbVars
-----------------------------------------------------------------------------
UsbTypes ==
  /\ ehci_hardware_inicializado \in BOOLEAN /\ async_head \in BOOLEAN
  /\ pair \in {1, 2} \X {1, 2}
  /\ toggle \in [{"out", "in"} -> {0, 1}]
  /\ held \in 0 .. Frames
  /\ request.try \in 1 .. Tries /\ request.pair \in DOMAIN ep_pairs
  /\ device.phase \in {"command", "data", "status"}
  /\ disturbed \in {"no", "yes", "orphan"}

\* Between calls the two ends agree: the packet bits are the same, and the
\* device waits for a command.  So it stays as long as no transfer that the
\* device had a part in fails; a refused read leaves them in step.
InStep ==
  /\ UsbTypes
  /\ request.pc = "idle" /\ device.configured /\ disturbed = "no" =>
       /\ toggle.out = device.out /\ toggle.in = device.in
       /\ device.phase = "command" /\ ~device.halted

\* A read that succeeds delivers the sector that was asked for, whatever has
\* failed before, except when the device still holds the data of a command
\* that the driver takes for not sent: the tag of the status is not compared,
\* and the next read is answered with the data of that command.
ReadsTrue ==
  [][request.pc = "csw" /\ request.cmd \in Sectors /\ request'.pc = "idle"
       /\ request'.ret = 1 /\ disturbed # "orphan"
     => request.got = request.cmd]_usbVars

\* Whatever went wrong before, a device at address 1 that answers now is found
\* at one of the first two pairs of endpoints: ehci_storage_init() fails only
\* if a transfer is lost, the device refuses the command, or there is no frame.
FindsDevice ==
  [][/\ request.cmd = Capacity /\ request.pc # "idle" /\ request'.pc = "idle"
     /\ request'.ret = 0 /\ async_head
     /\ device.plugged /\ device.addr = 1 /\ device.pair \in {ep_pairs[1], ep_pairs[2]}
     => request'.lost]_usbVars
=============================================================================
