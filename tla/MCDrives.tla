----------------------------- MODULE MCDrives ------------------------------
(***************************************************************************)
(* Model checking of the drives: the volumes that callers switch between,  *)
(* and the flash drive below D:.  A caller of Volumes sees of the driver   *)
(* only whether it answers, and the driver serves one call at a time:      *)
(* either is checked in the behaviours that leave the other alone.         *)
(***************************************************************************)
EXTENDS Volumes, UsbStorage

VARIABLE layer     \* the one that the behaviour is about

drivesVars == <<vars, usbVars, layer>>

\* Of the ways to begin, one is enough for the layer that is left alone.
DrivesInit ==
  /\ Init
  /\ UsbInit
  /\ \/ layer = "volumes" /\ ~device.plugged /\ device.pair = <<1, 1>>
     \/ layer = "flash drive" /\ ~broken

DrivesNext ==
  /\ UNCHANGED layer
  /\ \/ layer = "volumes" /\ Next /\ UNCHANGED usbVars
     \/ layer = "flash drive" /\ UsbNext /\ UNCHANGED vars

DrivesSpec == DrivesInit /\ [][DrivesNext]_drivesVars

\* Nothing is promised once two changes have overlapped: not followed further.
Apart == ~overlapped
=============================================================================
