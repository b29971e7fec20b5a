------------------------------- MODULE MCAhci -------------------------------
(***************************************************************************)
(* Model checking of Ahci: a task that can be preempted and a system call, *)
(* sectors on both sides of the limit of 28-bit addresses, one port, loops *)
(* of two rounds.                                                          *)
(***************************************************************************)
EXTENDS Ahci

Sides == {5, 268435456 + 5}
=============================================================================
