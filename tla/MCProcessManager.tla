-------------------------- MODULE MCProcessManager --------------------------
(* The small instances of ProcessManager that TLC checks. *)
EXTENDS ProcessManager
=============================================================================
