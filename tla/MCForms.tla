------------------------------ MODULE MCForms -------------------------------
(***************************************************************************)
(* Model checking of Forms: the six programs, with memos that show two     *)
(* lines and buffers that have to grow.                                    *)
(***************************************************************************)
EXTENDS Forms
=============================================================================
