----------------------------- MODULE MCDesktop -----------------------------
\* Two slots and two programs, the first of them the task manager.
EXTENDS Desktop

Two == 7 .. 8
One == {7}
=============================================================================
