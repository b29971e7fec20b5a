----------------------------- MODULE MCDevices ------------------------------
(***************************************************************************)
(* Model checking of the three drivers behind the interrupt controller.    *)
(* They share no variable, so what one does in a behaviour of the machine  *)
(* it also does in a behaviour in which the other two are left alone:      *)
(* those are the behaviours checked.                                       *)
(***************************************************************************)
EXTENDS Keyboard, Mouse, SerialPorts

VARIABLE driven     \* the driver that the behaviour is about

allVars == <<keyboardVars, mouseVars, serialVars, driven>>

Init == /\ KeyboardInit /\ MouseInit /\ SerialInit
        /\ driven \in {"keyboard", "mouse", "serial"}

Next ==
    /\ UNCHANGED driven
    /\ \/ driven = "keyboard" /\ KeyboardNext /\ UNCHANGED <<mouseVars, serialVars>>
       \/ driven = "mouse" /\ MouseNext /\ UNCHANGED <<keyboardVars, serialVars>>
       \/ driven = "serial" /\ SerialNext /\ UNCHANGED <<keyboardVars, mouseVars>>

Spec == Init /\ [][Next]_allVars /\ WF_mouseVars(IRQ12) /\ WF_serialVars(IRQ4)

\* Small and large, both ways, with and without bit 3, past eight bits
Moves == {<<0, 1, 0, 0>>, <<1, -8, 8, 0>>, <<0, 200, -1, 0>>, <<4, -200, 0, -1>>}
=============================================================================
