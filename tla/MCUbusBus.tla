------------------------------ MODULE MCUbusBus ------------------------------
(***************************************************************************)
(* UbusBus with two methods and two events.                                *)
(***************************************************************************)
EXTENDS UbusBus

CONSTANTS m1, m2, e1, e2

MCMethod == {m1, m2}
MCEvent == {e1, e2}
=============================================================================
