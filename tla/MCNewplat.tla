------------------------------ MODULE MCNewplat ------------------------------
(***************************************************************************)
(* Newplat with two messages and the shortest periods.                     *)
(***************************************************************************)
EXTENDS Newplat

MCStartDelay == 2
MCPostPeriod == 2
MCSendPeriod == 1
MCMaxMsgs == 2
=============================================================================
