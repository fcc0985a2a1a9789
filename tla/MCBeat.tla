------------------------------- MODULE MCBeat -------------------------------
(***************************************************************************)
(* Beat on small periods: a post every 6 ticks, a send every second one.   *)
(***************************************************************************)
EXTENDS Beat

MCStartDelay == 6
MCPostPeriod == 6
MCSendPeriod == 2
=============================================================================
