---------------------------- MODULE MCFlightClock ----------------------------
(***************************************************************************)
(* FlightClock over a few seconds of two ticks, with every start time.     *)
(***************************************************************************)
EXTENDS FlightClock

MCSecond == 2
MCStartDelay == 2
MCPostPeriod == 2
MCSendPeriod == 1
MCMaxUptime == 11
=============================================================================
