----------------------------- MODULE MCUbusCall ------------------------------
(***************************************************************************)
(* UbusCall with two data, two calls, two object ids and three messages.   *)
(***************************************************************************)
EXTENDS UbusCall

MCValue == {"v1", "v2"}
MCMaxCalls == 2
MCMaxIds == 2
MCMaxWire == 3
=============================================================================
