---------------------------- MODULE MCMqttSession ----------------------------
(***************************************************************************)
(* MqttSession with one message and room for two packets.                  *)
(***************************************************************************)
EXTENDS MqttSession

MCMsg == {"m"}
MCMaxOut == 2
=============================================================================
