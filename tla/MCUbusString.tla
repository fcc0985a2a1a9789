---------------------------- MODULE MCUbusString -----------------------------
(***************************************************************************)
(* UbusString with its real sizes and the lengths around every boundary of *)
(* the buffer and of a char, up to twice round.                            *)
(***************************************************************************)
EXTENDS UbusString

MCSize0 == 128
MCCharMod == 256
MCLength == {1, 2, 126, 127, 128, 129, 200, 254, 255, 256, 257, 300, 383, 384,
             511, 512, 513}
=============================================================================
