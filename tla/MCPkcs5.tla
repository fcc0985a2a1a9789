------------------------------ MODULE MCPkcs5 -------------------------------
(***************************************************************************)
(* Pkcs5 with the blocks of AES and a text or more of every length up to   *)
(* three blocks and beyond.  Its bytes count up from different starts: the *)
(* byte that is taken for a padding may be anything.                       *)
(***************************************************************************)
EXTENDS Pkcs5

MCBlockSize == 16
MCMaxLen == 50
MCStarts == {0, 60, 240}
MCText == {[i \in 1 .. n |-> (start + i) % 256] : n \in 0 .. MCMaxLen, start \in MCStarts}
MCGarbage == {0, 16, 255}
=============================================================================
