---------------------------- MODULE MCLinkedList ----------------------------
(***************************************************************************)
(* LinkedList with two lists and three entries, which are interchangeable. *)
(***************************************************************************)
EXTENDS LinkedList, TLC

CONSTANTS h1, h2, e1, e2, e3

MCHead == {h1, h2}
MCEntry == {e1, e2, e3}
MCSymmetry == Permutations(MCHead) \cup Permutations(MCEntry)
=============================================================================
