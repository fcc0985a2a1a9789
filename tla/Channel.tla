------------------------------- MODULE Channel -------------------------------
(***************************************************************************)
(* What newplat promises of its messages: a channel that loses but never   *)
(* repeats and never reorders.  Messages are numbered as they are made;    *)
(* those under way are a set, because numbers already give their order.    *)
(* It abstracts g_msg_list, libmosquitto's packets at QoS 0 and the        *)
(* connection, across any number of processes.                             *)
(***************************************************************************)
EXTENDS Naturals

VARIABLES
  made,      \* how many messages were made
  underway,  \* the numbers of those neither received nor lost
  got        \* the number of the last message the broker received

vars == <<made, underway, got>>

TypeOK ==
  /\ made \in Nat
  /\ underway \in SUBSET Nat
  /\ got \in Nat

Init ==
  /\ made = 0
  /\ underway = {}
  /\ got = 0

Make ==
  /\ made' = made + 1
  /\ underway' = underway \cup {made'}
  /\ UNCHANGED got

\* The oldest message under way is received, and is then gone.
Deliver(n) ==
  /\ n \in underway
  /\ \A k \in underway : n <= k
  /\ got' = n
  /\ underway' = underway \ {n}
  /\ UNCHANGED made

\* Any messages are lost: not connected, connection closed, process gone.
Lose(lost) ==
  /\ underway' = underway \ lost
  /\ UNCHANGED <<made, got>>

Next ==
  \/ Make
  \/ \E n \in underway : Deliver(n)
  \/ \E lost \in SUBSET underway : Lose(lost)

Spec == Init /\ [][Next]_vars

-----------------------------------------------------------------------------
\* A message under way is newer than all the broker has received.
NewerUnderway ==
  /\ got <= made
  /\ \A n \in underway : got < n /\ n <= made

\* The inductive invariant of the proofs.
IInv == TypeOK /\ NewerUnderway

\* The broker receives each message at most once and in the order they were
\* made.
ReceivedInOrder == [][got' > got]_got
=============================================================================
