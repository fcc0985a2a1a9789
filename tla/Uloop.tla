-------------------------------- MODULE Uloop --------------------------------
(***************************************************************************)
(* The timers of uloop (libubox, not in this repository), as json.c uses   *)
(* them: a list sorted by due time from which uloop_run() takes the head   *)
(* when it is due.  newplat has two timers, mqtt_post_timeout ("post") and *)
(* mqtt_run_timeout ("send"), so the order is given by the head alone.     *)
(***************************************************************************)
EXTENDS Naturals

VARIABLES
  armed,    \* the timers in the list
  left,     \* ticks until each timer is due (0: due, or never armed)
  first     \* the timer at the head of the list

timers == <<armed, left, first>>

Timers == {"post", "send"}

Other(t) == IF t = "post" THEN "send" ELSE "post"

\* The list of a new process.
NoTimers ==
  /\ armed = {}
  /\ left = [t \in Timers |-> 0]
  /\ first = "none"

\* A new process takes the place of the old one, timers and all.
TimersLost ==
  /\ armed' = {}
  /\ left' = [t \in Timers |-> 0]
  /\ first' = "none"

\* uloop_timeout_set(): a timer goes after those due no later than itself.
UloopTimeoutSet(t, delay) ==
  /\ armed' = armed \cup {t}
  /\ left' = [left EXCEPT ![t] = delay]
  /\ first' = IF Other(t) \in armed /\ left[Other(t)] <= delay
              THEN Other(t) ELSE t

\* uloop_run() takes the head of the list off when it is due; the caller of
\* this operator says what the callback does.
UloopFire(t) ==
  /\ first = t
  /\ left[t] = 0
  /\ armed' = armed \ {t}
  /\ first' = IF Other(t) \in armed THEN Other(t) ELSE "none"
  /\ UNCHANGED left

\* Time passes, whatever the process does; an overdue timer stays due.
UloopTick ==
  /\ left' = [t \in Timers |-> IF left[t] > 0 THEN left[t] - 1 ELSE 0]
  /\ UNCHANGED <<armed, first>>

\* The list ordered: its head is armed, and due no later than the other timer.
UloopSorted ==
  /\ first = "none" <=> armed = {}
  /\ first # "none" => first \in armed
  /\ armed = Timers => \A t \in Timers : left[first] <= left[t]
=============================================================================
