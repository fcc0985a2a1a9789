---------------------------- MODULE FlightClock -----------------------------
(***************************************************************************)
(* The flight time that newplat keeps by itself: g_fly_time of json.c,     *)
(* read from the system's uptime in mqtt_beat_init() and counted up by one *)
(* in every mqtt_post_run(), as if that ran every second.  It is what a    *)
(* message reports when uartd gives a position and no flight time.         *)
(***************************************************************************)
EXTENDS Beat

CONSTANTS
  Second,     \* ticks of a second
  MaxUptime   \* bound on the ticks that a run counts

\* mqtt_post_run() re-arms itself a second ahead, mqtt_beat_init() arms it no
\* earlier.
ASSUME SecondAssumption ==
  /\ Second \in Nat \ {0}
  /\ MaxUptime \in Nat
  /\ StartDelay >= Second
  /\ PostPeriod >= Second

VARIABLES
  uptime,      \* the ticks since the system started
  g_fly_time,  \* seconds
  best         \* history: the highest g_fly_time of an earlier process

clockVars == <<vars, uptime, g_fly_time, best>>

ClockTypeOK ==
  /\ uptime \in Nat
  /\ g_fly_time \in Nat
  /\ best \in Nat

ClockInit ==
  /\ Init
  /\ uptime \in 0 .. MaxUptime
  /\ g_fly_time = 0
  /\ best = 0

ClockTick ==
  /\ uptime < MaxUptime
  /\ uptime' = uptime + 1
  /\ Tick
  /\ UNCHANGED <<g_fly_time, best>>

\* ubus_get_int("system", "info", "uptime") in whole seconds, or its default
\* 0 when the call fails; then the two timers are started.
ReadUptime ==
  /\ BeatInitPost
  /\ g_fly_time' \in {uptime \div Second, 0}
  /\ UNCHANGED <<uptime, best>>

\* Mutated: two seconds in every callback.
CountSecondTwice ==
  /\ PostRunStart
  /\ g_fly_time' = g_fly_time + 2
  /\ UNCHANGED <<uptime, best>>

CountSecond ==
  /\ PostRunStart
  /\ g_fly_time' = g_fly_time + 1
  /\ UNCHANGED <<uptime, best>>

\* A process ends, and the next one begins with g_fly_time = 0.
ClockGone ==
  /\ ConfUciFails \/ PostRunCrash \/ ConnectRefused \/ UloopEnds
  /\ best' = IF g_fly_time > best THEN g_fly_time ELSE best
  /\ g_fly_time' = 0
  /\ UNCHANGED uptime

OtherStep ==
  /\ \/ BeatInitSend
     \/ \E added \in {0, 1} : PostRunEnd(added)
     \/ SendRunStart
     \/ SendRun
     \/ Respawn
  /\ UNCHANGED <<uptime, g_fly_time, best>>

ClockNext ==
  \/ ClockTick
  \/ ReadUptime
  \/ CountSecond
  \/ ClockGone
  \/ OtherStep

ClockSpec == ClockInit /\ [][ClockNext]_clockVars

-----------------------------------------------------------------------------
(***************************************************************************)
(* Properties.                                                             *)
(***************************************************************************)

\* g_fly_time never runs ahead of the time the system is up, though it is
\* counted and not measured: the callbacks may come late, never early.
NeverAhead == g_fly_time * Second <= uptime

\* Why: when the post timer is due, a second has passed that g_fly_time has
\* not counted.
SecondDue ==
  pc # "dead" /\ "post" \in armed => (g_fly_time + 1) * Second <= uptime + left["post"]

\* Nor does any process of the past report more than the present uptime.
BestBehind == best * Second <= uptime

\* The inductive invariant of the proofs.
ClockIInv == IInv /\ ClockTypeOK /\ NeverAhead /\ SecondDue /\ BestBehind

\* A restart loses no flight time: a new process that reads the uptime starts
\* no lower than any earlier process had counted.
ResumesNoLower ==
  [][ReadUptime => g_fly_time' = 0 \/ g_fly_time' >= best]_clockVars
=============================================================================
