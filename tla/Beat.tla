-------------------------------- MODULE Beat --------------------------------
(***************************************************************************)
(* The heart beat of newplat: the main thread of the process, from main()  *)
(* of src/src/main.c into uloop_run(), and the two uloop timers that       *)
(* src/src/json.c starts in mqtt_beat_init().                              *)
(*                                                                         *)
(*  - mqtt_post_timeout runs mqtt_post_run(): it collects one sample over  *)
(*    ubus, appends one message to g_msg_list and re-arms itself.          *)
(*  - mqtt_run_timeout runs mqtt_send_run(): it empties g_msg_list and     *)
(*    re-arms itself.                                                      *)
(*                                                                         *)
(* Both callbacks run on the main thread, one at a time, in the order of   *)
(* uloop's list of timers.  A message is abstracted to its presence: what  *)
(* matters here is how many wait.  Time is counted in ticks, left[t] being *)
(* the ticks until timer t is due.                                         *)
(***************************************************************************)
EXTENDS Uloop

CONSTANTS
  StartDelay,  \* first delay of both timers   (1000 ms in mqtt_beat_init)
  PostPeriod,  \* re-arming delay of the post  (1000 ms in mqtt_post_run)
  SendPeriod   \* re-arming delay of the send  (  10 ms in mqtt_send_run)

\* What the three literals of json.c satisfy: the send timer, however it was
\* last armed, is never armed further ahead than a post.
ASSUME PeriodAssumption ==
  /\ StartDelay \in Nat \ {0}
  /\ PostPeriod \in Nat \ {0}
  /\ SendPeriod \in Nat \ {0}
  /\ StartDelay <= PostPeriod
  /\ SendPeriod <= PostPeriod

VARIABLES
  pc,       \* what the main thread executes
  pending   \* the length of g_msg_list

vars == <<pc, armed, left, first, pending>>

Delays == 0 .. PostPeriod
Positions == {"boot", "beat_init", "loop", "post", "send", "dead"}

TypeOK ==
  /\ pc \in Positions
  /\ armed \in SUBSET Timers
  /\ left \in [Timers -> Delays]
  /\ first \in Timers \cup {"none"}
  /\ pending \in Nat

\* Time passes, whatever the main thread does.
Tick ==
  /\ UloopTick
  /\ UNCHANGED <<pc, pending>>

-----------------------------------------------------------------------------
(***************************************************************************)
(* Start-up.                                                               *)
(***************************************************************************)

Init ==
  /\ pc = "boot"
  /\ NoTimers
  /\ pending = 0

\* main(): conf_uci_init() fails and the process exits.
ConfUciFails ==
  /\ pc = "boot"
  /\ pc' = "dead"
  /\ UNCHANGED <<timers, pending>>

\* The delay mqtt_beat_init() gives both timers.
BeatInitDelay == StartDelay

\* main() reaches mqtt_beat_init(), whatever mqtt_init() returned; the post
\* timer is set first.
BeatInitPost ==
  /\ pc = "boot"
  /\ pc' = "beat_init"
  /\ UloopTimeoutSet("post", BeatInitDelay)
  /\ UNCHANGED pending

\* The end of mqtt_beat_init(): the send timer, then uloop_run(); mutated:
\* the second timer forgotten.
BeatInitSendForgotten ==
  /\ pc = "beat_init"
  /\ pc' = "loop"
  /\ UNCHANGED <<timers, pending>>

BeatInitSend ==
  /\ pc = "beat_init"
  /\ pc' = "loop"
  /\ UloopTimeoutSet("send", BeatInitDelay)
  /\ UNCHANGED pending

-----------------------------------------------------------------------------
(***************************************************************************)
(* mqtt_post_run().  It starts, spends any time in its sixteen synchronous *)
(* ubus calls, and ends: re-armed, or with the process gone, since it      *)
(* hands the NULL of a missing string straight to atof().                  *)
(***************************************************************************)

PostRunStart ==
  /\ pc = "loop"
  /\ UloopFire("post")
  /\ pc' = "post"
  /\ UNCHANGED pending

\* cjson_creat_post_data() appends one message, or none: cjson_msg_add()
\* returns early without a device id or when malloc() fails.
PostRunEnd(added) ==
  /\ pc = "post"
  /\ pc' = "loop"
  /\ pending' = pending + added
  /\ UloopTimeoutSet("post", PostPeriod)

PostRunCrash ==
  /\ pc = "post"
  /\ pc' = "dead"
  /\ pending' = 0
  /\ UNCHANGED timers

-----------------------------------------------------------------------------
(***************************************************************************)
(* mqtt_send_run(): one iteration of its loop per queued message, each     *)
(* published or not and freed in either case.                              *)
(***************************************************************************)

SendRunStart ==
  /\ pc = "loop"
  /\ UloopFire("send")
  /\ pc' = "send"
  /\ UNCHANGED pending

SendRunDrain ==
  /\ pc = "send"
  /\ pending > 0
  /\ pending' = pending - 1
  /\ UNCHANGED <<pc, timers>>

\* Mutated forms of SendRunEnd: the timer is re-armed too far ahead; the loop
\* stops at the first message it could not publish and keeps it.
SendRunEndLate ==
  /\ pc = "send"
  /\ pending = 0
  /\ pc' = "loop"
  /\ UloopTimeoutSet("send", PostPeriod + SendPeriod)
  /\ UNCHANGED pending

SendRunEndEarly ==
  /\ pc = "send"
  /\ pc' = "loop"
  /\ UloopTimeoutSet("send", SendPeriod)
  /\ UNCHANGED pending

SendRunEnd ==
  /\ pc = "send"
  /\ pending = 0
  /\ pc' = "loop"
  /\ UloopTimeoutSet("send", SendPeriod)
  /\ UNCHANGED pending

-----------------------------------------------------------------------------
(***************************************************************************)
(* The end of a process and the next one.                                  *)
(***************************************************************************)

\* exit(1) in mqtt_connect_callback(), on the network thread, wherever the
\* main thread is.
ConnectRefused ==
  /\ pc # "dead"
  /\ pc' = "dead"
  /\ pending' = 0
  /\ UNCHANGED timers

\* SIGINT or SIGTERM: uloop_run() returns between two callbacks, and main()
\* with it.  What waits in g_msg_list is not sent.
UloopEnds ==
  /\ pc = "loop"
  /\ pc' = "dead"
  /\ pending' = 0
  /\ UNCHANGED timers

\* procd starts the daemon again, with the memory of a new process.
Respawn ==
  /\ pc = "dead"
  /\ pc' = "boot"
  /\ TimersLost
  /\ pending' = 0

-----------------------------------------------------------------------------
Boot == ConfUciFails \/ BeatInitPost
PostRun == PostRunCrash \/ \E added \in {0, 1} : PostRunEnd(added)
SendRun == SendRunDrain \/ SendRunEnd

\* A step of the main thread.
MainThread ==
  \/ Boot
  \/ BeatInitSend
  \/ PostRunStart
  \/ PostRun
  \/ SendRunStart
  \/ SendRun

Next ==
  \/ Tick
  \/ MainThread
  \/ ConnectRefused
  \/ UloopEnds
  \/ Respawn

Spec == Init /\ [][Next]_vars

\* The operating system runs the main thread and the clock goes on; nothing
\* is assumed of crashes, of refusals, of signals or of procd.  That a callback
\* ends assumes that every getter does, and so that ubusd answers look-ups:
\* ubus_lookup_id() has no timeout (see CallReturns in UbusCall).
FairSpec == Spec /\ WF_vars(Tick) /\ WF_vars(MainThread)

-----------------------------------------------------------------------------
(***************************************************************************)
(* Properties.                                                             *)
(***************************************************************************)

\* g_msg_list never holds more than one message, though nothing in
\* cjson_msg_add() bounds it: however long the ubus calls of mqtt_post_run()
\* take, uloop runs mqtt_send_run() between two of them.
QueueBound == pending <= 1

\* Why: a message waits only while the send timer is ahead of the post timer
\* in uloop's list or the send callback is running.
SendAheadOfPost ==
  pending > 0 => \/ pc = "loop" /\ "send" \in armed /\ first = "send"
                 \/ pc = "send"

\* The list of timers: which are armed at each point of the main thread, and
\* that uloop keeps the list sorted.
TimerOrder ==
  /\ pc \in {"beat_init", "loop", "send"} => "post" \in armed
  /\ pc \in {"loop", "post"} => "send" \in armed
  /\ UloopSorted

\* The inductive invariant of the proofs.
IInv == TypeOK /\ QueueBound /\ SendAheadOfPost /\ TimerOrder

\* No message stays in g_msg_list for ever (it leaves with mqtt_send_run(),
\* or with its process).
MessagesLeave == pending > 0 ~> pending = 0

\* Neither timer starves the other or is lost: as long as the process lives
\* both callbacks run again and again, the 10 ms one beside the 1000 ms one.
BothTimersRun ==
  /\ []<>(pc \in {"post", "dead"})
  /\ []<>(pc \in {"send", "dead"})
=============================================================================
