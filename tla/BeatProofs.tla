----------------------------- MODULE BeatProofs -----------------------------
(***************************************************************************)
(* Proofs about Beat, for all delays that satisfy PeriodAssumption, and    *)
(* about FlightClock, which extends it, for every length of a second.      *)
(***************************************************************************)
EXTENDS FlightClock, TLAPS

-----------------------------------------------------------------------------
(***************************************************************************)
(* The timers and the queue.                                               *)
(***************************************************************************)

\* uloop_timeout_set() on a well-formed list gives a well-formed list: its
\* head is armed and is due no later than the other timer.
LEMMA TimeoutSetKeepsOrder ==
  ASSUME TypeOK, NEW t \in Timers, NEW delay \in Delays,
         UloopTimeoutSet(t, delay)
  PROVE  /\ armed' \in SUBSET Timers
         /\ left' \in [Timers -> Delays]
         /\ first' \in armed'
         /\ armed' = armed \cup {t}
         /\ left'[t] = delay
         /\ left'[Other(t)] = left[Other(t)]
         /\ armed' = Timers => \A u \in Timers : left'[first'] <= left'[u]
  BY PeriodAssumption DEF TypeOK, UloopTimeoutSet, Timers, Delays, Other

\* What is due no later than the delay stays in front of the timer set.
LEMMA TimeoutSetKeepsHead ==
  ASSUME TypeOK, NEW t \in Timers, NEW delay \in Delays,
         UloopTimeoutSet(t, delay), Other(t) \in armed, left[Other(t)] <= delay
  PROVE  first' = Other(t)
  BY DEF UloopTimeoutSet

\* The initial state satisfies the inductive invariant.
LEMMA InitInvariant == Init => IInv
  BY PeriodAssumption
     DEF Init, IInv, TypeOK, QueueBound, SendAheadOfPost, TimerOrder,
         UloopSorted, NoTimers, Positions, Timers, Delays

\* Every step preserves the inductive invariant.
LEMMA StepInvariant == IInv /\ [Next]_vars => IInv'
<1> SUFFICES ASSUME IInv, [Next]_vars PROVE IInv'
  OBVIOUS
<1> USE PeriodAssumption DEF IInv, TypeOK, QueueBound, SendAheadOfPost, TimerOrder, UloopSorted,
                             Positions, Timers, Delays
<1>1. CASE Tick
  BY <1>1 DEF Tick, UloopTick
<1>2. CASE ConfUciFails
  BY <1>2 DEF ConfUciFails, timers
<1>3. CASE BeatInitPost
  <2>1. "post" \in Timers /\ BeatInitDelay \in Delays
    BY DEF BeatInitDelay
  <2>2. QED
    BY <1>3, <2>1, TimeoutSetKeepsOrder DEF BeatInitPost, Other
<1>4. CASE BeatInitSend
  <2>1. "send" \in Timers /\ BeatInitDelay \in Delays
    BY DEF BeatInitDelay
  <2>2. QED
    BY <1>4, <2>1, TimeoutSetKeepsOrder DEF BeatInitSend, Other
<1>5. CASE PostRunStart
  BY <1>5 DEF PostRunStart, UloopFire, Other
<1>6. ASSUME NEW added \in {0, 1}, PostRunEnd(added)
      PROVE  IInv'
  \* nothing waits when the post callback runs, and the send timer, due
  \* within SendPeriod or StartDelay, stays in front of the re-armed post
  <2>1. pending = 0 /\ "send" \in armed /\ left["send"] <= PostPeriod
    BY <1>6 DEF PostRunEnd
  <2>2. "post" \in Timers /\ PostPeriod \in Delays
    OBVIOUS
  <2>3. UloopTimeoutSet("post", PostPeriod)
    BY <1>6 DEF PostRunEnd
  <2>4. first' = "send"
    BY <2>1, <2>2, <2>3, TimeoutSetKeepsHead DEF Other
  <2>5. QED
    BY <1>6, <2>1, <2>2, <2>3, <2>4, TimeoutSetKeepsOrder DEF PostRunEnd
<1>7. CASE PostRunCrash
  BY <1>7 DEF PostRunCrash, timers
<1>8. CASE SendRunStart
  BY <1>8 DEF SendRunStart, UloopFire, Other
<1>9. CASE SendRunDrain
  BY <1>9 DEF SendRunDrain, timers
<1>10. CASE SendRunEnd
  <2>1. "send" \in Timers /\ SendPeriod \in Delays
    OBVIOUS
  <2>2. QED
    BY <1>10, <2>1, TimeoutSetKeepsOrder DEF SendRunEnd
<1>11. CASE ConnectRefused
  BY <1>11 DEF ConnectRefused, timers
<1>12. CASE UloopEnds
  BY <1>12 DEF UloopEnds, timers
<1>13. CASE Respawn
  BY <1>13 DEF Respawn, TimersLost
<1>14. CASE UNCHANGED vars
  BY <1>14 DEF vars, timers
<1>15. QED
  BY <1>1, <1>2, <1>3, <1>4, <1>5, <1>6, <1>7, <1>8, <1>9, <1>10, <1>11, <1>12, <1>13,
     <1>14 DEF Next, MainThread, Boot, PostRun, SendRun

\* The inductive invariant holds in every reachable state.
THEOREM BeatInvariant == Spec => []IInv
  BY InitInvariant, StepInvariant, PTL DEF Spec

\* The variables of Beat keep their types.
THEOREM BeatTypeCorrect == Spec => []TypeOK
<1>1. IInv => TypeOK
  BY DEF IInv
<1>2. QED
  BY <1>1, BeatInvariant, PTL

\* g_msg_list holds at most one message, for all timer delays of json.c's
\* kind and however long the ubus calls take.
THEOREM QueueIsBounded == Spec => []QueueBound
<1>1. IInv => QueueBound
  BY DEF IInv
<1>2. QED
  BY <1>1, BeatInvariant, PTL

-----------------------------------------------------------------------------
(***************************************************************************)
(* The flight time.                                                        *)
(***************************************************************************)

\* Every step of the clock is a step of the main thread, so the invariant of
\* Beat carries over.
LEMMA ClockStepsBeat == ClockNext => [Next]_vars
  BY DEF ClockNext, ClockTick, ReadUptime, CountSecond, ClockGone, OtherStep,
         Next, MainThread, Boot, PostRun

\* The initial states satisfy the inductive invariant.
LEMMA ClockInitInvariant == ClockInit => ClockIInv
<1> SUFFICES ASSUME ClockInit PROVE ClockIInv
  OBVIOUS
<1>1. IInv
  BY InitInvariant DEF ClockInit
<1>2. uptime \in Nat /\ g_fly_time = 0 /\ best = 0 /\ armed = {}
  BY SecondAssumption DEF ClockInit, Init, NoTimers
<1>3. 0 * Second = 0
  BY SecondAssumption
<1>4. QED
  BY <1>1, <1>2, <1>3 DEF ClockIInv, ClockTypeOK, NeverAhead, SecondDue, BestBehind

\* One more second is one more Second.
LEMMA NextSecond == ASSUME NEW n \in Nat PROVE (n + 1) * Second = n * Second + Second
  BY SecondAssumption

\* The whole seconds of a time are not ahead of it.
LEMMA WholeSeconds ==
  ASSUME NEW t \in Nat
  PROVE  t \div Second \in Nat /\ (t \div Second) * Second <= t
  BY SecondAssumption

\* Every step preserves the inductive invariant.
LEMMA ClockStepInvariant == ClockIInv /\ [ClockNext]_clockVars => ClockIInv'
<1> SUFFICES ASSUME ClockIInv, [ClockNext]_clockVars PROVE ClockIInv'
  OBVIOUS
<1>1. IInv'
  <2>1. CASE ClockNext
    BY <2>1, ClockStepsBeat, StepInvariant DEF ClockIInv
  <2>2. CASE UNCHANGED clockVars
    BY <2>2, StepInvariant DEF ClockIInv, clockVars
  <2>3. QED
    BY <2>1, <2>2
<1>2. /\ uptime \in Nat /\ g_fly_time \in Nat /\ best \in Nat
      /\ Second \in Nat /\ g_fly_time * Second \in Nat /\ best * Second \in Nat
  BY SecondAssumption DEF ClockIInv, ClockTypeOK
<1>3. /\ g_fly_time * Second <= uptime
      /\ best * Second <= uptime
      /\ pc # "dead" /\ "post" \in armed =>
           g_fly_time * Second + Second <= uptime + left["post"]
  BY <1>2, NextSecond DEF ClockIInv, NeverAhead, SecondDue, BestBehind
<1>4. left \in [Timers -> Nat] /\ armed \in SUBSET Timers
  BY PeriodAssumption DEF ClockIInv, IInv, TypeOK, Delays
<1>5. SUFFICES /\ ClockTypeOK'
               /\ g_fly_time' * Second <= uptime'
               /\ best' * Second <= uptime'
               /\ pc' # "dead" /\ "post" \in armed' =>
                    g_fly_time' * Second + Second <= uptime' + left'["post"]
  BY <1>1, NextSecond DEF ClockIInv, ClockTypeOK, NeverAhead, SecondDue, BestBehind
<1> USE <1>2, <1>3, <1>4 DEF ClockTypeOK
<1>6. CASE ClockTick
  <2>1. /\ uptime' = uptime + 1 /\ g_fly_time' = g_fly_time /\ best' = best
        /\ pc' = pc /\ armed' = armed /\ left'["post"] + 1 >= left["post"]
        /\ left'["post"] \in Nat
    BY <1>6 DEF ClockTick, Tick, UloopTick, Timers
  <2>2. QED
    BY <2>1
<1>7. CASE ReadUptime
  <2>1. /\ uptime' = uptime /\ best' = best
        /\ g_fly_time' \in Nat /\ g_fly_time' * Second <= uptime
    <3>1. /\ uptime \div Second \in Nat
          /\ (uptime \div Second) * Second <= uptime
          /\ 0 * Second <= uptime
      BY WholeSeconds
    <3>2. uptime' = uptime /\ best' = best
      BY <1>7 DEF ReadUptime
    <3>3. CASE g_fly_time' = uptime \div Second
      BY <3>1, <3>2, <3>3
    <3>4. CASE g_fly_time' = 0
      BY <3>1, <3>2, <3>4
    <3>5. QED
      BY <1>7, <3>3, <3>4 DEF ReadUptime
  <2>2. left'["post"] = StartDelay
    BY <1>7 DEF ReadUptime, BeatInitPost, BeatInitDelay, UloopTimeoutSet, Timers
  <2>3. StartDelay >= Second /\ StartDelay \in Nat
    BY SecondAssumption, PeriodAssumption
  <2>4. ClockTypeOK'
    BY <2>1
  <2>5. g_fly_time' * Second <= uptime'
    BY <2>1
  <2>6. g_fly_time' * Second + Second <= uptime' + left'["post"]
    <3>0. ASSUME NEW k \in Nat PROVE k * Second \in Nat
      OBVIOUS
    <3>1. PICK n \in Nat : n = g_fly_time' * Second
      BY <2>1, <3>0
    <3>2. n <= uptime /\ Second <= left'["post"] /\ left'["post"] \in Nat
      BY <2>1, <2>2, <2>3, <3>1
    <3>3. n + Second <= uptime + left'["post"]
      BY <3>2
    <3>4. QED
      BY <2>1, <3>1, <3>3
  <2>7. QED
    BY <2>1, <2>4, <2>5, <2>6
<1>8. CASE CountSecond
  <2>1. /\ uptime' = uptime /\ best' = best /\ g_fly_time' = g_fly_time + 1
        /\ pc = "loop" /\ left["post"] = 0 /\ first = "post"
        /\ armed' = armed \ {"post"}
    BY <1>8 DEF CountSecond, PostRunStart, UloopFire
  <2>2. "post" \in armed
    BY <2>1 DEF ClockIInv, IInv, TimerOrder, UloopSorted
  <2>3. g_fly_time' * Second = g_fly_time * Second + Second
    BY <2>1, NextSecond
  <2>4. QED
    BY <2>1, <2>2, <2>3
<1>9. CASE ClockGone
  <2>1. /\ uptime' = uptime /\ g_fly_time' = 0 /\ best' \in {g_fly_time, best}
        /\ pc' = "dead"
    BY <1>9 DEF ClockGone, ConfUciFails, PostRunCrash, ConnectRefused,
                UloopEnds
  <2>2. g_fly_time' * Second = 0
    BY <2>1
  <2>3. best' \in Nat /\ best' * Second <= uptime
    <3>1. CASE best' = g_fly_time
      BY <3>1
    <3>2. CASE best' = best
      BY <3>2
    <3>3. QED
      BY <2>1, <3>1, <3>2
  <2>4. ClockTypeOK'
    BY <2>1, <2>3
  <2>5. g_fly_time' * Second <= uptime'
    BY <2>1, <2>2
  <2>6. best' * Second <= uptime'
    BY <2>1, <2>3
  <2>7. QED
    BY <2>1, <2>4, <2>5, <2>6
<1>10. CASE OtherStep
  <2>1. UNCHANGED <<uptime, g_fly_time, best>>
    BY <1>10 DEF OtherStep
  <2>2. CASE BeatInitSend \/ SendRunStart \/ SendRun
    <3>1. left'["post"] = left["post"] /\ ("post" \in armed' => "post" \in armed)
          /\ pc # "dead"
      BY <2>2 DEF BeatInitSend, SendRunStart, SendRun, SendRunDrain, SendRunEnd,
                  UloopTimeoutSet, UloopFire, Timers, timers
    <3>2. QED
      BY <2>1, <3>1
  <2>3. ASSUME NEW added \in {0, 1}, PostRunEnd(added)
        PROVE  left'["post"] = PostPeriod
    BY <2>3 DEF PostRunEnd, UloopTimeoutSet, Timers
  <2>4. PostPeriod >= Second /\ PostPeriod \in Nat
    BY SecondAssumption, PeriodAssumption
  <2>5. CASE Respawn
    BY <2>1, <2>5 DEF Respawn, TimersLost
  <2>6. QED
    BY <1>10, <2>1, <2>2, <2>3, <2>4, <2>5 DEF OtherStep
<1>11. CASE UNCHANGED clockVars
  BY <1>11 DEF clockVars, vars
<1>12. QED
  BY <1>6, <1>7, <1>8, <1>9, <1>10, <1>11 DEF ClockNext

\* The inductive invariant holds in every reachable state.
THEOREM ClockInvariant == ClockSpec => []ClockIInv
  BY ClockInitInvariant, ClockStepInvariant, PTL DEF ClockSpec

\* The flight time that newplat counts never exceeds the system's uptime,
\* however late or seldom the callbacks run and however often it restarts.
THEOREM FlightTimeNeverAhead == ClockSpec => []NeverAhead
<1>1. ClockIInv => NeverAhead
  BY DEF ClockIInv
<1>2. QED
  BY <1>1, ClockInvariant, PTL

\* A number of seconds that fits a time is at most its whole seconds.
LEMMA WholeSecondsMost ==
  ASSUME NEW t \in Nat, NEW n \in Nat, n * Second <= t
  PROVE  n <= t \div Second
<1> DEFINE q == t \div Second
<1>1. q \in Nat /\ t < (q + 1) * Second
  BY SecondAssumption
<1>2. SUFFICES ASSUME n >= q + 1 PROVE FALSE
  BY <1>1
<1>3. PICK d \in Nat : n = (q + 1) + d
  <2>1. n - (q + 1) \in Nat /\ n = (q + 1) + (n - (q + 1))
    BY <1>1, <1>2
  <2>2. QED
    BY <2>1
<1>4. n * Second = (q + 1) * Second + d * Second
  BY <1>1, <1>3, SecondAssumption
<1>5. d * Second \in Nat /\ (q + 1) * Second \in Nat
  BY <1>1, <1>3, SecondAssumption
<1>6. QED
  BY <1>1, <1>4, <1>5

\* A new process that reads the uptime resumes no lower than any process
\* before it had counted, after any crashes and restarts.
THEOREM FlightTimeResumes == ClockSpec => ResumesNoLower
<1>1. ASSUME ClockIInv, ReadUptime
      PROVE  g_fly_time' = 0 \/ g_fly_time' >= best
  <2>1. best \in Nat /\ uptime \in Nat /\ best * Second <= uptime
    BY <1>1 DEF ClockIInv, ClockTypeOK, BestBehind
  <2>2. best <= uptime \div Second /\ uptime \div Second \in Nat
    BY <2>1, WholeSecondsMost, WholeSeconds
  <2>3. g_fly_time' \in {uptime \div Second, 0}
    BY <1>1 DEF ReadUptime
  <2>4. QED
    BY <2>1, <2>2, <2>3
<1>2. ClockIInv => [ReadUptime => g_fly_time' = 0 \/ g_fly_time' >= best]_clockVars
  BY <1>1
<1>3. QED
  BY <1>2, ClockInvariant, PTL DEF ClockSpec, ResumesNoLower
=============================================================================
