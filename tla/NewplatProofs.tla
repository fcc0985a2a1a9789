---------------------------- MODULE NewplatProofs -----------------------------
(***************************************************************************)
(* Proofs about Newplat, for all delays that Beat is proved for and any    *)
(* bound on the messages: that it implements Beat, MqttSession and         *)
(* Channel, and what it does to the messages themselves.                   *)
(*                                                                         *)
(* The proofs of the two components are used for the instances of them in  *)
(* Newplat: a step of Newplat is one of theirs, so that their inductive    *)
(* invariants are kept.                                                    *)
(***************************************************************************)
EXTENDS Newplat, TLAPS

\* BeatProofs is about the flight time too, which no lemma cited here looks at.
BP == INSTANCE BeatProofs WITH pc <- BeatPc, pending <- Len(queue),
       Second <- 1, MaxUptime <- 0, uptime <- 0, g_fly_time <- 0, best <- 0
SP == INSTANCE MqttSessionProofs WITH main <- MainPc, Msg <- Message, MaxOut <- MaxMsgs

-----------------------------------------------------------------------------
(***************************************************************************)
(* Every step of Newplat is one of Beat and one of MqttSession.            *)
(***************************************************************************)

\* Where the main thread is, before and after a step, as both see it.
LEMMA BeatPositions ==
  /\ BeatPc = IF pc \in Boot THEN "boot"
              ELSE IF pc \in PostRun THEN "post"
              ELSE IF pc = "publish" THEN "send" ELSE pc
  /\ BeatPc' = IF pc' \in Boot THEN "boot"
               ELSE IF pc' \in PostRun THEN "post"
               ELSE IF pc' = "publish" THEN "send" ELSE pc'
  BY DEF BeatPc, Boot, PostRun

\* The session knows no callbacks: it sees them all as "run".
LEMMA MainPositions ==
  /\ MainPc = IF pc = "boot" THEN "conf"
              ELSE IF pc \in {"conf", "name", "init", "publish", "dead"} THEN pc ELSE "run"
  /\ MainPc' = IF pc' = "boot" THEN "conf"
               ELSE IF pc' \in {"conf", "name", "init", "publish", "dead"} THEN pc' ELSE "run"
  BY DEF MainPc

\* cjson_msg_add() appends the message made of the draft, or nothing.
LEMMA MsgAdded ==
  ASSUME MsgAdd
  PROVE  /\ pc = "add"
         /\ \E added :
              /\ PostRunEnd(added)
              /\ Len(added) \in {0, 1}
              /\ \/ added = <<>>
                 \/ /\ made < MaxMsgs
                    /\ \E text \in BOOLEAN :
                         added = <<[seq |-> made + 1, ids |-> draft, text |-> text]>>
<1>1. CASE PostRunEnd(<<>>)
  BY <1>1 DEF MsgAdd
<1>2. ASSUME NEW text \in BOOLEAN, made < MaxMsgs,
             PostRunEnd(<<[seq |-> made + 1, ids |-> draft, text |-> text]>>)
      PROVE  \E added :
               /\ PostRunEnd(added)
               /\ Len(added) \in {0, 1}
               /\ made < MaxMsgs
               /\ \E t \in BOOLEAN : added = <<[seq |-> made + 1, ids |-> draft, text |-> t]>>
  BY <1>2
<1>3. QED
  BY <1>1, <1>2 DEF MsgAdd

\* What ends a callback of the timers is in Beat too, with the length of the
\* queue for the queue.
LEMMA PostRunEndStep ==
  ASSUME NEW added, Len(added) \in {0, 1}, pc \in PostRun, PostRunEnd(added)
  PROVE  B!Next /\ UNCHANGED S!vars
<1>1. B!PostRunEnd(Len(added)) /\ UNCHANGED session /\ pc' = "loop"
  BY DEF PostRunEnd
<1>2. B!Next
  BY <1>1 DEF B!Next, B!MainThread, B!PostRun
<1>3. MainPc = "run" /\ MainPc' = "run"
  BY <1>1, MainPositions DEF PostRun
<1>4. QED
  BY <1>1, <1>2, <1>3 DEF session, S!vars

\* A step of Newplat is one of the main loop, or none.
LEMMA BeatStep == TypeOK /\ [Next]_vars => [B!Next]_(B!vars)
<1> SUFFICES ASSUME TypeOK, [Next]_vars PROVE B!Next \/ UNCHANGED B!vars
  OBVIOUS
<1> USE BeatPositions DEF Boot, PostRun
<1>1. ASSUME UNCHANGED <<timers, messages>>, BeatPc' = BeatPc
      PROVE  UNCHANGED B!vars
  BY <1>1 DEF timers, messages, B!vars
<1>2. CASE Tick
  BY <1>2 DEF Tick, B!Next
<1>3. CASE ConfUciInit \/ ReadMqttConfFails \/ ReadMqttConf \/ SetMqttName \/ MqttInit
  BY <1>1, <1>3 DEF ConfUciInit, ReadMqttConfFails, ReadMqttConf, SetMqttName, MqttInit
<1>4. CASE BeatInitPost \/ BeatInitSend
  BY <1>4 DEF BeatInitPost, BeatInitSend, B!Next, B!MainThread, B!Boot
<1>5. CASE PostRunStart \/ SendRunStart
  BY <1>5 DEF PostRunStart, SendRunStart, B!Next, B!MainThread
<1>6. CASE Sampled \/ GetDeviceId
  BY <1>1, <1>6 DEF Sampled, GetDeviceId
<1>7. CASE ReadDeviceId
  <2>1. pc' \in {"check", "add", "get"} /\ pc = "read"
    BY <1>7 DEF ReadDeviceId
  <2>2. UNCHANGED <<timers, queue>>
    BY <1>7 DEF ReadDeviceId
  <2>3. QED
    BY <2>1, <2>2 DEF B!vars, timers
<1>8. CASE CheckDeviceId
  BY <1>1, <1>8, PostRunEndStep DEF CheckDeviceId
<1>9. CASE MsgAdd
  BY <1>9, MsgAdded, PostRunEndStep
<1>10. CASE SendDrops \/ SendPublishes
  BY <1>10 DEF SendDrops, SendPublishes, B!Next, B!MainThread, B!SendRun
<1>11. CASE SendChecks
  BY <1>1, <1>11 DEF SendChecks
<1>12. CASE SendRunEnd
  BY <1>12 DEF SendRunEnd, B!Next, B!MainThread, B!SendRun
<1>13. CASE Network \/ Deliver
  BY <1>1, <1>13 DEF Network, Deliver
<1>14. CASE ConfUciFails \/ PostRunCrash \/ UloopEnds \/ ConnectRefused \/ Respawn
  BY <1>14 DEF ConfUciFails, PostRunCrash, UloopEnds, ConnectRefused, Respawn,
               B!Next, B!MainThread, B!Boot, B!PostRun
<1>15. CASE UNCHANGED vars
  BY <1>1, <1>15 DEF vars
<1>16. QED
  BY <1>2, <1>3, <1>4, <1>5, <1>6, <1>7, <1>8, <1>9, <1>10, <1>11, <1>12, <1>13, <1>14,
     <1>15 DEF Next, Main

\* A step of Newplat is one of the two threads on the session, or none.
LEMMA SessionStep == TypeOK /\ OutqOrdered /\ [Next]_vars => [S!Next]_(S!vars)
<1> SUFFICES ASSUME TypeOK, OutqOrdered, [Next]_vars PROVE S!Next \/ UNCHANGED S!vars
  OBVIOUS
<1> USE MainPositions DEF PostRun
<1>1. ASSUME UNCHANGED session, MainPc' = MainPc
      PROVE  UNCHANGED S!vars
  BY <1>1 DEF session, S!vars
<1>2. CASE Tick \/ ConfUciInit \/ BeatInitPost \/ BeatInitSend \/ Sampled
  BY <1>1, <1>2 DEF Tick, ConfUciInit, BeatInitPost, BeatInitSend, Sampled
<1>3. CASE ReadMqttConfFails \/ ReadMqttConf \/ SetMqttName \/ MqttInit
  BY <1>3 DEF ReadMqttConfFails, ReadMqttConf, SetMqttName, MqttInit, S!Next, S!MqttInit
<1>4. CASE PostRunStart \/ SendRunStart
  BY <1>1, <1>4, BeatPositions
     DEF PostRunStart, SendRunStart, B!PostRunStart, B!SendRunStart, Boot
<1>5. CASE GetDeviceId
  BY <1>5 DEF GetDeviceId, S!Next, S!MainGetDeviceId, S!threads
<1>6. CASE ReadDeviceId
  <2>1. pc' \in {"check", "add", "get"} /\ pc = "read" /\ UNCHANGED session
    BY <1>6 DEF ReadDeviceId
  <2>2. QED
    BY <1>1, <2>1
<1>7. CASE CheckDeviceId
  BY <1>1, <1>7, PostRunEndStep DEF CheckDeviceId
<1>8. CASE MsgAdd
  BY <1>8, MsgAdded, PostRunEndStep
<1>9. CASE SendDrops
  BY <1>1, <1>9 DEF SendDrops
<1>10. CASE SendChecks
  BY <1>10 DEF SendChecks, S!Next
<1>11. CASE SendPublishes
  <2>1. queue # <<>> /\ queue \in Seq(Message)
    BY <1>11 DEF SendPublishes, OutqOrdered, TypeOK
  <2>2. Head(queue) \in Message
    BY <2>1
  <2>3. QED
    BY <1>11, <2>2 DEF SendPublishes, S!Next
<1>12. CASE SendRunEnd
  BY <1>1, <1>12 DEF SendRunEnd
<1>13. CASE Network \/ Deliver
  BY <1>13 DEF Network, Deliver, S!Next, S!Library
<1>14. CASE ConfUciFails \/ PostRunCrash \/ UloopEnds \/ ConnectRefused \/ Respawn
  BY <1>14 DEF ConfUciFails, PostRunCrash, UloopEnds, ConnectRefused, Respawn, S!Next
<1>15. CASE UNCHANGED vars
  BY <1>1, <1>15 DEF vars
<1>16. QED
  BY <1>2, <1>3, <1>4, <1>5, <1>6, <1>7, <1>8, <1>9, <1>10, <1>11, <1>12, <1>13, <1>14,
     <1>15 DEF Next, Main
-----------------------------------------------------------------------------
(***************************************************************************)
(* The invariants of the components, which are kept with their steps.      *)
(***************************************************************************)

\* Both instances of Beat are one: the one of Newplat and that of its proofs.
LEMMA SameBeat ==
  /\ B!IInv <=> BP!IInv
  /\ B!IInv' <=> BP!IInv'
  /\ B!Init <=> BP!Init
  /\ B!Next <=> BP!Next
  /\ B!vars = BP!vars /\ B!vars' = BP!vars'
  BY DEF B!IInv, BP!IInv, B!TypeOK, BP!TypeOK, B!QueueBound, BP!QueueBound,
         B!SendAheadOfPost, BP!SendAheadOfPost, B!TimerOrder, BP!TimerOrder,
         B!UloopSorted, BP!UloopSorted, B!Positions, BP!Positions, B!Delays, BP!Delays,
         B!Timers, BP!Timers, B!Init, BP!Init, B!NoTimers, BP!NoTimers, B!vars, BP!vars,
         B!Next, BP!Next, B!Tick, BP!Tick, B!UloopTick, BP!UloopTick, B!MainThread,
         BP!MainThread, B!Boot, BP!Boot, B!ConfUciFails, BP!ConfUciFails, B!BeatInitPost,
         BP!BeatInitPost, B!BeatInitSend, BP!BeatInitSend, B!BeatInitDelay,
         BP!BeatInitDelay, B!UloopTimeoutSet, BP!UloopTimeoutSet, B!Other, BP!Other,
         B!PostRunStart, BP!PostRunStart, B!UloopFire, BP!UloopFire, B!PostRun,
         BP!PostRun, B!PostRunCrash, BP!PostRunCrash, B!PostRunEnd, BP!PostRunEnd,
         B!SendRunStart, BP!SendRunStart, B!SendRun, BP!SendRun, B!SendRunDrain,
         BP!SendRunDrain, B!SendRunEnd, BP!SendRunEnd, B!ConnectRefused,
         BP!ConnectRefused, B!UloopEnds, BP!UloopEnds, B!Respawn, BP!Respawn,
         B!TimersLost, BP!TimersLost, B!timers, BP!timers

\* The same of MqttSession.
LEMMA SameSession ==
  /\ S!IInv <=> SP!IInv
  /\ S!IInv' <=> SP!IInv'
  /\ S!Init <=> SP!Init
  /\ S!Next <=> SP!Next
  /\ S!vars = SP!vars /\ S!vars' = SP!vars'
  BY DEF S!IInv, SP!IInv, S!TypeOK, SP!TypeOK, S!FlagSound, SP!FlagSound, S!NameKept,
         SP!NameKept, S!NameWhole, SP!NameWhole, S!ConfiguredFirst, SP!ConfiguredFirst,
         S!SubscribedAgain, SP!SubscribedAgain, S!SubscriptionLive, SP!SubscriptionLive,
         S!CopyProgress, SP!CopyProgress, S!Start, SP!Start, S!SessionFlagged,
         SP!SessionFlagged, S!DeviceId, SP!DeviceId, S!Parts, SP!Parts, S!Threads,
         SP!Threads, S!DeviceIds, SP!DeviceIds, S!Callback, SP!Callback, S!Init, SP!Init,
         S!vars, SP!vars, S!Next, SP!Next, S!MqttInit, SP!MqttInit, S!ReadMqttConfFails,
         SP!ReadMqttConfFails, S!ReadMqttConf, SP!ReadMqttConf, S!SetMqttName,
         SP!SetMqttName, S!MqttInitFails, SP!MqttInitFails, S!MqttInitStarts,
         SP!MqttInitStarts, S!MainGetDeviceId, SP!MainGetDeviceId, S!CheckConnected,
         SP!CheckConnected, S!Publish, SP!Publish, S!Callbacks, SP!Callbacks,
         S!CallbackGetDeviceId, SP!CallbackGetDeviceId, S!CallbackSetsFlag,
         SP!CallbackSetsFlag, S!CallbackChecksId, SP!CallbackChecksId,
         S!CallbackSubscribes, SP!CallbackSubscribes, S!DisconnectCallback,
         SP!DisconnectCallback, S!Library, SP!Library, S!Connect, SP!Connect,
         S!ConnectAccepted, SP!ConnectAccepted, S!Deliver, SP!Deliver, S!ConnectionLost,
         SP!ConnectionLost, S!LoopEnds, SP!LoopEnds, S!ConnectRefused, SP!ConnectRefused,
         S!MainDies, SP!MainDies, S!Gone, SP!Gone, S!Respawn, SP!Respawn,
         S!GetDevSnGoesOn, SP!GetDevSnGoesOn, S!GetDevSnReturns, SP!GetDevSnReturns,
         S!GetDevSnFails, SP!GetDevSnFails, S!GetDevSnEnds, SP!GetDevSnEnds,
         S!GetDevSnBegins, SP!GetDevSnBegins, S!SocketOpen, SP!SocketOpen, S!device,
         SP!device, S!threads, SP!threads

\* The timers are as Beat's proofs say, and the session as MqttSession's.
LEMMA ComponentsKept ==
  ASSUME IInv, [Next]_vars
  PROVE  B!IInv' /\ S!IInv'
<1>1. [BP!Next]_(BP!vars) /\ BP!IInv
  BY BeatStep, SameBeat DEF IInv, NewestOnly
<1>2. BP!IInv'
  BY <1>1, BP!StepInvariant, DelayAssumption DEF BP!StepInvariant, BP!PeriodAssumption, BP!SecondAssumption
<1>3. [SP!Next]_(SP!vars) /\ SP!IInv
  BY SessionStep, SameSession DEF IInv, NewestOnly
<1>4. SP!IInv'
  BY <1>3, SP!StepInvariant, MaxMsgsAssumption DEF SP!StepInvariant, SP!MaxOutAssumption
<1>5. QED
  BY <1>2, <1>4, SameBeat, SameSession

\* What g_device_id reads as, and that it only gets better in a living process.
LEMMA DeviceIdBetter ==
  ASSUME IInv, [Next]_vars, pc' # "dead"
  PROVE  /\ S!DeviceId \in S!DeviceIds
         /\ <<S!DeviceId, S!DeviceId'>> \in Better
<1>1. [SP!Next]_(SP!vars) /\ SP!IInv
  BY SessionStep, SameSession DEF IInv, NewestOnly
<1>2. MainPc' # "dead"
  BY MainPositions
<1>3. g_device_id \subseteq g_device_id'
  BY <1>1, <1>2, SP!DeviceIdGrows, MaxMsgsAssumption DEF SP!DeviceIdGrows, SP!MaxOutAssumption
<1>4. g_device_id \in SUBSET S!Parts /\ g_device_id' \in SUBSET S!Parts
  BY ComponentsKept DEF IInv, S!IInv, S!TypeOK
<1>5. QED
  BY <1>3, <1>4 DEF S!DeviceId, S!DeviceIds, S!Parts, Better
-----------------------------------------------------------------------------
(***************************************************************************)
(* The messages: a step makes one, hands one on, delivers one, or loses    *)
(* some.                                                                   *)
(***************************************************************************)

\* cjson_msg_add() appends a message to g_msg_list.
Made ==
  /\ pc = "add" /\ made < MaxMsgs
  /\ \E text \in BOOLEAN :
       queue' = queue \o <<[seq |-> made + 1, ids |-> draft, text |-> text]>>
  /\ made' = made + 1
  /\ UNCHANGED <<outq, got, mqtt_name>>

\* mqtt_send_run() frees one, with or without mosquitto_publish().
HandedOn ==
  /\ queue # <<>>
  /\ queue' = Tail(queue)
  /\ outq' \in {outq, Append(outq, Head(queue))}
  /\ pc' = "send"
  /\ UNCHANGED <<made, got, mqtt_name>>

\* The broker receives the first packet of libmosquitto.
Delivered ==
  /\ outq # <<>>
  /\ outq' = Tail(outq)
  /\ got' = Head(outq).seq
  /\ UNCHANGED <<pc, queue, made, mqtt_name>>

\* A reconnect or the end of the process drops what there is; or nothing
\* happens to the messages.
Lost ==
  /\ queue' \in {queue, <<>>}
  /\ outq' \in {outq, <<>>}
  /\ mqtt_name' \in {mqtt_name, "none"} \/ pc = "name"
  /\ pc' = "publish" => queue # <<>> /\ queue' = queue
  /\ UNCHANGED <<made, got>>

\* There is no other step: none that repeats a message or changes one.
LEMMA MessageSteps ==
  ASSUME IInv, [Next]_vars
  PROVE  Made \/ HandedOn \/ Delivered \/ Lost
<1> USE DEF session, messages
<1>1. ASSUME NEW added, PostRunEnd(added)
      PROVE  /\ queue' = queue \o added /\ made' = made + Len(added)
             /\ pc' = "loop"
             /\ UNCHANGED <<outq, got, mqtt_name>>
  BY <1>1 DEF PostRunEnd
<1>2. queue \in Seq(Message) /\ made \in 0 .. MaxMsgs
  BY DEF IInv, NewestOnly, TypeOK
<1>3. ASSUME PostRunEnd(<<>>) PROVE Lost
  <2>1. queue' = queue /\ made' = made
    BY <1>1, <1>2, <1>3
  <2>2. QED
    BY <1>1, <1>3, <2>1 DEF Lost
<1>4. CASE Tick \/ ConfUciInit \/ BeatInitPost \/ BeatInitSend \/ PostRunStart \/ SendRunStart
           \/ Sampled \/ ReadDeviceId
  <2>1. UNCHANGED <<queue, made, outq, got, mqtt_name>>
    BY <1>4 DEF Tick, ConfUciInit, BeatInitPost, BeatInitSend, PostRunStart, SendRunStart,
                Sampled, ReadDeviceId
  <2>2. pc' = "publish" => pc = "publish"
    BY <1>4 DEF Tick, ConfUciInit, BeatInitPost, BeatInitSend, PostRunStart, SendRunStart,
                Sampled, ReadDeviceId
  <2>3. QED
    BY <2>1, <2>2 DEF Lost, IInv, OutqOrdered
<1>5. CASE ReadMqttConfFails \/ ReadMqttConf \/ SetMqttName \/ MqttInit
  BY <1>5 DEF ReadMqttConfFails, ReadMqttConf, SetMqttName, MqttInit, Lost,
              S!ReadMqttConfFails, S!ReadMqttConf, S!SetMqttName, S!MqttInitFails,
              S!MqttInitStarts
<1>6. CASE GetDeviceId
  BY <1>6 DEF GetDeviceId, Lost
<1>7. CASE CheckDeviceId
  BY <1>3, <1>7 DEF CheckDeviceId, Lost
<1>8. CASE MsgAdd
  <2>1. ASSUME NEW text \in BOOLEAN, made < MaxMsgs,
               PostRunEnd(<<[seq |-> made + 1, ids |-> draft, text |-> text]>>)
        PROVE  Made
    <3>1. /\ queue' = queue \o <<[seq |-> made + 1, ids |-> draft, text |-> text]>>
          /\ made' = made + Len(<<[seq |-> made + 1, ids |-> draft, text |-> text]>>)
          /\ UNCHANGED <<outq, got, mqtt_name>>
      BY <1>1, <2>1
    <3>2. made' = made + 1
      BY <3>1
    <3>3. QED
      BY <1>8, <2>1, <3>1, <3>2 DEF Made, MsgAdd
  <2>2. QED
    BY <1>3, <1>8, <2>1 DEF MsgAdd
<1>9. CASE SendDrops
  BY <1>9 DEF SendDrops, HandedOn
<1>10. CASE SendPublishes
  <2>1. queue # <<>>
    BY <1>10 DEF SendPublishes, IInv, OutqOrdered
  <2>2. QED
    BY <1>10, <2>1 DEF SendPublishes, HandedOn, S!Publish
<1>11. CASE SendChecks \/ SendRunEnd
  BY <1>11 DEF SendChecks, SendRunEnd, Lost, S!CheckConnected
<1>12. CASE Network
  <2>1. outq' \in {outq, <<>>} /\ mqtt_name' = mqtt_name
    BY <1>12 DEF Network, S!Callbacks, S!CallbackGetDeviceId, S!CallbackSetsFlag,
                 S!CallbackChecksId, S!CallbackSubscribes, S!DisconnectCallback, S!Connect,
                 S!ConnectAccepted, S!ConnectionLost, S!LoopEnds
  <2>2. QED
    BY <1>12, <2>1 DEF Network, Lost, IInv, OutqOrdered
<1>13. CASE Deliver
  BY <1>13 DEF Deliver, Delivered, S!Deliver
<1>14. CASE ConfUciFails \/ PostRunCrash \/ UloopEnds \/ ConnectRefused
  BY <1>14 DEF ConfUciFails, PostRunCrash, UloopEnds, ConnectRefused, Gone, Lost, S!MainDies,
               S!ConnectRefused, S!Gone
<1>15. CASE Respawn
  BY <1>15 DEF Respawn, Lost, S!Respawn
<1>16. CASE UNCHANGED vars
  BY <1>16 DEF vars, Lost, IInv, OutqOrdered
<1>17. QED
  BY <1>4, <1>5, <1>6, <1>7, <1>8, <1>9, <1>10, <1>11, <1>12, <1>13, <1>14, <1>15,
     <1>16 DEF Next, Main

\* A message that is made has its members as far as types go.
LEMMA MessageTyped ==
  ASSUME TypeOK, DraftSound, Made
  PROVE  \E m \in Message : queue' = queue \o <<m>> /\ m.seq = made' /\ m.ids = draft
<1>1. draft \in [1 .. Calls -> S!DeviceIds]
  BY DEF TypeOK, DraftSound, Made
<1>2. PICK text \in BOOLEAN :
        queue' = queue \o <<[seq |-> made + 1, ids |-> draft, text |-> text]>>
  BY DEF Made
<1>3. [seq |-> made + 1, ids |-> draft, text |-> text] \in Message
  BY <1>1, MaxMsgsAssumption DEF Message, Made, TypeOK, S!DeviceIds
<1>4. QED
  BY <1>2, <1>3 DEF Made

-----------------------------------------------------------------------------
(***************************************************************************)
(* The message being made.                                                 *)
(***************************************************************************)

\* What a step does to the draft: none is left or begun, it goes on being made
\* by the main thread, or another thread moves.
DraftGoesOn ==
  \/ pc = "post" /\ pc' = "get" /\ draft' = draft
  \/ pc = "get" /\ pc' \in {"get", "read"} /\ draft' = draft
  \/ ReadDeviceId
  \/ pc = "check" /\ pc' = "get" /\ draft' = draft /\ S!DeviceId # "empty"

\* A step ends or drops the draft, goes on with it, or leaves it alone.
LEMMA DraftSteps ==
  ASSUME IInv, [Next]_vars
  PROVE  \/ pc' \notin {"get", "read", "check", "add"} /\ draft' = <<>>
         \/ DraftGoesOn /\ mqtt_name' = mqtt_name
         \/ UNCHANGED <<pc, draft, mqtt_name>>
<1> USE DEF session, messages
<1>1. pc \notin {"get", "read", "check", "add"} => draft = <<>>
  BY DEF IInv, DraftSound
<1>2. CASE Tick \/ Network \/ Deliver
  BY <1>2 DEF Tick, Network, Deliver, S!Callbacks, S!CallbackGetDeviceId, S!CallbackSetsFlag,
              S!CallbackChecksId, S!CallbackSubscribes, S!DisconnectCallback, S!Connect,
              S!ConnectAccepted, S!ConnectionLost, S!LoopEnds, S!Deliver
<1>3. CASE ConfUciInit \/ ReadMqttConfFails \/ ReadMqttConf \/ SetMqttName \/ MqttInit
           \/ BeatInitPost \/ BeatInitSend
  BY <1>1, <1>3 DEF ConfUciInit, ReadMqttConfFails, ReadMqttConf, SetMqttName, MqttInit,
                    BeatInitPost, BeatInitSend
<1>4. CASE PostRunStart \/ SendRunStart
  <2>1. pc = "loop"
    BY <1>4, BeatPositions
       DEF PostRunStart, SendRunStart, B!PostRunStart, B!SendRunStart, Boot, PostRun
  <2>2. QED
    BY <1>1, <1>4, <2>1 DEF PostRunStart, SendRunStart
<1>5. CASE Sampled \/ GetDeviceId \/ ReadDeviceId
  BY <1>5 DEF Sampled, GetDeviceId, ReadDeviceId, DraftGoesOn
<1>6. CASE CheckDeviceId \/ MsgAdd
  <2>1. ASSUME NEW added, PostRunEnd(added)
        PROVE  pc' \notin {"get", "read", "check", "add"} /\ draft' = <<>>
    BY <2>1 DEF PostRunEnd
  <2>2. QED
    BY <1>6, <2>1 DEF CheckDeviceId, MsgAdd, DraftGoesOn
<1>7. CASE SendDrops \/ SendChecks \/ SendPublishes \/ SendRunEnd
  BY <1>1, <1>7 DEF SendDrops, SendChecks, SendPublishes, SendRunEnd
<1>8. CASE ConfUciFails \/ PostRunCrash \/ UloopEnds \/ ConnectRefused
  BY <1>8 DEF ConfUciFails, PostRunCrash, UloopEnds, ConnectRefused, Gone
<1>9. CASE Respawn
  <2>1. pc = "dead"
    BY <1>9, BeatPositions DEF Respawn, B!Respawn, Boot, PostRun
  <2>2. QED
    BY <1>1, <1>9, <2>1 DEF Respawn
<1>10. CASE UNCHANGED vars
  BY <1>10 DEF vars
<1>11. QED
  BY <1>2, <1>3, <1>4, <1>5, <1>6, <1>7, <1>8, <1>9, <1>10 DEF Next, Main

\* Getting better from one reading to the next is transitive.
LEMMA BetterStill ==
  ASSUME NEW x, NEW y, NEW z, <<x, y>> \in Better, <<y, z>> \in Better
  PROVE  <<x, z>> \in Better
  BY DEF Better

\* One more reading is better than those before it.
LEMMA DraftKept ==
  ASSUME IInv, [Next]_vars
  PROVE  DraftSound' /\ draft' \in Seq(S!DeviceIds) /\ Len(draft') <= Calls
<1> USE DEF Calls
<1>1. /\ draft \in Seq(S!DeviceIds) /\ Len(draft) \in 0 .. Calls
      /\ DraftSound
  <2>1. draft \in Seq(S!DeviceIds) /\ Len(draft) <= Calls
    BY DEF IInv, NewestOnly, TypeOK
  <2>2. Len(draft) \in Nat
    BY <2>1
  <2>3. Len(draft) \in 0 .. Calls
    <3>1. PICK n \in Nat : n = Len(draft)
      BY <2>2
    <3>2. n \in 0 .. Calls
      BY <2>1, <3>1
    <3>3. QED
      BY <3>1, <3>2
  <2>4. QED
    BY <2>1, <2>3 DEF IInv
<1>2. CASE pc' \notin {"get", "read", "check", "add"} /\ draft' = <<>>
  BY <1>2 DEF DraftSound
<1> SUFFICES ASSUME pc' \in {"get", "read", "check", "add"} \/ draft' # <<>>
             PROVE  DraftSound' /\ draft' \in Seq(S!DeviceIds) /\ Len(draft') <= Calls
  BY <1>2, DraftSteps DEF DraftGoesOn, ReadDeviceId
<1>3. /\ \/ DraftGoesOn /\ mqtt_name' = mqtt_name
         \/ UNCHANGED <<pc, draft, mqtt_name>>
      /\ pc' \in {"get", "read", "check", "add"}
  BY <1>1, DraftSteps DEF DraftGoesOn, ReadDeviceId, DraftSound
<1>4. /\ S!DeviceId \in S!DeviceIds
      /\ <<S!DeviceId, S!DeviceId'>> \in Better
  BY <1>3, DeviceIdBetter
<1>5. S!DeviceId # "empty" => S!DeviceId' # "empty"
  BY <1>4 DEF Better
<1>6. CASE draft' = draft
  <2>1. draft # <<>> => <<draft[Len(draft)], S!DeviceId'>> \in Better
    BY <1>1, <1>4, BetterStill DEF DraftSound
  <2>2. \/ pc = "post" /\ pc' = "get"
        \/ pc = "get" /\ pc' \in {"get", "read"}
        \/ pc = "check" /\ pc' = "get" /\ S!DeviceId # "empty"
        \/ pc' = pc
    BY <1>3, <1>6 DEF DraftGoesOn, ReadDeviceId
  <2>3. mqtt_name' = mqtt_name
    BY <1>3
  <2>4. /\ pc' \in {"get", "read"} => Len(draft) < Calls
        /\ pc' \in {"get", "read"} /\ Len(draft) = Calls - 1 => S!DeviceId' # "empty"
        /\ pc' = "check" => Len(draft) = Calls - 1
        /\ pc' = "add" => Len(draft) = Calls /\ draft[Calls] # "empty"
    BY <1>1, <1>3, <1>5, <2>2 DEF DraftSound
  <2>5. QED
    BY <1>1, <1>3, <1>6, <2>1, <2>3, <2>4 DEF DraftSound
<1>7. CASE ReadDeviceId /\ mqtt_name' = mqtt_name
  <2>1. /\ pc = "read" /\ Len(draft) < Calls
        /\ draft' = Append(draft, S!DeviceId)
        /\ pc' = CASE Len(draft') = Calls - 1 -> "check"
                   [] Len(draft') = Calls -> "add"
                   [] OTHER -> "get"
    BY <1>1, <1>7 DEF ReadDeviceId, DraftSound
  <2>2. /\ draft' \in Seq(S!DeviceIds)
        /\ Len(draft') = Len(draft) + 1
        /\ \A i \in 1 .. Len(draft) : draft'[i] = draft[i]
        /\ draft'[Len(draft')] = S!DeviceId
    BY <1>1, <1>4, <2>1
  <2>3. \A i \in 1 .. Len(draft') - 1 : <<draft'[i], draft'[i + 1]>> \in Better
    <3>1. TAKE i \in 1 .. Len(draft') - 1
    <3>2. CASE i < Len(draft)
      <4>1. draft'[i] = draft[i] /\ draft'[i + 1] = draft[i + 1] /\ i \in 1 .. Len(draft) - 1
        BY <1>1, <2>2, <3>2
      <4>2. QED
        BY <1>1, <4>1 DEF DraftSound
    <3>3. CASE i = Len(draft)
      <4>1. draft # <<>> /\ draft'[i] = draft[Len(draft)] /\ draft'[i + 1] = S!DeviceId
        BY <1>1, <2>2, <3>3
      <4>2. QED
        BY <1>1, <3>3, <4>1 DEF DraftSound
    <3>4. QED
      BY <1>1, <2>2, <3>2, <3>3
  <2>4. mqtt_name = "sn" => \A i \in 1 .. Len(draft') : draft'[i] = "sn"
    <3>1. mqtt_name = "sn" => S!DeviceId = "sn"
      BY DEF IInv, S!IInv, S!NameKept
    <3>2. QED
      BY <1>1, <2>2, <3>1 DEF DraftSound
  <2>5. <<draft'[Len(draft')], S!DeviceId'>> \in Better
    BY <1>4, <2>2
  <2>6. Len(draft) = Calls - 1 => S!DeviceId # "empty"
    BY <1>1, <2>1 DEF DraftSound
  <2>7. Len(draft') = Calls => draft'[Calls] # "empty"
    <3>1. Len(draft') = Calls => Len(draft) = Calls - 1
      <4>1. PICK n \in Nat : n = Len(draft) /\ Len(draft') = n + 1
        BY <1>1, <2>2
      <4>2. n + 1 = Calls => n = Calls - 1
        BY <4>1
      <4>3. QED
        BY <4>1, <4>2
    <3>2. Len(draft') = Calls => draft'[Calls] = S!DeviceId
      BY <2>2
    <3>3. QED
      BY <2>6, <3>1, <3>2
  <2>8. /\ pc' = "get" => Len(draft') < Calls - 1
        /\ pc' = "check" => Len(draft') = Calls - 1
        /\ pc' = "add" => Len(draft') = Calls
        /\ pc' \in {"get", "check", "add"}
        /\ Len(draft') <= Calls
    BY <1>1, <2>1, <2>2
  <2>9. QED
    BY <1>7, <2>2, <2>3, <2>4, <2>5, <2>7, <2>8 DEF DraftSound
<1>8. QED
  BY <1>3, <1>6, <1>7 DEF DraftGoesOn

-----------------------------------------------------------------------------
(***************************************************************************)
(* The sequences of messages, as sets.                                     *)
(***************************************************************************)

\* What Elements() makes of the operations on g_msg_list and on libmosquitto's
\* packets: append, take the first, drop all.
LEMMA ElementsOf ==
  ASSUME NEW T, NEW s \in Seq(T)
  PROVE  /\ Elements(<<>>) = {}
         /\ Elements(s) \subseteq T
         /\ \A e \in T : Elements(Append(s, e)) = Elements(s) \cup {e}
         /\ s # <<>> => /\ Head(s) \in T /\ Head(s) \in Elements(s)
                        /\ Tail(s) \in Seq(T)
                        /\ Elements(s) = {Head(s)} \cup Elements(Tail(s))
<1>1. Elements(<<>>) = {} /\ Elements(s) \subseteq T
  BY DEF Elements
<1>2. ASSUME NEW e \in T PROVE Elements(Append(s, e)) = Elements(s) \cup {e}
  <2>1. /\ DOMAIN Append(s, e) = 1 .. Len(s) + 1 /\ DOMAIN s = 1 .. Len(s)
        /\ Append(s, e)[Len(s) + 1] = e
        /\ \A i \in 1 .. Len(s) : Append(s, e)[i] = s[i]
        /\ Len(s) \in Nat
    OBVIOUS
  <2>2. 1 .. Len(s) + 1 = (1 .. Len(s)) \cup {Len(s) + 1}
    BY <2>1
  <2>3. QED
    BY <2>1, <2>2 DEF Elements
<1>3. ASSUME s # <<>>
      PROVE  /\ Head(s) \in T /\ Head(s) \in Elements(s)
             /\ Tail(s) \in Seq(T)
             /\ Elements(s) = {Head(s)} \cup Elements(Tail(s))
  <2>1. /\ Len(s) \in Nat \ {0} /\ DOMAIN s = 1 .. Len(s) /\ Head(s) = s[1]
        /\ Tail(s) \in Seq(T) /\ DOMAIN Tail(s) = 1 .. Len(s) - 1
        /\ \A i \in 1 .. Len(s) - 1 : Tail(s)[i] = s[i + 1]
    BY <1>3
  <2>2. ASSUME NEW i \in 1 .. Len(s) PROVE i = 1 \/ i - 1 \in 1 .. Len(s) - 1
    BY <2>1
  <2>3. ASSUME NEW i \in 1 .. Len(s) - 1 PROVE i + 1 \in 1 .. Len(s)
    BY <2>1
  <2>4. Elements(s) \subseteq {Head(s)} \cup Elements(Tail(s))
    <3>1. ASSUME NEW i \in 1 .. Len(s) PROVE s[i] \in {Head(s)} \cup Elements(Tail(s))
      <4>1. CASE i = 1
        BY <2>1, <4>1
      <4>2. CASE i - 1 \in 1 .. Len(s) - 1
        <5>1. Tail(s)[i - 1] = s[i]
          BY <2>1, <4>2
        <5>2. QED
          BY <2>1, <4>2, <5>1 DEF Elements
      <4>3. QED
        BY <2>2, <4>1, <4>2
    <3>2. QED
      BY <2>1, <3>1 DEF Elements
  <2>5. {Head(s)} \cup Elements(Tail(s)) \subseteq Elements(s)
    BY <2>1, <2>3 DEF Elements
  <2>6. QED
    BY <2>1, <2>4, <2>5
<1>4. QED
  BY <1>1, <1>2, <1>3

\* Where g_msg_list may hold a message, and that no message exists while
\* read_mqtt_conf() chooses the user name.
LEMMA QueueState ==
  ASSUME IInv
  PROVE  /\ queue \in Seq(Message) /\ outq \in Seq(Message)
         /\ queue # <<>> => Len(queue) = 1 /\ pc \in {"loop", "send", "publish"}
         /\ pc = "name" => outq = <<>>
<1>1. queue \in Seq(Message) /\ outq \in Seq(Message)
  BY DEF IInv, NewestOnly, TypeOK, S!TypeOK
<1>2. ASSUME queue # <<>> PROVE Len(queue) = 1 /\ pc \in {"loop", "send", "publish"}
  <2>1. Len(queue) > 0
    BY <1>1, <1>2
  <2>2. BeatPc \in {"loop", "send"}
    BY <2>1 DEF IInv, B!IInv, B!SendAheadOfPost
  <2>3. QED
    BY <1>2, <2>2, BeatPositions DEF IInv, NewestOnly
<1>3. pc = "name" => outq = <<>>
  BY MainPositions DEF IInv, S!IInv, S!Start
<1>4. QED
  BY <1>1, <1>2, <1>3

\* The sequences after a step.
LEMMA SequencesKept ==
  ASSUME IInv, [Next]_vars
  PROVE  /\ queue' \in Seq(Message) /\ outq' \in Seq(Message)
         /\ made' \in 0 .. MaxMsgs /\ got' \in 0 .. made'
         /\ queue' # <<>> => Len(queue') = 1 /\ Head(queue').seq = made'
<1>1. /\ queue \in Seq(Message) /\ outq \in Seq(Message)
      /\ queue # <<>> => Len(queue) = 1 /\ Head(queue).seq = made
      /\ pc = "add" => queue = <<>>
  BY QueueState DEF IInv, NewestOnly
<1>2. made \in 0 .. MaxMsgs /\ got \in 0 .. made
  BY DEF IInv, NewestOnly, TypeOK
<1>3. outq' \in Seq(Message)
  BY ComponentsKept DEF S!IInv, S!TypeOK
<1>4. CASE Made
  <2>1. PICK m \in Message : queue' = queue \o <<m>> /\ m.seq = made'
    BY <1>4, MessageTyped DEF IInv, NewestOnly
  <2>2. queue' = <<m>>
    BY <1>1, <1>4, <2>1 DEF Made
  <2>3. made' \in 0 .. MaxMsgs /\ got' \in 0 .. made'
    BY <1>2, <1>4, MaxMsgsAssumption DEF Made
  <2>4. queue' \in Seq(Message) /\ Len(queue') = 1 /\ Head(queue') = m
    BY <2>2
  <2>5. QED
    BY <1>3, <2>1, <2>3, <2>4
<1>5. CASE HandedOn
  <2>1. queue' = <<>>
    BY <1>1, <1>5 DEF HandedOn
  <2>2. queue' \in Seq(Message)
    BY <2>1
  <2>3. QED
    BY <1>2, <1>3, <1>5, <2>1, <2>2 DEF HandedOn
<1>6. CASE Delivered
  <2>1. 1 \in 1 .. Len(outq) /\ Head(outq) = outq[1] /\ outq[1] \in Message
    BY <1>1, <1>6 DEF Delivered
  <2>2. outq[1].seq \in 1 .. MaxMsgs /\ outq[1].seq <= made
    BY <2>1 DEF Message, IInv, OutqOrdered
  <2>3. got' \in 0 .. made'
    BY <1>2, <1>6, <2>1, <2>2, MaxMsgsAssumption DEF Delivered
  <2>4. QED
    BY <1>1, <1>2, <1>3, <1>6, <2>3 DEF Delivered
<1>7. CASE Lost
  <2>1. made' = made /\ got' = got
    BY <1>7 DEF Lost
  <2>2. CASE queue' = <<>>
    <3>1. queue' \in Seq(Message)
      BY <2>2
    <3>2. QED
      BY <1>2, <1>3, <2>1, <2>2, <3>1
  <2>3. CASE queue' = queue
    BY <1>1, <1>2, <1>3, <2>1, <2>3
  <2>4. QED
    BY <1>7, <2>2, <2>3 DEF Lost
<1>8. QED
  BY <1>4, <1>5, <1>6, <1>7, MessageSteps

\* What libmosquitto has stays in order.
LEMMA OrderKept ==
  ASSUME IInv, [Next]_vars
  PROVE  OutqOrdered'
<1>1. /\ queue \in Seq(Message) /\ outq \in Seq(Message) /\ outq' \in Seq(Message)
      /\ queue # <<>> => Len(queue) = 1 /\ Head(queue).seq = made
      /\ pc = "add" => queue = <<>>
      /\ made \in Nat
  BY QueueState, SequencesKept DEF IInv, NewestOnly, TypeOK
<1>2. \A i \in 1 .. Len(outq) : outq[i] \in Message /\ outq[i].seq \in Nat
  <2>1. \A i \in 1 .. Len(outq) : outq[i] \in Message
    BY <1>1
  <2>2. \A m \in Message : m.seq \in Nat
    BY MaxMsgsAssumption DEF Message
  <2>3. QED
    BY <2>1, <2>2
<1>3. Len(outq) \in Nat
  BY <1>1
<1>4. OutqOrdered
  BY DEF IInv
<1>5. CASE Made
  <2>1. made' = made + 1 /\ outq' = outq /\ queue = <<>>
    BY <1>1, <1>5 DEF Made
  <2>2. queue' # <<>>
    <3>1. PICK m \in Message : queue' = queue \o <<m>>
      BY <1>5, MessageTyped DEF IInv, NewestOnly
    <3>2. queue' = <<m>>
      BY <2>1, <3>1
    <3>3. QED
      BY <3>2
  <2>3. \A i \in 1 .. Len(outq) : outq[i].seq < made'
    BY <1>1, <1>2, <1>4, <2>1 DEF OutqOrdered
  <2>4. QED
    BY <1>2, <1>4, <2>1, <2>2, <2>3 DEF OutqOrdered
<1>6. CASE HandedOn
  <2>1. queue' = <<>> /\ made' = made /\ pc' # "publish" /\ Head(queue).seq = made
    BY <1>1, <1>6 DEF HandedOn
  <2>2. \A i \in 1 .. Len(outq) : outq[i].seq < made
    BY <1>4, <1>6 DEF OutqOrdered, HandedOn
  <2>3. CASE outq' = outq
    BY <1>4, <2>1, <2>3 DEF OutqOrdered
  <2>4. CASE outq' = Append(outq, Head(queue))
    <3>1. Head(queue) \in Message
      BY <1>1, <1>6 DEF HandedOn
    <3>2. /\ Len(outq') = Len(outq) + 1
          /\ \A i \in 1 .. Len(outq) : outq'[i] = outq[i]
          /\ outq'[Len(outq) + 1] = Head(queue)
      BY <1>1, <2>4, <3>1
    <3>3. \A i \in 1 .. Len(outq') : i \in 1 .. Len(outq) \/ i = Len(outq) + 1
      BY <1>3, <3>2
    <3>4. \A i \in 1 .. Len(outq') : outq'[i].seq <= made
      BY <1>1, <1>4, <2>1, <3>2, <3>3 DEF OutqOrdered
    <3>5. ASSUME NEW i \in 1 .. Len(outq'), NEW j \in 1 .. Len(outq'), i < j
          PROVE  outq'[i].seq < outq'[j].seq
      <4>1. i \in 1 .. Len(outq)
        BY <1>3, <3>2, <3>5
      <4>2. CASE j \in 1 .. Len(outq)
        BY <1>4, <3>2, <3>5, <4>1, <4>2 DEF OutqOrdered
      <4>3. CASE j = Len(outq) + 1
        BY <2>1, <2>2, <3>2, <4>1, <4>3
      <4>4. QED
        BY <3>3, <4>2, <4>3
    <3>6. QED
      BY <2>1, <3>4, <3>5 DEF OutqOrdered
  <2>5. QED
    BY <1>6, <2>3, <2>4 DEF HandedOn
<1>7. CASE Delivered
  <2>1. /\ Len(outq') = Len(outq) - 1
        /\ \A i \in 1 .. Len(outq') : outq'[i] = outq[i + 1]
    BY <1>1, <1>7 DEF Delivered
  <2>2. \A i \in 1 .. Len(outq') : i \in Nat /\ i + 1 \in 1 .. Len(outq)
    BY <1>3, <2>1
  <2>3. UNCHANGED <<pc, queue, made>>
    BY <1>7 DEF Delivered
  <2>4. ASSUME NEW i \in 1 .. Len(outq'), NEW j \in 1 .. Len(outq'), i < j
        PROVE  outq'[i].seq < outq'[j].seq
    <3>1. i + 1 < j + 1
      BY <2>2, <2>4
    <3>2. QED
      BY <1>4, <2>1, <2>2, <3>1 DEF OutqOrdered
  <2>5. QED
    BY <1>4, <2>1, <2>2, <2>3, <2>4 DEF OutqOrdered
<1>8. CASE Lost
  <2>1. made' = made /\ (pc' = "publish" => queue' # <<>>) /\ (queue' # <<>> => queue # <<>>)
    BY <1>8 DEF Lost
  <2>2. CASE outq' = <<>>
    BY <2>1, <2>2 DEF OutqOrdered
  <2>3. CASE outq' = outq
    BY <1>4, <2>1, <2>3 DEF OutqOrdered
  <2>4. QED
    BY <1>8, <2>2, <2>3 DEF Lost
<1>9. QED
  BY <1>5, <1>6, <1>7, <1>8, MessageSteps

\* No message comes from anywhere but the draft.
LEMMA NewMessage ==
  ASSUME IInv, [Next]_vars,
         NEW m \in Elements(queue') \cup Elements(outq')
  PROVE  \/ m \in Elements(queue) \cup Elements(outq)
         \/ pc = "add" /\ m.ids = draft /\ mqtt_name' = mqtt_name
<1>1. queue \in Seq(Message) /\ outq \in Seq(Message)
  BY QueueState
<1>2. CASE Made
  <2>1. PICK n \in Message : queue' = queue \o <<n>> /\ n.ids = draft
    BY <1>2, MessageTyped DEF IInv, NewestOnly
  <2>2. queue' = Append(queue, n)
    BY <1>1, <2>1
  <2>3. Elements(queue') = Elements(queue) \cup {n}
    BY <1>1, <2>2, ElementsOf
  <2>4. QED
    BY <1>2, <2>1, <2>3 DEF Made
<1>3. CASE HandedOn
  <2>1. /\ Head(queue) \in Message /\ Head(queue) \in Elements(queue)
        /\ Elements(queue') \subseteq Elements(queue)
    BY <1>1, <1>3, ElementsOf DEF HandedOn
  <2>2. Elements(Append(outq, Head(queue))) = Elements(outq) \cup {Head(queue)}
    BY <1>1, <2>1, ElementsOf
  <2>3. QED
    BY <1>3, <2>1, <2>2 DEF HandedOn
<1>4. CASE Delivered
  <2>1. Elements(outq') \subseteq Elements(outq) /\ queue' = queue
    BY <1>1, <1>4, ElementsOf DEF Delivered
  <2>2. QED
    BY <2>1
<1>5. CASE Lost
  BY <1>1, <1>5, ElementsOf DEF Lost
<1>6. QED
  BY <1>2, <1>3, <1>4, <1>5, MessageSteps

\* The device ids in the messages stay as good as they are, and those of a
\* new message are as good.
LEMMA IdsKept ==
  ASSUME IInv, [Next]_vars
  PROVE  IdsImprove' /\ IdsWhole'
<1>1. pc = "add" => /\ draft \in Seq(S!DeviceIds) /\ Len(draft) = Calls
                    /\ \A i \in 1 .. Calls - 1 : <<draft[i], draft[i + 1]>> \in Better
                    /\ draft[Calls] # "empty"
                    /\ mqtt_name = "sn" => \A i \in 1 .. Calls : draft[i] = "sn"
  BY DEF IInv, NewestOnly, TypeOK, DraftSound
<1>2. IdsImprove'
  <2>1. ASSUME NEW m \in Elements(queue') \cup Elements(outq')
        PROVE  /\ \A i \in 1 .. Calls - 1 : <<m.ids[i], m.ids[i + 1]>> \in Better
               /\ Topic(m) # "empty"
    BY <1>1, <2>1, NewMessage DEF Topic, IInv, IdsImprove
  <2>2. QED
    BY <2>1 DEF IdsImprove, Topic
<1>3. IdsWhole'
  <2>1. CASE mqtt_name' = mqtt_name
    <3>1. ASSUME mqtt_name = "sn", NEW m \in Elements(queue') \cup Elements(outq'),
                 NEW i \in 1 .. Calls
          PROVE  m.ids[i] = "sn"
      BY <1>1, <3>1, NewMessage DEF IInv, IdsWhole
    <3>2. QED
      BY <2>1, <3>1 DEF IdsWhole
  <2>2. CASE pc = "name"
    <3>1. Elements(queue') \cup Elements(outq') \subseteq Elements(queue) \cup Elements(outq)
      BY <2>2, NewMessage
    <3>2. queue = <<>> /\ outq = <<>>
      BY <2>2, QueueState
    <3>3. Elements(queue') \cup Elements(outq') = {}
      BY <3>1, <3>2, ElementsOf, QueueState
    <3>4. QED
      BY <3>3 DEF IdsWhole
  <2>3. CASE mqtt_name' = "none"
    BY <2>3 DEF IdsWhole
  <2>4. QED
    BY <2>1, <2>2, <2>3, MessageSteps DEF Made, HandedOn, Delivered, Lost
<1>4. QED
  BY <1>2, <1>3

\* The main thread is always at one of its positions.
LEMMA TypeKept ==
  ASSUME IInv, [Next]_vars
  PROVE  TypeOK'
<1>1. pc' \in Boot \cup PostRun \cup {"beat_init", "loop", "send", "publish", "dead"}
  <2> USE DEF Boot, PostRun
  <2>1. pc \in Boot \cup PostRun \cup {"beat_init", "loop", "send", "publish", "dead"}
    BY DEF IInv, NewestOnly, TypeOK
  <2>2. CASE Tick \/ Network \/ Deliver \/ UNCHANGED vars
    BY <2>1, <2>2 DEF Tick, Network, Deliver, vars
  <2>3. CASE ConfUciInit \/ ReadMqttConfFails \/ ReadMqttConf \/ SetMqttName \/ MqttInit
             \/ BeatInitPost \/ BeatInitSend \/ PostRunStart
    BY <2>3 DEF ConfUciInit, ReadMqttConfFails, ReadMqttConf, SetMqttName, MqttInit,
                BeatInitPost, BeatInitSend, PostRunStart
  <2>4. CASE Sampled \/ GetDeviceId \/ ReadDeviceId
    BY <2>1, <2>4 DEF Sampled, GetDeviceId, ReadDeviceId
  <2>5. CASE CheckDeviceId \/ MsgAdd
    BY <2>5 DEF CheckDeviceId, MsgAdd, PostRunEnd
  <2>6. CASE SendRunStart \/ SendDrops \/ SendChecks \/ SendPublishes \/ SendRunEnd
    BY <2>1, <2>6 DEF SendRunStart, SendDrops, SendChecks, SendPublishes, SendRunEnd
  <2>7. CASE ConfUciFails \/ PostRunCrash \/ UloopEnds \/ ConnectRefused \/ Respawn
    BY <2>7 DEF ConfUciFails, PostRunCrash, UloopEnds, ConnectRefused, Respawn, Gone
  <2>8. QED
    BY <2>2, <2>3, <2>4, <2>5, <2>6, <2>7 DEF Next, Main
<1>2. B!TypeOK' /\ S!TypeOK'
  BY ComponentsKept DEF B!IInv, S!IInv
<1>3. QED
  BY <1>1, <1>2, SequencesKept, DraftKept DEF TypeOK
-----------------------------------------------------------------------------
(***************************************************************************)
(* The inductive invariant, and what it gives.                             *)
(***************************************************************************)

\* It holds at the start of the first process ...
LEMMA InitInvariant == Init => IInv
<1> SUFFICES ASSUME Init PROVE IInv
  OBVIOUS
<1>1. B!IInv
  <2>1. BP!Init
    BY SameBeat DEF Init
  <2>2. BP!IInv
    BY <2>1, BP!InitInvariant, DelayAssumption DEF BP!InitInvariant, BP!PeriodAssumption, BP!SecondAssumption
  <2>3. QED
    BY <2>2, SameBeat
<1>2. S!IInv
  <2>1. SP!Init
    BY SameSession DEF Init
  <2>2. SP!IInv
    BY <2>1, SP!InitInvariant, MaxMsgsAssumption DEF SP!InitInvariant, SP!MaxOutAssumption
  <2>3. QED
    BY <2>2, SameSession
<1>3. queue = <<>> /\ outq = <<>> /\ draft = <<>> /\ pc = "boot" /\ mqtt_name = "none"
  BY DEF Init, S!Init
<1>4. TypeOK
  <2>1. queue \in Seq(Message) /\ draft \in Seq(S!DeviceIds) /\ Len(draft) = 0
    BY <1>3
  <2>2. QED
    BY <1>1, <1>2, <1>3, <2>1, MaxMsgsAssumption
       DEF TypeOK, B!IInv, S!IInv, Boot, Calls, Init
<1>5. IdsImprove /\ IdsWhole
  BY <1>3 DEF IdsImprove, IdsWhole, Elements
<1>6. DraftSound /\ OutqOrdered
  BY <1>3 DEF DraftSound, OutqOrdered
<1>7. QED
  BY <1>1, <1>2, <1>3, <1>4, <1>5, <1>6 DEF IInv, NewestOnly

\* ... and every step of the process keeps it.
LEMMA StepInvariant == IInv /\ [Next]_vars => IInv'
<1> SUFFICES ASSUME IInv, [Next]_vars PROVE IInv'
  OBVIOUS
<1>1. NewestOnly'
  BY TypeKept, SequencesKept DEF NewestOnly
<1>2. B!IInv' /\ S!IInv'
  BY ComponentsKept
<1>3. DraftSound' /\ OutqOrdered'
  BY DraftKept, OrderKept
<1>4. QED
  BY <1>1, <1>2, <1>3, IdsKept DEF IInv

\* The invariant of the whole process, with those of its components: whatever
\* the delays (of those the literals of json.c are an instance) and however
\* many messages are made, both threads keep all of it.
THEOREM NewplatInvariant == Spec => []IInv
  BY InitInvariant, StepInvariant, PTL DEF Spec

\* mqtt_send_run() never has more to publish than the newest sample.
THEOREM OnlyNewest == Spec => []NewestOnly
<1>1. IInv => NewestOnly
  BY DEF IInv
<1>2. QED
  BY <1>1, NewplatInvariant, PTL

\* The four calls of get_device_id() for a message give ids that only get
\* better, and its topic always names a device, while the network thread
\* writes the same buffer.
THEOREM IdsOnlyImprove == Spec => []IdsImprove
<1>1. IInv => IdsImprove
  BY DEF IInv
<1>2. QED
  BY <1>1, NewplatInvariant, PTL

\* A process that had its serial number in mqtt_init() never sends another.
THEOREM IdsAreWhole == Spec => []IdsWhole
<1>1. IInv => IdsWhole
  BY DEF IInv
<1>2. QED
  BY <1>1, NewplatInvariant, PTL
-----------------------------------------------------------------------------
(***************************************************************************)
(* What the process implements.                                            *)
(***************************************************************************)

\* The main thread in the detail of json.c is the main thread of Beat.
THEOREM BeatImplemented == Spec => ImplementsBeat
<1>1. Init => B!Init
  BY DEF Init
<1>2. IInv /\ [Next]_vars => [B!Next]_(B!vars)
  BY BeatStep DEF IInv, NewestOnly
<1>3. QED
  BY <1>1, <1>2, NewplatInvariant, PTL DEF Spec, ImplementsBeat, B!Spec

\* Both threads in the detail of json.c are those of MqttSession.
THEOREM SessionImplemented == Spec => ImplementsSession
<1>1. Init => S!Init
  BY DEF Init
<1>2. IInv /\ [Next]_vars => [S!Next]_(S!vars)
  BY SessionStep DEF IInv, NewestOnly
<1>3. QED
  BY <1>1, <1>2, NewplatInvariant, PTL DEF Spec, ImplementsSession, S!Spec

\* Losing any messages is a step of the channel, and so is losing none.
LEMMA LossIsAStep ==
  ASSUME (Numbers(queue) \cup Numbers(outq))' \subseteq Numbers(queue) \cup Numbers(outq),
         UNCHANGED <<made, got>>
  PROVE  C!Next
<1> DEFINE U == Numbers(queue) \cup Numbers(outq)
<1>1. U' = U \ (U \ U') /\ U \ U' \in SUBSET U
  OBVIOUS
<1>2. C!Lose(U \ U')
  BY <1>1 DEF C!Lose
<1>3. QED
  BY <1>1, <1>2 DEF C!Next

\* A step of the process makes a message, delivers the oldest under way, or
\* loses some or none.
LEMMA ChannelStep ==
  ASSUME IInv, [Next]_vars
  PROVE  [C!Next]_(C!vars)
<1>1. /\ queue \in Seq(Message) /\ outq \in Seq(Message)
      /\ queue # <<>> => Len(queue) = 1 /\ Head(queue).seq = made
      /\ pc = "add" => queue = <<>>
      /\ made \in Nat
      /\ OutqOrdered
  BY QueueState DEF IInv, NewestOnly, TypeOK
<1>2. CASE Made
  <2>1. PICK m \in Message : queue' = queue \o <<m>> /\ m.seq = made'
    BY <1>2, MessageTyped DEF IInv, NewestOnly
  <2>2. queue' = Append(queue, m)
    BY <1>1, <2>1
  <2>3. Elements(queue') = Elements(queue) \cup {m}
    BY <1>1, <2>2, ElementsOf
  <2>4. Numbers(queue') = Numbers(queue) \cup {made'}
    BY <2>1, <2>3 DEF Numbers
  <2>5. C!Make
    BY <1>2, <2>4 DEF C!Make, Made
  <2>6. QED
    BY <2>5 DEF C!Next
<1>3. CASE HandedOn
  <2>1. /\ Head(queue) \in Message /\ Head(queue) \in Elements(queue)
        /\ Elements(queue') \subseteq Elements(queue)
    BY <1>1, <1>3, ElementsOf DEF HandedOn
  <2>2. Elements(Append(outq, Head(queue))) = Elements(outq) \cup {Head(queue)}
    BY <1>1, <2>1, ElementsOf
  <2>3. Elements(queue') \cup Elements(outq') \subseteq Elements(queue) \cup Elements(outq)
    BY <1>3, <2>1, <2>2 DEF HandedOn
  <2>4. QED
    BY <1>3, <2>3, LossIsAStep DEF Numbers, HandedOn
<1>4. CASE Delivered
  <2> DEFINE n == Head(outq).seq
  <2>1. /\ outq # <<>> /\ n = outq[1].seq
        /\ Len(outq) \in Nat \ {0}
        /\ Elements(outq) = {Head(outq)} \cup Elements(outq')
        /\ \A i \in 1 .. Len(outq) : outq[i] \in Message
    BY <1>1, <1>4, ElementsOf DEF Delivered
  <2>2. n \in Numbers(outq)
    BY <2>1 DEF Numbers
  <2>3. \A m \in Message : m.seq \in Nat
    BY MaxMsgsAssumption DEF Message
  <2>4. \A k \in Numbers(outq') : n < k
    <3>1. ASSUME NEW i \in 1 .. Len(outq') PROVE n < outq'[i].seq
      <4>1. Len(outq') = Len(outq) - 1 /\ outq'[i] = outq[i + 1]
        BY <1>1, <1>4 DEF Delivered
      <4>2. 1 \in 1 .. Len(outq) /\ i + 1 \in 1 .. Len(outq) /\ 1 < i + 1
        BY <2>1, <4>1
      <4>3. QED
        BY <1>1, <2>1, <4>1, <4>2 DEF OutqOrdered
    <3>2. DOMAIN outq' = 1 .. Len(outq')
      BY <1>1, <1>4 DEF Delivered
    <3>3. QED
      BY <3>1, <3>2 DEF Numbers, Elements
  <2>5. \A k \in Numbers(queue) : n < k
    <3>1. \A k \in Numbers(queue) : k = made /\ queue # <<>>
      BY <1>1 DEF Numbers, Elements
    <3>2. queue # <<>> => n < made
      BY <1>1, <2>1 DEF OutqOrdered
    <3>3. QED
      BY <3>1, <3>2
  <2>6. Numbers(outq) = {n} \cup Numbers(outq')
    BY <2>1 DEF Numbers
  <2>7. n \in Nat
    BY <2>1, <2>3
  <2>8. /\ n \in Numbers(queue) \cup Numbers(outq)
        /\ \A k \in Numbers(queue) \cup Numbers(outq) : n <= k
        /\ Numbers(queue) \cup Numbers(outq') = (Numbers(queue) \cup Numbers(outq)) \ {n}
    <3>1. Numbers(queue) \cup Numbers(outq) \subseteq Nat
      BY <1>1, <2>3, ElementsOf DEF Numbers
    <3>2. QED
      BY <2>4, <2>5, <2>6, <2>7, <3>1
  <2>9. C!Deliver(n)
    BY <1>4, <2>8 DEF C!Deliver, Delivered
  <2>10. QED
    BY <2>8, <2>9 DEF C!Next
<1>5. CASE Lost
  <2>1. Elements(queue') \cup Elements(outq') \subseteq Elements(queue) \cup Elements(outq)
    BY <1>1, <1>5, ElementsOf DEF Lost
  <2>2. QED
    BY <1>5, <2>1, LossIsAStep DEF Numbers, Lost
<1>6. QED
  BY <1>2, <1>3, <1>4, <1>5, MessageSteps

\* g_msg_list, connected_uav, libmosquitto's packets, reconnects and restarts
\* together are a channel that may lose messages but neither repeats nor
\* reorders them.
THEOREM ChannelImplemented == Spec => ImplementsChannel
<1>1. Init => C!Init
  BY ElementsOf DEF Init, S!Init, C!Init, Numbers, Elements
<1>2. IInv /\ [Next]_vars => [C!Next]_(C!vars)
  BY ChannelStep
<1>3. QED
  BY <1>1, <1>2, NewplatInvariant, PTL DEF Spec, ImplementsChannel, C!Spec

\* A step of the channel keeps what is under way newer than what has arrived.
LEMMA ChannelStepInvariant == C!IInv /\ [C!Next]_(C!vars) => C!IInv'
<1> SUFFICES ASSUME C!IInv, [C!Next]_(C!vars) PROVE C!IInv'
  OBVIOUS
<1> DEFINE U == Numbers(queue) \cup Numbers(outq)
<1> USE DEF C!IInv, C!TypeOK, C!NewerUnderway
<1>1. CASE C!Make
  BY <1>1 DEF C!Make
<1>2. ASSUME NEW n \in U, C!Deliver(n) PROVE C!IInv'
  BY <1>2 DEF C!Deliver
<1>3. ASSUME NEW lost \in SUBSET U, C!Lose(lost) PROVE C!IInv'
  BY <1>3 DEF C!Lose
<1>4. CASE UNCHANGED C!vars
  BY <1>4 DEF C!vars
<1>5. QED
  BY <1>1, <1>2, <1>3, <1>4 DEF C!Next

\* What the numbers of the channel give: all under way is newer than what the
\* broker received last.
THEOREM ChannelInvariant == C!Spec => []C!IInv
<1>1. C!Init => C!IInv
  BY DEF C!Init, C!IInv, C!TypeOK, C!NewerUnderway
<1>2. QED
  BY <1>1, ChannelStepInvariant, PTL DEF C!Spec

\* What implements the channel delivers each message at most once, and in the
\* order in which they were made.
THEOREM ChannelReceivesInOrder == C!Spec => C!ReceivedInOrder
<1>1. C!IInv /\ [C!Next]_(C!vars) => [got' > got]_got
  BY DEF C!IInv, C!TypeOK, C!NewerUnderway, C!Next, C!Make, C!Deliver, C!Lose, C!vars
<1>2. QED
  BY <1>1, ChannelInvariant, PTL DEF C!Spec, C!ReceivedInOrder

\* So that, over any number of sessions and of processes, the broker receives
\* each sample at most once and no sample after a later one.
THEOREM SamplesInOrder == Spec => C!ReceivedInOrder
  BY ChannelImplemented, ChannelReceivesInOrder, PTL DEF ImplementsChannel
=============================================================================
