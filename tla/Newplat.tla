------------------------------ MODULE Newplat -------------------------------
(***************************************************************************)
(* The whole process: the main thread of Beat, with the callbacks in the   *)
(* detail of json.c, beside the network thread of MqttSession.             *)
(*                                                                         *)
(* Every action conjoins what it does to the timers (an action of B) with  *)
(* what it does to the session (an action of S) and adds what neither has: *)
(* the messages themselves.  A message is the number of its sample, the    *)
(* device ids that json.c read into it (the three deviceCode members and   *)
(* the topic, each from a call of get_device_id() of its own) and whether  *)
(* strdup() of its text succeeded.                                         *)
(***************************************************************************)
EXTENDS Naturals, Sequences

CONSTANTS
  StartDelay, PostPeriod, SendPeriod,  \* the timers' delays, see Beat
  MaxMsgs                              \* bound on the messages made

ASSUME MaxMsgsAssumption == MaxMsgs \in Nat

\* As in Beat, what the literals of json.c satisfy.
ASSUME DelayAssumption ==
  /\ StartDelay \in Nat \ {0}
  /\ PostPeriod \in Nat \ {0}
  /\ SendPeriod \in Nat \ {0}
  /\ StartDelay <= PostPeriod
  /\ SendPeriod <= PostPeriod

VARIABLES
  pc,                                  \* what the main thread executes
  armed, left, first,                  \* uloop's timers
  net, connected_uav, g_device_id, copied, mqtt_name, subscribed, outq,
                                       \* the session
  queue,                               \* g_msg_list
  draft,                               \* device ids read into the next message
  made,                                \* history: messages made so far
  got                                  \* history: the last one received

timers == <<armed, left, first>>
session == <<net, connected_uav, g_device_id, copied, mqtt_name, subscribed, outq>>
messages == <<queue, draft, made>>
vars == <<pc, timers, session, messages, got>>

\* Calls of get_device_id() for one message: "deviceCode" of the root, of
\* terminal_network and of uav, then the topic.
Calls == 4
Topic(m) == m.ids[Calls]

\* Where the main thread is, as Beat and as MqttSession see it.
Boot == {"boot", "conf", "name", "init", "beat"}
PostRun == {"post", "get", "read", "check", "add"}
BeatPc == CASE pc \in Boot -> "boot"
            [] pc \in PostRun -> "post"
            [] pc = "publish" -> "send"
            [] OTHER -> pc
MainPc == CASE pc = "boot" -> "conf"
            [] pc \in {"conf", "name", "init", "publish", "dead"} -> pc
            [] OTHER -> "run"

Message == [seq : 1 .. MaxMsgs, ids : [1 .. Calls -> {"empty", "torn", "sn"}],
            text : BOOLEAN]

B == INSTANCE Beat WITH pc <- BeatPc, pending <- Len(queue)
S == INSTANCE MqttSession WITH main <- MainPc, Msg <- Message, MaxOut <- MaxMsgs

TypeOK ==
  /\ pc \in Boot \cup PostRun \cup {"beat_init", "loop", "send", "publish", "dead"}
  /\ B!TypeOK
  /\ S!TypeOK
  /\ queue \in Seq(Message)
  /\ draft \in Seq(S!DeviceIds) /\ Len(draft) <= Calls
  /\ made \in 0 .. MaxMsgs
  /\ got \in 0 .. made

Init ==
  /\ pc = "boot"
  /\ queue = <<>>
  /\ draft = <<>>
  /\ made = 0
  /\ got = 0
  /\ B!Init
  /\ S!Init

Tick == UNCHANGED <<pc, session, messages, got>> /\ B!Tick

-----------------------------------------------------------------------------
(***************************************************************************)
(* main(): configuration, mqtt_init(), mqtt_beat_init().                   *)
(***************************************************************************)

ConfUciInit ==
  /\ pc = "boot"
  /\ pc' = "conf"
  /\ UNCHANGED <<timers, session, messages, got>>

\* read_mqtt_conf() with an option missing; its result, like all of
\* mqtt_init(), is ignored.
ReadMqttConfFails ==
  /\ pc = "conf"
  /\ pc' = "beat"
  /\ S!ReadMqttConfFails
  /\ UNCHANGED <<timers, messages, got>>

ReadMqttConf ==
  /\ pc = "conf"
  /\ pc' \in {"conf", "name"}
  /\ S!ReadMqttConf
  /\ UNCHANGED <<timers, messages, got>>

SetMqttName ==
  /\ pc = "name"
  /\ pc' = "init"
  /\ S!SetMqttName
  /\ UNCHANGED <<timers, messages, got>>

MqttInit ==
  /\ pc = "init"
  /\ pc' = "beat"
  /\ S!MqttInitFails \/ S!MqttInitStarts
  /\ UNCHANGED <<timers, messages, got>>

BeatInitPost ==
  /\ pc = "beat"
  /\ pc' = "beat_init"
  /\ UNCHANGED <<session, messages, got>>
  /\ B!BeatInitPost

BeatInitSend ==
  /\ pc = "beat_init"
  /\ pc' = "loop"
  /\ UNCHANGED <<session, messages, got>>
  /\ B!BeatInitSend

-----------------------------------------------------------------------------
(***************************************************************************)
(* mqtt_post_run() and cjson_creat_post_data().                            *)
(***************************************************************************)

PostRunStart ==
  /\ pc' = "post"
  /\ UNCHANGED <<session, messages, got>>
  /\ B!PostRunStart

\* The sample is there: the message is built.
Sampled ==
  /\ pc = "post"
  /\ pc' = "get"
  /\ UNCHANGED <<timers, session, messages, got>>

\* get_device_id() ...
GetDeviceId ==
  /\ pc = "get"
  /\ \/ S!GetDevSnGoesOn("main") /\ UNCHANGED pc
     \/ S!GetDevSnReturns("main") /\ pc' = "read"
  /\ UNCHANGED <<timers, net, connected_uav, mqtt_name, subscribed, outq, messages, got>>

\* ... whose result is read only after it has returned.
ReadDeviceId ==
  /\ pc = "read"
  /\ draft' = Append(draft, S!DeviceId)
  /\ pc' = CASE Len(draft') = Calls - 1 -> "check"
             [] Len(draft') = Calls -> "add"
             [] OTHER -> "get"
  /\ UNCHANGED <<timers, session, queue, made, got>>

\* The end of the callback, with a new queue.
PostRunEnd(added) ==
  /\ pc' = "loop"
  /\ draft' = <<>>
  /\ queue' = queue \o added
  /\ made' = made + Len(added)
  /\ B!PostRunEnd(Len(added))
  /\ UNCHANGED <<session, got>>

\* cjson_msg_add() looks at g_device_id once more before it calls
\* get_device_id() for the topic.  Mutated: without the look.
CheckDeviceIdNot ==
  /\ pc = "check"
  /\ pc' = "get"
  /\ UNCHANGED <<timers, session, messages, got>>

CheckDeviceId ==
  /\ pc = "check"
  /\ \/ /\ S!DeviceId = "empty"
        /\ PostRunEnd(<<>>)
     \/ /\ S!DeviceId # "empty"
        /\ pc' = "get"
        /\ UNCHANGED <<timers, session, messages, got>>

\* The rest of cjson_msg_add(): malloc() of the entry fails, or it is
\* appended, with or without its text.
MsgAdd ==
  /\ pc = "add"
  /\ \/ PostRunEnd(<<>>)
     \/ /\ made < MaxMsgs
        /\ \E text \in BOOLEAN :
             PostRunEnd(<<[seq |-> made + 1, ids |-> draft, text |-> text]>>)

-----------------------------------------------------------------------------
(***************************************************************************)
(* mqtt_send_run() and do_tty_msg_publish().                               *)
(***************************************************************************)

SendRunStart ==
  /\ pc' = "send"
  /\ UNCHANGED <<session, messages, got>>
  /\ B!SendRunStart

\* A message without text, or without a session: freed, not published.
SendDrops ==
  /\ pc = "send"
  /\ queue # <<>>
  /\ ~Head(queue).text \/ connected_uav = 0
  /\ queue' = Tail(queue)
  /\ UNCHANGED pc
  /\ B!SendRunDrain
  /\ UNCHANGED <<session, draft, made, got>>

\* connected_uav is set.  Mutated: it is not looked at.
SendChecksNot ==
  /\ pc = "send"
  /\ queue # <<>>
  /\ Head(queue).text
  /\ pc' = "publish"
  /\ UNCHANGED <<timers, session, messages, got>>

SendChecks ==
  /\ pc = "send"
  /\ queue # <<>>
  /\ Head(queue).text
  /\ pc' = "publish"
  /\ S!CheckConnected
  /\ UNCHANGED <<timers, messages, got>>

\* mosquitto_publish(), then the entry is freed whatever it returned.
\* Mutated: it is kept, to be sent again.
SendPublishesAgain ==
  /\ pc = "publish"
  /\ pc' = "send"
  /\ S!Publish(Head(queue))
  /\ UNCHANGED <<timers, messages, got>>

SendPublishes ==
  /\ pc = "publish"
  /\ pc' = "send"
  /\ S!Publish(Head(queue))
  /\ queue' = Tail(queue)
  /\ B!SendRunDrain
  /\ UNCHANGED <<draft, made, got>>

\* Mutated: the callback ends with its messages still there when there is no
\* session, to send them later.
SendRunEndKeeping ==
  /\ pc = "send"
  /\ queue = <<>> \/ connected_uav = 0
  /\ pc' = "loop"
  /\ B!UloopTimeoutSet("send", SendPeriod)
  /\ UNCHANGED <<session, messages, got>>

SendRunEnd ==
  /\ pc = "send"
  /\ pc' = "loop"
  /\ UNCHANGED queue
  /\ B!SendRunEnd
  /\ UNCHANGED <<session, draft, made, got>>

-----------------------------------------------------------------------------
(***************************************************************************)
(* The network thread, between any two steps of the main thread.           *)
(***************************************************************************)

Network ==
  /\ UNCHANGED pc
  /\ \/ S!Callbacks
     \/ S!Connect
     \/ S!ConnectAccepted
     \/ S!ConnectionLost
     \/ S!LoopEnds
  /\ UNCHANGED <<timers, messages, got>>

Deliver ==
  /\ UNCHANGED pc
  /\ S!Deliver
  /\ got' = Head(outq).seq
  /\ UNCHANGED <<timers, messages>>

-----------------------------------------------------------------------------
(***************************************************************************)
(* The end of the process and the next one.                                *)
(***************************************************************************)

Gone ==
  /\ pc' = "dead"
  /\ queue' = <<>>
  /\ draft' = <<>>
  /\ UNCHANGED <<made, got>>

ConfUciFails == pc = "boot" /\ Gone /\ B!ConfUciFails /\ S!MainDies

\* atof(NULL) in mqtt_post_run().
PostRunCrash == pc = "post" /\ Gone /\ B!PostRunCrash /\ S!MainDies

\* SIGTERM: uloop_run() returns; a message may wait, a packet be under way.
UloopEnds == pc = "loop" /\ Gone /\ B!UloopEnds /\ S!MainDies

\* exit(1) on the network thread.
ConnectRefused == Gone /\ B!ConnectRefused /\ S!ConnectRefused

Respawn ==
  /\ pc' = "boot"
  /\ UNCHANGED <<messages, got>>
  /\ B!Respawn
  /\ S!Respawn

-----------------------------------------------------------------------------
Main ==
  \/ ConfUciInit
  \/ ReadMqttConfFails
  \/ ReadMqttConf
  \/ SetMqttName
  \/ MqttInit
  \/ BeatInitPost
  \/ BeatInitSend
  \/ PostRunStart
  \/ Sampled
  \/ GetDeviceId
  \/ ReadDeviceId
  \/ CheckDeviceId
  \/ MsgAdd
  \/ SendRunStart
  \/ SendDrops
  \/ SendChecks
  \/ SendPublishes
  \/ SendRunEnd

Next ==
  \/ Tick
  \/ Main
  \/ Network
  \/ Deliver
  \/ ConfUciFails
  \/ PostRunCrash
  \/ UloopEnds
  \/ ConnectRefused
  \/ Respawn

Spec == Init /\ [][Next]_vars

-----------------------------------------------------------------------------
(***************************************************************************)
(* Properties.                                                             *)
(***************************************************************************)

Elements(s) == {s[i] : i \in DOMAIN s}

\* What mqtt_send_run() may publish is the newest sample and nothing else: in
\* an outage of any length no old position of the aircraft gathers in
\* g_msg_list.  (Packets that libmosquitto holds already may be older.  And the
\* types.)
NewestOnly ==
  /\ TypeOK
  /\ queue # <<>> => Len(queue) = 1 /\ Head(queue).seq = made

\* In a message the device id only gets better from one reading to the next:
\* none is empty after one that was not, none torn after a whole one, and the
\* topic always names a device.
Better == {<<"empty", "empty">>, <<"empty", "torn">>, <<"empty", "sn">>,
           <<"torn", "torn">>, <<"torn", "sn">>, <<"sn", "sn">>}
IdsImprove ==
  \A m \in Elements(queue) \cup Elements(outq) :
    /\ \A i \in 1 .. Calls - 1 : <<m.ids[i], m.ids[i + 1]>> \in Better
    /\ Topic(m) # "empty"

\* A process that had its serial number at start-up puts it whole in every
\* message, though the network thread writes the same buffer.
IdsWhole ==
  mqtt_name = "sn" =>
    \A m \in Elements(queue) \cup Elements(outq) :
      \A i \in 1 .. Calls : m.ids[i] = "sn"

\* The message being made: which ids it has at each point of the callback, and
\* that none of them is better than what g_device_id reads as now.
DraftSound ==
  /\ pc \notin {"get", "read", "check", "add"} => draft = <<>>
  /\ pc \in {"get", "read"} => Len(draft) < Calls
  /\ pc \in {"get", "read"} /\ Len(draft) = Calls - 1 => S!DeviceId # "empty"
  /\ pc = "check" => Len(draft) = Calls - 1
  /\ pc = "add" => Len(draft) = Calls /\ draft[Calls] # "empty"
  /\ \A i \in 1 .. Len(draft) - 1 : <<draft[i], draft[i + 1]>> \in Better
  /\ draft # <<>> => <<draft[Len(draft)], S!DeviceId>> \in Better
  /\ mqtt_name = "sn" => \A i \in 1 .. Len(draft) : draft[i] = "sn"

\* What libmosquitto has is in order, and older than what waits in g_msg_list.
OutqOrdered ==
  /\ \A i, j \in 1 .. Len(outq) : i < j => outq[i].seq < outq[j].seq
  /\ \A i \in 1 .. Len(outq) : outq[i].seq <= made
  /\ queue # <<>> => \A i \in 1 .. Len(outq) : outq[i].seq < made
  /\ pc = "publish" => queue # <<>>

\* The inductive invariant of the proofs, with those of both components.
IInv ==
  /\ NewestOnly
  /\ B!IInv
  /\ S!IInv
  /\ IdsImprove
  /\ IdsWhole
  /\ DraftSound
  /\ OutqOrdered

Numbers(s) == {m.seq : m \in Elements(s)}

C == INSTANCE Channel WITH underway <- Numbers(queue) \cup Numbers(outq)

\* g_msg_list, the check of connected_uav, libmosquitto's packets, reconnects
\* and restarts together are a channel that may lose but neither repeats nor
\* reorders messages.
ImplementsChannel == C!Spec

\* The main thread in this detail is the main thread of Beat ...
ImplementsBeat == B!Spec

\* ... and both threads together are those of MqttSession, so that what is
\* proved of either holds here.
ImplementsSession == S!Spec
=============================================================================
