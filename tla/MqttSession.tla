----------------------------- MODULE MqttSession -----------------------------
(***************************************************************************)
(* The MQTT session of newplat (src/src/mqtt.c) and the device id that two *)
(* threads share (get_device_id() of json.c, get_dev_sn() of utils.c).     *)
(*                                                                         *)
(*  - The main thread runs mqtt_init() once, whose result main() ignores,  *)
(*    and afterwards calls get_device_id() and do_tty_msg_publish().       *)
(*  - The network thread, which mosquitto_loop_start() creates, connects   *)
(*    and reconnects, and runs mqtt_connect_callback() and                 *)
(*    mqtt_disconnect_callback().                                          *)
(*                                                                         *)
(* No lock protects connected_uav or g_device_id.  get_dev_sn() copies the *)
(* serial number into g_device_id with memcpy(), byte after byte: here in  *)
(* two parts, "head" (with the first byte) and "tail", in either order.    *)
(* The serial number comes from the MAC address and never changes, so a    *)
(* part once written is only ever written again with the same bytes.       *)
(***************************************************************************)
EXTENDS Naturals, Sequences

CONSTANTS
  Msg,      \* the messages the main thread may publish
  MaxOut    \* bound on the packets that wait in libmosquitto

ASSUME MaxOutAssumption == MaxOut \in Nat

VARIABLES
  main,           \* what the main thread executes
  net,            \* what the network thread executes
  connected_uav,  \* g_mqtt_ctx.connected_uav
  g_device_id,    \* the parts of g_device_id written so far
  copied,         \* per thread, the parts its current memcpy() has written
  mqtt_name,      \* the user name given to mosquitto_username_pw_set()
  subscribed,     \* the device in the topic the broker has subscribed
  outq            \* packets accepted by mosquitto_publish(), not yet sent

threads == <<main, net>>
device == <<g_device_id, copied>>
vars == <<main, net, connected_uav, g_device_id, copied, mqtt_name, subscribed, outq>>

Threads == {"main", "net"}
Parts == {"head", "tail"}

\* What a C string read from g_device_id gives: empty when the first byte is
\* not there, else the serial number whole or torn.
DeviceIds == {"empty", "torn", "sn"}
DeviceId == IF "head" \notin g_device_id THEN "empty"
            ELSE IF g_device_id = Parts THEN "sn" ELSE "torn"

Callback == {"get", "flag", "check", "get_again", "subscribe"}

\* Where the network thread has a socket, and where it runs a session that
\* mqtt_connect_callback() has flagged.
SocketOpen == net \in Callback \cup {"wait", "up"}
SessionFlagged == net \in {"check", "get_again", "subscribe", "up"}

TypeOK ==
  /\ main \in {"conf", "name", "init", "run", "publish", "dead"}
  /\ net \in Callback \cup {"off", "down", "wait", "up", "closed", "stopped"}
  /\ connected_uav \in {0, 1}
  /\ g_device_id \in SUBSET Parts
  /\ copied \in [Threads -> SUBSET Parts]
  /\ mqtt_name \in DeviceIds \cup {"none"}
  /\ subscribed \in DeviceIds \cup {"no", "error"}
  /\ outq \in Seq(Msg)

Init ==
  /\ main = "conf"
  /\ net = "off"
  /\ connected_uav = 0
  /\ g_device_id = {}
  /\ copied = [t \in Threads |-> {}]
  /\ mqtt_name = "none"
  /\ subscribed = "no"
  /\ outq = <<>>

-----------------------------------------------------------------------------
(***************************************************************************)
(* get_device_id(), called by thread t.                                    *)
(***************************************************************************)

\* exec_process() fails, or prints nothing: g_device_id stays as it is.
GetDevSnFails(t) ==
  /\ copied[t] = {}
  /\ UNCHANGED device

\* memcpy() writes the last part, or a first one.  Mutated: the buffer is
\* cleared before it is filled.
GetDevSnEnds(t, part) ==
  /\ copied[t] = Parts \ {part}
  /\ g_device_id' = g_device_id \cup {part}
  /\ copied' = [copied EXCEPT ![t] = {}]

GetDevSnBeginsCleared(t, part) ==
  /\ copied[t] = {}
  /\ g_device_id' = {part}
  /\ copied' = [copied EXCEPT ![t] = {part}]

GetDevSnBegins(t, part) ==
  /\ copied[t] = {}
  /\ g_device_id' = g_device_id \cup {part}
  /\ copied' = [copied EXCEPT ![t] = {part}]

\* What returns, and what does not yet.  Mutated: as much is copied as one
\* read of the pipe happened to give.
GetDevSnReturnsShort(t) ==
  \/ GetDevSnFails(t)
  \/ \E part \in Parts : GetDevSnEnds(t, part)
  \/ /\ copied[t] = {}
     /\ \E part \in Parts : g_device_id' = g_device_id \cup {part}
     /\ UNCHANGED copied

GetDevSnReturns(t) == GetDevSnFails(t) \/ \E part \in Parts : GetDevSnEnds(t, part)
GetDevSnGoesOn(t) == \E part \in Parts : GetDevSnBegins(t, part)

-----------------------------------------------------------------------------
(***************************************************************************)
(* The main thread in mqtt_init().                                         *)
(***************************************************************************)

\* read_mqtt_conf() finds an option missing before it asks for the serial
\* number; main() goes on without a session.  Mutated: mqtt_init() does not
\* look at its result.
ReadMqttConfFailsUnseen ==
  /\ main = "conf"
  /\ copied["main"] = {}
  /\ main' = "init"
  /\ UNCHANGED <<net, connected_uav, device, mqtt_name, subscribed, outq>>

ReadMqttConfFails ==
  /\ main = "conf"
  /\ copied["main"] = {}
  /\ main' = "run"
  /\ UNCHANGED <<net, connected_uav, device, mqtt_name, subscribed, outq>>

\* read_mqtt_conf() asks for it, whether it gets it or not.
ReadMqttConf ==
  /\ main = "conf"
  /\ \/ GetDevSnGoesOn("main") /\ UNCHANGED main
     \/ GetDevSnReturns("main") /\ main' = "name"
  /\ UNCHANGED <<net, connected_uav, mqtt_name, subscribed, outq>>

\* ... and makes it the user name, and the password with the same encrypted.
SetMqttName ==
  /\ main = "name"
  /\ main' = "init"
  /\ mqtt_name' = DeviceId
  /\ UNCHANGED <<net, connected_uav, device, subscribed, outq>>

\* mosquitto_new() or mosquitto_loop_start() fails: no network thread.
MqttInitFails ==
  /\ main = "init"
  /\ main' = "run"
  /\ UNCHANGED <<net, connected_uav, device, mqtt_name, subscribed, outq>>

\* mosquitto_loop_start() creates the network thread.
MqttInitStarts ==
  /\ main = "init"
  /\ main' = "run"
  /\ net' = "down"
  /\ UNCHANGED <<connected_uav, device, mqtt_name, subscribed, outq>>

-----------------------------------------------------------------------------
(***************************************************************************)
(* The main thread in its timer callbacks.                                 *)
(***************************************************************************)

\* A call of get_device_id() while a message is made.
MainGetDeviceId ==
  /\ main = "run"
  /\ GetDevSnGoesOn("main") \/ GetDevSnReturns("main")
  /\ UNCHANGED <<threads, connected_uav, mqtt_name, subscribed, outq>>

\* do_tty_msg_publish() finds connected_uav set ...
CheckConnected ==
  /\ main = "run"
  /\ copied["main"] = {}
  /\ connected_uav = 1
  /\ main' = "publish"
  /\ UNCHANGED <<net, connected_uav, device, mqtt_name, subscribed, outq>>

\* ... and calls mosquitto_publish(), by then on a session that may be gone:
\* without a socket the packet is refused.
Publish(m) ==
  /\ main = "publish"
  /\ main' = "run"
  /\ IF SocketOpen
     THEN Len(outq) < MaxOut /\ outq' = Append(outq, m)
     ELSE UNCHANGED outq
  /\ UNCHANGED <<net, connected_uav, device, mqtt_name, subscribed>>

-----------------------------------------------------------------------------
(***************************************************************************)
(* The network thread: libmosquitto's part, and newplat's callbacks.       *)
(***************************************************************************)

\* A new socket, with CONNECT sent; what an earlier one had not sent is gone.
Connect ==
  /\ net = "down"
  /\ net' = "wait"
  /\ outq' = <<>>
  /\ UNCHANGED <<main, connected_uav, device, mqtt_name, subscribed>>

\* CONNACK with success: mqtt_connect_callback() is entered ...
ConnectAccepted ==
  /\ net = "wait"
  /\ net' = "get"
  /\ UNCHANGED <<main, connected_uav, device, mqtt_name, subscribed, outq>>

\* ... and calls get_device_id(), a first time, and a second one for the topic.
CallbackGetDeviceId ==
  /\ \/ /\ net \in {"get", "get_again"}
        /\ GetDevSnGoesOn("net")
        /\ UNCHANGED net
     \/ /\ net = "get"
        /\ GetDevSnReturns("net")
        /\ net' = "flag"
     \/ /\ net = "get_again"
        /\ GetDevSnReturns("net")
        /\ net' = "subscribe"
  /\ UNCHANGED <<main, connected_uav, mqtt_name, subscribed, outq>>

CallbackSetsFlag ==
  /\ net = "flag"
  /\ net' = "check"
  /\ connected_uav' = 1
  /\ UNCHANGED <<main, device, mqtt_name, subscribed, outq>>

\* strlen(device_id), of the buffer as it is now.
CallbackChecksId ==
  /\ net = "check"
  /\ net' = IF DeviceId = "empty" THEN "up" ELSE "get_again"
  /\ UNCHANGED <<main, connected_uav, device, mqtt_name, subscribed, outq>>

\* sub_mqtt_topic(): a failure of mosquitto_subscribe() is only logged.
\* Mutated: the subscription is taken to outlive its session.
CallbackSubscribesNot ==
  /\ net = "subscribe"
  /\ net' = "up"
  /\ UNCHANGED <<main, connected_uav, device, mqtt_name, subscribed, outq>>

CallbackSubscribes ==
  /\ net = "subscribe"
  /\ net' = "up"
  /\ subscribed' \in {DeviceId, "error"}
  /\ UNCHANGED <<main, connected_uav, device, mqtt_name, outq>>

\* A packet reaches the broker.
Deliver ==
  /\ SocketOpen
  /\ outq # <<>>
  /\ outq' = Tail(outq)
  /\ UNCHANGED <<threads, connected_uav, device, mqtt_name, subscribed>>

\* The connection ends, or was not accepted in time: libmosquitto closes the
\* socket first; the broker forgets the subscriptions of a clean session
\* (mosquitto_new() is always given true).
ConnectionLost ==
  /\ net \in {"wait", "up"}
  /\ net' = "closed"
  /\ subscribed' = "no"
  /\ UNCHANGED <<main, connected_uav, device, mqtt_name, outq>>

\* ... then mqtt_disconnect_callback() runs.  Mutated: without the reset.
DisconnectCallbackNoReset ==
  /\ net = "closed"
  /\ net' = "down"
  /\ UNCHANGED <<main, connected_uav, device, mqtt_name, subscribed, outq>>

DisconnectCallback ==
  /\ net = "closed"
  /\ net' = "down"
  /\ connected_uav' = 0
  /\ UNCHANGED <<main, device, mqtt_name, subscribed, outq>>

\* An error after which mosquitto_loop_forever() does not retry.
LoopEnds ==
  /\ net = "down"
  /\ net' = "stopped"
  /\ UNCHANGED <<main, connected_uav, device, mqtt_name, subscribed, outq>>

-----------------------------------------------------------------------------
(***************************************************************************)
(* The end of the process, with all its memory, and the next one.          *)
(***************************************************************************)

Gone ==
  /\ main' = "dead"
  /\ net' = "off"
  /\ connected_uav' = 0
  /\ g_device_id' = {}
  /\ copied' = [t \in Threads |-> {}]
  /\ mqtt_name' = "none"
  /\ subscribed' = "no"
  /\ outq' = <<>>

\* CONNACK with an error: mqtt_connect_callback() calls exit(1).
ConnectRefused == net = "wait" /\ Gone

\* On the main thread conf_uci_init() fails, a timer callback crashes, or a
\* signal ends uloop_run().
MainDies == main \in {"conf", "run"} /\ copied["main"] = {} /\ Gone

Respawn ==
  /\ main = "dead"
  /\ main' = "conf"
  /\ UNCHANGED <<net, connected_uav, device, mqtt_name, subscribed, outq>>

-----------------------------------------------------------------------------
MqttInit ==
  \/ ReadMqttConfFails
  \/ ReadMqttConf
  \/ SetMqttName
  \/ MqttInitFails
  \/ MqttInitStarts

Callbacks ==
  \/ CallbackGetDeviceId
  \/ CallbackSetsFlag
  \/ CallbackChecksId
  \/ CallbackSubscribes
  \/ DisconnectCallback

Library ==
  \/ Connect
  \/ ConnectAccepted
  \/ Deliver
  \/ ConnectionLost
  \/ LoopEnds

Next ==
  \/ MqttInit
  \/ MainGetDeviceId
  \/ CheckConnected
  \/ \E m \in Msg : Publish(m)
  \/ Callbacks
  \/ Library
  \/ ConnectRefused
  \/ MainDies
  \/ Respawn

Spec == Init /\ [][Next]_vars

\* Only the network thread's own code is fair: a callback once entered is
\* run.  Nothing is assumed of the broker, of the network or of procd.
FairSpec == Spec /\ WF_vars(Callbacks)

-----------------------------------------------------------------------------
(***************************************************************************)
(* Properties.                                                             *)
(***************************************************************************)

\* connected_uav is set in every session from its flagging to its end, and
\* outside only between the loss of the socket and mqtt_disconnect_callback().
FlagSound ==
  /\ SessionFlagged => connected_uav = 1
  /\ connected_uav = 1 => SessionFlagged \/ net = "closed"

\* Once mqtt_init() has the whole serial number, no interleaving of the two
\* threads' memcpy() makes either of them read another.
NameKept == mqtt_name = "sn" => DeviceId = "sn"

\* The user name, and the password made of it, may be empty but are never
\* torn: they are read once, and stay for the life of the process.
NameWhole == mqtt_name # "torn"

\* Nothing is handed to libmosquitto by a process that could not read its
\* configuration, though main() goes on making messages: their topic ends in
\* a NULL publish_topic_upload.
ConfiguredFirst == outq # <<>> => mqtt_name # "none"

\* Every session of a process that had its serial number at start-up has the
\* right topic subscribed when mqtt_connect_callback() has returned (unless
\* mosquitto_subscribe() itself failed), also after any number of reconnects.
SubscribedAgain ==
  mqtt_name = "sn" /\ net = "up" => subscribed \in {"sn", "error"}

\* No session is subscribed but a live one.
SubscriptionLive == subscribed # "no" => net = "up"

\* What a memcpy() in progress has written is in the buffer; between calls
\* there is none, and a torn id is being written by somebody.
CopyProgress ==
  /\ \A t \in Threads : copied[t] \subseteq g_device_id /\ copied[t] # Parts
  /\ copied["main"] # {} => main \in {"conf", "run"}
  /\ copied["net"] # {} => net \in {"get", "get_again"}
  /\ g_device_id \notin {{}, Parts} => \E t \in Threads : copied[t] # {}

\* Before the network thread exists, and after the process.
Start ==
  /\ main \in {"conf", "name", "init"} => net = "off"
  /\ main \in {"conf", "name"} => mqtt_name = "none"
  /\ net # "off" => mqtt_name # "none"
  /\ outq # <<>> => net # "off"
  /\ main = "init" => mqtt_name # "none"
  /\ main = "dead" => net = "off" /\ connected_uav = 0 /\ g_device_id = {}
                      /\ mqtt_name = "none"

\* The inductive invariant of the proofs.
IInv ==
  /\ TypeOK
  /\ FlagSound
  /\ NameKept
  /\ NameWhole
  /\ ConfiguredFirst
  /\ SubscribedAgain
  /\ SubscriptionLive
  /\ CopyProgress
  /\ Start

\* While a process lives the bytes of g_device_id only ever become more.
IdNeverLost == [][main' # "dead" => g_device_id \subseteq g_device_id']_vars

\* The stale flag of a lost session is cleared ...
FlagFalls == net = "closed" ~> connected_uav = 0

\* mqtt_connect_callback() sets connected_uav before it subscribes, and leaves
\* without a subscription if strlen() gives 0.  A session whose callback begins,
\* or goes on, with an id in the buffer has its mosquitto_subscribe() called all
\* the same, whatever the main thread writes there meanwhile.  (What the broker
\* answers to it nobody looks at: there is no on_subscribe callback.)
SubscriptionFollows ==
  net \in Callback /\ DeviceId # "empty" ~> subscribed # "no" \/ main = "dead"
=============================================================================
