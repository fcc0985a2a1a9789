-------------------------- MODULE MqttSessionProofs --------------------------
(***************************************************************************)
(* Proofs about MqttSession, for every set of messages and every MaxOut.   *)
(***************************************************************************)
EXTENDS MqttSession, TLAPS

\* What is read from g_device_id, part by part.
LEMMA DeviceIdRead ==
  ASSUME g_device_id \in SUBSET Parts
  PROVE  /\ DeviceId \in DeviceIds
         /\ DeviceId = "sn" <=> g_device_id = Parts
         /\ DeviceId = "empty" <=> "head" \notin g_device_id
  BY DEF DeviceId, DeviceIds, Parts

\* A call of get_dev_sn() by one thread: it adds to g_device_id and never
\* takes away, it does not touch the other thread's copy, and when it leaves
\* a part missing, some thread is in the middle of a copy.
LEMMA GetDevSnAdds ==
  ASSUME TypeOK, CopyProgress, NEW t \in Threads,
         GetDevSnGoesOn(t) \/ GetDevSnReturns(t)
  PROVE  /\ g_device_id \subseteq g_device_id'
         /\ g_device_id' \in SUBSET Parts
         /\ copied' \in [Threads -> SUBSET Parts]
         /\ \A u \in Threads : copied'[u] \subseteq g_device_id' /\ copied'[u] # Parts
         /\ \A u \in Threads \ {t} : copied'[u] = copied[u]
         /\ g_device_id' \notin {{}, Parts} => \E u \in Threads : copied'[u] # {}
<1> USE DEF TypeOK, CopyProgress, Threads, Parts
<1>1. CASE GetDevSnFails(t)
  BY <1>1 DEF GetDevSnFails, device
<1>2. ASSUME NEW part \in Parts, GetDevSnEnds(t, part)
      PROVE  /\ g_device_id' = Parts
             /\ copied' = [copied EXCEPT ![t] = {}]
  BY <1>2 DEF GetDevSnEnds
<1>3. ASSUME NEW part \in Parts, GetDevSnBegins(t, part)
      PROVE  /\ g_device_id' = g_device_id \cup {part}
             /\ copied' = [copied EXCEPT ![t] = {part}]
  BY <1>3 DEF GetDevSnBegins
<1>4. CASE \E part \in Parts : GetDevSnEnds(t, part)
  BY <1>2, <1>4
<1>5. CASE GetDevSnGoesOn(t)
  <2>1. PICK part \in Parts : GetDevSnBegins(t, part)
    BY <1>5 DEF GetDevSnGoesOn
  <2>2. /\ g_device_id' = g_device_id \cup {part}
        /\ copied' = [copied EXCEPT ![t] = {part}]
    BY <1>3, <2>1
  <2>3. {part} # Parts /\ {part} # {}
    <3>1. PICK q \in Parts : q # part
      OBVIOUS
    <3>2. q \in Parts /\ q \notin {part} /\ part \in {part}
      BY <3>1
    <3>3. QED
      BY <3>2
  <2>4. copied'[t] = {part} /\ \A u \in Threads \ {t} : copied'[u] = copied[u]
    BY <2>2
  <2>5. QED
    BY <2>2, <2>3, <2>4
<1>6. CASE GetDevSnReturns(t)
  BY <1>1, <1>4, <1>6 DEF GetDevSnReturns
<1>7. QED
  BY <1>5, <1>6

\* When the call returns its thread is in no copy.
LEMMA GetDevSnReturned ==
  ASSUME TypeOK, NEW t \in Threads, GetDevSnReturns(t)
  PROVE  copied'[t] = {}
  BY DEF TypeOK, GetDevSnReturns, GetDevSnFails, GetDevSnEnds, device, Parts

\* The initial state satisfies the inductive invariant.
LEMMA InitInvariant == Init => IInv
  BY DEF Init, IInv, TypeOK, FlagSound, NameKept, NameWhole, ConfiguredFirst,
         SubscribedAgain, SubscriptionLive, CopyProgress, Start, SessionFlagged, Callback,
         Threads, Parts, DeviceIds

\* What a step of get_device_id() keeps of the invariant, when it changes no
\* more than the position of its own thread.
LEMMA GetDeviceIdKeeps ==
  ASSUME IInv, NEW t \in Threads, GetDevSnGoesOn(t) \/ GetDevSnReturns(t),
         UNCHANGED <<connected_uav, mqtt_name, subscribed, outq>>
  PROVE  /\ NameKept'
         /\ g_device_id' \in SUBSET Parts
         /\ copied' \in [Threads -> SUBSET Parts]
         /\ \A u \in Threads : copied'[u] \subseteq g_device_id' /\ copied'[u] # Parts
         /\ \A u \in Threads \ {t} : copied'[u] = copied[u]
         /\ g_device_id' \notin {{}, Parts} => \E u \in Threads : copied'[u] # {}
<1>1. TypeOK /\ CopyProgress /\ NameKept
  BY DEF IInv
<1>2. g_device_id \subseteq g_device_id' /\ g_device_id' \in SUBSET Parts
  BY <1>1, GetDevSnAdds
<1>3. NameKept'
  <2>1. CASE mqtt_name = "sn"
    <3>1. g_device_id = Parts
      BY <1>1, <2>1, DeviceIdRead DEF TypeOK, NameKept
    <3>2. g_device_id' = Parts
      BY <1>2, <3>1
    <3>3. QED
      BY <3>2 DEF NameKept, DeviceId, Parts
  <2>2. CASE mqtt_name # "sn"
    BY <2>2 DEF NameKept
  <2>3. QED
    BY <2>1, <2>2
<1>4. QED
  BY <1>1, <1>2, <1>3, GetDevSnAdds

\* Every step preserves the inductive invariant.
LEMMA StepInvariant == IInv /\ [Next]_vars => IInv'
<1> SUFFICES ASSUME IInv, [Next]_vars PROVE IInv'
  OBVIOUS
<1> USE DEF IInv, TypeOK, FlagSound, NameKept, NameWhole, ConfiguredFirst,
            SubscribedAgain, SubscriptionLive, CopyProgress, Start, SessionFlagged, Callback,
            Threads, DeviceIds
<1>0. DeviceId \in DeviceIds /\ (DeviceId = "sn" <=> g_device_id = Parts)
  BY DeviceIdRead
<1>1. ASSUME UNCHANGED device PROVE DeviceId' = DeviceId
  BY <1>1 DEF device, DeviceId
<1>2. CASE ReadMqttConfFails
  BY <1>1, <1>2 DEF ReadMqttConfFails, device
<1>3. CASE ReadMqttConf
  <2>1. "main" \in Threads
    OBVIOUS
  <2>2. GetDevSnReturns("main") => copied'["main"] = {}
    BY <2>1, GetDevSnReturned
  <2>3. QED
    BY <1>3, <2>1, <2>2, GetDeviceIdKeeps DEF ReadMqttConf
<1>4. CASE SetMqttName
  \* no network thread yet: no memcpy() is under way, so nothing is torn
  <2>1. g_device_id \in {{}, Parts}
    BY <1>4 DEF SetMqttName
  <2>2. DeviceId # "torn" /\ DeviceId # "none"
    BY <2>1 DEF DeviceId, Parts
  <2>3. QED
    BY <1>0, <1>1, <1>4, <2>2 DEF SetMqttName, device
<1>5. CASE MqttInitFails
  BY <1>1, <1>5 DEF MqttInitFails, device
<1>6. CASE MqttInitStarts
  BY <1>1, <1>6 DEF MqttInitStarts, device
<1>7. CASE MainGetDeviceId
  BY <1>7, GetDeviceIdKeeps DEF MainGetDeviceId, threads
<1>8. CASE CheckConnected
  BY <1>1, <1>8 DEF CheckConnected, device
<1>9. ASSUME NEW m \in Msg, Publish(m) PROVE IInv'
  <2>1. outq' = outq \/ SocketOpen
    BY <1>9 DEF Publish
  <2>2. SocketOpen => net # "off"
    BY DEF SocketOpen
  <2>3. outq' \in Seq(Msg) /\ (outq' # <<>> => net # "off")
    BY <1>9, <2>1, <2>2 DEF Publish
  <2>4. UNCHANGED <<net, connected_uav, device, mqtt_name, subscribed>> /\ main' = "run"
    BY <1>9 DEF Publish
  <2>5. QED
    BY <1>1, <1>9, <2>3, <2>4 DEF Publish, device
<1>10. CASE CallbackGetDeviceId
  <2>1. "net" \in Threads
    OBVIOUS
  <2>2. GetDevSnReturns("net") => copied'["net"] = {}
    BY <2>1, GetDevSnReturned
  <2>3. QED
    BY <1>10, <2>1, <2>2, GetDeviceIdKeeps DEF CallbackGetDeviceId
<1>11. CASE CallbackSetsFlag
  BY <1>1, <1>11 DEF CallbackSetsFlag, device
<1>12. CASE CallbackChecksId
  BY <1>1, <1>12 DEF CallbackChecksId, device
<1>13. CASE CallbackSubscribes
  BY <1>0, <1>1, <1>13 DEF CallbackSubscribes, device
<1>14. CASE DisconnectCallback
  BY <1>1, <1>14 DEF DisconnectCallback, device
<1>15. CASE Connect
  BY <1>1, <1>15 DEF Connect, device
<1>16. CASE ConnectAccepted
  BY <1>1, <1>16 DEF ConnectAccepted, device
<1>17. CASE Deliver
  BY <1>1, <1>17 DEF Deliver, device, threads
<1>18. CASE ConnectionLost
  BY <1>1, <1>18 DEF ConnectionLost, device
<1>19. CASE LoopEnds
  BY <1>1, <1>19 DEF LoopEnds, device
<1>20. CASE ConnectRefused \/ MainDies
  <2>1. Gone
    BY <1>20 DEF ConnectRefused, MainDies
  <2>2. TypeOK'
    BY <2>1 DEF Gone
  <2>3. CopyProgress'
    <3>1. \A t \in Threads : copied'[t] = {}
      BY <2>1 DEF Gone
    <3>2. "head" \in Parts
      BY DEF Parts
    <3>3. QED
      BY <2>1, <3>1, <3>2 DEF Gone
  <2>4. QED
    BY <2>1, <2>2, <2>3 DEF Gone
<1>21. CASE Respawn
  BY <1>1, <1>21 DEF Respawn, device
<1>22. CASE UNCHANGED vars
  BY <1>1, <1>22 DEF vars, device
<1>23. QED
  BY <1>2, <1>3, <1>4, <1>5, <1>6, <1>7, <1>8, <1>9, <1>10, <1>11, <1>12,
     <1>13, <1>14, <1>15, <1>16, <1>17, <1>18, <1>19, <1>20, <1>21, <1>22
     DEF Next, MqttInit, Callbacks, Library

\* The inductive invariant holds in every reachable state.
THEOREM SessionInvariant == Spec => []IInv
  BY InitInvariant, StepInvariant, PTL DEF Spec

\* The variables of MqttSession keep their types.
THEOREM SessionTypeCorrect == Spec => []TypeOK
<1>1. IInv => TypeOK
  BY DEF IInv
<1>2. QED
  BY <1>1, SessionInvariant, PTL

\* The user name is never torn, whatever get_dev_sn() did at start-up.
THEOREM NameIsWhole == Spec => []NameWhole
<1>1. IInv => NameWhole
  BY DEF IInv
<1>2. QED
  BY <1>1, SessionInvariant, PTL

\* A process without a configuration hands libmosquitto nothing.
THEOREM PublishingNeedsConfiguration == Spec => []ConfiguredFirst
<1>1. IInv => ConfiguredFirst
  BY DEF IInv
<1>2. QED
  BY <1>1, SessionInvariant, PTL

\* connected_uav tells a live session, but for the time between the loss of
\* the socket and mqtt_disconnect_callback().
THEOREM FlagIsSound == Spec => []FlagSound
<1>1. IInv => FlagSound
  BY DEF IInv
<1>2. QED
  BY <1>1, SessionInvariant, PTL

\* After every reconnect of a process that knew its serial number at start-up
\* the subscription is there again, whatever the two threads do with
\* g_device_id meanwhile.
THEOREM SubscriptionIsRenewed == Spec => []SubscribedAgain
<1>1. IInv => SubscribedAgain
  BY DEF IInv
<1>2. QED
  BY <1>1, SessionInvariant, PTL

\* Nothing a living process does takes a byte out of g_device_id.
LEMMA DeviceIdGrows ==
  ASSUME IInv, [Next]_vars, main' # "dead"
  PROVE  g_device_id \subseteq g_device_id'
<1>1. ASSUME UNCHANGED device PROVE g_device_id \subseteq g_device_id'
  BY <1>1 DEF device
<1>2. ASSUME NEW t \in Threads, GetDevSnGoesOn(t) \/ GetDevSnReturns(t)
      PROVE  g_device_id \subseteq g_device_id'
  BY <1>2, GetDevSnAdds DEF IInv
<1>3. CASE MqttInit
  BY <1>1, <1>2, <1>3
     DEF MqttInit, ReadMqttConfFails, ReadMqttConf, SetMqttName,
         MqttInitFails, MqttInitStarts, Threads
<1>4. CASE MainGetDeviceId \/ CheckConnected \/ \E m \in Msg : Publish(m)
  BY <1>1, <1>2, <1>4 DEF MainGetDeviceId, CheckConnected, Publish, Threads
<1>5. CASE Callbacks
  BY <1>1, <1>2, <1>5
     DEF Callbacks, CallbackGetDeviceId, CallbackSetsFlag, CallbackChecksId,
         CallbackSubscribes, DisconnectCallback, Threads
<1>6. CASE Library
  BY <1>1, <1>6
     DEF Library, Connect, ConnectAccepted, Deliver, ConnectionLost, LoopEnds
<1>7. CASE ConnectRefused \/ MainDies
  BY <1>7 DEF ConnectRefused, MainDies, Gone
<1>8. CASE Respawn \/ UNCHANGED vars
  BY <1>1, <1>8 DEF Respawn, vars
<1>9. QED
  BY <1>3, <1>4, <1>5, <1>6, <1>7, <1>8 DEF Next

\* g_device_id only ever gains bytes while its process lives.
THEOREM DeviceIdIsNeverLost == Spec => IdNeverLost
<1>1. IInv /\ [Next]_vars
      => [main' # "dead" => g_device_id \subseteq g_device_id']_vars
  BY DeviceIdGrows
<1>2. QED
  BY <1>1, SessionInvariant, PTL DEF Spec, IdNeverLost
=============================================================================
