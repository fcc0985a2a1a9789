--------------------------- MODULE UbusCallProofs ----------------------------
(***************************************************************************)
(* Proofs about UbusCall, for every set of data and every bound: what the  *)
(* copies of a reply are owned by, and that a getter is the atomic reading *)
(* of Getter.                                                              *)
(***************************************************************************)
EXTENDS UbusCall, TLAPS

\* What waits in the wire are messages, at places 1, 2, ...
LEMMA WireTyped ==
  ASSUME wire \in Seq(Message), NEW i \in DOMAIN wire
  PROVE  i \in Nat /\ wire[i].seq \in Nat
<1>1. i \in Nat /\ wire[i] \in Message
  OBVIOUS
<1>2. QED
  BY <1>1 DEF Message

\* Reading the first message moves the others one place forward.
LEMMA WireRead ==
  ASSUME wire \in Seq(Message), wire # <<>>, wire' = Tail(wire)
  PROVE  /\ Head(wire) = wire[1] /\ 1 \in DOMAIN wire
         /\ wire' \in Seq(Message)
         /\ \A i \in DOMAIN wire' : i + 1 \in DOMAIN wire /\ wire'[i] = wire[i + 1]
         /\ \A i \in DOMAIN wire : i # 1 => i - 1 \in DOMAIN wire' /\ wire'[i - 1] = wire[i]
  OBVIOUS

\* Sending one adds it behind the others.
LEMMA WireSent ==
  ASSUME wire \in Seq(Message), NEW m \in Message, wire' = Append(wire, m)
  PROVE  /\ wire' \in Seq(Message)
         /\ Len(wire) + 1 \in DOMAIN wire' /\ wire'[Len(wire) + 1] = m
         /\ \A i \in DOMAIN wire' : i = Len(wire) + 1 \/ (i \in DOMAIN wire /\ i <= Len(wire))
         /\ \A i \in DOMAIN wire : i \in DOMAIN wire' /\ wire'[i] = wire[i] /\ i <= Len(wire)
  OBVIOUS

-----------------------------------------------------------------------------
\* The initial state satisfies the inductive invariant.
LEMMA InitInvariant == Init => IInv
  BY UbusAssumption DEF Init, IInv, TypeOK, Ownership, Locals, Numbered, Fresh, Block, Message

\* Every step keeps the types.
LEMMA TypeStep == TypeOK /\ Ownership /\ Locals /\ Numbered /\ [Next]_vars => TypeOK'
<1> SUFFICES ASSUME TypeOK, Ownership, Locals, Numbered, [Next]_vars PROVE TypeOK'
  OBVIOUS
<1> USE UbusAssumption DEF TypeOK, Reply, Member
<1>1. CASE ProviderStarts \/ DatumChanges \/ ProviderDies \/ ConnectionLost \/ Connect
  <2>1. CASE ProviderStarts \/ DatumChanges \/ ProviderDies
    <3>1. CASE ProviderStarts
      BY <3>1 DEF ProviderStarts, caller
    <3>2. CASE DatumChanges
      BY <3>2 DEF DatumChanges, caller
    <3>3. CASE ProviderDies
      BY <3>3 DEF ProviderDies, caller
    <3>4. QED
      BY <2>1, <3>1, <3>2, <3>3
  <2>2. CASE ConnectionLost
    <3>1. <<>> \in Seq(Message)
      OBVIOUS
    <3>2. asked' \in SUBSET [seq : Nat, sent : 0 .. 2] /\ wire' \in Seq(Message)
      BY <2>2, <3>1 DEF ConnectionLost
    <3>3. QED
      BY <2>2, <3>2 DEF ConnectionLost, caller
  <2>3. CASE Connect
    BY <2>3 DEF Connect, caller
  <2>4. QED
    BY <1>1, <2>1, <2>2, <2>3
<1>2. ASSUME NEW r \in asked, ProviderReplies(r) PROVE TypeOK'
  <2>1. r.sent + 1 \in 0 .. 2 /\ r.seq \in Nat /\ datum \in Value
    BY <1>2 DEF ProviderReplies, Numbered
  <2>2. [seq |-> r.seq, sent |-> r.sent + 1] \in [seq : Nat, sent : 0 .. 2]
    BY <2>1
  <2>3. asked' \in SUBSET [seq : Nat, sent : 0 .. 2]
    BY <1>2, <2>2 DEF ProviderReplies
  <2>4. wire' \in Seq(Message) /\ reading' \in Value \cup {None}
    <3>1. PICK body \in {datum, Missing, Wrong} :
                 /\ wire' = Append(wire, [seq |-> r.seq, body |-> body])
                 /\ reading' \in {datum, reading}
      BY <1>2 DEF ProviderReplies
    <3>2. [seq |-> r.seq, body |-> body] \in Message
      BY <2>1 DEF Message
    <3>3. QED
      BY <2>1, <3>1, <3>2
  <2>5. QED
    BY <1>2, <2>3, <2>4 DEF ProviderReplies, caller
<1>3. ASSUME NEW r \in asked, ProviderDone(r) PROVE TypeOK'
  <2>1. PICK status \in {"ok", "failed"} :
               wire' = Append(wire, [seq |-> r.seq, body |-> status])
    BY <1>3 DEF ProviderDone
  <2>2. [seq |-> r.seq, body |-> status] \in Message
    BY DEF Message
  <2>3. wire' \in Seq(Message)
    BY <2>1, <2>2
  <2>4. QED
    BY <1>3, <2>3 DEF ProviderDone, caller
<1>4. CASE Begin \/ LookupSend \/ LookupFails \/ UbusdAnswers \/ InvokeFails
  BY <1>4 DEF Begin, LookupSend, LookupFails, UbusdAnswers, LookupNotFound, LookupId, InvokeFails, bus
<1>5. CASE Invoke
  <2>1. seq' \in Nat /\ asked' \in SUBSET [seq : Nat, sent : 0 .. 2]
    BY <1>5 DEF Invoke
  <2>2. wire' \in Seq(Message)
    <3>1. [seq |-> seq', body |-> "failed"] \in Message
      BY <2>1 DEF Message
    <3>2. wire' = wire \/ wire' = Append(wire, [seq |-> seq', body |-> "failed"])
      BY <1>5 DEF Invoke
    <3>3. QED
      BY <3>1, <3>2
  <2>3. QED
    BY <1>5, <2>1, <2>2 DEF Invoke
<1>6. CASE Ignore
  BY <1>6 DEF Ignore, caller
<1>7. CASE RecvCallReply
  BY <1>7 DEF RecvCallReply
<1>8. CASE InvokeReturns
  BY <1>8 DEF InvokeReturns
<1>9. CASE OptionOut
  <2>1. live' \in Nat
    BY <1>9 DEF OptionOut, Ownership, Block
  <2>2. value' \in Member \cup {None}
    BY <1>9 DEF OptionOut
  <2>3. QED
    BY <1>9, <2>1, <2>2 DEF OptionOut, bus
<1>10. CASE Return
  BY <1>10 DEF Return, bus, Ownership, Block
<1>11. CASE UNCHANGED vars
  BY <1>11 DEF vars, caller, bus
<1>12. QED
  BY <1>1, <1>2, <1>3, <1>4, <1>5, <1>6, <1>7, <1>8, <1>9, <1>10, <1>11 DEF Next, Call

\* Every step keeps the account of the heap blocks: recv_call_reply() adds
\* one or loses one, the end of ubus_get_option() and the getter free theirs.
LEMMA OwnershipStep ==
  TypeOK /\ Ownership /\ Locals /\ [Next]_vars => Ownership' /\ Locals'
<1> SUFFICES ASSUME TypeOK, Ownership, Locals, [Next]_vars PROVE Ownership' /\ Locals'
  OBVIOUS
<1> USE UbusAssumption DEF TypeOK, Ownership, Locals, Block, Reply, Member
<1>1. CASE UNCHANGED caller
  BY <1>1 DEF caller
<1>2. CASE Begin \/ LookupSend \/ LookupFails \/ UbusdAnswers \/ Invoke
  BY <1>2 DEF Begin, LookupSend, LookupFails, UbusdAnswers, LookupNotFound, LookupId, Invoke
<1>3. CASE InvokeReturns \/ InvokeFails
  BY <1>3 DEF InvokeReturns, InvokeFails
<1>4. CASE RecvCallReply
  BY <1>4 DEF RecvCallReply
<1>5. CASE OptionOut
  BY <1>5 DEF OptionOut
<1>6. CASE Return
  BY <1>6 DEF Return
<1>7. QED
  BY <1>1, <1>2, <1>3, <1>4, <1>5, <1>6
     DEF Next, Call, ProviderStarts, DatumChanges, ProviderDies, ProviderReplies,
         ProviderDone, ConnectionLost, Connect, Ignore, vars

\* Every step keeps the numbering of requests and messages: only Invoke makes
\* a new number, only the provider's requests are answered.
LEMMA NumberedStep == TypeOK /\ Numbered /\ [Next]_vars => Numbered'
<1> SUFFICES ASSUME TypeOK, Numbered, [Next]_vars PROVE Numbered'
  OBVIOUS
<1> USE DEF TypeOK, Numbered, Sent
<1>0. \A i \in DOMAIN wire : wire[i].seq \in Nat
  BY WireTyped
<1>1. CASE ProviderStarts \/ DatumChanges \/ ProviderDies \/ ConnectionLost \/ Connect
  <2>1. CASE ProviderStarts \/ DatumChanges
    BY <2>1, UbusAssumption DEF ProviderStarts, DatumChanges, caller
  <2>2. CASE ProviderDies
    BY <2>2 DEF ProviderDies, caller
  <2>3. CASE ConnectionLost
    <3>1. wire' = <<>> /\ asked' = {} /\ DOMAIN wire' = {}
      BY <2>3 DEF ConnectionLost
    <3>2. QED
      BY <3>1
  <2>4. CASE Connect
    BY <2>4 DEF Connect, caller
  <2>5. QED
    BY <1>1, <2>1, <2>2, <2>3, <2>4
<1>2. ASSUME NEW r \in asked, ProviderReplies(r) PROVE Numbered'
  <2>1. PICK body \in {datum, Missing, Wrong} : wire' = Append(wire, [seq |-> r.seq, body |-> body])
    BY <1>2 DEF ProviderReplies
  <2>2. body \notin {"ok", "failed"} /\ [seq |-> r.seq, body |-> body] \in Message
    BY UbusAssumption DEF Message, Reply, Member
  <2>3. /\ asked' = (asked \ {r}) \cup {[seq |-> r.seq, sent |-> r.sent + 1]}
        /\ UNCHANGED <<seq, link, datum>>
    BY <1>2 DEF ProviderReplies, caller
  <2>4. /\ \A s \in asked' : s.seq <= seq /\ datum # None /\ \E t \in asked : t.seq = s.seq
        /\ \A s, t \in asked' : s.seq = t.seq => s = t
    BY <2>3
  <2>5. \A i \in DOMAIN wire' : wire'[i].seq <= seq
    BY <2>1, <2>2, WireSent
  <2>6. ASSUME NEW i \in DOMAIN wire', wire'[i].seq = seq, wire'[i].body \in {"ok", "failed"}
        PROVE  /\ \A s \in asked' : s.seq # seq
               /\ \A j \in DOMAIN wire' : j > i => wire'[j].seq # seq
    <3>1. i \in DOMAIN wire /\ wire[i] = wire'[i]
      BY <2>1, <2>2, <2>6, WireSent
    <3>2. /\ \A t \in asked : t.seq # seq
          /\ \A j \in DOMAIN wire : j > i => wire[j].seq # seq
      BY <2>6, <3>1
    <3>3. QED
      BY <2>1, <2>2, <2>4, <3>2, WireSent
  <2>7. QED
    BY <2>3, <2>4, <2>5, <2>6
<1>3. ASSUME NEW r \in asked, ProviderDone(r) PROVE Numbered'
  <2>1. PICK status \in {"ok", "failed"} :
               wire' = Append(wire, [seq |-> r.seq, body |-> status])
    BY <1>3 DEF ProviderDone
  <2>2. [seq |-> r.seq, body |-> status] \in Message
    BY DEF Message
  <2>3. asked' = asked \ {r} /\ UNCHANGED <<seq, link, datum>>
    BY <1>3 DEF ProviderDone, caller
  <2>4. \A i \in DOMAIN wire' : wire'[i].seq <= seq
    BY <2>1, <2>2, WireSent
  <2>5. ASSUME NEW i \in DOMAIN wire', wire'[i].seq = seq, wire'[i].body \in {"ok", "failed"}
        PROVE  /\ \A s \in asked' : s.seq # seq
               /\ \A j \in DOMAIN wire' : j > i => wire'[j].seq # seq
    <3>1. CASE i \in DOMAIN wire /\ wire[i] = wire'[i]
      BY <2>1, <2>2, <2>3, <2>5, <3>1, WireSent
    <3>2. CASE i = Len(wire) + 1
      <4>1. r.seq = seq
        BY <2>1, <2>2, <2>5, <3>2, WireSent
      <4>2. \A j \in DOMAIN wire' : ~(j > i)
        BY <2>1, <2>2, <3>2, WireSent
      <4>3. QED
        BY <2>3, <4>1, <4>2
    <3>3. QED
      BY <2>1, <2>2, <3>1, <3>2, WireSent
  <2>6. QED
    BY <2>3, <2>4, <2>5
<1>4. CASE Begin \/ LookupSend \/ LookupFails \/ UbusdAnswers \/ InvokeFails \/ OptionOut \/ Return
  BY <1>4 DEF Begin, LookupSend, LookupFails, UbusdAnswers, LookupNotFound, LookupId, InvokeFails,
                OptionOut, Return, bus
<1>5. CASE Invoke
  <2>1. seq' = seq + 1 /\ UNCHANGED <<link, datum>> /\ link = "up"
    BY <1>5 DEF Invoke
  <2>2. CASE datum # None /\ asked' = asked \cup {[seq |-> seq', sent |-> 0]} /\ wire' = wire
    BY <1>0, <2>1, <2>2
  <2>3. CASE wire' = Append(wire, [seq |-> seq', body |-> "failed"]) /\ asked' = asked
    <3>1. [seq |-> seq', body |-> "failed"] \in Message
      BY <2>1 DEF Message
    <3>2. \A i \in DOMAIN wire' : wire'[i].seq <= seq' /\ (wire'[i].seq = seq' => i = Len(wire) + 1)
      BY <1>0, <2>1, <2>3, <3>1, WireSent
    <3>3. \A i, j \in DOMAIN wire' : i = Len(wire) + 1 => ~(j > i)
      BY <2>3, <3>1, WireSent
    <3>4. \A t \in asked' : t.seq <= seq' /\ t.seq # seq' /\ datum' # None
      BY <2>1, <2>3
    <3>5. QED
      BY <2>1, <2>3, <3>2, <3>3, <3>4
  <2>4. QED
    BY <1>5, <2>2, <2>3 DEF Invoke
<1>6. CASE Ignore \/ RecvCallReply \/ InvokeReturns
  <2>1. wire # <<>> /\ wire' = Tail(wire) /\ UNCHANGED <<seq, asked, link, datum>>
    BY <1>6 DEF Ignore, RecvCallReply, InvokeReturns, caller
  <2>2. \A i \in DOMAIN wire' : wire'[i].seq <= seq
    BY <2>1, WireRead
  <2>3. ASSUME NEW i \in DOMAIN wire', wire'[i].seq = seq, wire'[i].body \in {"ok", "failed"}
        PROVE  /\ \A s \in asked' : s.seq # seq
               /\ \A j \in DOMAIN wire' : j > i => wire'[j].seq # seq
    <3>1. /\ i + 1 \in DOMAIN wire /\ wire'[i] = wire[i + 1]
          /\ \A j \in DOMAIN wire' : j + 1 \in DOMAIN wire /\ wire'[j] = wire[j + 1]
                                    /\ (j > i => j + 1 > i + 1)
      BY <2>1, WireRead
    <3>2. QED
      BY <2>1, <2>3, <3>1
  <2>4. QED
    BY <2>1, <2>2, <2>3
<1>7. CASE UNCHANGED vars
  BY <1>7 DEF vars, caller, bus
<1>8. QED
  BY <1>1, <1>2, <1>3, <1>4, <1>5, <1>6, <1>7 DEF Next, Call

\* Every step keeps what ties a call to the provider's last datum.
LEMMA FreshStep == TypeOK /\ Locals /\ Numbered /\ Fresh /\ [Next]_vars => Fresh'
<1> SUFFICES ASSUME TypeOK, Locals, Numbered, Fresh, [Next]_vars PROVE Fresh'
  OBVIOUS
<1> USE UbusAssumption DEF TypeOK, Fresh, Sent
<1>1. CASE ProviderStarts \/ DatumChanges \/ ProviderDies \/ ConnectionLost \/ Connect
  BY <1>1 DEF ProviderStarts, DatumChanges, ProviderDies, ConnectionLost, Connect, caller
<1>2. ASSUME NEW r \in asked, ProviderReplies(r) PROVE Fresh'
  <2>1. PICK body \in {datum, Missing, Wrong} :
               /\ wire' = Append(wire, [seq |-> r.seq, body |-> body])
               /\ reading' = IF pc = "wait" /\ r.seq = seq /\ body = datum
                            THEN datum ELSE reading
    BY <1>2 DEF ProviderReplies
  <2>2. UNCHANGED <<pc, seq, link, result, value>> /\ datum \in Value
    BY <1>2 DEF ProviderReplies, caller, Numbered
  <2>3. [seq |-> r.seq, body |-> body] \in Message
    BY <2>2 DEF Message, Reply, Member
  <2>4. CASE pc = "wait" /\ link = "up"
    <3>1. CASE r.seq = seq /\ body = datum
      <4>1. /\ Len(wire) + 1 \in DOMAIN wire' /\ wire'[Len(wire) + 1].seq = seq
            /\ wire'[Len(wire) + 1].body = datum /\ reading' = datum
            /\ \A i \in DOMAIN wire' : i = Len(wire) + 1 \/ Len(wire) + 1 > i
        BY <2>1, <2>3, <2>4, <3>1, WireSent
      <4>2. QED
        BY <2>2, <2>4, <4>1
    <3>2. CASE ~(r.seq = seq /\ body = datum)
      <4>1. reading' = reading
        BY <2>1, <3>2
      <4>2. ~(wire'[Len(wire) + 1].seq = seq /\ wire'[Len(wire) + 1].body \in Value)
        BY <2>1, <2>3, <3>2, WireSent
      <4>3. \A i \in DOMAIN wire' : wire'[i].seq = seq /\ wire'[i].body \in Value
                                    => i \in DOMAIN wire /\ wire[i] = wire'[i]
        BY <2>1, <2>3, <4>2, WireSent
      <4>4. \A i \in DOMAIN wire : i \in DOMAIN wire' /\ wire[i] = wire'[i]
        BY <2>1, <2>3, WireSent
      <4>5. QED
        BY <2>2, <2>4, <4>1, <4>3, <4>4
    <3>3. QED
      BY <3>1, <3>2
  <2>5. CASE ~(pc = "wait" /\ link = "up")
    <3>1. link = "up" /\ (pc # "wait" => reading' = reading)
      BY <2>1, <2>5 DEF Numbered
    <3>2. QED
      BY <2>2, <2>5, <3>1
  <2>6. QED
    BY <2>4, <2>5
<1>3. ASSUME NEW r \in asked, ProviderDone(r) PROVE Fresh'
  <2>1. PICK status \in {"ok", "failed"} :
               wire' = Append(wire, [seq |-> r.seq, body |-> status])
    BY <1>3 DEF ProviderDone
  <2>2. UNCHANGED <<pc, seq, link, result, value, reading>>
    BY <1>3 DEF ProviderDone, caller
  <2>3. [seq |-> r.seq, body |-> status] \in Message /\ status \notin Value
    BY DEF Message
  <2>4. \A i \in DOMAIN wire' : wire'[i].seq = seq /\ wire'[i].body \in Value
                                => i \in DOMAIN wire /\ wire[i] = wire'[i]
    BY <2>1, <2>3, WireSent
  <2>5. \A i \in DOMAIN wire : i \in DOMAIN wire' /\ wire[i] = wire'[i]
    BY <2>1, <2>3, WireSent
  <2>6. QED
    BY <2>2, <2>4, <2>5
<1>4. CASE Begin \/ LookupSend \/ LookupFails \/ UbusdAnswers \/ InvokeFails
  BY <1>4 DEF Begin, LookupSend, LookupFails, UbusdAnswers, LookupNotFound, LookupId, InvokeFails, bus
<1>5. CASE Invoke
  <2>1. pc' = "wait" /\ seq' = seq + 1 /\ UNCHANGED <<result, reading>> /\ result = None
    BY <1>5 DEF Invoke, Locals
  <2>2. \A i \in DOMAIN wire' : ~(wire'[i].seq = seq' /\ wire'[i].body \in Value)
    <3>1. \A i \in DOMAIN wire : wire[i].seq <= seq /\ wire[i].seq \in Nat
      BY WireTyped DEF Numbered
    <3>2. [seq |-> seq', body |-> "failed"] \in Message /\ "failed" \notin Value
      BY <2>1 DEF Message
    <3>3. wire' = wire \/ wire' = Append(wire, [seq |-> seq', body |-> "failed"])
      BY <1>5 DEF Invoke
    <3>4. CASE wire' = wire
      BY <2>1, <3>1, <3>4
    <3>5. CASE wire' = Append(wire, [seq |-> seq', body |-> "failed"])
      BY <2>1, <3>1, <3>2, <3>5, WireSent
    <3>6. QED
      BY <3>3, <3>4, <3>5
  <2>3. QED
    BY <2>1, <2>2
<1>6. CASE Ignore
  <2>1. wire # <<>> /\ wire' = Tail(wire) /\ (pc = "wait" => wire[1].seq # seq)
    BY <1>6 DEF Ignore
  <2>2. UNCHANGED <<pc, seq, link, result, value, reading>> /\ pc \in {"idle", "asking", "wait"}
    BY <1>6 DEF Ignore, caller
  <2>3. \A i \in DOMAIN wire' : i + 1 \in DOMAIN wire /\ wire'[i] = wire[i + 1] /\ i \in Nat
    BY <2>1, WireRead
  <2>4. \A i \in DOMAIN wire : wire[i].seq = seq /\ pc = "wait"
                             => i - 1 \in DOMAIN wire' /\ wire'[i - 1] = wire[i]
    BY <2>1, WireRead
  <2>5. CASE pc = "wait" /\ link = "up"
    <3>1. ASSUME NEW i \in DOMAIN wire', Sent(i, Value)', \A j \in DOMAIN wire' : j > i => ~Sent(j, Value)'
          PROVE  wire'[i].body = reading
      <4>1. i + 1 \in DOMAIN wire /\ Sent(i + 1, Value) /\ wire'[i] = wire[i + 1]
        BY <2>2, <2>3, <3>1
      <4>2. ASSUME NEW j \in DOMAIN wire, j > i + 1, Sent(j, Value) PROVE FALSE
        <5>1. j - 1 \in DOMAIN wire' /\ wire'[j - 1] = wire[j] /\ j - 1 > i
          <6>1. j \in Nat /\ i + 1 \in Nat /\ i \in Nat
            BY <4>1, <4>2, WireTyped, <2>3
          <6>2. QED
            BY <2>4, <2>5, <4>2, <6>1
        <5>2. QED
          BY <2>2, <3>1, <4>2, <5>1
      <4>3. QED
        BY <2>5, <4>1, <4>2
    <3>2. (\A i \in DOMAIN wire' : ~Sent(i, Value)') => \A i \in DOMAIN wire : ~Sent(i, Value)
      BY <2>2, <2>4, <2>5
    <3>3. QED
      BY <2>2, <2>5, <3>1, <3>2
  <2>6. CASE ~(pc = "wait" /\ link = "up")
    BY <2>2, <2>6
  <2>7. QED
    BY <2>5, <2>6
<1>7. CASE RecvCallReply
  <2>1. /\ wire # <<>> /\ wire' = Tail(wire)
        /\ wire[1].seq = seq /\ wire[1].body \in Reply
        /\ result' \in {wire[1].body, None}
        /\ UNCHANGED <<pc, seq, link, value, reading>> /\ pc = "wait"
    BY <1>7 DEF RecvCallReply
  <2>2. link = "up"
    BY <2>1 DEF Numbered
  <2>3. /\ 1 \in DOMAIN wire
        /\ \A i \in DOMAIN wire' : i + 1 \in DOMAIN wire /\ wire'[i] = wire[i + 1] /\ i \in Nat
        /\ \A i \in DOMAIN wire : i # 1 => i - 1 \in DOMAIN wire' /\ wire'[i - 1] = wire[i]
    BY <2>1, WireRead
  <2>4. ASSUME NEW i \in DOMAIN wire', Sent(i, Value)', \A j \in DOMAIN wire' : j > i => ~Sent(j, Value)'
        PROVE  wire'[i].body = reading
    <3>1. i + 1 \in DOMAIN wire /\ Sent(i + 1, Value) /\ wire'[i] = wire[i + 1]
      BY <2>1, <2>3, <2>4
    <3>2. ASSUME NEW j \in DOMAIN wire, j > i + 1, Sent(j, Value) PROVE FALSE
      <4>1. j - 1 \in DOMAIN wire' /\ wire'[j - 1] = wire[j] /\ j - 1 > i
        BY <2>3, <3>2
      <4>2. QED
        BY <2>1, <2>4, <3>2, <4>1
    <3>3. QED
      BY <2>1, <2>2, <3>1, <3>2
  <2>5. ASSUME \A i \in DOMAIN wire' : ~Sent(i, Value)', result' \in Value
        PROVE  result' = reading
    <3>1. Sent(1, Value) /\ result' = wire[1].body
      BY <2>1, <2>5
    <3>2. ASSUME NEW j \in DOMAIN wire, j > 1 PROVE ~Sent(j, Value)
      <4>1. j - 1 \in DOMAIN wire' /\ wire'[j - 1] = wire[j]
        BY <2>3, <3>2
      <4>2. ~Sent(j - 1, Value)'
        BY <2>5, <4>1
      <4>3. QED
        BY <2>1, <4>1, <4>2
    <3>3. QED
      BY <2>1, <2>2, <2>3, <3>1, <3>2
  <2>6. QED
    BY <2>1, <2>4, <2>5
<1>8. CASE InvokeReturns
  <2>1. /\ wire # <<>> /\ pc = "wait" /\ Sent(1, {"ok", "failed"})
        /\ pc' \in {"got", "failed"}
        /\ UNCHANGED <<seq, link, result, value, reading>>
    BY <1>8 DEF InvokeReturns
  <2>2. 1 \in DOMAIN wire /\ link = "up"
    BY <2>1 DEF Numbered
  <2>3. \A i \in DOMAIN wire : ~Sent(i, Value)
    <3>1. \A j \in DOMAIN wire : j > 1 => wire[j].seq # seq
      BY <2>1, <2>2 DEF Numbered
    <3>2. wire[1].body \notin Value
      BY <2>1
    <3>3. QED
      BY <3>1, <3>2
  <2>4. QED
    BY <2>1, <2>2, <2>3
<1>9. CASE OptionOut
  BY <1>9 DEF OptionOut, bus, Member
<1>10. CASE Return
  BY <1>10 DEF Return, bus
<1>11. CASE UNCHANGED vars
  BY <1>11 DEF vars, caller, bus
<1>12. QED
  BY <1>1, <1>2, <1>3, <1>4, <1>5, <1>6, <1>7, <1>8, <1>9, <1>10, <1>11 DEF Next, Call

-----------------------------------------------------------------------------
\* The inductive invariant holds in every reachable state.
THEOREM CallInvariant == Spec => []IInv
<1>1. IInv /\ [Next]_vars => IInv'
  BY TypeStep, OwnershipStep, NumberedStep, FreshStep DEF IInv
<1>2. QED
  BY <1>1, InitInvariant, PTL DEF Spec

\* Every copy of a reply is freed exactly once, on every path, but for those
\* that a second reply overwrites.
THEOREM CopiesAreFreed == Spec => []Ownership
<1>1. IInv => Ownership
  BY DEF IInv
<1>2. QED
  BY <1>1, CallInvariant, PTL

\* A getter is an atomic reading of its provider, or its default: for any
\* number of late, repeated or missing replies, restarts and reconnections.
THEOREM CallImplementsGetter == Spec => ImplementsGetter
<1>1. Init => G!Init
  BY DEF Init, G!Init
<1>2. ASSUME IInv, [Next]_vars PROVE [G!Next]_(G!vars)
  <2> USE UbusAssumption DEF IInv, TypeOK, G!Next, G!vars, G!Change, G!Begin, G!Read, G!End
  <2>1. CASE ProviderStarts \/ DatumChanges \/ ProviderDies
    BY <1>2, <2>1 DEF ProviderStarts, DatumChanges, ProviderDies, caller
  <2>2. ASSUME NEW r \in asked, ProviderReplies(r) PROVE G!Read \/ UNCHANGED G!vars
    BY <1>2, <2>2 DEF ProviderReplies, caller
  <2>3. ASSUME NEW r \in asked, ProviderDone(r) PROVE UNCHANGED G!vars
    BY <2>3 DEF ProviderDone, caller
  <2>4. CASE ConnectionLost \/ Connect \/ Ignore
    BY <2>4 DEF ConnectionLost, Connect, Ignore, caller
  <2>5. CASE Begin
    BY <2>5 DEF Begin, bus
  <2>6. CASE LookupSend \/ LookupFails \/ UbusdAnswers \/ InvokeFails \/ OptionOut
    BY <2>6 DEF LookupSend, LookupFails, UbusdAnswers, LookupNotFound, LookupId, InvokeFails, OptionOut, bus
  <2>7. CASE Invoke \/ RecvCallReply \/ InvokeReturns
    BY <2>7 DEF Invoke, RecvCallReply, InvokeReturns
  <2>8. CASE Return
    BY <1>2, <2>8 DEF Return, bus, Fresh
  <2>9. CASE UNCHANGED vars
    BY <2>9 DEF vars, caller, bus
  <2>10. QED
    BY <1>2, <2>1, <2>2, <2>3, <2>4, <2>5, <2>6, <2>7, <2>8, <2>9 DEF Next, Call
<1>3. QED
  BY <1>1, <1>2, CallInvariant, PTL DEF Spec, ImplementsGetter, G!Spec
=============================================================================
