------------------------------ MODULE UbusCall -------------------------------
(***************************************************************************)
(* One ubus getter of src/src/serv_ubus.c, called again and again:         *)
(* ubus_get_int() or ubus_get_string() down through ubus_get_option() and  *)
(* ubus_call() to libubus, with the reply callback recv_call_reply() and   *)
(* the two heap copies that the functions pass to each other.              *)
(*                                                                         *)
(* Around it: a provider (modem, uartd or system) that changes its datum,  *)
(* answers late, twice, without the member asked for or not at all, and    *)
(* restarts under a new object id; ubusd, which routes requests by id; and *)
(* a connection that is lost and made again by libubus.                    *)
(*                                                                         *)
(* All of newplat here is the main thread.  libubus keeps a reply only if  *)
(* it has the sequence number of the request that is being waited for.     *)
(***************************************************************************)
EXTENDS Naturals, Sequences

CONSTANTS
  Value,    \* the data a provider may have
  None,     \* NULL, the default, no datum
  Missing,  \* a reply without the member
  Wrong,    \* one whose member has another type
  MaxCalls, \* bound on the requests sent
  MaxIds,   \* bound on the object ids given out
  MaxWire   \* bound on a provider's messages that wait to be read

ASSUME UbusAssumption ==
  /\ {None, Missing, Wrong} \cap Value = {}
  /\ None # Missing /\ None # Wrong /\ Missing # Wrong
  /\ {"ok", "failed"} \cap (Value \cup {Missing, Wrong}) = {}
  /\ MaxCalls \in Nat
  /\ MaxIds \in Nat
  /\ MaxWire \in Nat

VARIABLES
  pc,       \* what the getter executes
  link,     \* ubus_ctx and its socket: "up" or "down"
  ids,      \* the number of object ids given out so far
  datum,    \* the provider's datum, None when there is no provider
  id,       \* in ubus_call(): the id that ubus_lookup_id() found, or 0
  seq,      \* the sequence number of the last request
  asked,    \* requests at the provider, each with the replies it has sent
  wire,     \* messages from ubusd that newplat has not read
  result,   \* result of ubus_get_option(): the copy of a reply
  value,    \* result of the getter: the copy of one member
  live,     \* heap blocks allocated and not freed
  repeats,  \* history: replies that came when there was a copy already
  reading,  \* history: the datum in the last reply made to this call
  answer    \* what the call returned

caller == <<pc, id, seq, result, value, live, repeats, answer>>
bus == <<link, ids, datum, asked, wire>>
vars == <<caller, bus, reading>>

Member == Value \cup {Wrong}
Reply == Member \cup {Missing}
Message == [seq : Nat, body : Reply \cup {"ok", "failed"}]

TypeOK ==
  /\ pc \in {"idle", "lookup", "asking", "invoke", "wait", "got", "failed", "return"}
  /\ link \in {"down", "up"}
  /\ ids \in Nat /\ id \in Nat /\ seq \in Nat
  /\ datum \in Value \cup {None}
  /\ asked \in SUBSET [seq : Nat, sent : 0 .. 2]
  /\ wire \in Seq(Message)
  /\ result \in Reply \cup {None}
  /\ value \in Member \cup {None}
  /\ live \in Nat /\ repeats \in Nat
  /\ reading \in Value \cup {None}
  /\ answer \in Value \cup {None}

Init ==
  /\ pc = "idle"
  /\ link = "down"
  /\ ids = 0 /\ id = 0 /\ seq = 0
  /\ datum = None
  /\ asked = {}
  /\ wire = <<>>
  /\ result = None /\ value = None
  /\ live = 0 /\ repeats = 0
  /\ reading = None
  /\ answer = None

-----------------------------------------------------------------------------
(***************************************************************************)
(* The provider, ubusd and the connection.                                 *)
(***************************************************************************)

\* The provider registers its object, and gets a new id.
ProviderStarts ==
  /\ datum = None
  /\ ids < MaxIds
  /\ ids' = ids + 1
  /\ datum' \in Value
  /\ UNCHANGED <<caller, link, asked, wire, reading>>

DatumChanges ==
  /\ datum # None
  /\ datum' \in Value
  /\ UNCHANGED <<caller, link, ids, asked, wire, reading>>

\* It ends, and nobody answers what it was asked.
ProviderDies ==
  /\ datum # None
  /\ datum' = None
  /\ asked' = {}
  /\ UNCHANGED <<caller, link, ids, wire, reading>>

\* Its method sends a reply, at any time after the request, once or twice.
ProviderReplies(r) ==
  /\ r.sent < 2
  /\ Len(wire) < MaxWire
  /\ asked' = (asked \ {r}) \cup {[seq |-> r.seq, sent |-> r.sent + 1]}
  /\ \E body \in {datum, Missing, Wrong} :
       /\ wire' = Append(wire, [seq |-> r.seq, body |-> body])
       /\ reading' = IF pc = "wait" /\ r.seq = seq /\ body = datum THEN datum ELSE reading
  /\ UNCHANGED <<caller, link, ids, datum>>

\* ... and returns, with a status.
ProviderDone(r) ==
  /\ Len(wire) < MaxWire
  /\ asked' = asked \ {r}
  /\ \E status \in {"ok", "failed"} :
       wire' = Append(wire, [seq |-> r.seq, body |-> status])
  /\ UNCHANGED <<caller, link, ids, datum, reading>>

ConnectionLost ==
  /\ link = "up"
  /\ link' = "down"
  /\ wire' = <<>>
  /\ asked' = {}
  /\ UNCHANGED <<caller, ids, datum, reading>>

\* libubus connects, from uloop and so never within a call.
Connect ==
  /\ pc = "idle"
  /\ link = "down"
  /\ link' = "up"
  /\ UNCHANGED <<caller, ids, datum, asked, wire, reading>>

-----------------------------------------------------------------------------
(***************************************************************************)
(* The call.                                                               *)
(***************************************************************************)

\* A getter is called: its pointers, and those of ubus_get_option(), start as
\* NULL (where Return left them).
Begin ==
  /\ pc = "idle"
  /\ seq < MaxCalls
  /\ pc' = "lookup"
  /\ answer' = None
  /\ UNCHANGED <<id, seq, result, value, live, repeats, bus, reading>>

\* ubus_lookup_id() asks ubusd for the object's id, and waits for the answer
\* without a timeout.
LookupSend ==
  /\ pc = "lookup"
  /\ link = "up"
  /\ pc' = "asking"
  /\ UNCHANGED <<id, seq, result, value, live, repeats, answer, bus, reading>>

\* There is no ubus_ctx or no connection, or it is lost meanwhile.
LookupFails ==
  /\ pc \in {"lookup", "asking"}
  /\ link = "down"
  /\ pc' = "failed"
  /\ UNCHANGED <<id, seq, result, value, live, repeats, answer, bus, reading>>

\* ubusd answers that there is no such object ...
LookupNotFound ==
  /\ pc = "asking"
  /\ link = "up" /\ datum = None
  /\ pc' = "failed"
  /\ UNCHANGED <<id, seq, result, value, live, repeats, answer, bus, reading>>

\* ... or with its id.
LookupId ==
  /\ pc = "asking"
  /\ link = "up" /\ datum # None
  /\ pc' = "invoke"
  /\ id' = ids
  /\ UNCHANGED <<seq, result, value, live, repeats, answer, bus, reading>>

\* ubus_invoke() sends the request; by now the id may be of an object that is
\* gone, which ubusd answers itself.
Invoke ==
  /\ pc = "invoke"
  /\ link = "up"
  /\ pc' = "wait"
  /\ seq' = seq + 1
  /\ id' = 0
  /\ IF datum # None /\ id = ids
     THEN asked' = asked \cup {[seq |-> seq', sent |-> 0]} /\ UNCHANGED wire
     ELSE wire' = Append(wire, [seq |-> seq', body |-> "failed"]) /\ UNCHANGED asked
  /\ UNCHANGED <<result, value, live, repeats, answer, link, ids, datum, reading>>

\* A message with another sequence number is an answer to an earlier call.
Ignore ==
  /\ pc \in {"idle", "asking", "wait"}
  /\ wire # <<>>
  /\ pc = "wait" => Head(wire).seq # seq
  /\ wire' = Tail(wire)
  /\ UNCHANGED <<caller, link, ids, datum, asked, reading>>

\* recv_call_reply(): blob_memdup(), which may fail, over what was there.
RecvCallReply ==
  /\ pc = "wait"
  /\ wire # <<>>
  /\ Head(wire).seq = seq /\ Head(wire).body \in Reply
  /\ \E copy \in {Head(wire).body, None} :
       /\ result' = copy
       /\ live' = IF copy = None THEN live ELSE live + 1
  /\ repeats' = IF result = None THEN repeats ELSE repeats + 1
  /\ wire' = Tail(wire)
  /\ UNCHANGED <<pc, id, seq, value, answer, link, ids, datum, asked, reading>>

\* The status of the request ends ubus_invoke() ...
InvokeReturns ==
  /\ pc = "wait"
  /\ wire # <<>>
  /\ Head(wire).seq = seq /\ Head(wire).body \in {"ok", "failed"}
  /\ pc' = IF Head(wire).body = "ok" THEN "got" ELSE "failed"
  /\ wire' = Tail(wire)
  /\ UNCHANGED <<id, seq, result, value, live, repeats, answer, link, ids, datum, asked, reading>>

\* ... and so do ubus_timeout and the loss of the connection.  Mutated: with
\* set_ubus_timeout(0) there is no timeout.
InvokeWaitsForEver ==
  /\ pc \in {"invoke", "wait"}
  /\ link = "down"
  /\ pc' = "failed"
  /\ UNCHANGED <<id, seq, result, value, live, repeats, answer, bus, reading>>

InvokeFails ==
  /\ pc = "wait" \/ (pc = "invoke" /\ link = "down")
  /\ pc' = "failed"
  /\ id' = 0
  /\ UNCHANGED <<seq, result, value, live, repeats, answer, bus, reading>>

\* The rest of ubus_get_option(): the member is copied, if the call went well
\* and it is there, and the reply is freed in any case.  Mutated: the failed
\* call jumps over the free().
OptionOutEarly ==
  /\ pc \in {"got", "failed"}
  /\ pc' = "return"
  /\ value' \in IF pc = "got" /\ result \in Member THEN {result, None} ELSE {None}
  /\ live' = live + (IF value' = None THEN 0 ELSE 1)
                  - (IF result = None \/ pc = "failed" THEN 0 ELSE 1)
  /\ UNCHANGED <<id, seq, result, repeats, answer, bus, reading>>

OptionOut ==
  /\ pc \in {"got", "failed"}
  /\ pc' = "return"
  /\ value' \in IF pc = "got" /\ result \in Member THEN {result, None} ELSE {None}
  /\ live' = live + (IF value' = None THEN 0 ELSE 1) - (IF result = None THEN 0 ELSE 1)
  /\ UNCHANGED <<id, seq, result, repeats, answer, bus, reading>>

\* The getter reads the number or string out of its copy, or gives the default
\* for one of another type, and frees it in any case; the pointers go out of
\* scope.  Mutated: result is static, as the buffer of
\* ubus_get_string() is, and the next call starts with it.
ReturnStatic ==
  /\ pc = "return"
  /\ pc' = "idle"
  /\ answer' = IF value \in Value THEN value ELSE None
  /\ live' = IF value = None THEN live ELSE live - 1
  /\ value' = None /\ reading' = None
  /\ UNCHANGED <<id, seq, result, repeats, bus>>

Return ==
  /\ pc = "return"
  /\ pc' = "idle"
  /\ answer' = IF value \in Value THEN value ELSE None
  /\ live' = IF value = None THEN live ELSE live - 1
  /\ result' = None /\ value' = None /\ reading' = None
  /\ UNCHANGED <<id, seq, repeats, bus>>

-----------------------------------------------------------------------------
Call ==
  \/ LookupSend
  \/ LookupFails
  \/ Invoke
  \/ RecvCallReply
  \/ InvokeReturns
  \/ InvokeFails
  \/ OptionOut
  \/ Return

UbusdAnswers == LookupNotFound \/ LookupId

Next ==
  \/ ProviderStarts
  \/ DatumChanges
  \/ ProviderDies
  \/ \E r \in asked : ProviderReplies(r) \/ ProviderDone(r)
  \/ ConnectionLost
  \/ Connect
  \/ Begin
  \/ Ignore
  \/ UbusdAnswers
  \/ Call

Spec == Init /\ [][Next]_vars

\* The main thread goes on with a call that it has begun, and its clock with
\* it; nothing is assumed of providers, of the connection or of ubusd, which may
\* never answer.
FairSpec == Spec /\ WF_vars(Call)

-----------------------------------------------------------------------------
(***************************************************************************)
(* Properties.                                                             *)
(***************************************************************************)

Block(p) == IF p = None THEN 0 ELSE 1

\* Both copies are freed exactly once on every path through ubus_call(),
\* ubus_get_option() and the getter, whether the call fails before, between
\* or after its replies.  What is lost are the copies that a second reply to
\* one call overwrites, one each, and nothing else.
Ownership ==
  live = repeats + CASE pc = "idle" -> 0
                     [] pc = "return" -> Block(value)
                     [] OTHER -> Block(result)

\* Which pointers are set when.
Locals ==
  /\ pc \in {"idle", "lookup", "asking", "invoke"} => result = None
  /\ pc # "return" => value = None
  /\ pc = "return" /\ value # None => value = result

\* Requests and messages carry the number of this request or an earlier one,
\* nothing follows the status of a request or the end of a connection.
Sent(i, body) == wire[i].seq = seq /\ wire[i].body \in body
Numbered ==
  /\ link = "down" => wire = <<>> /\ asked = {}
  /\ \A r \in asked : r.seq <= seq /\ datum # None
  /\ \A r, s \in asked : r.seq = s.seq => r = s
  /\ \A i \in DOMAIN wire : wire[i].seq <= seq
  /\ \A i \in DOMAIN wire : Sent(i, {"ok", "failed"}) =>
       /\ \A r \in asked : r.seq # seq
       /\ \A j \in DOMAIN wire : j > i => wire[j].seq # seq

\* The last datum sent to this call is what reading says: it is still under
\* way, or it has been taken over by recv_call_reply().
Fresh ==
  /\ pc = "wait" /\ link = "up" =>
       /\ \A i \in DOMAIN wire :
            Sent(i, Value) /\ (\A j \in DOMAIN wire : j > i => ~Sent(j, Value))
              => wire[i].body = reading
       /\ (\A i \in DOMAIN wire : ~Sent(i, Value)) /\ result \in Value
              => result = reading
  /\ pc = "got" /\ result \in Value => result = reading
  /\ pc = "return" => value \in {reading, Wrong, None}
  /\ pc \in {"idle", "lookup", "asking", "invoke"} => reading = None

\* The inductive invariant of the proofs.
IInv == TypeOK /\ Ownership /\ Locals /\ Numbered /\ Fresh

\* The getter is an atomic reading of the provider (see Getter): no answer to
\* an earlier call, from before a restart or from a lost connection is ever
\* returned.
G == INSTANCE Getter WITH calling <- pc # "idle"
ImplementsGetter == G!Spec

\* A getter comes back to mqtt_post_run(), whatever its provider and the
\* connection do, unless ubusd is asked for the object's id and keeps silent:
\* of the two exchanges only ubus_invoke() has a timeout.
CallReturns == pc # "idle" ~> (pc = "idle" \/ [](pc = "asking"))
=============================================================================
