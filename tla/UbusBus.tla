------------------------------ MODULE UbusBus --------------------------------
(***************************************************************************)
(* What newplat shows of itself on the bus, src/src/serv_ubus.c: the table *)
(* of the methods it offers, the list of the events it wants, and          *)
(* ubus_connect_handler(), which hands both to libubus once, when ubusd is *)
(* reached for the first time.                                             *)
(*                                                                         *)
(* libubus retries that connection, and makes it again when it is lost; it *)
(* then offers every object again that ubusd had accepted, but does not    *)
(* repeat the registration of events, and does not call the handler.  One  *)
(* life of the process, whose main thread does all of this; ubusd may end  *)
(* between any two of the handler's exchanges with it, and may refuse any  *)
(* of them, for want of memory or because a name is in use.                *)
(***************************************************************************)
EXTENDS Naturals, Sequences, SequencesExt

CONSTANTS
  Method,  \* the methods the application may offer
  Event    \* the patterns of the events it may want

VARIABLES
  pc,         \* before main(), in main(), in the handler, in uloop_run()
  ubus_name,  \* whether ubus_name is set
  methods,    \* the table main_object_methods
  events,     \* event_list
  cursor,     \* e of the handler's loop, as a number
  up,         \* ubusd runs
  link,       \* the connection; "none" while ubus_ctx is NULL
  watched,    \* uloop watches the socket
  added,      \* libubus has main_object, since ubusd accepted it
  bus,        \* what ubusd has: the methods of newplat, its patterns
  refused,    \* history: the entries of event_list that were not registered
  unbroken    \* history: ubusd has not ended since the connection was made

vars == <<pc, ubus_name, methods, events, cursor, up, link, watched,
          added, bus, refused, unbroken>>

Unknown == [methods |-> {}, patterns |-> {}]

TypeOK ==
  /\ pc \in {"ctors", "main", "object", "events", "loop"}
  /\ ubus_name \in BOOLEAN
  /\ methods \in Seq(Method) /\ events \in Seq(Event)
  /\ cursor \in 1 .. Len(events) + 1
  /\ up \in BOOLEAN /\ watched \in BOOLEAN /\ added \in BOOLEAN /\ unbroken \in BOOLEAN
  /\ link \in {"none", "up", "broken", "down"}
  /\ bus \in [methods : SUBSET Method, patterns : SUBSET Event]
  /\ refused \subseteq 1 .. cursor - 1

Init ==
  /\ pc = "ctors"
  /\ ubus_name = FALSE
  /\ methods = <<>>
  /\ events = <<>> /\ cursor = 1
  /\ up \in BOOLEAN
  /\ link = "none" /\ watched = FALSE /\ added = FALSE
  /\ bus = Unknown
  /\ refused = {}
  /\ unbroken = FALSE

-----------------------------------------------------------------------------
\* The application adds before main(): REG_UBUS_METHOD makes constructors.
AddUbusMethod(name) ==
  /\ pc = "ctors"
  /\ name \notin ToSet(methods)
  /\ methods' = Append(methods, name)
  /\ UNCHANGED <<pc, ubus_name, events, cursor, up, link, watched, added, bus, refused, unbroken>>

RegUbusEvent(pattern) ==
  /\ pc = "ctors"
  /\ pattern \notin ToSet(events)
  /\ events' = Append(events, pattern)
  /\ UNCHANGED <<pc, ubus_name, methods, cursor, up, link, watched, added, bus, refused, unbroken>>

\* main(): strdup() of the name, which may fail.
SetUbusAppname ==
  /\ pc = "ctors"
  /\ pc' = "main"
  /\ ubus_name' \in BOOLEAN
  /\ UNCHANGED <<methods, events, cursor, up, link, watched, added, bus, refused, unbroken>>

\* The handler begins: ubus_ctx is set and ubus_add_uloop() called.  Mutated:
\* it is not.
HandlerUnwatched ==
  /\ link = "none" /\ up
  /\ link' = "up" /\ unbroken' = TRUE
  /\ UNCHANGED watched
  /\ pc' = "object"

Handler ==
  /\ link = "none" /\ up
  /\ link' = "up" /\ unbroken' = TRUE
  /\ watched' = TRUE
  /\ pc' = "object"

\* serv_ubus_init(), which main() does not check: without a name there is no
\* connection ever, else ubus_auto_connect() tries at once.
ServUbusInit ==
  /\ pc = "main"
  /\ \/ ubus_name /\ Handler
     \/ /\ ~ubus_name \/ ~up
        /\ pc' = "loop"
        /\ UNCHANGED <<link, watched, unbroken>>
  /\ UNCHANGED <<ubus_name, methods, events, cursor, up, added, bus, refused>>

\* libubus tries again from its timer.
Retry ==
  /\ pc = "loop" /\ ubus_name
  /\ Handler
  /\ UNCHANGED <<ubus_name, methods, events, cursor, up, added, bus, refused>>

\* ubus_add_object(get_main_object()), whose failure is not looked at.
AddObject ==
  /\ pc = "object"
  /\ added' \in IF link = "up" THEN BOOLEAN ELSE {FALSE}
  /\ bus' = IF added' THEN [bus EXCEPT !.methods = ToSet(methods)] ELSE bus
  /\ pc' = "events" /\ cursor' = 1 /\ refused' = {}
  /\ UNCHANGED <<ubus_name, methods, events, up, link, watched, unbroken>>

\* ubus_register_event_handler() for the next entry, not looked at either.
Register(ok) ==
  /\ ok => link = "up"
  /\ bus' = IF ok THEN [bus EXCEPT !.patterns = @ \cup {events[cursor]}] ELSE bus
  /\ refused' = IF ok THEN refused ELSE refused \cup {cursor}
  /\ cursor' = cursor + 1

\* The walk of event_list.  Mutated: it ends at an entry that is refused.
RegisterEventsStops ==
  /\ pc = "events"
  /\ \/ \E ok \in BOOLEAN :
          cursor <= Len(events) /\ Register(ok) /\ pc' = IF ok THEN pc ELSE "loop"
     \/ cursor > Len(events) /\ pc' = "loop" /\ UNCHANGED <<bus, cursor, refused>>
  /\ UNCHANGED <<ubus_name, methods, events, up, link, watched, added, unbroken>>

RegisterEvents ==
  /\ pc = "events"
  /\ \/ \E ok \in BOOLEAN : cursor <= Len(events) /\ Register(ok) /\ UNCHANGED pc
     \/ cursor > Len(events) /\ pc' = "loop" /\ UNCHANGED <<bus, cursor, refused>>
  /\ UNCHANGED <<ubus_name, methods, events, up, link, watched, added, unbroken>>

-----------------------------------------------------------------------------
UbusdStarts ==
  /\ ~up
  /\ up' = TRUE
  /\ UNCHANGED <<pc, ubus_name, methods, events, cursor, link, watched,
                 added, bus, refused, unbroken>>

UbusdEnds ==
  /\ up
  /\ up' = FALSE
  /\ link' = IF link = "up" THEN "broken" ELSE link
  /\ bus' = Unknown /\ unbroken' = FALSE
  /\ UNCHANGED <<pc, ubus_name, methods, events, cursor, watched, added, refused>>

\* uloop sees the end of the socket, and libubus starts its timer.
LossSeen ==
  /\ pc = "loop"
  /\ link = "broken" /\ watched
  /\ link' = "down"
  /\ UNCHANGED <<pc, ubus_name, methods, events, cursor, up, watched,
                 added, bus, refused, unbroken>>

\* ubus_reconnect() offers main_object again, with the methods it points to; if
\* it is refused this time, libubus has forgotten it.
Reconnect ==
  /\ pc = "loop"
  /\ link = "down" /\ up
  /\ link' = "up"
  /\ added' \in IF added THEN BOOLEAN ELSE {FALSE}
  /\ bus' = IF added' THEN [bus EXCEPT !.methods = ToSet(methods)] ELSE bus
  /\ UNCHANGED <<pc, ubus_name, methods, events, cursor, up, watched, refused, unbroken>>

-----------------------------------------------------------------------------
Newplat ==
  \/ SetUbusAppname
  \/ ServUbusInit
  \/ Retry
  \/ AddObject
  \/ RegisterEvents
  \/ LossSeen
  \/ Reconnect

Next ==
  \/ \E name \in Method : AddUbusMethod(name)
  \/ \E pattern \in Event : RegUbusEvent(pattern)
  \/ Newplat
  \/ UbusdStarts
  \/ UbusdEnds

Spec == Init /\ [][Next]_vars

\* The main thread goes on, uloop runs libubus's timer and looks at the
\* sockets it watches; nothing is assumed of ubusd or of the application.
FairSpec == Spec /\ WF_vars(Newplat)

-----------------------------------------------------------------------------
(***************************************************************************)
(* Properties.                                                             *)
(***************************************************************************)

\* The patterns of the entries before the n-th that were registered.
Registered(n) == {events[i] : i \in (1 .. n - 1) \ refused}

\* No result of the handler's calls is read, and a refusal costs what was
\* refused and nothing else: as long as ubusd lives that was there when the
\* handler began, it has every pattern but those it refused, and at any time
\* it has every method, unless it or an earlier one has refused main_object
\* (and the types).
Offered ==
  /\ TypeOK
  /\ pc = "loop" /\ link = "up" =>
       /\ unbroken => bus.patterns = Registered(Len(events) + 1)
       /\ bus.methods = IF added THEN ToSet(methods) ELSE {}

\* The connection while the process is not in uloop_run(): none before the
\* handler, and during it the one it began with or what is left of that.
Connected ==
  /\ pc \in {"ctors", "main"} => link = "none"
  /\ pc \in {"object", "events"} => link \in {"up", "broken"}
  /\ link # "up" => bus = Unknown
  /\ link = "none" => ~added
  /\ unbroken => link = "up"

\* What ubusd has while the handler runs, as long as nothing was lost.
Progress ==
  /\ pc = "object" => (link = "up" => bus = Unknown /\ unbroken)
  /\ pc = "events" /\ link = "up" =>
       /\ unbroken
       /\ bus.methods = IF added THEN ToSet(methods) ELSE {}
       /\ bus.patterns = Registered(cursor)

\* The inductive invariant: the handler's walk as well as its result.
IInv == Offered /\ Connected /\ Progress

\* ubus_add_uloop() in the handler: if ubusd runs for good from some time on,
\* a process with a name is connected for good, whatever was lost before.
Connects == <>[](up /\ ubus_name) => <>[](link = "up")
=============================================================================
