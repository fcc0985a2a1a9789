----------------------------- MODULE UbusProofs -------------------------------
(***************************************************************************)
(* Proofs about two parts of serv_ubus.c that share no state: UbusString,  *)
(* for a char of any width and strings of any length, and UbusBus, for     *)
(* every set of methods and of events, where what was registered before    *)
(* main() is what ubusd has been told.                                     *)
(***************************************************************************)
EXTENDS UbusString, UbusBus, TLAPS

-----------------------------------------------------------------------------
(***************************************************************************)
(* UbusString.                                                             *)
(***************************************************************************)

\* A length cut to a char is a char, is no greater, and is the same when it
\* fits.
LEMMA CutLength ==
  ASSUME NEW n \in Nat
  PROVE  /\ n % CharMod \in 0 .. CharMod - 1
         /\ n % CharMod <= n
         /\ n < CharMod => n % CharMod = n
  BY CharAssumption, Z3

\* The initial state satisfies the inductive invariant.
LEMMA StringBegins == StringInit => StringIInv
  BY CharAssumption
     DEF StringInit, StringIInv, StringTypeOK, InBounds, ShortIsExact, NothingStale,
         EmptyWhenZero, BlankInCall, StoreFits, Results

\* Every step preserves the inductive invariant.
LEMMA StringSteps == StringIInv /\ [StringNext]_stringVars => StringIInv'
<1> SUFFICES ASSUME StringIInv, [StringNext]_stringVars PROVE StringIInv'
  OBVIOUS
<1> USE CharAssumption
    DEF StringIInv, StringTypeOK, InBounds, ShortIsExact, NothingStale, EmptyWhenZero,
        BlankInCall, StoreFits, Results
<1>1. CASE Enter
  \* a size of 0 clears nothing, but then the buffer was empty already
  <2>1. alloc' > 0 /\ byte0' = "nul"
    BY <1>1 DEF Enter
  <2>2. QED
    BY <1>1, <2>1 DEF Enter
<1>2. CASE NoString
  BY <1>2 DEF NoString
<1>3. ASSUME NEW n \in Length, StringComes(n) PROVE StringIInv'
  <2>1. n \in Nat /\ n > 0
    OBVIOUS
  <2>2. /\ (n + 1) % CharMod \in 0 .. CharMod - 1
        /\ (n + 1) % CharMod <= n + 1
        /\ n + 1 < CharMod => (n + 1) % CharMod = n + 1
    BY <2>1, CutLength
  <2>3. CASE n >= size
    BY <1>3, <2>1, <2>2, <2>3 DEF StringComes
  <2>4. CASE n < size
    BY <1>3, <2>1, <2>4 DEF StringComes
  <2>5. QED
    BY <2>1, <2>3, <2>4
<1>4. CASE Store
  <2>1. reply \in Nat /\ size \in Nat
    BY <1>4 DEF Store
  <2>2. CASE size = 0
    BY <1>4, <2>2 DEF Store
  <2>3. CASE size > 0 /\ reply < size
    BY <1>4, <2>1, <2>3 DEF Store
  <2>4. CASE size > 0 /\ reply >= size
    BY <1>4, <2>1, <2>4 DEF Store
  <2>5. QED
    BY <2>1, <2>2, <2>3, <2>4
<1>5. CASE UNCHANGED stringVars
  BY <1>5 DEF stringVars
<1>6. QED
  BY <1>1, <1>2, <1>3, <1>4, <1>5 DEF StringNext

\* The inductive invariant holds in every reachable state.
THEOREM StringInvariant == StringSpec => []StringIInv
  BY StringBegins, StringSteps, PTL DEF StringSpec

\* ubus_get_string() never writes beyond its buffer.
THEOREM BufferInBounds == StringSpec => []InBounds
<1>1. StringIInv => InBounds
  BY DEF StringIInv
<1>2. QED
  BY <1>1, StringInvariant, PTL

\* A string that fits a char with its NUL is returned as it came, after any
\* history of the buffer.
THEOREM ShortStringsAreExact == StringSpec => []ShortIsExact
<1>1. StringIInv => ShortIsExact
  BY DEF StringIInv
<1>2. QED
  BY <1>1, StringInvariant, PTL

\* A call that gets no string never returns an earlier one.
THEOREM NoStaleString == StringSpec => []NothingStale
<1>1. StringIInv => NothingStale
  BY DEF StringIInv
<1>2. QED
  BY <1>1, StringInvariant, PTL

-----------------------------------------------------------------------------
(***************************************************************************)
(* UbusBus.                                                                *)
(***************************************************************************)

\* A process begins with nothing registered and no connection.
LEMMA BusInit == Init => IInv
<1> SUFFICES ASSUME Init PROVE IInv
  OBVIOUS
<1>1. methods \in Seq(Method) /\ events \in Seq(Event) /\ cursor \in 1 .. Len(events) + 1
  BY DEF Init
<1>2. TypeOK
  BY <1>1 DEF Init, TypeOK, Unknown
<1>3. QED
  BY <1>2 DEF Init, IInv, Offered, Connected, Progress

\* One turn of the walk adds one entry to those behind it, and no pattern
\* unless it was accepted.
LEMMA WalkGoesOn ==
  ASSUME NEW S, NEW s \in Seq(S), NEW n \in 1 .. Len(s), NEW R \in SUBSET (1 .. n - 1)
  PROVE  /\ s[n] \in S /\ n + 1 \in 1 .. Len(s) + 1
         /\ R \cup {n} \subseteq 1 .. (n + 1) - 1 /\ R \subseteq 1 .. (n + 1) - 1
         /\ {s[i] : i \in (1 .. n - 1) \ R} \cup {s[n]} = {s[i] : i \in (1 .. (n + 1) - 1) \ R}
         /\ {s[i] : i \in (1 .. n - 1) \ R} = {s[i] : i \in (1 .. (n + 1) - 1) \ (R \cup {n})}
<1>1. s[n] \in S /\ n + 1 \in 1 .. Len(s) + 1
  OBVIOUS
<1>2. \A i : i \in 1 .. (n + 1) - 1 <=> i \in 1 .. n - 1 \/ i = n
  OBVIOUS
<1>3. n \notin 1 .. n - 1
  OBVIOUS
<1>4. (1 .. (n + 1) - 1) \ R = ((1 .. n - 1) \ R) \cup {n}
  BY <1>2, <1>3
<1>5. (1 .. (n + 1) - 1) \ (R \cup {n}) = (1 .. n - 1) \ R
  BY <1>2, <1>3
<1>6. R \cup {n} \subseteq 1 .. (n + 1) - 1 /\ R \subseteq 1 .. (n + 1) - 1
  BY <1>2
<1>7. QED
  BY <1>1, <1>4, <1>5, <1>6

\* Every step keeps the inductive invariant.
LEMMA BusStep == IInv /\ [Next]_vars => IInv'
<1> SUFFICES ASSUME IInv, [Next]_vars PROVE IInv'
  OBVIOUS
<1> USE DEF IInv, Offered, TypeOK, Connected, Progress, Registered
<1>1. ASSUME NEW name \in Method, AddUbusMethod(name) PROVE IInv'
  <2>1. methods' \in Seq(Method)
    BY <1>1 DEF AddUbusMethod
  <2>2. QED
    BY <1>1, <2>1 DEF AddUbusMethod
<1>2. ASSUME NEW pattern \in Event, RegUbusEvent(pattern) PROVE IInv'
  <2>1. events' \in Seq(Event) /\ cursor \in 1 .. Len(events') + 1
    BY <1>2 DEF RegUbusEvent
  <2>2. QED
    BY <1>2, <2>1 DEF RegUbusEvent
<1>3. CASE SetUbusAppname
  BY <1>3 DEF SetUbusAppname
<1>4. CASE ServUbusInit
  <2>1. CASE ubus_name /\ Handler
    BY <1>4, <2>1 DEF ServUbusInit, Handler
  <2>2. CASE pc' = "loop" /\ UNCHANGED <<link, watched, unbroken>>
    BY <1>4, <2>2 DEF ServUbusInit
  <2>3. QED
    BY <1>4, <2>1, <2>2 DEF ServUbusInit
<1>5. CASE Retry
  BY <1>5 DEF Retry, Handler
<1>6. CASE AddObject
  <2>1. ToSet(methods) \in SUBSET Method
    BY DEF ToSet
  <2>2. /\ pc' = "events" /\ cursor' = 1 /\ refused' = {} /\ added' \in BOOLEAN
        /\ UNCHANGED <<ubus_name, methods, events, up, link, watched, unbroken>>
    BY <1>6 DEF AddObject
  <2>3. TypeOK'
    <3>1. 1 \in 1 .. Len(events) + 1
      OBVIOUS
    <3>2. bus' \in [methods : SUBSET Method, patterns : SUBSET Event]
      BY <1>6, <2>1 DEF AddObject
    <3>3. QED
      BY <2>2, <3>1, <3>2
  <2>4. CASE link = "up"
    <3>1. bus = [methods |-> {}, patterns |-> {}] /\ unbroken
      BY <1>6, <2>4 DEF AddObject, Unknown
    <3>2. bus' = [methods |-> IF added' THEN ToSet(methods) ELSE {}, patterns |-> {}]
      BY <1>6, <2>4, <3>1 DEF AddObject
    <3>3. Registered(cursor)' = {}
      BY <2>2
    <3>4. Progress'
      BY <2>2, <3>1, <3>2, <3>3
    <3>5. QED
      BY <2>2, <2>3, <2>4, <3>4
  <2>5. CASE link # "up"
    <3>1. link = "broken"
      BY <1>6, <2>5 DEF AddObject
    <3>2. added' = FALSE /\ bus' = bus
      BY <1>6, <2>5 DEF AddObject
    <3>3. QED
      BY <2>2, <2>3, <3>1, <3>2
  <2>6. QED
    BY <2>4, <2>5
<1>7. CASE RegisterEvents
  <2>1. ASSUME NEW ok \in BOOLEAN, cursor <= Len(events), Register(ok), UNCHANGED pc
        PROVE  IInv'
    <3>1. /\ events[cursor] \in Event /\ cursor + 1 \in 1 .. Len(events) + 1
          /\ refused \cup {cursor} \subseteq 1 .. (cursor + 1) - 1
          /\ refused \subseteq 1 .. (cursor + 1) - 1
          /\ Registered(cursor) \cup {events[cursor]}
               = {events[i] : i \in (1 .. (cursor + 1) - 1) \ refused}
          /\ Registered(cursor)
               = {events[i] : i \in (1 .. (cursor + 1) - 1) \ (refused \cup {cursor})}
      <4>1. events \in Seq(Event) /\ cursor \in 1 .. Len(events) /\ refused \in SUBSET (1 .. cursor - 1)
        BY <2>1
      <4>2. QED
        BY <4>1, WalkGoesOn DEF Registered
    <3>2. /\ pc = "events" /\ pc' = pc /\ cursor' = cursor + 1
          /\ UNCHANGED <<ubus_name, methods, events, up, link, watched, added, unbroken>>
      BY <1>7, <2>1 DEF RegisterEvents, Register
    <3>3. /\ bus'.methods = bus.methods
          /\ bus'.patterns = bus.patterns \cup (IF ok THEN {events[cursor]} ELSE {})
          /\ bus' \in [methods : SUBSET Method, patterns : SUBSET Event]
          /\ refused' = IF ok THEN refused ELSE refused \cup {cursor}
      BY <2>1, <3>1 DEF Register
    <3>4. TypeOK'
      BY <3>1, <3>2, <3>3
    <3>5. bus.patterns = Registered(cursor) => bus'.patterns = Registered(cursor)'
      BY <3>1, <3>2, <3>3 DEF Registered
    <3>6. Progress'
      BY <3>2, <3>3, <3>5
    <3>7. link # "up" => bus' = bus
      BY <2>1 DEF Register
    <3>8. QED
      BY <3>2, <3>4, <3>6, <3>7
  <2>2. CASE cursor > Len(events) /\ pc' = "loop" /\ UNCHANGED <<bus, cursor, refused>>
    <3>1. cursor = Len(events) + 1
      BY <2>2
    <3>2. UNCHANGED <<ubus_name, methods, events, up, link, watched, added, unbroken>> /\ pc = "events"
      BY <1>7 DEF RegisterEvents
    <3>3. QED
      BY <2>2, <3>1, <3>2
  <2>3. QED
    BY <1>7, <2>1, <2>2 DEF RegisterEvents
<1>8. CASE UbusdStarts
  BY <1>8 DEF UbusdStarts
<1>9. CASE UbusdEnds
  BY <1>9 DEF UbusdEnds, Unknown
<1>10. CASE LossSeen
  BY <1>10 DEF LossSeen
<1>11. CASE Reconnect
  <2>1. ToSet(methods) \in SUBSET Method
    BY DEF ToSet
  <2>2. bus' \in [methods : SUBSET Method, patterns : SUBSET Event] /\ added' \in BOOLEAN
    BY <1>11, <2>1 DEF Reconnect
  <2>3. bus.methods = {} => bus'.methods = IF added' THEN ToSet(methods) ELSE {}
    BY <1>11 DEF Reconnect
  <2>4. bus.methods = {}
    BY <1>11 DEF Reconnect, Unknown
  <2>5. QED
    BY <1>11, <2>2, <2>3, <2>4 DEF Reconnect
<1>12. CASE UNCHANGED vars
  BY <1>12 DEF vars
<1>13. QED
  BY <1>1, <1>2, <1>3, <1>4, <1>5, <1>6, <1>7, <1>8, <1>9, <1>10, <1>11, <1>12 DEF Next, Newplat

-----------------------------------------------------------------------------
\* The connection and what ubusd has been told, in every reachable state, also
\* while the handler runs and whatever is refused.
THEOREM BusInvariant == Spec => []IInv
<1>1. Init => IInv
  BY BusInit
<1>2. IInv /\ [Next]_vars => IInv'
  BY BusStep
<1>3. QED
  BY <1>1, <1>2, PTL DEF Spec

\* ubus_connect_handler() looks at no result, and yet a refusal costs only what
\* was refused: the walk goes on behind it, and every method or none is there.
THEOREM RegisteredIsOffered == Spec => []Offered
<1>1. IInv => Offered
  BY DEF IInv
<1>2. QED
  BY <1>1, BusInvariant, PTL
=============================================================================
