------------------------------- MODULE Sample --------------------------------
(***************************************************************************)
(* The sample that mqtt_post_run() of src/src/json.c collects and          *)
(* cjson_creat_post_data() makes a message of: what Beat and Newplat have  *)
(* as the one step, or the death, of a callback.                           *)
(*                                                                         *)
(* Sixteen getters are called one after the other; each is an atomic       *)
(* reading of a provider that goes on changing meanwhile, or fails (see    *)
(* Getter, which UbusCall implements).  Of a datum only its age matters:   *)
(* the moment at which its provider reported it, within this callback, or  *)
(* Old, in an earlier one.  Zero is what memset() and the getters' default *)
(* leave, and what a datum may be that came: a reported 0, a text that     *)
(* atof() makes nothing of, a number that its member cuts to 0.            *)
(***************************************************************************)
EXTENDS Naturals, Sequences

CONSTANTS
  MaxNow,    \* bound on the moments of one callback
  MaxZeros,  \* bound on the zeros that the getters give in one callback
  TimeSize,  \* the bytes of dev_data.time                          (16)
  CourseEnd, \* where dev_data.course ends, counted from time       (20)
  DataEnd,   \* where dev_data ends, spd and its padding included   (24)
  TimeLens   \* the lengths of the text that uartd gives for the time

\* A callback has at least the moment at which it starts (see Start).  An empty
\* text is as none.
ASSUME SampleAssumption ==
  /\ MaxNow \in Nat \ {0, 1} /\ MaxZeros \in Nat
  /\ TimeSize \in Nat \ {0} /\ CourseEnd \in Nat /\ DataEnd \in Nat
  /\ TimeSize < CourseEnd /\ CourseEnd < DataEnd
  /\ TimeLens \subseteq Nat \ {0}

Zero == 0
Old == 1
Start == 2
Age == {Zero, Old} \cup Start .. MaxNow
\* Not a datum: bytes of the time's text that were written into a member.
Spill == MaxNow + 1

\* The getters in the order in which they are called: modem, then uartd.
\* Mutated: the time last.
Net == <<"pci", "freq", "rsrp", "rsrq", "snr", "net", "net_style">>
UavTimeLast == <<"coordinate", "flight_time", "lat", "lng", "alt", "height",
                 "cog", "speed", "time">>
Uav == <<"coordinate", "flight_time", "lat", "lng", "alt", "height", "time",
         "cog", "speed">>
Calls == Net \o Uav
Members == {Calls[i] : i \in DOMAIN Calls}

\* The strings that go straight to atof().
Floats == {"lat", "lng", "height", "speed"}

VARIABLES
  pc,       \* what the callback executes
  call,     \* the number of the next getter
  now,      \* the present moment
  sample,   \* g_net_info and g_uav_data: the age of each member
  time,     \* the bytes of g_uav_data.time: the age of each, Zero for NUL
  textLen,  \* history: the length of the text uartd gave in this callback
  zeros,    \* how many getters have given 0, or nothing
  message   \* the last message made

vars == <<pc, call, now, sample, time, textLen, zeros, message>>

NoMessage == [flightTime |-> Zero, members |-> [m \in Members |-> Zero], time |-> <<>>]
Blank == [i \in 1 .. TimeSize |-> Zero]

TypeOK ==
  /\ pc \in {"idle", "read", "post", "dead", "overrun"}
  /\ call \in 1 .. Len(Calls) + 1
  /\ now \in Start .. MaxNow
  /\ sample \in [Members -> Age \cup {Spill}]
  /\ time \in [1 .. TimeSize -> Age]
  /\ textLen \in TimeLens \cup {0}
  /\ zeros \in 0 .. MaxZeros

Init ==
  /\ pc = "idle"
  /\ call = 1
  /\ now = Start
  /\ sample = NoMessage.members
  /\ time = Blank
  /\ textLen = 0
  /\ zeros = 0
  /\ message = NoMessage

\* What was collected before is old.
Aged(age) == IF age = Zero THEN Zero ELSE Old

\* The callback begins with memset(&g_uav_data); g_net_info stays as it was
\* (here: any old data).  Mutated: without the memset().
PostRunStartNoMemset ==
  /\ pc = "idle"
  /\ pc' = "read"
  /\ call' = 1 /\ now' = Start /\ textLen' = 0 /\ zeros' = 0
  /\ sample' = [m \in Members |-> Aged(sample[m])]
  /\ time' = [i \in 1 .. TimeSize |-> Aged(time[i])]
  /\ message' = NoMessage

PostRunStart ==
  /\ pc = "idle"
  /\ pc' = "read"
  /\ call' = 1 /\ now' = Start /\ textLen' = 0 /\ zeros' = 0
  /\ sample' = [m \in Members |-> IF m \in {Net[i] : i \in DOMAIN Net} THEN Old ELSE Zero]
  /\ time' = Blank
  /\ message' = NoMessage

\* The providers go on.
Advance ==
  /\ pc = "read"
  /\ now < MaxNow
  /\ now' = now + 1
  /\ UNCHANGED <<pc, call, sample, time, textLen, zeros, message>>

\* The next getter returns, with a datum (zero = 0), or with 0 or nothing (1).
Returned(zero) ==
  /\ pc = "read"
  /\ call' = call + 1
  /\ pc' = IF call = Len(Calls) THEN "post" ELSE "read"
  /\ zeros' = zeros + zero
  /\ zeros' <= MaxZeros
  /\ UNCHANGED <<now, message>>

Read ==
  /\ \E zero \in {0, 1} :
       /\ Returned(zero)
       /\ sample' = [sample EXCEPT ![Calls[call]] = IF zero = 1 THEN Zero ELSE now]
  /\ UNCHANGED <<time, textLen>>

\* ubus_get_int(), whose default is 0, and the string net_style, whose default
\* is NULL and which nobody reads.
ReadInt ==
  /\ pc = "read"
  /\ Calls[call] \notin Floats \cup {"time"}
  /\ Read

\* atof(ubus_get_string()): of a string, or (Crash) of NULL.
ReadFloat ==
  /\ pc = "read"
  /\ Calls[call] \in Floats
  /\ Read

Crash ==
  /\ pc = "read"
  /\ Calls[call] \in Floats
  /\ pc' = "dead"
  /\ UNCHANGED <<call, now, sample, time, textLen, zeros, message>>

\* The time is copied with the length of its text, without a NUL, if it came.
\* What is too long for it goes on into course and spd.
ReadTime ==
  /\ pc = "read"
  /\ Calls[call] = "time"
  /\ \/ /\ Returned(1)
        /\ UNCHANGED <<sample, time, textLen>>
     \/ /\ Returned(0)
        /\ \E len \in TimeLens :
             /\ len <= DataEnd
             /\ textLen' = len
             /\ time' = [i \in 1 .. TimeSize |-> IF i <= len THEN now ELSE time[i]]
             /\ sample' = [sample EXCEPT
                  !["time"] = now,
                  !["cog"] = IF len > TimeSize THEN Spill ELSE @,
                  !["speed"] = IF len > CourseEnd THEN Spill ELSE @]

\* A text that is longer still writes over whatever lies behind g_uav_data,
\* and of that nothing can be said.
ReadTimeOverrun ==
  /\ pc = "read"
  /\ Calls[call] = "time"
  /\ \E len \in TimeLens : len > DataEnd
  /\ pc' = "overrun"
  /\ UNCHANGED <<call, now, sample, time, textLen, zeros, message>>

-----------------------------------------------------------------------------
\* What atol() may read: the bytes up to a NUL, and if there is none those of
\* course, when it is not 0.
Digits ==
  IF \E i \in 1 .. TimeSize : time[i] = Zero
  THEN LET nul == CHOOSE i \in 1 .. TimeSize :
                    time[i] = Zero /\ \A j \in 1 .. i - 1 : time[j] # Zero
       IN  SubSeq(time, 1, nul - 1)
  ELSE IF sample["cog"] = Zero THEN time ELSE Append(time, sample["cog"])

\* cjson_create_uav_data(): uartd's flight time, or the counted one beside a
\* position.
FlightTime ==
  IF sample["flight_time"] # Zero THEN sample["flight_time"]
  ELSE IF sample["lng"] # Zero THEN now ELSE Zero

CreatPostData ==
  /\ pc = "post"
  /\ pc' = "idle"
  /\ message' = [flightTime |-> FlightTime, members |-> sample, time |-> Digits]
  /\ UNCHANGED <<call, now, sample, time, textLen, zeros>>

Respawn ==
  /\ pc \in {"dead", "overrun"}
  /\ pc' = "idle"
  /\ sample' = NoMessage.members
  /\ time' = Blank
  /\ textLen' = 0
  /\ message' = NoMessage
  /\ UNCHANGED <<call, now, zeros>>

Next ==
  \/ PostRunStart
  \/ Advance
  \/ ReadInt
  \/ ReadFloat
  \/ ReadTime
  \/ ReadTimeOverrun
  \/ Crash
  \/ CreatPostData
  \/ Respawn

Spec == Init /\ [][Next]_vars

-----------------------------------------------------------------------------
(***************************************************************************)
(* Properties.                                                             *)
(***************************************************************************)

\* The members of the first n calls are of one callback, in the order of the
\* calls: none is older than one that was asked for before it.
Ordered(members, n) ==
  \A i, j \in 1 .. n :
    i <= j /\ members[Calls[j]] # Zero =>
      members[Calls[i]] <= members[Calls[j]] /\ members[Calls[j]] >= Start

\* A message mixes moments, but only of its own callback, and in the order of
\* the calls: no member is older than the callback, none older than a member
\* that was asked for before it, and neither is the flight time, which is there
\* whenever a longitude is (and the types).
InOrder ==
  /\ TypeOK
  /\ Ordered(message.members, Len(Calls))
  /\ message.flightTime # Zero => message.flightTime >= Start
  /\ message.members["lng"] # Zero => message.flightTime # Zero

\* json.c:203, memcpy() of a text of any length: what it writes over course and
\* spd is overwritten in turn before the message is made.
TailRewritten ==
  message # NoMessage => \A m \in {"cog", "speed"} : message.members[m] # Spill

\* The aircraft's time is the one text that uartd gave in this callback and
\* nothing of an earlier one, or none: all of it if it leaves a NUL, else as
\* much as there is room for, with the course of this callback behind it.
TimeExact ==
  message # NoMessage =>
    LET text(len) == [i \in 1 .. len |-> message.members["time"]]
    IN  IF textLen < TimeSize
        THEN message.time = text(textLen)
        ELSE message.time \in {text(TimeSize), Append(text(TimeSize), message.members["cog"])}

\* While the callback runs: what it has asked for is there and not from the
\* future, and there is no message yet.
Collected ==
  /\ pc = "read" => call <= Len(Calls)
  /\ pc = "post" => call = Len(Calls) + 1
  /\ pc \in {"read", "post"} =>
       /\ Ordered(sample, call - 1)
       /\ \A i \in 1 .. call - 1 : sample[Calls[i]] <= now
  /\ pc # "idle" => message = NoMessage

\* The bytes of the time: those of the text, if it was asked for, and NULs.
TimeRead ==
  pc \in {"read", "post"} =>
    /\ time = [i \in 1 .. TimeSize |-> IF i <= textLen THEN sample["time"] ELSE Zero]
    /\ textLen = 0 <=> sample["time"] = Zero
    /\ \A i \in call .. Len(Calls) : Calls[i] = "time" => textLen = 0

\* The inductive invariant of the proofs.
IInv == InOrder /\ TailRewritten /\ TimeExact /\ Collected /\ TimeRead
=============================================================================
