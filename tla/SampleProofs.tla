---------------------------- MODULE SampleProofs -----------------------------
(***************************************************************************)
(* Proofs about Sample, for any number of moments and of zeros, any layout *)
(* of dev_data, and texts of the time of any length.                       *)
(***************************************************************************)
EXTENDS Sample, SequenceTheorems, TLAPS

-----------------------------------------------------------------------------
(***************************************************************************)
(* The order of the calls.                                                 *)
(***************************************************************************)

\* The getters of mqtt_post_run(), one by one.
LEMMA CallsAre ==
  /\ Len(Calls) = 16 /\ DOMAIN Calls = 1 .. 16
  /\ Calls[1] = "pci" /\ Calls[2] = "freq" /\ Calls[3] = "rsrp" /\ Calls[4] = "rsrq"
  /\ Calls[5] = "snr" /\ Calls[6] = "net" /\ Calls[7] = "net_style"
  /\ Calls[8] = "coordinate" /\ Calls[9] = "flight_time" /\ Calls[10] = "lat"
  /\ Calls[11] = "lng" /\ Calls[12] = "alt" /\ Calls[13] = "height" /\ Calls[14] = "time"
  /\ Calls[15] = "cog" /\ Calls[16] = "speed"
<1> DEFINE All == {"pci", "freq", "rsrp", "rsrq", "snr", "net", "net_style", "coordinate",
                   "flight_time", "lat", "lng", "alt", "height", "time", "cog", "speed"}
<1>1. Net \in Seq(All) /\ Len(Net) = 7
  BY DEF Net
<1>2. Uav \in Seq(All) /\ Len(Uav) = 9
  BY DEF Uav
<1> HIDE DEF All
<1>3. /\ Len(Net \o Uav) = Len(Net) + Len(Uav)
      /\ Net \o Uav \in Seq(All)
      /\ \A i \in 1 .. Len(Net) + Len(Uav) :
           (Net \o Uav)[i] = IF i <= Len(Net) THEN Net[i] ELSE Uav[i - Len(Net)]
  BY <1>1, <1>2, ConcatProperties, Zenon
<1>4. /\ Len(Calls) = 16 /\ DOMAIN Calls = 1 .. 16
      /\ \A i \in 1 .. 16 : Calls[i] = IF i <= 7 THEN Net[i] ELSE Uav[i - 7]
  <2>1. PICK c \in Seq(All) : c = Calls
    BY <1>3 DEF Calls
  <2>2. Len(c) = 16
    BY <1>1, <1>2, <1>3, <2>1 DEF Calls
  <2>3. DOMAIN c = 1 .. 16
    BY <2>2
  <2>4. QED
    BY <1>1, <1>2, <1>3, <2>1, <2>2, <2>3 DEF Calls
<1>5. /\ Calls[1] = "pci" /\ Calls[2] = "freq" /\ Calls[3] = "rsrp" /\ Calls[4] = "rsrq"
      /\ Calls[5] = "snr" /\ Calls[6] = "net" /\ Calls[7] = "net_style"
  BY <1>4 DEF Net
<1>6. /\ Calls[8] = "coordinate" /\ Calls[9] = "flight_time" /\ Calls[10] = "lat"
      /\ Calls[11] = "lng" /\ Calls[12] = "alt" /\ Calls[13] = "height" /\ Calls[14] = "time"
      /\ Calls[15] = "cog" /\ Calls[16] = "speed"
  BY <1>4 DEF Uav
<1>7. QED
  BY <1>4, <1>5, <1>6

\* No getter is called twice: what one writes no other does.
LEMMA CallsDiffer ==
  ASSUME NEW i \in 1 .. 16, NEW j \in 1 .. 16, i # j
  PROVE  Calls[i] # Calls[j]
<1>1. i \in {1, 2, 3, 4, 5, 6, 7, 8, 9, 10, 11, 12, 13, 14, 15, 16}
  OBVIOUS
<1>2. j \in {1, 2, 3, 4, 5, 6, 7, 8, 9, 10, 11, 12, 13, 14, 15, 16}
  OBVIOUS
<1>3. QED
  BY <1>1, <1>2, CallsAre, SMTT(60)

\* What each call writes is a member of the sample.
LEMMA MembersAre ==
  /\ \A i \in 1 .. 16 : Calls[i] \in Members
  /\ \A m \in Members : \E i \in 1 .. 16 : Calls[i] = m
  /\ Floats \subseteq Members /\ {"time", "lng", "flight_time"} \subseteq Members
  BY CallsAre DEF Members, Floats

-----------------------------------------------------------------------------
(***************************************************************************)
(* The callback.                                                           *)
(***************************************************************************)

\* A getter that returns at the present moment, with a datum or with zero, and
\* spoils no member that was asked for before it, leaves the sample in the
\* order of the calls.
LEMMA CallKeepsOrder ==
  ASSUME IInv, pc = "read", NEW v \in {Zero, now},
         sample'[Calls[call]] = v,
         \A i \in 1 .. call - 1 : sample'[Calls[i]] = sample[Calls[i]],
         call' = call + 1, now' = now
  PROVE  /\ call \in 1 .. 16
         /\ Ordered(sample', call' - 1)
         /\ \A i \in 1 .. call' - 1 : sample'[Calls[i]] <= now'
<1>1. /\ call \in 1 .. 16 /\ now \in Start .. MaxNow
      /\ Ordered(sample, call - 1)
      /\ \A i \in 1 .. call - 1 : sample[Calls[i]] <= now
  BY CallsAre DEF IInv, InOrder, TypeOK, Collected
<1>2. v \in Nat /\ now \in Nat /\ now >= Start /\ Start \in Nat /\ Zero = 0 /\ v <= now
  BY <1>1, SampleAssumption DEF Zero, Start
<1>3. \A i \in 1 .. call' - 1 : i \in 1 .. call - 1 \/ i = call
  BY <1>1
<1>4. \A i \in 1 .. call' - 1 : sample'[Calls[i]] <= now'
  BY <1>1, <1>2, <1>3
<1>5. ASSUME NEW i \in 1 .. call' - 1, NEW j \in 1 .. call' - 1,
             i <= j, sample'[Calls[j]] # Zero
      PROVE  sample'[Calls[i]] <= sample'[Calls[j]] /\ sample'[Calls[j]] >= Start
  <2>1. CASE j = call
    BY <1>2, <1>4, <1>5, <2>1
  <2>2. CASE j \in 1 .. call - 1
    <3>1. i \in 1 .. call - 1
      BY <1>1, <1>5, <2>2
    <3>2. QED
      BY <1>1, <1>5, <2>2, <3>1 DEF Ordered
  <2>3. QED
    BY <1>3, <2>1, <2>2
<1>6. QED
  BY <1>1, <1>4, <1>5 DEF Ordered

\* What atol() reads of the time is the text, when the rest are NULs and one
\* of them is there; without one it is the whole time, and course behind it.
LEMMA DigitsOfLong ==
  ASSUME NEW v \in Age, v # Zero, time = [i \in 1 .. TimeSize |-> v]
  PROVE  Digits \in {time, Append(time, sample["cog"])}
<1>1. \A i \in 1 .. TimeSize : time[i] # Zero
  OBVIOUS
<1>2. QED
  BY <1>1 DEF Digits

LEMMA DigitsAre ==
  ASSUME NEW v \in Age, NEW len \in 0 .. TimeSize - 1, len = 0 <=> v = Zero,
         time = [i \in 1 .. TimeSize |-> IF i <= len THEN v ELSE Zero]
  PROVE  Digits = [i \in 1 .. len |-> v]
<1>1. /\ len + 1 \in 1 .. TimeSize /\ time[len + 1] = Zero
      /\ \A j \in 1 .. len : time[j] = v /\ v # Zero
      /\ TimeSize \in Nat \ {0} /\ len \in Nat
  BY SampleAssumption
<1> DEFINE P(i) == time[i] = Zero /\ \A j \in 1 .. i - 1 : time[j] # Zero
<1> DEFINE nul == CHOOSE i \in 1 .. TimeSize : P(i)
<1>2. P(len + 1)
  BY <1>1
<1>3. \A i \in 1 .. TimeSize : P(i) => i = len + 1
  BY <1>1
<1>4. nul = len + 1
  BY <1>1, <1>2, <1>3
<1>5. Digits = SubSeq(time, 1, nul - 1)
  BY <1>1 DEF Digits
<1> HIDE DEF nul
<1>6. nul - 1 = len
  BY <1>1, <1>4
<1>7. SubSeq(time, 1, len) = [i \in 1 .. len |-> v]
  BY <1>1
<1>8. QED
  BY <1>5, <1>6, <1>7

\* What a getter of another member leaves of the time.
LEMMA OtherKeepsTime ==
  ASSUME IInv, pc = "read", NEW v, Calls[call] # "time",
         sample' = [sample EXCEPT ![Calls[call]] = v],
         call' = call + 1, UNCHANGED <<time, textLen>>
  PROVE  TimeRead'
<1>1. call \in 1 .. 16 /\ sample \in [Members -> Age \cup {Spill}]
  BY CallsAre DEF IInv, InOrder, TypeOK, Collected
<1>2. sample'["time"] = sample["time"]
  BY <1>1, MembersAre
<1>3. \A i \in call' .. Len(Calls) : i \in call .. Len(Calls)
  BY <1>1, CallsAre
<1>4. QED
  BY <1>2, <1>3 DEF IInv, TimeRead

\* Between two messages there is nothing to say of them.
MessageFine ==
  /\ Ordered(message.members, Len(Calls))
  /\ message.flightTime # Zero => message.flightTime >= Start
  /\ message.members["lng"] # Zero => message.flightTime # Zero
  /\ TailRewritten /\ TimeExact
LEMMA NoMessageYet ==
  ASSUME message = NoMessage
  PROVE  MessageFine
<1>1. \A i \in 1 .. 16 : message.members[Calls[i]] = Zero
  BY MembersAre DEF NoMessage
<1>2. message.members["lng"] = Zero /\ message.flightTime = Zero
  BY MembersAre DEF NoMessage
<1>3. QED
  BY <1>1, <1>2, CallsAre DEF MessageFine, Ordered, TailRewritten, TimeExact

-----------------------------------------------------------------------------
(***************************************************************************)
(* The inductive invariant.                                                *)
(***************************************************************************)

\* It holds before the first callback ...
LEMMA InitInvariant == Init => IInv
<1> SUFFICES ASSUME Init PROVE IInv
  OBVIOUS
<1>1. TypeOK
  BY SampleAssumption, CallsAre
     DEF Init, TypeOK, NoMessage, Blank, Age, Zero, Old, Start
<1>2. Collected /\ TimeRead
  BY DEF Init, Collected, TimeRead
<1>3. QED
  BY <1>1, <1>2, NoMessageYet DEF Init, IInv, InOrder, MessageFine

\* ... and every step keeps it.
LEMMA StepInvariant == IInv /\ [Next]_vars => IInv'
<1> SUFFICES ASSUME IInv, [Next]_vars PROVE IInv'
  OBVIOUS
<1>1. /\ TypeOK
      /\ call \in 1 .. 17 /\ now \in Start .. MaxNow
      /\ sample \in [Members -> Age \cup {Spill}] /\ time \in [1 .. TimeSize -> Age]
      /\ pc \in {"read", "post"} => message = NoMessage
      /\ pc = "read" => call \in 1 .. 16
      /\ pc = "post" => call = 17
  BY CallsAre DEF IInv, InOrder, TypeOK, Collected
<1>2. /\ Age \subseteq Nat /\ Zero \in Age /\ Old \in Age /\ now \in Age
      /\ now \in Nat /\ now >= Start /\ now # Zero /\ now < Spill /\ Spill \in Nat
      /\ MaxNow \in Nat /\ MaxNow >= Start /\ MaxZeros \in Nat /\ Zero = 0
      /\ TimeSize \in Nat \ {0}
  BY <1>1, SampleAssumption DEF Age, Zero, Old, Start, Spill
<1>3. ASSUME message' = NoMessage, TypeOK', Collected', TimeRead' PROVE IInv'
  <2>1. MessageFine'
    <3>1. \A i \in 1 .. 16 : message'.members[Calls[i]] = Zero
      BY <1>3, MembersAre DEF NoMessage
    <3>2. message'.members["lng"] = Zero /\ message'.flightTime = Zero
      BY <1>3, MembersAre DEF NoMessage
    <3>3. QED
      BY <1>3, <3>1, <3>2, CallsAre DEF MessageFine, Ordered, TailRewritten, TimeExact
  <2>2. QED
    BY <1>3, <2>1 DEF IInv, InOrder, MessageFine
<1>4. CASE PostRunStart
  <2>1. TypeOK'
    BY <1>1, <1>2, <1>4, CallsAre DEF PostRunStart, TypeOK, Blank, Start
  <2>2. Collected'
    BY <1>4, CallsAre DEF PostRunStart, Collected, Ordered
  <2>3. TimeRead'
    <3>1. sample'["time"] = Zero
      <4>1. "time" \notin {Net[i] : i \in DOMAIN Net}
        BY DEF Net
      <4>2. QED
        BY <1>4, <4>1, MembersAre DEF PostRunStart
    <3>2. time' = [i \in 1 .. TimeSize |-> Zero] /\ textLen' = 0
      BY <1>4 DEF PostRunStart, Blank
    <3>3. QED
      BY <3>1, <3>2 DEF TimeRead
  <2>4. QED
    BY <1>3, <1>4, <2>1, <2>2, <2>3 DEF PostRunStart
<1>5. CASE Advance
  <2>1. now' \in Start .. MaxNow /\ now <= now'
    BY <1>1, <1>2, <1>5 DEF Advance, Start
  <2>2. TypeOK' /\ TimeRead'
    BY <1>5, <2>1 DEF Advance, IInv, InOrder, TypeOK, TimeRead
  <2>3. Collected'
    <3>1. \A i \in 1 .. call - 1 : sample[Calls[i]] \in Nat
      <4>1. \A i \in 1 .. call - 1 : i \in 1 .. 16
        BY <1>1
      <4>2. \A i \in 1 .. call - 1 : sample[Calls[i]] \in Age \cup {Spill}
        BY <1>1, <4>1, MembersAre
      <4>3. QED
        BY <1>2, <4>2
    <3>2. \A i \in 1 .. call - 1 : sample[Calls[i]] <= now'
      BY <1>2, <1>5, <2>1, <3>1 DEF Advance, IInv, Collected
    <3>3. QED
      BY <1>5, <3>2 DEF Advance, IInv, Collected, Ordered
  <2>4. QED
    BY <1>1, <1>3, <1>5, <2>2, <2>3 DEF Advance
<1>6. ASSUME NEW v \in {Zero, now}, NEW zero \in {0, 1}, Returned(zero),
             sample' \in [Members -> Age \cup {Spill}],
             sample'[Calls[call]] = v,
             \A i \in 1 .. call - 1 : sample'[Calls[i]] = sample[Calls[i]],
             time' \in [1 .. TimeSize -> Age], textLen' \in TimeLens \cup {0}, TimeRead'
      PROVE  IInv'
  <2>1. /\ pc = "read" /\ call' = call + 1 /\ now' = now /\ message' = message
        /\ pc' = IF call = 16 THEN "post" ELSE "read"
        /\ zeros' = zeros + zero /\ zeros' <= MaxZeros
    BY <1>6, CallsAre DEF Returned
  <2>2. /\ Ordered(sample', call' - 1)
        /\ \A i \in 1 .. call' - 1 : sample'[Calls[i]] <= now'
    BY <1>6, <2>1, CallKeepsOrder
  <2>3. zeros' \in 0 .. MaxZeros
    BY <1>1, <1>2, <1>6, <2>1 DEF TypeOK
  <2>4. TypeOK'
    <3>1. call' \in 1 .. Len(Calls) + 1
      BY <1>1, <2>1, CallsAre DEF TypeOK
    <3>2. pc' \in {"idle", "read", "post", "dead", "overrun"} /\ now' \in Start .. MaxNow
      BY <1>1, <2>1 DEF TypeOK
    <3>3. QED
      BY <1>6, <2>3, <3>1, <3>2 DEF TypeOK
  <2>5. Collected'
    BY <1>1, <2>1, <2>2, CallsAre DEF Collected, Ordered
  <2>6. QED
    BY <1>1, <1>3, <1>6, <2>1, <2>4, <2>5
<1>7. ASSUME Read, Calls[call] # "time" PROVE IInv'
  <2>1. PICK zero \in {0, 1} :
          /\ Returned(zero)
          /\ sample' = [sample EXCEPT ![Calls[call]] = IF zero = 1 THEN Zero ELSE now]
    BY <1>7 DEF Read
  <2>2. UNCHANGED <<time, textLen>> /\ pc = "read" /\ call' = call + 1
    BY <1>7, <2>1 DEF Read, Returned
  <2>3. PICK v \in {Zero, now} : v = IF zero = 1 THEN Zero ELSE now
    OBVIOUS
  <2>4. sample' = [sample EXCEPT ![Calls[call]] = v]
    BY <2>1, <2>3
  <2>5. /\ sample' \in [Members -> Age \cup {Spill}] /\ sample'[Calls[call]] = v
        /\ \A i \in 1 .. call - 1 : sample'[Calls[i]] = sample[Calls[i]]
    <3>1. call \in 1 .. 16 /\ v \in Age
      BY <1>1, <1>2, <2>2
    <3>2. \A i \in 1 .. call - 1 : i \in 1 .. 16 /\ i # call
      BY <3>1
    <3>3. QED
      BY <1>1, <2>4, <3>1, <3>2, MembersAre, CallsDiffer
  <2>6. TimeRead'
    BY <1>7, <2>2, <2>4, OtherKeepsTime
  <2>7. time' \in [1 .. TimeSize -> Age] /\ textLen' \in TimeLens \cup {0}
    BY <1>1, <2>2 DEF TypeOK
  <2>8. QED
    BY <1>6, <2>1, <2>5, <2>6, <2>7
<1>8. CASE ReadInt \/ ReadFloat
  <2>1. Read /\ Calls[call] # "time"
    BY <1>8 DEF ReadInt, ReadFloat, Floats
  <2>2. QED
    BY <1>7, <2>1
<1>9. CASE ReadTime
  <2>1. pc = "read" /\ Calls[call] = "time" /\ call = 14
    <3>1. pc = "read" /\ Calls[call] = "time" /\ call \in 1 .. 16
      BY <1>1, <1>9 DEF ReadTime
    <3>2. QED
      BY <3>1, CallsAre, CallsDiffer
  <2>2. textLen = 0 /\ sample["time"] = Zero /\ time = [i \in 1 .. TimeSize |-> Zero]
    <3>1. call \in call .. Len(Calls)
      BY <1>1, <2>1, CallsAre
    <3>2. textLen = 0
      BY <2>1, <3>1 DEF IInv, TimeRead
    <3>3. QED
      BY <2>1, <3>2 DEF IInv, TimeRead
  <2>3. ASSUME NEW i \in call + 1 .. Len(Calls) PROVE Calls[i] # "time"
    <3>1. call \in 1 .. 16 /\ i \in 1 .. 16 /\ i # call
      BY <1>1, <2>1, CallsAre
    <3>2. QED
      BY <2>1, <3>1, CallsDiffer
  <2>4. CASE Returned(1) /\ UNCHANGED <<sample, time, textLen>>
    <3>1. sample'[Calls[call]] = Zero /\ sample' = sample
      BY <2>1, <2>2, <2>4
    <3>2. TimeRead'
      BY <2>2, <2>3, <2>4 DEF TimeRead, Returned, IInv
    <3>3. time' \in [1 .. TimeSize -> Age] /\ textLen' \in TimeLens \cup {0}
      BY <1>1, <2>4 DEF TypeOK
    <3>4. QED
      BY <1>1, <1>6, <2>4, <3>1, <3>2, <3>3
  <2>5. ASSUME NEW len \in TimeLens, Returned(0), textLen' = len,
               time' = [i \in 1 .. TimeSize |-> IF i <= len THEN now ELSE time[i]],
               sample' = [sample EXCEPT
                 !["time"] = now,
                 !["cog"] = IF len > TimeSize THEN Spill ELSE @,
                 !["speed"] = IF len > CourseEnd THEN Spill ELSE @]
        PROVE  IInv'
    <3>1. time' = [i \in 1 .. TimeSize |-> IF i <= len THEN now ELSE Zero]
      BY <2>2, <2>5
    <3>2. /\ sample' \in [Members -> Age \cup {Spill}] /\ sample'["time"] = now
          /\ \A m \in Members \ {"time", "cog", "speed"} : sample'[m] = sample[m]
      <4>1. {"time", "cog", "speed"} \subseteq Members
        BY MembersAre, CallsAre
      <4>2. QED
        BY <1>1, <1>2, <2>5, <4>1
    <3>3. \A i \in 1 .. call - 1 : sample'[Calls[i]] = sample[Calls[i]]
      <4>1. \A i \in 1 .. 13 : Calls[i] \in Members \ {"time", "cog", "speed"}
        <5>1. \A i \in 1 .. 13 : /\ i \in 1 .. 16 /\ i # 14 /\ i # 15 /\ i # 16
          OBVIOUS
        <5>2. QED
          BY <5>1, MembersAre, CallsAre, CallsDiffer
      <4>2. QED
        BY <2>1, <3>2, <4>1
    <3>4. len # 0
      BY <2>5, SampleAssumption
    <3>5. TimeRead'
      BY <1>2, <2>3, <2>5, <3>1, <3>2, <3>4 DEF TimeRead, Returned
    <3>6. time' \in [1 .. TimeSize -> Age] /\ textLen' \in TimeLens \cup {0}
      BY <1>2, <2>5, <3>1
    <3>7. QED
      BY <1>6, <2>1, <2>5, <3>2, <3>3, <3>5, <3>6
  <2>6. QED
    BY <1>9, <2>4, <2>5 DEF ReadTime
<1>10. CASE Crash \/ ReadTimeOverrun
  BY <1>1, <1>3, <1>10 DEF Crash, ReadTimeOverrun, IInv, TypeOK, Collected, TimeRead
<1>11. CASE CreatPostData
  <2>1. /\ pc = "post" /\ pc' = "idle" /\ call = 17
        /\ message' = [flightTime |-> FlightTime, members |-> sample, time |-> Digits]
        /\ UNCHANGED <<call, now, sample, time, textLen, zeros>>
    BY <1>1, <1>11 DEF CreatPostData
  <2>2. TypeOK' /\ Collected' /\ TimeRead'
    BY <1>1, <2>1 DEF TypeOK, Collected, TimeRead
  <2>3. Ordered(sample, 16) /\ \A i \in 1 .. 16 : sample[Calls[i]] <= now
    BY <2>1 DEF IInv, Collected
  <2>4. InOrder'
    <3>1. Ordered(sample, 16)'
      BY <2>1, <2>3 DEF Ordered
    <3>2. sample["flight_time"] # Zero => sample["flight_time"] >= Start
      <4>1. 9 \in 1 .. 16 /\ Calls[9] = "flight_time"
        BY CallsAre
      <4>2. QED
        BY <2>3, <4>1 DEF Ordered
    <3>3. /\ FlightTime # Zero => FlightTime >= Start
          /\ sample["lng"] # Zero => FlightTime # Zero
      BY <1>2, <3>2 DEF FlightTime
    <3>4. message'.members = sample /\ message'.flightTime = FlightTime
      BY <2>1
    <3>5. Ordered(message.members, Len(Calls))'
      BY <2>3, <3>4, CallsAre DEF Ordered
    <3>6. QED
      BY <2>2, <3>3, <3>4, <3>5 DEF InOrder
  <2>5. TailRewritten'
    <3>1. 15 \in 1 .. 16 /\ 16 \in 1 .. 16 /\ Calls[15] = "cog" /\ Calls[16] = "speed"
      BY CallsAre
    <3>2. sample["cog"] <= now /\ sample["speed"] <= now
      BY <2>3, <3>1
    <3>3. sample["cog"] # Spill /\ sample["speed"] # Spill
      BY <1>2, <3>2
    <3>4. message'.members = sample
      BY <2>1
    <3>5. QED
      BY <3>3, <3>4 DEF TailRewritten
  <2>6. TimeExact'
    <3>1. /\ time = [i \in 1 .. TimeSize |-> IF i <= textLen THEN sample["time"] ELSE Zero]
          /\ textLen = 0 <=> sample["time"] = Zero
      BY <2>1 DEF IInv, TimeRead
    <3>2. textLen \in Nat
      BY <1>1, SampleAssumption DEF TypeOK
    <3>3. sample["time"] \in Age
      <4>1. 14 \in 1 .. 16 /\ Calls[14] = "time"
        BY CallsAre
      <4>2. sample["time"] <= now /\ sample["time"] \in Age \cup {Spill}
        BY <1>1, <2>3, <4>1, MembersAre
      <4>3. QED
        BY <1>2, <4>2
    <3>4. CASE textLen < TimeSize
      <4>1. textLen \in 0 .. TimeSize - 1
        BY <1>2, <3>2, <3>4
      <4>2. Digits = [i \in 1 .. textLen |-> sample["time"]]
        BY <3>1, <3>3, <4>1, DigitsAre
      <4>3. QED
        BY <2>1, <3>4, <4>2 DEF TimeExact
    <3>5. CASE ~(textLen < TimeSize)
      <4>1. \A i \in 1 .. TimeSize : i <= textLen
        BY <1>2, <3>2, <3>5
      <4>2. time = [i \in 1 .. TimeSize |-> sample["time"]] /\ sample["time"] # Zero
        BY <1>2, <3>1, <3>2, <3>5, <4>1
      <4>3. Digits \in {time, Append(time, sample["cog"])}
        BY <3>3, <4>2, DigitsOfLong
      <4>4. QED
        BY <2>1, <3>5, <4>2, <4>3 DEF TimeExact
    <3>6. QED
      BY <3>4, <3>5
  <2>7. QED
    BY <2>2, <2>4, <2>5, <2>6 DEF IInv
<1>12. CASE Respawn
  <2>1. TypeOK'
    BY <1>1, <1>2, <1>12 DEF Respawn, TypeOK, NoMessage, Blank
  <2>2. QED
    BY <1>3, <1>12, <2>1 DEF Respawn, Collected, TimeRead
<1>13. CASE UNCHANGED vars
  BY <1>13 DEF vars, IInv, InOrder, TypeOK, Ordered, TailRewritten, TimeExact, Collected, TimeRead
<1>14. QED
  BY <1>4, <1>5, <1>8, <1>9, <1>10, <1>11, <1>12, <1>13 DEF Next

\* The invariant of mqtt_post_run(), from call to call.
THEOREM SampleInvariant == Spec => []IInv
  BY InitInvariant, StepInvariant, PTL DEF Spec

\* A message mixes moments of its own callback only, in the order of the
\* calls.
THEOREM SampleIsInOrder == Spec => []InOrder
<1>1. IInv => InOrder
  BY DEF IInv
<1>2. QED
  BY <1>1, SampleInvariant, PTL

\* Whatever the length of the time's text, what it writes over course and spd
\* is not in any message.
THEOREM TailIsRewritten == Spec => []TailRewritten
<1>1. IInv => TailRewritten
  BY DEF IInv
<1>2. QED
  BY <1>1, SampleInvariant, PTL

\* The time of a message is the text uartd gave, or as much of it as there is
\* room for, and nothing of an earlier one.
THEOREM TimeIsExact == Spec => []TimeExact
<1>1. IInv => TimeExact
  BY DEF IInv
<1>2. QED
  BY <1>1, SampleInvariant, PTL
=============================================================================
