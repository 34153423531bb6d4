--------------------------- MODULE ValveLineProofs ---------------------------
(***************************************************************************)
(* What the registration of ValveLine promises, for any number of valves,  *)
(* buffers of any sizes and any number of faults and restarts: a valve is  *)
(* in the current session only if the concentrator knows it.  And what the *)
(* loop of the line promises of its buffers: it is woken only when there   *)
(* is a packet, and a packet that is half written stays the first.         *)
(***************************************************************************)
EXTENDS ValveLine, SequenceTheorems, FiniteSetTheorems, TLAPS

------------------------------------------------------------------------------
(* The inductive invariant                                                 *)

(* A confirmation on its way is for a valve of the map.                    *)
Good == {p \in Packets : p.kind = "confirm" => p.to \in Known}

Requests == {p \in Packets : p.kind # "confirm"}

BuffersInv ==
  /\ tx \in Seq(Good) /\ Len(tx) <= TxCells
  /\ htx \in Seq(Good) /\ Len(htx) <= HtxCells
  /\ rx \in Seq(Known) /\ Len(rx) <= RxCells

(* No valve has seen a session that is still to come.                      *)
SessionInv ==
  /\ valveSid \in [Valves -> 0 .. sid]
  /\ sid \in 1 .. faults + 1

LineInv ==
  /\ TypeOK
  /\ BuffersInv /\ SessionInv
  /\ broadcasting => counter <= 4
  /\ ConfirmedIsKnown

------------------------------------------------------------------------------
(* Packets and buffers                                                     *)

LEMMA CellsAreNat ==
  /\ TxCells \in Nat \ {0} /\ HtxCells \in Nat \ {0} /\ RxCells \in Nat \ {0}
BY CellsAssumption

LEMMA PutFits ==
  ASSUME NEW S, NEW buffer \in Seq(S), NEW packets \in Seq(S), NEW cells \in Nat
  PROVE  Put(buffer, packets, cells) \in Seq(S) /\ Len(Put(buffer, packets, cells)) <= cells
<1> DEFINE all == buffer \o packets
<1>1. all \in Seq(S) /\ Len(all) \in Nat
  BY ConcatProperties, LenProperties
<1>2. Put(buffer, packets, cells) = IF Len(all) <= cells THEN all ELSE SubSeq(all, 1, cells)
  BY DEF Put
<1> HIDE DEF all
<1>3. CASE Len(all) <= cells
  BY <1>1, <1>2, <1>3
<1>4. CASE Len(all) > cells
  <2>1. \A i \in 1 .. cells : all[i] \in S
    BY <1>1, <1>4, ElementOfSeq
  <2>2. SubSeq(all, 1, cells) \in Seq(S)
    BY <2>1, SubSeqProperties
  <2>3. Len(SubSeq(all, 1, cells)) <= cells
    BY <2>1, SubSeqProperties
  <2>4. QED
    BY <1>1, <1>2, <1>4, <2>2, <2>3
<1>5. QED
  BY <1>1, <1>3, <1>4

(* A request for each of the valves confirms nobody.                       *)
LEMMA ForEachAreRequests ==
  ASSUME NEW S \in SUBSET Valves, NEW kind \in {"time", "data"}
  PROVE  ForEach(S, kind) \in Seq(Requests)
<1>1. IsFiniteSet(S)
  BY AddressAssumption, FS_Subset
<1>2. Cardinality(S) \in Nat /\ ExistsBijection(1 .. Cardinality(S), S)
  BY <1>1, FS_CardinalityType
<1>3. \E f \in [1 .. Cardinality(S) -> S] : IsInjective(f)
  BY <1>2 DEF ExistsBijection, Bijection, Injection, IsInjective
<1>4. SetToSeq(S) \in [1 .. Cardinality(S) -> S]
  BY <1>3 DEF SetToSeq
<1> DEFINE order == SetToSeq(S)
<1>5. \A i \in DOMAIN order : To(order[i], kind) \in Requests
  BY <1>4 DEF To, Requests, Packets
<1>6. [i \in DOMAIN order |-> To(order[i], kind)] \in [1 .. Cardinality(S) -> Requests]
  BY <1>4, <1>5
<1>7. QED
  BY <1>2, <1>6 DEF ForEach

LEMMA OneIsSeq ==
  ASSUME NEW S, NEW x \in S
  PROVE  <<x>> \in Seq(S) /\ Len(<<x>>) = 1
OBVIOUS

LEMMA RequestsAreGood == Requests \subseteq Good
BY DEF Requests, Good

------------------------------------------------------------------------------
(* What every step leaves as it is                                         *)

(* Only a restart forgets a valve, or changes the session.                 *)
LEMMA KnownGrows ==
  ASSUME TypeOK, [Next]_vars, ~ Restart
  PROVE  Known \subseteq Known' /\ Good \subseteq Good' /\ sid' = sid
<1>1. sid' = sid
  BY DEF Next, Timers, InputOutput, vars, registration, buffers, line, valves, Query, Broadcast,
         NotQuiet, Rebroadcast, Punctual, NotPunctual, Arm, Read, WriteUrgent, WriteNormal,
         WritePart, WriteMixed, Written, Timeout, Silence, Urgent, LoseAnswer, ValveForgets
<1>2. CASE \E a \in air : Read(a)
  <2>1. PICK a \in air : Read(a)
    BY <1>2
  <2>2. \A v \in Valves : users[v] # "unknown" => users'[v] # "unknown"
    BY <2>1 DEF Read, ParseAck, ParseUser, ParseUnregistered, ParseTime, TypeOK
  <2>3. QED
    BY <1>1, <2>2 DEF Known, Good, Packets
<1>3. CASE ~ \E a \in air : Read(a)
  <2>1. users' = users
    BY <1>3 DEF Next, Timers, InputOutput, vars, registration, buffers, line, valves, Query,
         Broadcast, NotQuiet, Rebroadcast, Punctual, NotPunctual, Arm, WriteUrgent, WriteNormal,
         WritePart, WriteMixed, Written, Timeout, Silence, Urgent, LoseAnswer, ValveForgets
  <2>2. QED
    BY <1>1, <2>1 DEF Known, Good, Packets
<1>4. QED
  BY <1>2, <1>3

------------------------------------------------------------------------------
(* Every step preserves the invariant                                      *)

LEMMA InitEstablishesInv == Init => LineInv
<1> SUFFICES ASSUME Init PROVE LineInv
  OBVIOUS
<1>1. tx = <<>> /\ htx = <<>> /\ rx = <<>>
  BY DEF Init
<1>2. BuffersInv
  BY <1>1, EmptySeq, CellsAreNat DEF BuffersInv
<1>3. TypeOK
  <2>1. /\ tx \in Seq(Packets) /\ Len(tx) <= TxCells
        /\ htx \in Seq(Packets) /\ Len(htx) <= HtxCells
        /\ rx \in Seq(Valves) /\ Len(rx) <= RxCells
    BY <1>1, EmptySeq, CellsAreNat
  <2>2. sid \in 1 .. MaxFaults + 1 /\ retry \in 0 .. MaxRetry + 1
    BY BoundsAssumption DEF Init
  <2>3. faults \in 0 .. MaxFaults /\ urgent \in 0 .. MaxUrgent
    BY BoundsAssumption DEF Init
  <2>4. users \in [Valves -> {"unknown", "nobody", "user"}] /\ valveSid \in [Valves -> 0 .. sid]
    BY DEF Init
  <2>5. /\ at \in {"timers", "arm", "wait"} /\ wrote \in {"none", "tx", "htx"}
        /\ counter \in 0 .. 5 /\ unregistered \in Nat
        /\ balance \in Int /\ air \subseteq Answers
    BY DEF Init
  <2>6. /\ broadcasting \in BOOLEAN
        /\ armed \in BOOLEAN /\ recent \in BOOLEAN /\ quiet \in BOOLEAN
    BY Zenon DEF Init
  <2>7. QED
    BY <2>1, <2>2, <2>3, <2>4, <2>5, <2>6 DEF TypeOK
<1>4. SessionInv /\ ConfirmedIsKnown /\ counter <= 4
  BY DEF Init, SessionInv, ConfirmedIsKnown
<1>5. QED
  BY <1>2, <1>3, <1>4 DEF LineInv

(* The confirmations are for the valves that answered, whose number fits.  *)
LEMMA BroadcastKeepsBuffers ==
  ASSUME LineInv, Broadcast
  PROVE  BuffersInv'
<1>1. TypeOK /\ BuffersInv /\ UNCHANGED users
  BY DEF LineInv, Broadcast
<1> DEFINE room == HtxCells - Len(htx)
           n == IF Len(rx) <= room THEN Len(rx) ELSE room
           confirmations == [i \in 1 .. n |-> To(rx[i], "confirm")]
<1>2. /\ htx' = htx \o confirmations
      /\ rx' = SubSeq(rx, n + 1, Len(rx))
      /\ tx' = tx \/ tx' = Put(tx, <<To(All, "broadcast")>>, TxCells)
  BY DEF Broadcast
<1>3. /\ room \in Nat /\ n \in 0 .. Len(rx) /\ n <= room
      /\ Len(rx) \in Nat /\ Len(htx) \in Nat /\ Len(rx) <= RxCells
  BY <1>1, CellsAreNat, LenProperties DEF BuffersInv
<1> HIDE DEF n, room
<1>4. \A i \in 1 .. Len(rx) : rx[i] \in Known
  BY <1>1, ElementOfSeq DEF BuffersInv
<1>5. \A i \in 1 .. n : To(rx[i], "confirm") \in Good
  BY <1>3, <1>4 DEF To, Good, Packets, Known
<1>6. confirmations \in [1 .. n -> Good]
  BY <1>5
<1>7. confirmations \in Seq(Good) /\ Len(confirmations) = n
  BY <1>3, <1>6
<1> HIDE DEF confirmations
<1>8. htx' \in Seq(Good) /\ Len(htx') = Len(htx) + n
  BY <1>1, <1>2, <1>7, ConcatProperties DEF BuffersInv
<1>9. Len(htx') <= HtxCells
  BY <1>3, <1>8, CellsAreNat DEF room
<1>10. rx' \in Seq(Known) /\ Len(rx') <= RxCells
  <2>1. /\ \A i \in n + 1 .. Len(rx) : rx[i] \in Known
        /\ n + 1 \in Int /\ Len(rx) \in Int
    BY <1>3, <1>4
  <2>2. /\ SubSeq(rx, n + 1, Len(rx)) \in Seq(Known)
        /\ Len(SubSeq(rx, n + 1, Len(rx))) = IF n + 1 <= Len(rx) THEN Len(rx) - (n + 1) + 1 ELSE 0
    BY <2>1, SubSeqProperties
  <2>3. QED
    BY <1>2, <1>3, <2>2, CellsAreNat
<1>11. tx' \in Seq(Good) /\ Len(tx') <= TxCells
  <2>1. To(All, "broadcast") \in Good
    BY DEF To, Good, Packets
  <2>2. QED
    BY <1>1, <1>2, <2>1, PutFits, OneIsSeq, CellsAreNat DEF BuffersInv
<1>12. Good' = Good /\ Known' = Known
  BY <1>1 DEF Good, Known, Packets
<1>13. QED
  BY <1>8, <1>9, <1>10, <1>11, <1>12 DEF BuffersInv

LEMMA PunctualKeepsBuffers ==
  ASSUME LineInv, Punctual
  PROVE  BuffersInv'
<1>1. TypeOK /\ BuffersInv /\ UNCHANGED <<users, htx, rx>>
  BY DEF LineInv, Punctual, registration
<1> DEFINE withUser == {v \in Valves : users[v] = "user"}
           times == ForEach(Known, "time")
           data == ForEach(withUser, "data")
           more == ForEach(Known, "data") \o IF HeatData THEN ForEach(Known, "data") ELSE <<>>
           requests == times \o data \o ForEach(Known, "data")
                         \o IF HeatData THEN ForEach(Known, "data") ELSE <<>>
<1>2. tx' = Put(tx, Append(requests, To(All, "query")), TxCells)
  BY DEF Punctual
<1>3. /\ times \in Seq(Requests) /\ data \in Seq(Requests)
      /\ ForEach(Known, "data") \in Seq(Requests) /\ <<>> \in Seq(Requests)
  BY ForEachAreRequests, EmptySeq DEF Known
<1>4. (IF HeatData THEN ForEach(Known, "data") ELSE <<>>) \in Seq(Requests)
  BY <1>3
<1>5. requests \in Seq(Requests)
  BY <1>3, <1>4, ConcatProperties
<1> HIDE DEF requests
<1>6. To(All, "query") \in Requests
  BY DEF To, Requests, Packets
<1>7. Append(requests, To(All, "query")) \in Seq(Requests)
  BY <1>5, <1>6, AppendProperties
<1>8. Append(requests, To(All, "query")) \in Seq(Good)
  BY <1>7, RequestsAreGood, SeqMonotonic
<1>9. tx' \in Seq(Good) /\ Len(tx') <= TxCells
  BY <1>1, <1>2, <1>8, PutFits, CellsAreNat DEF BuffersInv
<1>10. Good' = Good /\ Known' = Known
  BY <1>1 DEF Good, Known, Packets
<1>11. QED
  BY <1>1, <1>9, <1>10 DEF BuffersInv

(* A valve whose answer is parsed is in the map before its confirmation is *)
(* put anywhere.                                                           *)
LEMMA ReadKeepsBuffers ==
  ASSUME LineInv, [Next]_vars, NEW a \in air, Read(a)
  PROVE  BuffersInv'
<1>1. TypeOK /\ BuffersInv /\ htx' = htx /\ a \in Answers /\ a.from \in Valves
  BY DEF LineInv, Read, TypeOK, Answers
<1>2. Known \subseteq Known' /\ Good \subseteq Good'
  <2>1. ~ Restart
    BY DEF Read, Restart, TypeOK, LineInv, Fault
  <2>2. QED
    BY <1>1, <2>1, KnownGrows
<1>3. tx \in Seq(Good') /\ htx \in Seq(Good') /\ rx \in Seq(Known')
  BY <1>1, <1>2, SeqMonotonic DEF BuffersInv
<1>4. /\ Len(tx) <= TxCells /\ Len(htx) <= HtxCells /\ Len(rx) <= RxCells
      /\ Len(rx) \in Nat
  BY <1>1, LenProperties DEF BuffersInv
<1>5. To(a.from, "data") \in Good'
  BY <1>1 DEF To, Good, Packets
<1>6. CASE a.kind = "user" /\ ParseUser(a.from)
  <2>1. a.from \in Known'
    BY <1>1, <1>6 DEF ParseUser, Known, TypeOK
  <2>2. To(a.from, "confirm") \in Good'
    BY <1>1, <2>1 DEF To, Good, Packets
  <2>3. CASE rx' = Append(rx, a.from) /\ tx' = tx /\ Len(rx) < RxCells
    <3>1. rx' \in Seq(Known') /\ Len(rx') = Len(rx) + 1
      BY <1>3, <2>1, <2>3, AppendProperties
    <3>2. QED
      BY <1>1, <1>3, <1>4, <2>3, <3>1, CellsAreNat DEF BuffersInv
  <2>4. CASE tx' = Put(tx, <<To(a.from, "confirm")>>, TxCells) /\ rx' = rx
    <3>1. tx' \in Seq(Good') /\ Len(tx') <= TxCells
      BY <1>3, <2>2, <2>4, PutFits, OneIsSeq, CellsAreNat
    <3>2. QED
      BY <1>1, <1>3, <1>4, <2>4, <3>1 DEF BuffersInv
  <2>5. QED
    BY <1>6, <2>3, <2>4 DEF ParseUser
<1>7. CASE rx' = rx /\ (tx' = tx \/ tx' = Put(tx, <<To(a.from, "data")>>, TxCells))
  <2>1. tx' \in Seq(Good') /\ Len(tx') <= TxCells
    BY <1>3, <1>4, <1>5, <1>7, PutFits, OneIsSeq, CellsAreNat
  <2>2. QED
    BY <1>1, <1>3, <1>4, <1>7, <2>1 DEF BuffersInv
<1>8. QED
  BY <1>6, <1>7 DEF Read, ParseAck, ParseUnregistered, ParseTime

LEMMA BuffersStep == LineInv /\ [Next]_vars => BuffersInv'
<1> SUFFICES ASSUME LineInv, [Next]_vars PROVE BuffersInv'
  OBVIOUS
<1>1. TypeOK /\ BuffersInv
  BY DEF LineInv
<1>2. CASE Broadcast \/ Punctual \/ \E a \in air : Read(a)
  BY <1>2, BroadcastKeepsBuffers, PunctualKeepsBuffers, ReadKeepsBuffers
<1>3. ASSUME UNCHANGED users PROVE Good' = Good /\ Known' = Known
  BY <1>3 DEF Good, Known, Packets
<1>4. CASE Query
  <2>1. To(All, "query") \in Good
    BY DEF To, Good, Packets
  <2>2. UNCHANGED <<users, htx, rx>> /\ tx' = Put(tx, <<To(All, "query")>>, TxCells)
    BY <1>4 DEF Query
  <2>3. tx' \in Seq(Good) /\ Len(tx') <= TxCells
    BY <1>1, <2>1, <2>2, PutFits, OneIsSeq, CellsAreNat DEF BuffersInv
  <2>4. QED
    BY <1>1, <1>3, <2>2, <2>3 DEF BuffersInv
<1>5. CASE WriteUrgent \/ WriteMixed
  <2>1. UNCHANGED <<users, tx, rx>> /\ htx # <<>> /\ htx' = Tail(htx)
    BY <1>5 DEF WriteUrgent, WriteMixed, Written, registration
  <2>2. htx' \in Seq(Good) /\ Len(htx') = Len(htx) - 1 /\ Len(htx) \in Nat
    BY <1>1, <2>1, HeadTailProperties, LenProperties DEF BuffersInv
  <2>3. QED
    BY <1>1, <1>3, <2>1, <2>2, CellsAreNat DEF BuffersInv
<1>6. CASE WriteNormal
  <2>1. UNCHANGED <<users, htx, rx>> /\ tx # <<>> /\ tx' = Tail(tx)
    BY <1>6 DEF WriteNormal, Written, registration
  <2>2. tx' \in Seq(Good) /\ Len(tx') = Len(tx) - 1 /\ Len(tx) \in Nat
    BY <1>1, <2>1, HeadTailProperties, LenProperties DEF BuffersInv
  <2>3. QED
    BY <1>1, <1>3, <2>1, <2>2, CellsAreNat DEF BuffersInv
<1>7. CASE \E v \in Valves : Urgent(v)
  <2>1. PICK v \in Valves : Urgent(v)
    BY <1>7
  <2>2. UNCHANGED <<users, tx, rx>> /\ htx' = Append(htx, To(v, "data")) /\ Len(htx) < HtxCells
    BY <2>1 DEF Urgent, registration
  <2>3. To(v, "data") \in Good
    BY DEF To, Good, Packets
  <2>4. htx' \in Seq(Good) /\ Len(htx') = Len(htx) + 1 /\ Len(htx) \in Nat
    BY <1>1, <2>2, <2>3, AppendProperties, LenProperties DEF BuffersInv
  <2>5. QED
    BY <1>1, <1>3, <2>2, <2>4, CellsAreNat DEF BuffersInv
<1>8. CASE Restart
  <2>1. tx' = <<>> /\ htx' = <<>> /\ rx' = <<>>
    BY <1>8 DEF Restart
  <2>2. <<>> \in Seq(Good') /\ <<>> \in Seq(Known') /\ Len(<<>>) = 0
    BY EmptySeq
  <2>3. QED
    BY <2>1, <2>2, CellsAreNat DEF BuffersInv
<1>9. CASE UNCHANGED <<users, tx, htx, rx>>
  BY <1>1, <1>3, <1>9 DEF BuffersInv
<1>10. QED
  BY <1>2, <1>4, <1>5, <1>6, <1>7, <1>8, <1>9
     DEF Next, Timers, InputOutput, vars, registration, buffers, NotQuiet, Rebroadcast,
         NotPunctual, Arm, WritePart, Timeout, Silence, LoseAnswer, ValveForgets

(* What the line does with a packet of tx or htx.                          *)
LEMMA ReachKeepsTypes ==
  ASSUME TypeOK, NEW p \in Packets, NEW R \in SUBSET Valves, Reach(p, R)
  PROVE  /\ air' \subseteq Answers
         /\ valveSid' \in [Valves -> 0 .. sid]
         /\ \A v \in Valves : valveSid'[v] = valveSid[v] \/ (p.kind = "confirm" /\ v = p.to)
<1>1. CASE p.kind = "confirm"
  <2>1. /\ valveSid' = [v \in Valves |-> IF v \in R \cap {p.to} THEN sid ELSE valveSid[v]]
        /\ air' = air
    BY <1>1 DEF Reach
  <2>2. sid \in 0 .. sid /\ valveSid \in [Valves -> 0 .. sid] /\ air \subseteq Answers
    BY DEF TypeOK
  <2>3. QED
    BY <1>1, <2>1, <2>2
<1>2. CASE p.kind # "confirm"
  <2>1. valveSid' = valveSid
    BY <1>2 DEF Reach, Packets
  <2>2. ASSUME NEW b \in air', b \notin air PROVE b \in Answers
    <3>1. PICK v \in R : \/ b = [from |-> v, kind |-> "user"]
                         \/ b = [from |-> v, kind |-> "unregistered"]
                         \/ p.kind \in {"time", "data"} /\ b = [from |-> v, kind |-> p.kind]
      BY <1>2, <2>2 DEF Reach, Packets
    <3>2. QED
      BY <3>1 DEF Answers
  <2>3. QED
    BY <2>1, <2>2 DEF TypeOK
<1>3. QED
  BY <1>1, <1>2

LEMMA WriteKeepsTypes ==
  ASSUME LineInv, WriteUrgent \/ WriteNormal
  PROVE  /\ air' \subseteq Answers /\ valveSid' \in [Valves -> 0 .. sid]
         /\ \A v \in Valves : valveSid'[v] = valveSid[v] \/ v \in Known
         /\ faults' \in 0 .. MaxFaults /\ faults <= faults' /\ sid' = sid
<1>1. TypeOK /\ BuffersInv /\ sid' = sid
  BY DEF LineInv, WriteUrgent, WriteNormal, Written
<1>2. PICK p \in Good : Reached(p)
  <2>1. CASE WriteUrgent
    <3>1. Head(htx) \in Good
      BY <1>1, <2>1, HeadTailProperties DEF BuffersInv, WriteUrgent
    <3>2. QED
      BY <2>1, <3>1 DEF WriteUrgent
  <2>2. CASE WriteNormal
    <3>1. Head(tx) \in Good
      BY <1>1, <2>2, HeadTailProperties DEF BuffersInv, WriteNormal
    <3>2. QED
      BY <2>2, <3>1 DEF WriteNormal
  <2>3. QED
    BY <2>1, <2>2
<1>3. p \in Packets /\ (p.kind = "confirm" => p.to \in Known)
  BY DEF Good
<1>4. PICK R \in SUBSET Valves : Reach(p, R)
  BY <1>2 DEF Reached
<1>5. faults' \in 0 .. MaxFaults /\ faults <= faults'
  BY <1>1, <1>2, BoundsAssumption DEF Reached, Fault, TypeOK
<1>6. QED
  BY <1>1, <1>3, <1>4, <1>5, ReachKeepsTypes

LEMMA RangeWidens ==
  ASSUME NEW a \in Nat, NEW b \in Nat, a <= b, NEW s \in 1 .. a + 1
  PROVE  s \in 1 .. b + 1
OBVIOUS

LEMMA SessionStep == LineInv /\ [Next]_vars => SessionInv' /\ ConfirmedIsKnown'
<1> SUFFICES ASSUME LineInv, [Next]_vars PROVE SessionInv' /\ ConfirmedIsKnown'
  OBVIOUS
<1>1. /\ TypeOK /\ SessionInv /\ ConfirmedIsKnown
      /\ sid \in Nat /\ sid > 0 /\ faults \in Nat
      /\ sid \in 1 .. faults + 1
  BY DEF LineInv, TypeOK, SessionInv
<1>2. CASE Restart
  <2>1. sid' = sid + 1 /\ faults' = faults + 1
    BY <1>2 DEF Restart, Fault
  <2>2. valveSid' \in [Valves -> 0 .. sid]
    BY <1>1, <1>2 DEF Restart, SessionInv
  <2>3. \A v \in Valves : valveSid'[v] # sid'
    BY <1>1, <2>1, <2>2
  <2>4. QED
    BY <1>1, <2>1, <2>2, <2>3 DEF SessionInv, ConfirmedIsKnown
<1>3. CASE ~ Restart
  <2>1. Known \subseteq Known' /\ sid' = sid
    BY <1>1, <1>3, KnownGrows
  <2>2. CASE WriteUrgent \/ WriteNormal
    <3>1. /\ valveSid' \in [Valves -> 0 .. sid]
          /\ \A v \in Valves : valveSid'[v] = valveSid[v] \/ v \in Known
      BY <2>2, WriteKeepsTypes
    <3>2. SessionInv'
      <4>1. faults' \in 0 .. MaxFaults /\ faults <= faults'
        BY <2>2, WriteKeepsTypes
      <4>2. sid \in 1 .. faults' + 1
        <5>1. faults \in Nat /\ sid \in 1 .. faults + 1
          BY <1>1
        <5>2. faults' \in Nat /\ faults <= faults'
          BY <4>1, BoundsAssumption
        <5>3. QED
          BY <5>1, <5>2, RangeWidens
      <4>3. QED
        BY <2>1, <3>1, <4>2, Zenon DEF SessionInv
    <3>3. ASSUME NEW v \in Valves, valveSid'[v] = sid PROVE v \in Known'
      BY <1>1, <2>1, <3>1, <3>3 DEF ConfirmedIsKnown
    <3>4. QED
      BY <2>1, <3>2, <3>3 DEF ConfirmedIsKnown
  <2>3. CASE \E v \in Valves : ValveForgets(v)
    <3>1. /\ valveSid' \in [Valves -> 0 .. sid] /\ faults' = faults + 1
          /\ \A v \in Valves : valveSid'[v] = valveSid[v] \/ valveSid'[v] = 0
      BY <1>1, <2>3 DEF ValveForgets, Fault, SessionInv
    <3>2. SessionInv'
      <4>1. sid \in 1 .. faults' + 1
        <5>1. faults \in Nat /\ sid \in 1 .. faults + 1
          BY <1>1
        <5>2. faults' \in Nat /\ faults <= faults'
          BY <1>1, <3>1
        <5>3. QED
          BY <5>1, <5>2, RangeWidens
      <4>2. QED
        BY <2>1, <3>1, <4>1, Zenon DEF SessionInv
    <3>3. ASSUME NEW v \in Valves, valveSid'[v] = sid PROVE v \in Known'
      BY <1>1, <2>1, <3>1, <3>3 DEF ConfirmedIsKnown
    <3>4. QED
      BY <2>1, <3>2, <3>3 DEF ConfirmedIsKnown
  <2>4. CASE valveSid' = valveSid /\ (faults' = faults \/ Fault)
    BY <1>1, <2>1, <2>4 DEF SessionInv, ConfirmedIsKnown, Fault
  <2>5. QED
    BY <1>3, <2>2, <2>3, <2>4
       DEF Next, Timers, InputOutput, vars, valves, Query, Broadcast, NotQuiet, Rebroadcast,
           Punctual, NotPunctual, Arm, Read, WritePart, WriteMixed, Timeout, Silence, Urgent,
           LoseAnswer
<1>4. QED
  BY <1>2, <1>3

(* The counter passes four only with the query, which ends the broadcasts. *)
LEMMA CounterStep ==
  LineInv /\ [Next]_vars => counter' \in 0 .. 5 /\ (broadcasting' => counter' <= 4)
<1> SUFFICES ASSUME LineInv, [Next]_vars
             PROVE  counter' \in 0 .. 5 /\ (broadcasting' => counter' <= 4)
  OBVIOUS
<1>1. counter \in 0 .. 5 /\ (broadcasting => counter <= 4)
  BY DEF LineInv, TypeOK
<1>2. CASE Query
  <2>1. counter' = counter + 1 /\ counter = 4 /\ broadcasting' = FALSE
    BY <1>2 DEF Query
  <2>2. QED
    BY <2>1
<1>3. CASE Broadcast
  <2>1. broadcasting /\ counter # 4 /\ (counter' = counter + 1 \/ counter' = counter)
    BY <1>3 DEF Broadcast
  <2>2. QED
    BY <1>1, <2>1
<1>4. CASE counter' \in {0, 1}
  BY <1>4
<1>5. CASE UNCHANGED <<broadcasting, counter>>
  BY <1>1, <1>5
<1>6. QED
  BY <1>2, <1>3, <1>4, <1>5
     DEF Next, Timers, InputOutput, vars, registration, NotQuiet, Rebroadcast, Punctual,
         NotPunctual, Arm, Read, WriteUrgent, WriteNormal, WritePart, WriteMixed, Written,
         Timeout, Silence, Urgent, LoseAnswer, ValveForgets, Restart

(* What is registered, and what Run remembers of the line.                 *)
LEMMA RegistrationTypes ==
  LineInv /\ [Next]_vars =>
    /\ at' \in {"timers", "arm", "wait"}
    /\ users' \in [Valves -> {"unknown", "nobody", "user"}]
    /\ unregistered' \in Nat
<1> SUFFICES ASSUME LineInv, [Next]_vars
             PROVE  /\ at' \in {"timers", "arm", "wait"}
                    /\ users' \in [Valves -> {"unknown", "nobody", "user"}]
                    /\ unregistered' \in Nat
  OBVIOUS
<1>1. TypeOK
  BY DEF LineInv
<1>2. CASE \E a \in air : Read(a)
  <2>1. PICK a \in air : Read(a)
    BY <1>2
  <2>2. /\ a.from \in Valves /\ unregistered \in Nat
        /\ users \in [Valves -> {"unknown", "nobody", "user"}]
    BY <1>1 DEF TypeOK, Answers
  <2>3. unregistered' \in {unregistered, unregistered + 1}
    BY <2>1 DEF Read, ParseAck, ParseUser, ParseUnregistered, ParseTime
  <2>4. users' = users \/ \E u \in {"nobody", "user"} : users' = [users EXCEPT ![a.from] = u]
    <3>1. CASE ParseUser(a.from)
      BY <2>2, <3>1 DEF ParseUser
    <3>2. CASE ~ ParseUser(a.from)
      BY <2>1, <3>2 DEF Read, ParseAck, ParseUnregistered, ParseTime
    <3>3. QED
      BY <3>1, <3>2
  <2>5. users' \in [Valves -> {"unknown", "nobody", "user"}] /\ unregistered' \in Nat
    BY <2>2, <2>3, <2>4
  <2>6. at' \in {"timers", "wait"}
    BY <2>1 DEF Read
  <2>7. QED
    BY <2>5, <2>6
<1>3. CASE Restart
  BY <1>3 DEF Restart
<1>4. CASE UNCHANGED users /\ unregistered' \in {0, unregistered}
             /\ at' \in {"timers", "arm", "wait", at}
  BY <1>1, <1>4 DEF TypeOK
<1>5. QED
  BY <1>2, <1>3, <1>4
     DEF Next, Timers, InputOutput, vars, registration, Query, Broadcast, NotQuiet, Rebroadcast,
         Punctual, NotPunctual, Arm, WriteUrgent, WriteNormal, WritePart, WriteMixed, Written,
         Timeout, Silence, Urgent, LoseAnswer, ValveForgets

LEMMA LineTypes ==
  LineInv /\ [Next]_vars =>
    /\ balance' \in Int /\ retry' \in 0 .. MaxRetry + 1
    /\ wrote' \in {"none", "tx", "htx"}
    /\ urgent' \in 0 .. MaxUrgent
<1> SUFFICES ASSUME LineInv, [Next]_vars
             PROVE  /\ balance' \in Int /\ retry' \in 0 .. MaxRetry + 1
                    /\ wrote' \in {"none", "tx", "htx"}
                    /\ urgent' \in 0 .. MaxUrgent
  OBVIOUS
<1>1. /\ balance \in Int /\ retry \in 0 .. MaxRetry + 1
      /\ wrote \in {"none", "tx", "htx"}
      /\ urgent \in 0 .. MaxUrgent
  BY DEF LineInv, TypeOK
<1>2. balance' \in {balance - 1, balance, balance + 1, 0}
  BY DEF Next, Timers, InputOutput, vars, line, Query, Broadcast, NotQuiet, Rebroadcast,
         Punctual, NotPunctual, Arm, Read, WriteUrgent, WriteNormal, WritePart, WriteMixed,
         Written, Timeout, Silence, Urgent, LoseAnswer, ValveForgets, Restart
<1>3. retry' \in {retry, 0} \/ (retry' = retry + 1 /\ ~ retry > MaxRetry)
  <2>1. CASE Timeout
    BY <2>1 DEF Timeout
  <2>2. CASE ~ Timeout
    BY <2>2 DEF Next, Timers, InputOutput, vars, line, Query, Broadcast, NotQuiet, Rebroadcast,
         Punctual, NotPunctual, Arm, Read, WriteUrgent, WriteNormal, WritePart, WriteMixed,
         Written, Silence, Urgent, LoseAnswer, ValveForgets, Restart
  <2>3. QED
    BY <2>1, <2>2
<1>4. wrote' \in {wrote, "none", "tx", "htx"}
  BY DEF Next, Timers, InputOutput, vars, line, Query, Broadcast, NotQuiet, Rebroadcast,
         Punctual, NotPunctual, Arm, Read, WriteUrgent, WriteNormal, WritePart, WriteMixed,
         Written, Timeout, Silence, Urgent, LoseAnswer, ValveForgets, Restart
<1>5. urgent' = urgent \/ (urgent' = urgent + 1 /\ urgent < MaxUrgent)
  <2>1. CASE \E v \in Valves : Urgent(v)
    BY <2>1 DEF Urgent
  <2>2. CASE ~ \E v \in Valves : Urgent(v)
    BY <2>2 DEF Next, Timers, InputOutput, vars, Query, Broadcast, NotQuiet, Rebroadcast,
         Punctual, NotPunctual, Arm, Read, WriteUrgent, WriteNormal, WritePart, WriteMixed,
         Written, Timeout, Silence, LoseAnswer, ValveForgets, Restart
  <2>3. QED
    BY <2>1, <2>2
<1>6. balance' \in Int /\ wrote' \in {"none", "tx", "htx"}
  BY <1>1, <1>2, <1>4
<1>7. retry' \in 0 .. MaxRetry + 1
  BY <1>1, <1>3, BoundsAssumption
<1>8. urgent' \in 0 .. MaxUrgent
  BY <1>1, <1>5, BoundsAssumption
<1>9. QED
  BY <1>6, <1>7, <1>8

LEMMA FlagTypes ==
  LineInv /\ [Next]_vars =>
    broadcasting' \in BOOLEAN /\ armed' \in BOOLEAN /\ recent' \in BOOLEAN /\ quiet' \in BOOLEAN
<1> SUFFICES ASSUME LineInv, [Next]_vars
             PROVE  /\ broadcasting' \in BOOLEAN /\ armed' \in BOOLEAN
                    /\ recent' \in BOOLEAN /\ quiet' \in BOOLEAN
  OBVIOUS
<1>1. /\ broadcasting \in BOOLEAN /\ armed \in BOOLEAN
      /\ recent \in BOOLEAN /\ quiet \in BOOLEAN
  BY Zenon DEF LineInv, TypeOK
<1>2. broadcasting' \in {broadcasting, TRUE, FALSE}
  BY DEF Next, Timers, InputOutput, vars, registration, Query, Broadcast, NotQuiet, Rebroadcast,
         Punctual, NotPunctual, Arm, Read, WriteUrgent, WriteNormal, WritePart, WriteMixed,
         Written, Timeout, Silence, Urgent, LoseAnswer, ValveForgets, Restart
<1>3. armed' \in {armed, TRUE, FALSE}
  BY DEF Next, Timers, InputOutput, vars, line, Query, Broadcast, NotQuiet, Rebroadcast,
         Punctual, NotPunctual, Arm, Read, WriteUrgent, WriteNormal, WritePart, WriteMixed,
         Written, Timeout, Silence, Urgent, LoseAnswer, ValveForgets, Restart
<1>4. recent' \in {recent, TRUE, FALSE}
  BY DEF Next, Timers, InputOutput, vars, line, Query, Broadcast, NotQuiet, Rebroadcast,
         Punctual, NotPunctual, Arm, Read, WriteUrgent, WriteNormal, WritePart, WriteMixed,
         Written, Timeout, Silence, Urgent, LoseAnswer, ValveForgets, Restart
<1>5. quiet' \in {quiet, TRUE, FALSE}
  BY DEF Next, Timers, InputOutput, vars, Query, Broadcast, NotQuiet, Rebroadcast,
         Punctual, NotPunctual, Arm, Read, WriteUrgent, WriteNormal, WritePart, WriteMixed,
         Written, Timeout, Silence, Urgent, LoseAnswer, ValveForgets, Restart
<1>6. QED
  BY <1>1, <1>2, <1>3, <1>4, <1>5, Zenon

(* The answers on their way, and the faults so far.                        *)
LEMMA ValveTypes == LineInv /\ [Next]_vars => air' \subseteq Answers /\ faults' \in 0 .. MaxFaults
<1> SUFFICES ASSUME LineInv, [Next]_vars
             PROVE  air' \subseteq Answers /\ faults' \in 0 .. MaxFaults
  OBVIOUS
<1>1. air \subseteq Answers /\ faults \in 0 .. MaxFaults
  BY DEF LineInv, TypeOK
<1>2. CASE WriteUrgent \/ WriteNormal
  BY <1>2, WriteKeepsTypes
<1>3. CASE air' \subseteq air /\ (faults' = faults \/ Fault)
  BY <1>1, <1>3, BoundsAssumption DEF Fault
<1>4. QED
  BY <1>2, <1>3
     DEF Next, Timers, InputOutput, vars, valves, Query, Broadcast, NotQuiet, Rebroadcast,
         Punctual, NotPunctual, Arm, Read, WritePart, WriteMixed, Timeout, Silence, Urgent,
         LoseAnswer, ValveForgets, Restart

LEMMA TypeStep == LineInv /\ [Next]_vars => TypeOK'
<1> SUFFICES ASSUME LineInv, [Next]_vars PROVE TypeOK'
  OBVIOUS
<1>1. BuffersInv' /\ SessionInv'
  BY BuffersStep, SessionStep
<1>2. Good' \subseteq Packets /\ Known' \subseteq Valves
  BY DEF Good, Known, Packets
<1>3. /\ tx' \in Seq(Packets) /\ Len(tx') <= TxCells
      /\ htx' \in Seq(Packets) /\ Len(htx') <= HtxCells
      /\ rx' \in Seq(Valves) /\ Len(rx') <= RxCells
  BY <1>1, <1>2, SeqMonotonic DEF BuffersInv
<1>4. air' \subseteq Answers /\ faults' \in 0 .. MaxFaults
  BY ValveTypes
<1>5. valveSid' \in [Valves -> 0 .. sid'] /\ sid' \in 1 .. MaxFaults + 1
  <2>1. sid' \in 1 .. faults' + 1 /\ valveSid' \in [Valves -> 0 .. sid']
    BY <1>1 DEF SessionInv
  <2>2. faults' \in Nat /\ faults' <= MaxFaults /\ MaxFaults \in Nat
    BY <1>4, BoundsAssumption
  <2>3. sid' \in 1 .. MaxFaults + 1
    <3>1. sid' \in 1 .. faults' + 1
      BY <2>1
    <3>2. QED
      BY <2>2, <3>1, RangeWidens
  <2>4. QED
    BY <2>1, <2>3
<1>6. counter' \in 0 .. 5
  BY CounterStep
<1>7. /\ at' \in {"timers", "arm", "wait"}
      /\ users' \in [Valves -> {"unknown", "nobody", "user"}]
      /\ unregistered' \in Nat
  BY RegistrationTypes
<1>8. /\ balance' \in Int /\ retry' \in 0 .. MaxRetry + 1
      /\ wrote' \in {"none", "tx", "htx"}
      /\ urgent' \in 0 .. MaxUrgent
  BY LineTypes
<1>9. /\ broadcasting' \in BOOLEAN /\ armed' \in BOOLEAN
      /\ recent' \in BOOLEAN /\ quiet' \in BOOLEAN
  BY FlagTypes
<1>10. QED
  BY <1>3, <1>4, <1>5, <1>6, <1>7, <1>8, <1>9, Zenon DEF TypeOK

LEMMA InvHolds == Spec => []LineInv
<1>1. Init => LineInv
  BY InitEstablishesInv
<1>2. LineInv /\ [Next]_vars => LineInv'
  BY TypeStep, BuffersStep, SessionStep, CounterStep, Zenon DEF LineInv
<1>3. QED
  BY <1>1, <1>2, PTL DEF Spec

------------------------------------------------------------------------------
(* The packet at the front of a buffer                                     *)

FrontStays(buffer, later) == buffer # <<>> => later # <<>> /\ Head(later) = Head(buffer)

LEMMA JoinedKeepsFront ==
  ASSUME NEW S, NEW buffer \in Seq(S), NEW packets \in Seq(S)
  PROVE  FrontStays(buffer, buffer \o packets)
<1> SUFFICES ASSUME buffer # <<>>
             PROVE  buffer \o packets # <<>> /\ Head(buffer \o packets) = Head(buffer)
  BY DEF FrontStays
<1>1. Len(buffer) \in Nat \ {0} /\ Len(packets) \in Nat
  BY EmptySeq, LenProperties
<1>2. /\ buffer \o packets \in Seq(S)
      /\ Len(buffer \o packets) = Len(buffer) + Len(packets)
      /\ (buffer \o packets)[1] = buffer[1]
  BY <1>1, ConcatProperties
<1>3. buffer \o packets # <<>>
  BY <1>1, <1>2, EmptySeq
<1>4. QED
  BY <1>2, <1>3, HeadTailProperties

(* cbuffer_write drops new packets, never one that waits already.          *)
LEMMA PutKeepsFront ==
  ASSUME NEW S, NEW buffer \in Seq(S), NEW packets \in Seq(S), NEW cells \in Nat \ {0}
  PROVE  FrontStays(buffer, Put(buffer, packets, cells))
<1> DEFINE all == buffer \o packets
<1>1. all \in Seq(S) /\ Len(all) \in Nat /\ FrontStays(buffer, all)
  BY ConcatProperties, LenProperties, JoinedKeepsFront
<1>2. Put(buffer, packets, cells) = IF Len(all) <= cells THEN all ELSE SubSeq(all, 1, cells)
  BY DEF Put
<1> HIDE DEF all
<1>3. CASE Len(all) > cells
  <2>1. \A i \in 1 .. cells : all[i] \in S
    BY <1>1, <1>3, ElementOfSeq
  <2>2. /\ SubSeq(all, 1, cells) \in Seq(S) /\ Len(SubSeq(all, 1, cells)) = cells
        /\ SubSeq(all, 1, cells)[1] = all[1]
    BY <2>1, SubSeqProperties
  <2>3. SubSeq(all, 1, cells) # <<>>
    BY <2>2, EmptySeq
  <2>4. all # <<>>
    BY <1>1, <1>3, EmptySeq
  <2>5. Head(SubSeq(all, 1, cells)) = Head(all)
    BY <1>1, <2>2, <2>3, <2>4, HeadTailProperties
  <2>6. Put(buffer, packets, cells) = SubSeq(all, 1, cells)
    BY <1>1, <1>2, <1>3
  <2>7. QED
    BY <1>1, <2>3, <2>5, <2>6 DEF FrontStays
<1>4. CASE Len(all) <= cells
  BY <1>1, <1>2, <1>4
<1>5. QED
  BY <1>1, <1>3, <1>4

(* Only a complete write or a restart takes a packet away.                 *)
LEMMA UrgentFrontStays ==
  ASSUME LineInv, [Next]_vars, ~ (WriteUrgent \/ WriteMixed \/ Restart)
  PROVE  FrontStays(htx, htx')
<1>1. htx \in Seq(Good)
  BY DEF LineInv, BuffersInv
<1>2. CASE Broadcast
  <2> DEFINE room == HtxCells - Len(htx)
             n == IF Len(rx) <= room THEN Len(rx) ELSE room
             confirmations == [i \in 1 .. n |-> To(rx[i], "confirm")]
  <2>1. htx' = htx \o confirmations
    BY <1>2 DEF Broadcast
  <2>2. n \in Nat
    <3>1. Len(rx) \in Nat /\ Len(htx) \in Nat /\ Len(htx) <= HtxCells
      BY <1>1, LenProperties DEF LineInv, BuffersInv
    <3>2. QED
      BY <3>1, CellsAreNat
  <2> HIDE DEF n
  <2> DEFINE S == {To(rx[i], "confirm") : i \in 1 .. n}
  <2>3. confirmations \in [1 .. n -> S]
    OBVIOUS
  <2> HIDE DEF confirmations, S
  <2>4. confirmations \in Seq(S)
    BY <2>2, <2>3
  <2>5. htx \in Seq(Good \union S) /\ confirmations \in Seq(Good \union S)
    BY <1>1, <2>4, SeqMonotonic
  <2>6. QED
    BY <2>1, <2>5, JoinedKeepsFront
<1>3. CASE \E v \in Valves : Urgent(v)
  <2>1. PICK v \in Valves : Urgent(v)
    BY <1>3
  <2>2. htx' = Append(htx, To(v, "data"))
    BY <2>1 DEF Urgent
  <2>3. To(v, "data") \in Good
    BY DEF To, Good, Packets
  <2>4. htx' = htx \o <<To(v, "data")>> /\ <<To(v, "data")>> \in Seq(Good)
    BY <1>1, <2>2, <2>3, AppendIsConcat, OneIsSeq
  <2>5. QED
    BY <1>1, <2>4, JoinedKeepsFront
<1>4. CASE htx' = htx
  BY <1>4 DEF FrontStays
<1>5. QED
  BY <1>2, <1>3, <1>4
     DEF Next, Timers, InputOutput, vars, buffers, Query, NotQuiet, Rebroadcast, Punctual,
         NotPunctual, Arm, Read, WriteNormal, WritePart, Timeout, Silence, LoseAnswer,
         ValveForgets

LEMMA NormalFrontStays ==
  ASSUME LineInv, [Next]_vars, ~ (WriteNormal \/ Restart)
  PROVE  FrontStays(tx, tx')
<1>1. tx \in Seq(Packets) /\ TxCells \in Nat \ {0}
  BY CellsAreNat DEF LineInv, TypeOK
<1>2. ASSUME NEW p \in Packets, tx' = Put(tx, <<p>>, TxCells) PROVE FrontStays(tx, tx')
  BY <1>1, <1>2, PutKeepsFront, OneIsSeq
<1>3. ASSUME tx' = tx PROVE FrontStays(tx, tx')
  BY <1>3 DEF FrontStays
<1>4. CASE Punctual
  BY <1>4 DEF Punctual, FrontStays
<1>5. CASE Query
  <2>1. To(All, "query") \in Packets
    BY DEF To, Packets
  <2>2. QED
    BY <1>2, <1>5, <2>1 DEF Query
<1>6. CASE Broadcast
  <2>1. To(All, "broadcast") \in Packets
    BY DEF To, Packets
  <2>2. tx' = tx \/ tx' = Put(tx, <<To(All, "broadcast")>>, TxCells)
    BY <1>6 DEF Broadcast
  <2>3. QED
    BY <1>2, <1>3, <2>1, <2>2
<1>7. CASE \E a \in air : Read(a)
  <2>1. PICK a \in air : Read(a)
    BY <1>7
  <2>2. a.from \in Valves
    BY DEF LineInv, TypeOK, Answers
  <2>3. To(a.from, "confirm") \in Packets /\ To(a.from, "data") \in Packets
    BY <2>2 DEF To, Packets
  <2>4. \/ tx' = tx \/ tx' = Put(tx, <<To(a.from, "confirm")>>, TxCells)
        \/ tx' = Put(tx, <<To(a.from, "data")>>, TxCells)
    BY <2>1 DEF Read, ParseAck, ParseUser, ParseUnregistered, ParseTime
  <2>5. QED
    BY <1>2, <1>3, <2>3, <2>4
<1>8. CASE tx' = tx
  BY <1>3, <1>8
<1>9. QED
  BY <1>4, <1>5, <1>6, <1>7, <1>8
     DEF Next, Timers, InputOutput, vars, buffers, NotQuiet, Rebroadcast, NotPunctual, Arm,
         WriteUrgent, WritePart, WriteMixed, Timeout, Silence, Urgent, LoseAnswer,
         ValveForgets

LEMMA WriteKinds ==
  ASSUME LineInv, [Next]_vars, ~ Arm, ~ WritePart
  PROVE  \/ UNCHANGED <<armed, wrote>> /\ ~ (WriteUrgent \/ WriteMixed \/ WriteNormal \/ Restart)
         \/ Restart /\ armed' = FALSE /\ wrote' = "none"
         \/ (WriteUrgent \/ WriteMixed \/ WriteNormal) /\ armed' = FALSE /\ wrote' = "none"
<1>1. CASE WriteUrgent \/ WriteMixed \/ WriteNormal
  BY <1>1 DEF WriteUrgent, WriteMixed, WriteNormal, Written
<1>2. CASE Restart
  BY <1>2 DEF Restart
<1>3. CASE ~ (WriteUrgent \/ WriteMixed \/ WriteNormal \/ Restart)
  BY <1>3
     DEF Next, Timers, InputOutput, vars, line, Query, Broadcast, NotQuiet, Rebroadcast,
         Punctual, NotPunctual, Read, Timeout, Silence, Urgent, LoseAnswer, ValveForgets
<1>4. QED
  BY <1>1, <1>2, <1>3

LEMMA ArmedStep ==
  LineInv /\ ArmedHasPacket /\ [Next]_vars => ArmedHasPacket'
<1> SUFFICES ASSUME LineInv, ArmedHasPacket, [Next]_vars PROVE ArmedHasPacket'
  OBVIOUS
<1>1. CASE Arm
  BY <1>1 DEF Arm, MayArm, buffers, ArmedHasPacket
<1>2. CASE WritePart
  BY <1>2 DEF WritePart, buffers, ArmedHasPacket
<1>3. CASE UNCHANGED <<armed, wrote>> /\ ~ (WriteUrgent \/ WriteMixed \/ WriteNormal \/ Restart)
  <2>1. FrontStays(tx, tx') /\ FrontStays(htx, htx')
    BY <1>3, UrgentFrontStays, NormalFrontStays
  <2>2. QED
    BY <1>3, <2>1 DEF FrontStays, ArmedHasPacket
<1>4. CASE armed' = FALSE /\ wrote' = "none"
  BY <1>4 DEF ArmedHasPacket
<1>5. QED
  BY <1>1, <1>2, <1>3, <1>4, WriteKinds

LEMMA ArmedHolds == Spec => []ArmedHasPacket
<1>1. Init => ArmedHasPacket
  BY DEF Init, ArmedHasPacket
<1>2. QED
  BY <1>1, ArmedStep, InvHolds, PTL DEF Spec

------------------------------------------------------------------------------
(* Theorems                                                                *)

(* The variables of the valve line stay in their types: the retries, the   *)
(* counter of the broadcasts and the session never pass their bounds, and  *)
(* cbuffer_write never fills tx, htx or rx beyond its cells.               *)
THEOREM TypeCorrect == Spec => []TypeOK
<1>1. LineInv => TypeOK
  BY DEF LineInv
<1>2. QED
  BY <1>1, InvHolds, PTL

(* A valve in the current session, which the broadcasts no longer call, is *)
(* in the map users of CValveMonitor: it was entered by ParseUser before   *)
(* its confirmation was put into rx, htx or tx, and a restart that forgets *)
(* it also drops its confirmation and takes a new session id.              *)
THEOREM ConfirmedAreKnown == Spec => []ConfirmedIsKnown
<1>1. LineInv => ConfirmedIsKnown
  BY DEF LineInv
<1>2. QED
  BY <1>1, InvHolds, PTL

(* CValveMonitor::Run finds a packet whenever EPOLLOUT wakes it, and does  *)
(* not come back for nothing: only the write of a packet's last byte takes *)
(* it from tx or htx, and that ends the listening.                         *)
THEOREM WokenOnlyToWrite == Spec => []ArmedHasPacket
<1>1. QED
  BY ArmedHolds

(* A packet that write() took in part stays the first of its buffer,       *)
(* whatever answers come and whatever other threads put behind it, and one *)
(* of high priority is completed by itself.                                *)
THEOREM FrontIsNotDisturbed == Spec => HalfWrittenStays
<1>1. ASSUME LineInv, ArmedHasPacket, [Next]_vars
      PROVE  [/\ wrote = "tx" /\ wrote' = "tx" => Head(tx') = Head(tx)
              /\ wrote = "htx" =>
                   \/ wrote' = "htx" /\ Head(htx') = Head(htx)
                   \/ wrote' = "none" /\ (htx' = Tail(htx) \/ Restart)]_vars
  <2>1. CASE Arm \/ WritePart
    BY <1>1, <2>1 DEF Arm, WritePart, buffers
  <2>2. CASE UNCHANGED <<armed, wrote>> /\ ~ (WriteUrgent \/ WriteMixed \/ WriteNormal \/ Restart)
    <3>1. FrontStays(tx, tx') /\ FrontStays(htx, htx')
      BY <1>1, <2>2, UrgentFrontStays, NormalFrontStays
    <3>2. QED
      BY <1>1, <2>2, <3>1 DEF FrontStays, ArmedHasPacket
  <2>3. CASE Restart /\ wrote' = "none"
    BY <2>3
  <2>4. CASE (WriteUrgent \/ WriteMixed \/ WriteNormal) /\ wrote' = "none"
    BY <1>1, <2>4 DEF WriteUrgent, WriteMixed, WriteNormal, ArmedHasPacket
  <2>5. QED
    BY <1>1, <2>1, <2>2, <2>3, <2>4, WriteKinds
<1>2. QED
  BY <1>1, ArmedHolds, InvHolds, PTL DEF Spec, HalfWrittenStays
==============================================================================
