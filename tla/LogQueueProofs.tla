---------------------------- MODULE LogQueueProofs ----------------------------
(***************************************************************************)
(* What LogQueue promises, for any number of records of any lengths and    *)
(* any number of failed calls and crashes: the three files are a durable   *)
(* first-in first-out queue, whose records are whole, leave it only when   *)
(* they were acknowledged and reach the portal in order.                   *)
(***************************************************************************)
EXTENDS LogQueue, SequenceTheorems, TLAPS

Bytes == Records \X Nat

InData(entry) == entry.offset + entry.length <= Len(data)

------------------------------------------------------------------------------
(* The inductive invariant                                                 *)

(* The entry is in the data file and stands for the record there.          *)
Names(entry, rec) == InData(entry) /\ Read(entry) = Cells(rec)

(* Every index entry names a record that was offered, before the one whose *)
(* entry is still to be written.                                           *)
IndexInv ==
  \A i \in 1 .. Len(idx) : \E rec \in Records :
    /\ Names(idx[i], rec) /\ rec <= offered
    /\ op = "indexing" => rec < offered

OrderInv ==
  \A i, j \in 1 .. Len(idx) : i < j => Read(idx[i])[1][1] < Read(idx[j])[1][1]

PendingInv ==
  op = "indexing" => offered \in Records /\ Names(pending, offered)

(* What is being sent is the front, and the last record sent is the one    *)
(* that was dequeued last or is still the front.                           *)
FrontInv ==
  /\ op \in {"sending", "sent"} => Front < Len(idx)
  /\ op = "sending" => buf = Read(idx[Front + 1])
  /\ op = "sent" => sent # <<>> /\ sent[Len(sent)] = Read(idx[Front + 1])

LastInv ==
  sent # <<>> =>
    \/ Front > 0 /\ sent[Len(sent)] = Read(idx[Front])
    \/ Front < Len(idx) /\ sent[Len(sent)] = Read(idx[Front + 1])

LogQueueInv ==
  /\ TypeOK
  /\ IndexInv /\ OrderInv /\ PendingInv
  /\ FrontInv /\ LastInv
  /\ DequeuedWasSent /\ SentInOrder /\ RepeatsNeedFaults

------------------------------------------------------------------------------
(* Sequences                                                               *)

LEMMA CellsAreBytes ==
  ASSUME NEW rec \in Records
  PROVE  /\ Cells(rec) \in Seq(Bytes)
         /\ Len(Cells(rec)) = RecordLength[rec]
         /\ RecordLength[rec] \in Nat \ {0}
         /\ Cells(rec)[1] = <<rec, 1>>
<1>1. RecordLength[rec] \in Nat \ {0}
  BY RecordLengthAssumption DEF Records
<1>2. Cells(rec) \in [1 .. RecordLength[rec] -> Bytes]
  BY <1>1 DEF Cells, Bytes
<1>3. QED
  BY <1>1, <1>2 DEF Cells

(* What is read back is not disturbed by what is appended.                 *)
LEMMA ReadsTheSame ==
  ASSUME NEW S, NEW s \in Seq(S), NEW t \in Seq(S), NEW m \in Nat, NEW n \in Nat \ {0},
         m + n <= Len(s)
  PROVE  /\ SubSeq(s \o t, m + 1, m + n) = SubSeq(s, m + 1, m + n)
         /\ SubSeq(s, m + 1, m + n) \in Seq(S)
         /\ Len(SubSeq(s, m + 1, m + n)) = n
         /\ m + n <= Len(s \o t)
<1>1. m + 1 \in 1 .. Len(s) /\ m + n \in 1 .. Len(s)
  BY LenProperties
<1>2. SubSeq(s \o t, m + 1, m + n) = SubSeq(s, m + 1, m + n)
  BY <1>1, SubSeqOfConcat1
<1>3. \A i \in m + 1 .. m + n : s[i] \in S
  BY <1>1, ElementOfSeq
<1>4. QED
  BY <1>1, <1>2, <1>3, ConcatProperties, LenProperties, SubSeqProperties

(* What has been appended is read back.                                    *)
LEMMA ReadsTheAppended ==
  ASSUME NEW S, NEW s \in Seq(S), NEW t \in Seq(S), t # <<>>
  PROVE  /\ SubSeq(s \o t, Len(s) + 1, Len(s) + Len(t)) = t
         /\ Len(s) + Len(t) <= Len(s \o t)
<1>1. Len(t) \in Nat \ {0} /\ Len(s) \in Nat
  BY LenProperties, EmptySeq
<1>2. SubSeq(s \o t, Len(s) + 1, Len(s) + Len(t)) = SubSeq(t, Len(s) + 1 - Len(s), Len(s) + Len(t) - Len(s))
  BY <1>1, SubSeqOfConcat2
<1>3. QED
  BY <1>1, <1>2, SubSeqFull, ConcatProperties

LEMMA FrontInRange ==
  ASSUME TypeOK
  PROVE  Front \in 0 .. Len(idx) /\ Len(idx) \in Nat
<1>1. CASE ptr = <<>>
  BY <1>1 DEF TypeOK, Front
<1>2. CASE ptr # <<>>
  BY <1>2 DEF TypeOK, Front
<1>3. QED
  BY <1>1, <1>2


------------------------------------------------------------------------------
(* What every step leaves as it is                                         *)

(* The data file only grows.                                               *)
LEMMA DataGrows ==
  ASSUME TypeOK, [Next]_vars
  PROVE  \E t \in Seq(Bytes) : data' = data \o t
<1>1. data \in Seq(Bytes) /\ <<>> \in Seq(Bytes)
  BY DEF TypeOK, Bytes
<1>2. ASSUME data' = data PROVE \E t \in Seq(Bytes) : data' = data \o t
  BY <1>1, <1>2, ConcatEmptySeq
<1>3. CASE EnqueueData
  <2>1. offered + 1 \in Records
    BY <1>3, MaxRecordsAssumption DEF EnqueueData, TypeOK, Records
  <2>2. QED
    BY <1>3, <2>1, CellsAreBytes DEF EnqueueData
<1>4. CASE EnqueueShort
  <2>1. offered + 1 \in Records
    BY <1>4, MaxRecordsAssumption DEF EnqueueShort, TypeOK, Records
  <2>2. PICK n \in 0 .. RecordLength[offered + 1] - 1 :
           data' = data \o SubSeq(Cells(offered + 1), 1, n)
    BY <1>4 DEF EnqueueShort
  <2>3. \A i \in 1 .. n : Cells(offered + 1)[i] \in Bytes
    BY <2>1, CellsAreBytes, ElementOfSeq
  <2>4. SubSeq(Cells(offered + 1), 1, n) \in Seq(Bytes)
    BY <2>1, <2>3, CellsAreBytes, SubSeqProperties
  <2>5. QED
    BY <2>2, <2>4
<1>5. CASE ~ EnqueueData /\ ~ EnqueueShort
  <2>1. data' = data
    BY <1>5 DEF Next, vars, files, Open, Crash, EnqueueIndex, EnqueueIndexFails, StartSending,
             StopSending, ReadFront, GiveUp, SendOk, Dequeue, DequeueFails
  <2>2. QED
    BY <1>2, <2>1
<1>6. QED
  BY <1>3, <1>4, <1>5

(* What an entry names is never overwritten.                               *)
LEMMA EntryIsStable ==
  ASSUME TypeOK, [Next]_vars, NEW entry \in Entries, InData(entry)
  PROVE  /\ InData(entry)' /\ Read(entry)' = Read(entry)
         /\ Read(entry) \in Seq(Bytes) /\ Len(Read(entry)) = entry.length
<1>1. PICK t \in Seq(Bytes) : data' = data \o t
  BY DataGrows
<1>2. data \in Seq(Bytes)
  BY DEF TypeOK, Bytes
<1>3. /\ entry.offset \in Nat /\ entry.length \in Nat \ {0}
      /\ entry.offset + entry.length <= Len(data)
  BY DEF Entries, InData
<1>4. PICK m \in Nat, n \in Nat \ {0} : m = entry.offset /\ n = entry.length
  BY <1>3
<1>5. m + n <= Len(data)
  BY <1>3, <1>4
<1>6. /\ SubSeq(data \o t, m + 1, m + n) = SubSeq(data, m + 1, m + n)
      /\ SubSeq(data, m + 1, m + n) \in Seq(Bytes)
      /\ Len(SubSeq(data, m + 1, m + n)) = n
      /\ m + n <= Len(data \o t)
  BY <1>2, <1>5, ReadsTheSame
<1>7. QED
  BY <1>1, <1>4, <1>6 DEF InData, Read

(* The index file only grows, too, and by one entry.                       *)
LEMMA IndexGrows ==
  ASSUME TypeOK, [Next]_vars
  PROVE  /\ idx' = idx \/ EnqueueIndex
         /\ Len(idx') \in Nat /\ Len(idx) <= Len(idx')
         /\ \A i \in 1 .. Len(idx) : idx'[i] = idx[i]
<1>1. idx' = idx \/ EnqueueIndex
  BY DEF Next, vars, files, Open, Crash, EnqueueData, EnqueueShort, EnqueueIndexFails,
         StartSending, StopSending, ReadFront, GiveUp, SendOk, Dequeue, DequeueFails
<1>2. CASE idx' = idx
  BY <1>2, FrontInRange
<1>3. CASE EnqueueIndex
  <2>1. idx \in Seq(Entries) /\ pending \in Entries /\ idx' = Append(idx, pending)
    BY <1>3 DEF TypeOK, EnqueueIndex
  <2>2. QED
    BY <2>1, <1>3, AppendProperties, LenProperties
<1>4. QED
  BY <1>1, <1>2, <1>3

(* Only a dequeue moves the front, by one.                                 *)
LEMMA FrontMoves ==
  ASSUME TypeOK, [Next]_vars
  PROVE  /\ ~ Dequeue => ptr' = ptr /\ Front' = Front
         /\ Dequeue => Front' = Front + 1
<1>1. ASSUME ~ Dequeue PROVE ptr' = ptr
  BY <1>1 DEF Next, vars, files, Open, Crash, EnqueueData, EnqueueShort, EnqueueIndex,
           EnqueueIndexFails, StartSending, StopSending, ReadFront, GiveUp, SendOk, DequeueFails
<1>2. ASSUME Dequeue PROVE Front' = Front + 1
  <2>1. ptr \in Seq(0 .. Len(idx)) /\ ptr' = Append(ptr, Front + 1)
    BY <1>2 DEF TypeOK, Dequeue
  <2>2. ptr \in Seq(Nat) /\ Front + 1 \in Nat
    BY <2>1, FrontInRange, SeqMonotonic
  <2>3. ptr' # <<>> /\ ptr'[Len(ptr')] = Front + 1
    BY <2>1, <2>2, AppendProperties, LenProperties
  <2>4. QED
    BY <2>3 DEF Front
<1>3. QED
  BY <1>1, <1>2 DEF Front

(* The entries there are name what they named.                             *)
LEMMA IndexIsStable ==
  ASSUME TypeOK, IndexInv, [Next]_vars, NEW i \in 1 .. Len(idx)
  PROVE  /\ idx[i] \in Entries /\ InData(idx[i])
         /\ i \in 1 .. Len(idx') /\ idx'[i] = idx[i]
         /\ InData(idx[i])' /\ Read(idx[i])' = Read(idx[i])
<1>1. idx[i] \in Entries /\ InData(idx[i])
  BY ElementOfSeq DEF TypeOK, IndexInv, Names
<1>2. i \in 1 .. Len(idx') /\ idx'[i] = idx[i]
  BY IndexGrows, FrontInRange
<1>3. InData(idx[i])' /\ Read(idx[i])' = Read(idx[i])
  <2> DEFINE entry == idx[i]
  <2>1. /\ entry.offset + entry.length <= Len(data')
        /\ SubSeq(data', entry.offset + 1, entry.offset + entry.length) = Read(entry)
    <3> HIDE DEF entry
    <3>1. entry \in Entries /\ InData(entry)
      BY <1>1 DEF entry
    <3>2. QED
      BY <3>1, EntryIsStable DEF InData, Read
  <2>2. QED
    BY <2>1, <1>2 DEF InData, Read
<1>4. QED
  BY <1>1, <1>2, <1>3
(* Only an acknowledged record is added to what the portal has.            *)
LEMMA SentGrows ==
  ASSUME TypeOK, [Next]_vars
  PROVE  /\ sent' = sent \/ SendOk
         /\ Len(sent) \in Nat
         /\ SendOk => /\ sent' # <<>>
                      /\ Len(sent') = Len(sent) + 1 /\ sent'[Len(sent')] = buf
                      /\ \A k \in 1 .. Len(sent) : sent'[k] = sent[k]
<1>1. sent' = sent \/ SendOk
  BY DEF Next, vars, files, Open, Crash, EnqueueData, EnqueueShort, EnqueueIndex,
         EnqueueIndexFails, StartSending, StopSending, ReadFront, GiveUp, Dequeue, DequeueFails
<1> DEFINE S == Seq(Bytes)
<1>2. sent \in Seq(S) /\ buf \in S
  BY DEF TypeOK, Bytes
<1> HIDE DEF S
<1>3. Len(sent) \in Nat
  BY <1>2, LenProperties
<1>4. SendOk => sent' = Append(sent, buf)
  BY DEF SendOk
<1>5. /\ Append(sent, buf) # <<>> /\ Len(Append(sent, buf)) = Len(sent) + 1
      /\ Append(sent, buf)[Len(sent) + 1] = buf
      /\ \A k \in 1 .. Len(sent) : Append(sent, buf)[k] = sent[k]
  BY <1>2, AppendProperties
<1>6. QED
  BY <1>1, <1>3, <1>4, <1>5

------------------------------------------------------------------------------
(* Every step preserves the invariant, conjunct by conjunct                *)

LEMMA InitEstablishesInv == Init => LogQueueInv
<1> SUFFICES ASSUME Init PROVE LogQueueInv
  OBVIOUS
<1>1. TypeOK
  BY MaxRecordsAssumption, MaxFaultsAssumption DEF Init, TypeOK, Entries
<1>2. Front = 0 /\ Len(idx) = 0 /\ Len(sent) = 0
  BY DEF Init, Front
<1>3. IndexInv /\ OrderInv /\ PendingInv
  BY <1>2 DEF Init, IndexInv, OrderInv, PendingInv
<1>4. FrontInv /\ LastInv
  BY DEF Init, FrontInv, LastInv
<1>5. DequeuedWasSent /\ SentInOrder /\ RepeatsNeedFaults
  BY <1>2 DEF Init, DequeuedWasSent, SentInOrder, RepeatsNeedFaults
<1>6. QED
  BY <1>1, <1>3, <1>4, <1>5 DEF LogQueueInv

LEMMA TypeStep == LogQueueInv /\ [Next]_vars => TypeOK'
<1> SUFFICES ASSUME LogQueueInv, [Next]_vars PROVE TypeOK'
  OBVIOUS
<1> TypeOK
  BY DEF LogQueueInv
<1> USE MaxFaultsAssumption, MaxRecordsAssumption
<1>1. data' \in Seq(Bytes)
  <2>1. PICK t \in Seq(Bytes) : data' = data \o t
    BY DataGrows
  <2>2. QED
    BY <2>1, ConcatProperties DEF TypeOK, Bytes
<1>2. CASE Open \/ StartSending \/ StopSending \/ UNCHANGED vars
  BY <1>2 DEF Open, StartSending, StopSending, files, vars, TypeOK
<1>3. CASE Crash \/ EnqueueIndexFails \/ GiveUp \/ DequeueFails
  <2>1. faults' \in 0 .. MaxFaults /\ UNCHANGED <<data, idx, ptr, pending, offered, sent>>
    BY <1>3 DEF Crash, EnqueueIndexFails, GiveUp, DequeueFails, Fault, files, TypeOK
  <2>2. buf' \in Seq(Bytes) /\ op' \in {"closed", "idle", "draining"}
    BY <1>3, EmptySeq DEF Crash, EnqueueIndexFails, GiveUp, DequeueFails, TypeOK, Bytes
  <2>3. QED
    BY <2>1, <2>2 DEF TypeOK, Bytes
<1>4. CASE EnqueueData
  <2>1. offered + 1 \in Records
    BY <1>4 DEF EnqueueData, TypeOK, Records
  <2>2. pending' \in Entries
    BY <1>4, <2>1, CellsAreBytes, LenProperties DEF EnqueueData, EndOfData, Entries, TypeOK
  <2>3. QED
    BY <1>1, <1>4, <2>1, <2>2 DEF EnqueueData, TypeOK, Records, Bytes
<1>5. CASE EnqueueShort
  BY <1>1, <1>5 DEF EnqueueShort, Fault, TypeOK, Bytes
<1>6. CASE EnqueueIndex
  <2>1. idx' \in Seq(Entries) /\ Len(idx') = Len(idx) + 1
    BY <1>6, AppendProperties DEF EnqueueIndex, TypeOK
  <2>2. ptr' \in Seq(0 .. Len(idx'))
    BY <1>6, <2>1, FrontInRange, SeqMonotonic DEF EnqueueIndex, TypeOK
  <2>3. QED
    BY <1>6, <2>1, <2>2 DEF EnqueueIndex, TypeOK
<1>7. CASE ReadFront
  <2>1. Front + 1 \in 1 .. Len(idx)
    BY <1>7, FrontInRange DEF ReadFront, Empty
  <2>2. buf' \in Seq(Bytes)
    BY <1>7, <2>1, IndexIsStable, EntryIsStable DEF ReadFront, LogQueueInv
  <2>3. QED
    BY <1>7, <2>2 DEF ReadFront, files, TypeOK, Bytes
<1>8. CASE SendOk
  BY <1>8, AppendProperties DEF SendOk, files, TypeOK
<1>9. CASE Dequeue
  <2>1. Front + 1 \in 0 .. Len(idx)
    BY <1>9, FrontInRange DEF Dequeue, LogQueueInv, FrontInv
  <2>2. ptr' \in Seq(0 .. Len(idx'))
    BY <1>9, <2>1, AppendProperties DEF Dequeue, TypeOK
  <2>3. QED
    BY <1>9, <2>2 DEF Dequeue, TypeOK
<1>10. QED
  BY <1>2, <1>3, <1>4, <1>5, <1>6, <1>7, <1>8, <1>9 DEF Next

LEMMA IndexStep == LogQueueInv /\ [Next]_vars => IndexInv'
<1> SUFFICES ASSUME LogQueueInv, [Next]_vars PROVE IndexInv'
  OBVIOUS
<1>1. TypeOK /\ TypeOK' /\ IndexInv /\ offered \in Nat /\ offered' \in Nat
  BY TypeStep DEF LogQueueInv, TypeOK
<1>2. offered <= offered' /\ (op' = "indexing" /\ op # "indexing" => offered < offered')
  BY <1>1 DEF Next, vars, files, Open, Crash, EnqueueData, EnqueueShort, EnqueueIndex,
       EnqueueIndexFails, StartSending, StopSending, ReadFront, GiveUp, SendOk, Dequeue,
       DequeueFails
<1>3. ASSUME NEW i \in 1 .. Len(idx)
      PROVE  \E rec \in Records : /\ Names(idx[i], rec)' /\ rec <= offered'
                                  /\ op' = "indexing" => rec < offered'
  <2>1. PICK rec \in Records : /\ Names(idx[i], rec) /\ rec <= offered
                               /\ op = "indexing" => rec < offered
    BY <1>1 DEF IndexInv
  <2>2. Names(idx[i], rec)'
    BY <1>1, <2>1, IndexIsStable DEF Names, Cells
  <2>3. QED
    BY <1>1, <1>2, <2>1, <2>2 DEF Records
<1>4. CASE idx' = idx
  BY <1>3, <1>4 DEF IndexInv
<1>5. CASE EnqueueIndex
  <2>1. PICK n \in Nat : n = Len(idx) + 1
    BY FrontInRange, <1>1
  <2>2. /\ op' # "indexing" /\ Len(idx') = n /\ idx'[n] = pending
        /\ data' = data /\ offered' = offered
    BY <1>1, <1>5, <2>1, AppendProperties DEF EnqueueIndex, TypeOK
  <2>3. offered \in Records /\ Names(pending, offered)
    BY <1>5 DEF EnqueueIndex, LogQueueInv, PendingInv
  <2>4. Names(idx[n], offered)'
    BY <2>2, <2>3 DEF Names, InData, Read, Cells
  <2>5. ASSUME NEW i \in 1 .. n
        PROVE  \E rec \in Records : Names(idx[i], rec)' /\ rec <= offered'
    <3>1. CASE i = n
      BY <1>1, <2>2, <2>3, <2>4, <3>1
    <3>2. CASE i \in 1 .. Len(idx)
      BY <1>3, <3>2
    <3>3. QED
      BY <2>1, <3>1, <3>2
  <2>6. QED
    BY <2>2, <2>5 DEF IndexInv
<1>6. QED
  BY <1>1, <1>4, <1>5, IndexGrows

LEMMA OrderStep == LogQueueInv /\ [Next]_vars => OrderInv'
<1> SUFFICES ASSUME LogQueueInv, [Next]_vars PROVE OrderInv'
  OBVIOUS
<1>1. TypeOK /\ IndexInv /\ OrderInv /\ PendingInv
  BY DEF LogQueueInv
<1>2. ASSUME NEW i \in 1 .. Len(idx), NEW j \in 1 .. Len(idx), i < j
      PROVE  (Read(idx[i])[1][1] < Read(idx[j])[1][1])'
  <2>1. Read(idx[i])' = Read(idx[i]) /\ Read(idx[j])' = Read(idx[j])
    BY <1>1, IndexIsStable
  <2>2. Read(idx[i])[1][1] < Read(idx[j])[1][1]
    BY <1>1, <1>2 DEF OrderInv
  <2>3. QED
    BY <2>1, <2>2
<1>3. CASE idx' = idx
  BY <1>2, <1>3 DEF OrderInv
<1>4. CASE EnqueueIndex
  <2>1. PICK n \in Nat : n = Len(idx) + 1
    BY FrontInRange, <1>1
  <2>2. Len(idx') = n /\ idx'[n] = pending /\ data' = data
    BY <1>1, <1>4, <2>1, AppendProperties DEF EnqueueIndex, TypeOK
  <2>3. offered \in Records /\ Read(pending) = Cells(offered)
    BY <1>1, <1>4 DEF EnqueueIndex, PendingInv, Names
  <2>4. Read(idx[n])' = Cells(offered)
    BY <2>2, <2>3 DEF Read
  <2>5. Cells(offered)[1][1] = offered
    BY <2>3, CellsAreBytes
  <2>6. ASSUME NEW i \in 1 .. Len(idx) PROVE (Read(idx[i])[1][1] < Read(idx[n])[1][1])'
    <3>1. PICK rec \in Records : Read(idx[i]) = Cells(rec) /\ rec < offered
      BY <1>1, <1>4 DEF EnqueueIndex, IndexInv, Names
    <3>2. Read(idx[i])' = Cells(rec) /\ Cells(rec)[1][1] = rec
      BY <1>1, <3>1, IndexIsStable, CellsAreBytes
    <3>3. QED
      BY <2>4, <2>5, <3>1, <3>2
  <2>7. ASSUME NEW i \in 1 .. n, NEW j \in 1 .. n, i < j
        PROVE  (Read(idx[i])[1][1] < Read(idx[j])[1][1])'
    <3>1. i \in 1 .. Len(idx)
      BY <2>1, <2>7, FrontInRange, <1>1
    <3>2. CASE j = n
      BY <2>6, <3>1, <3>2
    <3>3. CASE j \in 1 .. Len(idx)
      BY <1>2, <2>7, <3>1, <3>3
    <3>4. QED
      BY <2>1, <3>2, <3>3, FrontInRange, <1>1
  <2>8. QED
    BY <2>2, <2>7 DEF OrderInv
<1>5. QED
  BY <1>1, <1>3, <1>4, IndexGrows

LEMMA PendingStep == LogQueueInv /\ [Next]_vars => PendingInv'
<1> SUFFICES ASSUME LogQueueInv, [Next]_vars, op' = "indexing"
             PROVE  (offered \in Records /\ Names(pending, offered))'
  BY DEF PendingInv
<1>1. TypeOK /\ PendingInv
  BY DEF LogQueueInv
<1>2. CASE EnqueueData
  <2>1. PICK rec \in Records : rec = offered + 1
    BY <1>1, <1>2, MaxRecordsAssumption DEF EnqueueData, TypeOK, Records
  <2>2. /\ pending' = [offset |-> Len(data), length |-> RecordLength[rec]]
        /\ data' = data \o Cells(rec) /\ offered' = rec
    BY <1>2, <2>1 DEF EnqueueData, EndOfData
  <2>3. data \in Seq(Bytes) /\ Cells(rec) \in Seq(Bytes) /\ Cells(rec) # <<>>
    BY <1>1, CellsAreBytes, EmptySeq DEF TypeOK, Bytes
  <2>4. /\ SubSeq(data', Len(data) + 1, Len(data) + Len(Cells(rec))) = Cells(rec)
        /\ Len(data) + Len(Cells(rec)) <= Len(data')
    BY <2>2, <2>3, ReadsTheAppended
  <2>5. Names(pending, rec)'
    BY <2>2, <2>4, CellsAreBytes DEF Names, InData, Read, Cells
  <2>6. QED
    BY <2>2, <2>5 DEF Records
<1>3. CASE UNCHANGED vars
  BY <1>1, <1>3 DEF vars, PendingInv, Names, InData, Read, Cells, Records
<1>4. QED
  BY <1>2, <1>3 DEF Next, Open, Crash, EnqueueShort, EnqueueIndex, EnqueueIndexFails,
       StartSending, StopSending, ReadFront, GiveUp, SendOk, Dequeue, DequeueFails

LEMMA FrontStep == LogQueueInv /\ [Next]_vars => FrontInv'
<1> SUFFICES ASSUME LogQueueInv, [Next]_vars, op' \in {"sending", "sent"}
             PROVE  /\ Front' < Len(idx')
                    /\ op' = "sending" => buf' = Read(idx[Front + 1])'
                    /\ op' = "sent" => sent' # <<>> /\ sent'[Len(sent')] = Read(idx[Front + 1])'
  BY DEF FrontInv
<1>1. TypeOK /\ IndexInv /\ FrontInv
  BY DEF LogQueueInv
<1>2. PICK f \in Nat : f = Front
  BY <1>1, FrontInRange
<1>3. ReadFront \/ SendOk \/ UNCHANGED vars
  BY DEF Next, Open, Crash, EnqueueData, EnqueueShort, EnqueueIndex, EnqueueIndexFails,
       StartSending, StopSending, GiveUp, Dequeue, DequeueFails
<1>4. f + 1 \in 1 .. Len(idx) /\ UNCHANGED <<data, idx, ptr>>
  BY <1>1, <1>2, <1>3, FrontInRange DEF ReadFront, SendOk, vars, files, Empty, FrontInv
<1>5. Front' = f /\ Read(idx[f + 1])' = Read(idx[f + 1])
  BY <1>2, <1>4 DEF Front, Read
<1>6. CASE ReadFront
  BY <1>2, <1>4, <1>5, <1>6 DEF ReadFront
<1>7. CASE SendOk
  <2>1. buf = Read(idx[f + 1])
    BY <1>1, <1>2, <1>7 DEF SendOk, FrontInv
  <2>2. sent' # <<>> /\ sent'[Len(sent')] = buf
    BY <1>1, <1>7, SentGrows
  <2>3. QED
    BY <1>4, <1>5, <1>7, <2>1, <2>2 DEF SendOk
<1>8. CASE UNCHANGED vars
  BY <1>1, <1>2, <1>4, <1>5, <1>8 DEF vars, FrontInv
<1>9. QED
  BY <1>3, <1>6, <1>7, <1>8

LEMMA LastStep == LogQueueInv /\ [Next]_vars => LastInv'
<1> SUFFICES ASSUME LogQueueInv, [Next]_vars, sent' # <<>>
             PROVE  \/ Front' > 0 /\ sent'[Len(sent')] = Read(idx[Front])'
                    \/ Front' < Len(idx') /\ sent'[Len(sent')] = Read(idx[Front + 1])'
  BY DEF LastInv
<1>1. TypeOK /\ IndexInv /\ FrontInv /\ LastInv
  BY DEF LogQueueInv
<1>2. PICK f \in Nat : f = Front
  BY <1>1, FrontInRange
<1>3. CASE SendOk
  <2>1. op' = "sent" /\ FrontInv'
    BY <1>3, FrontStep DEF SendOk
  <2>2. QED
    BY <2>1 DEF FrontInv
<1>4. CASE Dequeue
  <2>1. f + 1 \in 1 .. Len(idx) /\ Front' = f + 1 /\ sent' = sent
    BY <1>1, <1>2, <1>4, FrontInRange, FrontMoves DEF Dequeue, FrontInv
  <2>2. sent[Len(sent)] = Read(idx[f + 1])
    BY <1>1, <1>2, <1>4 DEF Dequeue, FrontInv
  <2>3. Read(idx[f + 1])' = Read(idx[f + 1])
    BY <1>1, <2>1, IndexIsStable
  <2>4. QED
    BY <2>1, <2>2, <2>3
<1>5. CASE ~ SendOk /\ ~ Dequeue
  <2>1. sent' = sent /\ Front' = f
    BY <1>1, <1>2, <1>5, SentGrows, FrontMoves
  <2>2. CASE f > 0 /\ sent[Len(sent)] = Read(idx[f])
    <3>1. f \in 1 .. Len(idx)
      BY <1>1, <1>2, <2>2, FrontInRange
    <3>2. Read(idx[f])' = Read(idx[f])
      BY <1>1, <3>1, IndexIsStable
    <3>3. QED
      BY <2>1, <2>2, <3>2
  <2>3. CASE f < Len(idx) /\ sent[Len(sent)] = Read(idx[f + 1])
    <3>1. f + 1 \in 1 .. Len(idx) /\ f < Len(idx')
      BY <1>1, <2>3, FrontInRange, IndexGrows
    <3>2. Read(idx[f + 1])' = Read(idx[f + 1])
      BY <1>1, <3>1, IndexIsStable
    <3>3. QED
      BY <2>1, <2>3, <3>1, <3>2
  <2>4. QED
    BY <1>1, <1>2, <2>1, <2>2, <2>3 DEF LastInv
<1>6. QED
  BY <1>3, <1>4, <1>5

LEMMA DequeuedStep == LogQueueInv /\ [Next]_vars => DequeuedWasSent'
<1> SUFFICES ASSUME LogQueueInv, [Next]_vars, NEW i \in 1 .. Front'
             PROVE  \E k \in DOMAIN sent' : sent'[k] = Read(idx[i])'
  BY DEF DequeuedWasSent
<1>1. TypeOK /\ IndexInv /\ FrontInv /\ DequeuedWasSent
  BY DEF LogQueueInv
<1>2. /\ DOMAIN sent = 1 .. Len(sent) /\ Len(sent) \in Nat
      /\ DOMAIN sent' = 1 .. Len(sent')
  BY <1>1, TypeStep DEF TypeOK
<1>3. \A k \in DOMAIN sent : k \in DOMAIN sent' /\ sent'[k] = sent[k]
  <2>1. CASE sent' = sent
    BY <2>1
  <2>2. CASE SendOk
    <3>1. Len(sent') = Len(sent) + 1 /\ \A k \in 1 .. Len(sent) : sent'[k] = sent[k]
      BY <1>1, <2>2, SentGrows
    <3>2. QED
      BY <1>2, <3>1
  <2>3. QED
    BY <1>1, <2>1, <2>2, SentGrows
<1>4. CASE i \in 1 .. Front
  <2>1. PICK k \in DOMAIN sent : sent[k] = Read(idx[i])
    BY <1>1, <1>4 DEF DequeuedWasSent
  <2>2. i \in 1 .. Len(idx)
    BY <1>1, <1>4, FrontInRange
  <2>3. Read(idx[i])' = Read(idx[i])
    BY <1>1, <2>2, IndexIsStable
  <2>4. QED
    BY <1>3, <2>1, <2>3
<1>5. CASE Dequeue /\ i = Front + 1
  <2>1. i \in 1 .. Len(idx) /\ sent # <<>> /\ sent[Len(sent)] = Read(idx[i])
    BY <1>1, <1>5, FrontInRange DEF Dequeue, FrontInv
  <2>2. Len(sent) \in DOMAIN sent
    BY <1>2, <2>1 DEF TypeOK
  <2>3. Read(idx[i])' = Read(idx[i])
    BY <1>1, <2>1, IndexIsStable
  <2>4. QED
    BY <1>3, <2>1, <2>2, <2>3
<1>6. QED
  BY <1>1, <1>4, <1>5, FrontMoves, FrontInRange

LEMMA SentStep == LogQueueInv /\ [Next]_vars => SentInOrder'
<1> SUFFICES ASSUME LogQueueInv, [Next]_vars PROVE SentInOrder'
  OBVIOUS
<1>1. /\ TypeOK /\ OrderInv /\ FrontInv /\ LastInv
      /\ SentInOrder
  BY DEF LogQueueInv
<1>2. CASE sent' = sent
  BY <1>1, <1>2 DEF SentInOrder
<1>3. CASE SendOk
  <2>1. PICK n \in Nat : n = Len(sent)
    BY <1>1, SentGrows
  <2>2. /\ DOMAIN sent' = 1 .. n + 1 /\ sent'[n + 1] = buf
        /\ DOMAIN sent = 1 .. n
        /\ \A k \in 1 .. n : sent'[k] = sent[k]
    BY <1>1, <1>3, <2>1, SentGrows, TypeStep DEF TypeOK
  <2>3. ASSUME n > 0
        PROVE  buf = sent[n] \/ sent[n][1][1] < buf[1][1]
    <3>1. PICK f \in Nat : f = Front
      BY <1>1, FrontInRange
    <3>2. f < Len(idx) /\ buf = Read(idx[f + 1])
      BY <1>1, <1>3, <3>1 DEF SendOk, FrontInv
    <3>3. sent # <<>>
      BY <2>2, <2>3
    <3>4. CASE f > 0 /\ sent[n] = Read(idx[f])
      <4>1. f \in 1 .. Len(idx) /\ f + 1 \in 1 .. Len(idx) /\ f < f + 1
        BY <1>1, <3>2, <3>4, FrontInRange
      <4>2. QED
        BY <1>1, <3>2, <3>4, <4>1 DEF OrderInv
    <3>5. CASE sent[n] = Read(idx[f + 1])
      BY <3>2, <3>5
    <3>6. QED
      BY <1>1, <2>1, <3>1, <3>3, <3>4, <3>5 DEF LastInv
  <2>4. ASSUME NEW k \in 1 .. n + 1, k > 1
        PROVE  sent'[k] = sent'[k - 1] \/ sent'[k - 1][1][1] < sent'[k][1][1]
    <3>1. CASE k = n + 1
      BY <2>2, <2>3, <2>4, <3>1
    <3>2. CASE k \in 1 .. n
      <4>1. k - 1 \in 1 .. n
        BY <2>4, <3>2
      <4>2. sent[k] = sent[k - 1] \/ sent[k - 1][1][1] < sent[k][1][1]
        BY <1>1, <2>2, <2>4, <3>2 DEF SentInOrder
      <4>3. QED
        BY <2>2, <3>2, <4>1, <4>2
    <3>3. QED
      BY <3>1, <3>2
  <2>5. QED
    BY <2>2, <2>4 DEF SentInOrder
<1>4. QED
  BY <1>1, <1>2, <1>3, SentGrows

LEMMA RepeatsStep == LogQueueInv /\ [Next]_vars => RepeatsNeedFaults'
<1> SUFFICES ASSUME LogQueueInv, [Next]_vars PROVE RepeatsNeedFaults'
  OBVIOUS
<1>1. TypeOK /\ RepeatsNeedFaults
  BY DEF LogQueueInv
<1>2. Front \in Nat /\ faults \in Nat /\ Len(sent) \in Nat
  BY <1>1, FrontInRange, SentGrows DEF TypeOK
<1>3. CASE SendOk
  <2>1. op # "sent" /\ op' = "sent" /\ faults' = faults /\ ~ Dequeue
    BY <1>3 DEF SendOk, Dequeue
  <2>2. QED
    BY <1>1, <1>2, <1>3, <2>1, SentGrows, FrontMoves DEF RepeatsNeedFaults
<1>4. CASE Dequeue
  <2>1. faults' = faults /\ sent' = sent
    BY <1>4 DEF Dequeue
  <2>2. QED
    BY <1>1, <1>2, <1>4, <2>1, FrontMoves DEF RepeatsNeedFaults
<1>5. CASE ~ SendOk /\ ~ Dequeue
  <2>1. \/ faults' = faults /\ (op' = "sent" <=> op = "sent")
        \/ faults' = faults + 1
    BY <1>5 DEF Next, vars, Fault, Open, Crash, EnqueueData, EnqueueShort, EnqueueIndex,
         EnqueueIndexFails, StartSending, StopSending, ReadFront, GiveUp, DequeueFails
  <2>2. sent' = sent /\ Front' = Front
    BY <1>1, <1>5, SentGrows, FrontMoves
  <2>3. QED
    BY <1>1, <1>2, <2>1, <2>2 DEF RepeatsNeedFaults
<1>6. QED
  BY <1>3, <1>4, <1>5

LEMMA InvHolds == Spec => []LogQueueInv
<1>1. LogQueueInv /\ [Next]_vars => LogQueueInv'
  BY TypeStep, IndexStep, OrderStep, PendingStep, FrontStep, LastStep, DequeuedStep,
     SentStep, RepeatsStep DEF LogQueueInv
<1>2. QED
  BY <1>1, InitEstablishesInv, PTL DEF Spec

------------------------------------------------------------------------------
(* The theorems                                                            *)

(* The files keep their formats, and the front stays within the index,     *)
(* whatever fails (logqueue.c:65, :102).                                   *)
THEOREM TypeCorrect == Spec => []TypeOK
<1>1. LogQueueInv => TypeOK
  BY DEF LogQueueInv
<1>2. QED
  BY <1>1, InvHolds, PTL

(* No failed or short write and no crash leaves an index entry that does   *)
(* not name one whole record, or names them out of order (logqueue.c:77).  *)
THEOREM RecordsAreWhole == Spec => []IndexedRecordsAreWhole
<1>1. LogQueueInv => IndexedRecordsAreWhole
  <2> SUFFICES ASSUME LogQueueInv PROVE IndexedRecordsAreWhole
    OBVIOUS
  <2>1. DOMAIN idx = 1 .. Len(idx)
    BY DEF LogQueueInv, TypeOK
  <2>2. QED
    BY <2>1 DEF LogQueueInv, IndexInv, OrderInv, Names, IndexedRecordsAreWhole
<1>2. QED
  BY <1>1, InvHolds, PTL

(* A record leaves the queue only after it was acknowledged: none is lost  *)
(* between the read of the front and the dequeue (CPortal.cpp:865).        *)
THEOREM NoneLeavesUnsent == Spec => []DequeuedWasSent
<1>1. LogQueueInv => DequeuedWasSent
  BY DEF LogQueueInv
<1>2. QED
  BY <1>1, InvHolds, PTL

(* The portal gets the records in order, repeats next to their originals.  *)
THEOREM OrderIsKept == Spec => []SentInOrder
<1>1. LogQueueInv => SentInOrder
  BY DEF LogQueueInv
<1>2. QED
  BY <1>1, InvHolds, PTL

(* It gets no more repeats than calls failed and crashes happened.         *)
THEOREM RepeatsArePaidFor == Spec => []RepeatsNeedFaults
<1>1. LogQueueInv => RepeatsNeedFaults
  BY DEF LogQueueInv
<1>2. QED
  BY <1>1, InvHolds, PTL

------------------------------------------------------------------------------
(* The files are a durable first-in first-out queue.                       *)

LEMMA FunctionIsSeq ==
  ASSUME NEW S, NEW n \in Nat, NEW f \in [1 .. n -> S]
  PROVE  f \in Seq(S) /\ Len(f) = n
  OBVIOUS

ContentsInv ==
  /\ Contents \in Seq(Seq(Bytes))
  /\ Len(Contents) = Len(idx) - Front /\ Len(Contents) \in Nat

LEMMA ContentsAreReads == LogQueueInv => ContentsInv
<1> SUFFICES ASSUME LogQueueInv PROVE ContentsInv
  OBVIOUS
<1> TypeOK /\ IndexInv
  BY DEF LogQueueInv
<1> DEFINE S == Seq(Bytes)
<1>1. Front \in 0 .. Len(idx) /\ Len(idx) \in Nat /\ Len(idx) - Front \in Nat
  BY FrontInRange
<1>2. ASSUME NEW i \in 1 .. Len(idx) - Front PROVE Read(idx[Front + i]) \in S
  <2>1. Front + i \in 1 .. Len(idx)
    BY <1>1
  <2>2. PICK rec \in Records : Read(idx[Front + i]) = Cells(rec)
    BY <2>1 DEF IndexInv, Names
  <2>3. QED
    BY <2>2, CellsAreBytes
<1> HIDE DEF S
<1>3. Contents \in [1 .. Len(idx) - Front -> S]
  BY <1>2 DEF Contents
<1>4. Contents \in Seq(S) /\ Len(Contents) = Len(idx) - Front
  BY <1>1, <1>3, FunctionIsSeq
<1>5. QED
  BY <1>1, <1>4 DEF S, ContentsInv

LEMMA NextContentsAreReads == LogQueueInv' => ContentsInv'
  BY ContentsAreReads, PTL

LEMMA InitRefinesFifo == Init => Fifo!Init
<1> SUFFICES ASSUME Init PROVE Contents = <<>>
  BY DEF Fifo!Init
<1>1. LogQueueInv /\ Front = 0 /\ Len(idx) = 0
  BY InitEstablishesInv DEF Init, Front
<1>2. Contents \in Seq(Seq(Bytes)) /\ Len(Contents) = 0
  BY <1>1, ContentsAreReads DEF ContentsInv
<1>3. QED
  BY <1>2, EmptySeq

(* EnqueueIndex is the enqueue, Dequeue the dequeue; nothing else changes  *)
(* what is read back.                                                      *)
LEMMA StepRefinesFifo == LogQueueInv /\ [Next]_vars => [Fifo!Next]_Contents
<1> SUFFICES ASSUME LogQueueInv, [Next]_vars PROVE [Fifo!Next]_Contents
  OBVIOUS
<1> DEFINE S == Seq(Bytes)
<1>1. TypeOK /\ IndexInv /\ PendingInv /\ FrontInv
  BY DEF LogQueueInv
<1>2. PICK f \in Nat, n \in Nat : f = Front /\ n = Len(idx) /\ f <= n
  BY <1>1, FrontInRange
<1>3. ContentsInv /\ ContentsInv'
  <2>1. LogQueueInv'
    BY TypeStep, IndexStep, OrderStep, PendingStep, FrontStep, LastStep, DequeuedStep,
       SentStep, RepeatsStep DEF LogQueueInv
  <2>2. QED
    BY <2>1, ContentsAreReads, NextContentsAreReads
<1>4. /\ Contents \in Seq(S) /\ Len(Contents) = n - f
      /\ \A i \in 1 .. n - f : Contents[i] = Read(idx[f + i])
  BY <1>2, <1>3 DEF ContentsInv, Contents
<1>5. ASSUME NEW i \in 1 .. n PROVE Read(idx[i])' = Read(idx[i])
  BY <1>1, <1>2, <1>5, IndexIsStable
<1> HIDE DEF S
<1>6. CASE EnqueueIndex
  <2>1. Front' = f
    BY <1>1, <1>2, <1>6, FrontMoves DEF EnqueueIndex, Dequeue
  <2>2. Len(idx') = n + 1 /\ idx'[n + 1] = pending /\ data' = data
    BY <1>1, <1>2, <1>6, AppendProperties DEF EnqueueIndex, TypeOK
  <2>3. offered \in Records /\ Read(pending) = Cells(offered)
    BY <1>1, <1>6 DEF EnqueueIndex, PendingInv, Names
  <2>4. Read(idx[n + 1])' = Cells(offered)
    BY <2>2, <2>3 DEF Read
  <2>5. Cells(offered) \in S
    BY <2>3, CellsAreBytes DEF S
  <2> DEFINE added == Append(Contents, Cells(offered))
  <2>6. /\ added \in Seq(S) /\ Len(added) = n - f + 1
        /\ added[n - f + 1] = Cells(offered)
        /\ \A i \in 1 .. n - f : added[i] = Contents[i]
    BY <1>4, <2>5, AppendProperties
  <2> HIDE DEF added
  <2>7. Contents' \in Seq(S) /\ Len(Contents') = n - f + 1
    BY <1>2, <1>3, <2>1, <2>2 DEF ContentsInv, S
  <2>8. \A i \in 1 .. n - f + 1 : Contents'[i] = Read(idx[f + i])'
    BY <1>2, <2>1, <2>2 DEF Contents
  <2>9. ASSUME NEW i \in 1 .. n - f + 1 PROVE Contents'[i] = added[i]
    <3>1. CASE i = n - f + 1
      BY <1>2, <2>4, <2>6, <2>8, <3>1
    <3>2. CASE i \in 1 .. n - f
      <4>1. f + i \in 1 .. n
        BY <1>2, <3>2
      <4>2. Contents'[i] = Read(idx[f + i])
        BY <1>5, <2>8, <4>1
      <4>3. added[i] = Read(idx[f + i])
        BY <1>4, <2>6, <3>2
      <4>4. QED
        BY <4>2, <4>3
    <3>3. QED
      BY <1>2, <3>1, <3>2
  <2>10. Contents' = added
    BY <2>6, <2>7, <2>9, SeqEqual
  <2>11. QED
    BY <2>3, <2>10 DEF Fifo!Next, Fifo!Enqueue, added
<1>7. CASE Dequeue
  <2>1. Front' = f + 1 /\ f < n /\ idx' = idx
    BY <1>1, <1>2, <1>7, FrontMoves DEF Dequeue, FrontInv
  <2>2. Contents # <<>>
    BY <1>2, <1>4, <2>1
  <2> DEFINE rest == Tail(Contents)
  <2>3. /\ rest \in Seq(S) /\ Len(rest) = n - f - 1
        /\ \A i \in 1 .. n - f - 1 : rest[i] = Contents[i + 1]
    <3>1. /\ rest \in Seq(S) /\ Len(rest) = Len(Contents) - 1
          /\ \A i \in 1 .. Len(rest) : rest[i] = Contents[i + 1]
      BY <1>4, <2>2, HeadTailProperties
    <3> HIDE DEF rest
    <3>2. QED
      BY <1>2, <1>4, <3>1
  <2>4. Contents' \in Seq(S) /\ Len(Contents') = n - f - 1
    BY <1>2, <1>3, <2>1 DEF ContentsInv, S
  <2>5. \A i \in 1 .. n - f - 1 : Contents'[i] = Read(idx[f + 1 + i])'
    BY <1>2, <2>1 DEF Contents
  <2>6. ASSUME NEW i \in 1 .. n - f - 1 PROVE Contents'[i] = rest[i]
    <3>1. f + 1 + i \in 1 .. n /\ i + 1 \in 1 .. n - f /\ f + (i + 1) = f + 1 + i
      BY <1>2
    <3>2. Contents'[i] = Read(idx[f + 1 + i])
      BY <1>5, <2>5, <3>1
    <3>3. Contents[i + 1] = Read(idx[f + 1 + i])
      BY <1>4, <3>1
    <3>4. QED
      BY <2>3, <3>2, <3>3
  <2>7. Contents' = rest
    <3> HIDE DEF rest
    <3>1. QED
      BY <2>3, <2>4, <2>6, SeqEqual
  <2>8. QED
    BY <2>2, <2>7 DEF Fifo!Next, Fifo!Dequeue
<1>8. CASE ~ EnqueueIndex /\ ~ Dequeue
  <2>1. idx' = idx /\ Front' = f
    BY <1>1, <1>2, <1>8, IndexGrows, FrontMoves
  <2>2. Contents' \in Seq(S) /\ Len(Contents') = n - f
    BY <1>2, <1>3, <2>1 DEF ContentsInv, S
  <2>3. \A i \in 1 .. n - f : Contents'[i] = Read(idx[f + i])'
    BY <1>2, <2>1 DEF Contents
  <2>4. ASSUME NEW i \in 1 .. n - f PROVE Contents'[i] = Contents[i]
    <3>1. f + i \in 1 .. n
      BY <1>2
    <3>2. QED
      BY <1>4, <1>5, <2>3, <3>1
  <2>5. Contents' = Contents
    BY <1>4, <2>2, <2>4, SeqEqual
  <2>6. QED
    BY <2>5
<1>9. QED
  BY <1>6, <1>7, <1>8

(* The three files are a durable first-in first-out queue: an enqueue adds *)
(* the whole record or nothing, and only a dequeue removes, from the front,*)
(* whatever fails and whenever the process dies (logqueue.c:73, :87).      *)
THEOREM FilesAreFifo == Spec => ImplementsDurableFifo
<1>1. LogQueueInv /\ [Next]_vars => [Fifo!Next]_Contents
  BY StepRefinesFifo
<1>2. QED
  BY <1>1, InitRefinesFifo, InvHolds, PTL DEF Spec, ImplementsDurableFifo, Fifo!Spec
==============================================================================
