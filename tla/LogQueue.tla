------------------------------ MODULE LogQueue -------------------------------
(***************************************************************************)
(* logqueue.c: the persistent queue every reading waits in until the       *)
(* portal has acknowledged it, with the loop that empties it               *)
(* (CPortal::SendChargeData and its three siblings).                       *)
(*                                                                         *)
(* A queue is three files that only ever grow.  The data file holds the    *)
(* bytes of the records, the index file one <<offset, length>> per record, *)
(* and the pointer file the index position reached by each dequeue; its    *)
(* last entry is the current front.  Every operation is a series of        *)
(* system calls: any write may fail or, in the data file, stop short, and  *)
(* the process may die between any two calls.                              *)
(*                                                                         *)
(* Units: a record's bytes are its cells <<record, 1>>, <<record, 2>>...;  *)
(* offsets of the data file count cells, those of the index file entries.  *)
(* A write of one index or pointer entry (8 and 4 bytes) is done or not.   *)
(***************************************************************************)
EXTENDS Naturals, Sequences

CONSTANTS
  MaxRecords,     (* bound: records offered to the queue, 1, 2, ...      *)
  RecordLength,   (* cells of each record                                *)
  MaxFaults       (* bound: failed system calls and crashes              *)

ASSUME MaxRecordsAssumption == MaxRecords \in Nat
ASSUME RecordLengthAssumption == RecordLength \in [1 .. MaxRecords -> Nat \ {0}]
ASSUME MaxFaultsAssumption == MaxFaults \in Nat

Records == 1 .. MaxRecords

(* The bytes of a record.                                                  *)
Cells(rec) == [i \in 1 .. RecordLength[rec] |-> <<rec, i>>]

VARIABLES
  data, idx, ptr,  (* the three files                                    *)
  op,              (* what the process is doing with the queue           *)
  pending,         (* the LQIDX lqenqueue is about to write              *)
  buf,             (* the record lqfront read, being sent                *)
  offered,         (* records offered so far                             *)
  sent,            (* what the portal acknowledged, in order             *)
  faults

vars == <<data, idx, ptr, op, pending, buf, offered, sent, faults>>
files == <<data, idx, ptr>>

Entries == [offset : Nat, length : Nat \ {0}]

(* The last entry of the pointer file, 0 if there is none.                 *)
Front_FirstEntry == IF ptr = <<>> THEN 0 ELSE ptr[1]
Front == IF ptr = <<>> THEN 0 ELSE ptr[Len(ptr)]

(* lqempty                                                                 *)
Empty == Len(idx) = Front

(* lseek and read in the data file.                                        *)
Read(entry) == SubSeq(data, entry.offset + 1, entry.offset + entry.length)

(* The offset of the next record: lseek(dfd, 0, SEEK_END), so that the     *)
(* remains of a short write are stepped over.                              *)
EndOfData_OfLastEntry ==
  IF idx = <<>> THEN 0 ELSE idx[Len(idx)].offset + idx[Len(idx)].length
EndOfData == Len(data)

Fault ==
  /\ faults < MaxFaults
  /\ faults' = faults + 1

Init ==
  /\ data = <<>> /\ idx = <<>> /\ ptr = <<>>
  /\ op = "closed"
  /\ pending = [offset |-> 0, length |-> 1]
  /\ buf = <<>>
  /\ offered = 0
  /\ sent = <<>>
  /\ faults = 0

------------------------------------------------------------------------------
(* Opening and dying *)

Open_Truncates ==
  /\ op = "closed"
  /\ op' = "idle"
  /\ ptr' = <<>>
  /\ UNCHANGED <<data, idx, pending, buf, offered, sent, faults>>

(* lqopen: the files are neither truncated nor rewritten.                  *)
Open ==
  /\ op = "closed"
  /\ op' = "idle"
  /\ UNCHANGED <<files, pending, buf, offered, sent, faults>>

Crash ==
  /\ op # "closed"
  /\ op' = "closed"
  /\ buf' = <<>>
  /\ Fault
  /\ UNCHANGED <<files, pending, offered, sent>>

------------------------------------------------------------------------------
(* lqenqueue, called under the queue's lock *)

(* The data is written in full.                                            *)
EnqueueData ==
  /\ op = "idle"
  /\ offered < MaxRecords
  /\ offered' = offered + 1
  /\ pending' = [offset |-> EndOfData, length |-> RecordLength[offered + 1]]
  /\ data' = data \o Cells(offered + 1)
  /\ op' = "indexing"
  /\ UNCHANGED <<idx, ptr, buf, sent, faults>>

(* write returns less than len: lqenqueue returns 0.                       *)
EnqueueShort ==
  /\ op = "idle"
  /\ offered < MaxRecords
  /\ offered' = offered + 1
  /\ \E n \in 0 .. RecordLength[offered + 1] - 1 :
       data' = data \o SubSeq(Cells(offered + 1), 1, n)
  /\ Fault
  /\ UNCHANGED <<idx, ptr, op, pending, buf, sent>>

EnqueueIndex ==
  /\ op = "indexing"
  /\ idx' = Append(idx, pending)
  /\ op' = "idle"
  /\ UNCHANGED <<data, ptr, pending, buf, offered, sent, faults>>

EnqueueIndexFails ==
  /\ op = "indexing"
  /\ op' = "idle"
  /\ Fault
  /\ UNCHANGED <<files, pending, buf, offered, sent>>

------------------------------------------------------------------------------
(* The sending loop: it holds the queue's lock from StartSending until it  *)
(* is idle again.                                                          *)

StartSending ==
  /\ op = "idle"
  /\ ~ Empty
  /\ op' = "draining"
  /\ UNCHANGED <<files, pending, buf, offered, sent, faults>>

(* lqempty is true: the loop ends.                                         *)
StopSending ==
  /\ op = "draining"
  /\ Empty
  /\ op' = "idle"
  /\ UNCHANGED <<files, pending, buf, offered, sent, faults>>

(* lqfront                                                                 *)
ReadFront ==
  /\ op = "draining"
  /\ ~ Empty
  /\ buf' = Read(idx[Front + 1])
  /\ op' = "sending"
  /\ UNCHANGED <<files, pending, offered, sent, faults>>

(* lqfront returns 0, or GPRS_Send false: the loop gives up for now.       *)
GiveUp ==
  /\ op \in {"draining", "sending"}
  /\ ~ Empty
  /\ Fault
  /\ op' = "idle"
  /\ buf' = <<>>
  /\ UNCHANGED <<files, pending, offered, sent>>

(* GPRS_Send returns true.                                                 *)
SendOk ==
  /\ op = "sending"
  /\ sent' = Append(sent, buf)
  /\ op' = "sent"
  /\ UNCHANGED <<files, pending, buf, offered, faults>>

Dequeue_AtReadFront ==
  /\ op \in {"sending", "sent"}
  /\ ptr' = Append(ptr, Front + 1)
  /\ op' = "draining"
  /\ buf' = <<>>
  /\ UNCHANGED <<data, idx, pending, offered, sent, faults>>

Dequeue_TwoEntries ==
  /\ op = "sent"
  /\ ptr' = Append(ptr, Front + 2)
  /\ op' = "draining"
  /\ buf' = <<>>
  /\ UNCHANGED <<data, idx, pending, offered, sent, faults>>

(* lqdequeue: the position behind the front's entry becomes the front.     *)
Dequeue ==
  /\ op = "sent"
  /\ ptr' = Append(ptr, Front + 1)
  /\ op' = "draining"
  /\ buf' = <<>>
  /\ UNCHANGED <<data, idx, pending, offered, sent, faults>>

(* lqdequeue returns 0, which its caller ignores: the record is sent again.*)
DequeueFails ==
  /\ op = "sent"
  /\ op' = "draining"
  /\ buf' = <<>>
  /\ Fault
  /\ UNCHANGED <<files, pending, offered, sent>>

Next ==
  \/ Open \/ Crash
  \/ EnqueueData \/ EnqueueShort \/ EnqueueIndex \/ EnqueueIndexFails
  \/ StartSending \/ StopSending \/ ReadFront \/ GiveUp
  \/ SendOk \/ Dequeue \/ DequeueFails

Spec == Init /\ [][Next]_vars

------------------------------------------------------------------------------
(* Properties *)

(* The three files hold entries of their formats, and no front ever runs   *)
(* past the index: an lqempty that misses the end would loop over garbage. *)
TypeOK ==
  /\ data \in Seq(Records \X Nat)
  /\ idx \in Seq(Entries)
  /\ ptr \in Seq(0 .. Len(idx))
  /\ op \in {"closed", "idle", "indexing", "draining", "sending", "sent"}
  /\ pending \in Entries
  /\ buf \in Seq(Records \X Nat)
  /\ offered \in 0 .. MaxRecords
  /\ sent \in Seq(Seq(Records \X Nat))
  /\ faults \in 0 .. MaxFaults

(* Every index entry names the bytes of one whole record, in the order the *)
(* records were offered, whatever short writes left between them.          *)
IndexedRecordsAreWhole ==
  /\ \A i \in DOMAIN idx : \E rec \in Records : Read(idx[i]) = Cells(rec)
  /\ \A i, j \in DOMAIN idx : i < j => Read(idx[i])[1][1] < Read(idx[j])[1][1]

(* A record leaves the queue only after the portal has acknowledged it.    *)
DequeuedWasSent ==
  \A i \in 1 .. Front : \E k \in DOMAIN sent : sent[k] = Read(idx[i])

(* The portal sees the records in order; a repeat follows its original.    *)
SentInOrder ==
  \A k \in DOMAIN sent : k > 1 =>
    \/ sent[k] = sent[k - 1]
    \/ sent[k - 1][1][1] < sent[k][1][1]

(* Each repeat is paid for by a crash or a failed write of the pointer.    *)
RepeatsNeedFaults ==
  Len(sent) <= Front + faults + (IF op = "sent" THEN 1 ELSE 0)

(* The records that wait, read back from the three files.                  *)
Contents == [i \in 1 .. Len(idx) - Front |-> Read(idx[Front + i])]

Fifo == INSTANCE DurableFifo WITH
          Values <- {Cells(rec) : rec \in Records}, queue <- Contents

(* The three files are a durable first-in first-out queue.                 *)
ImplementsDurableFifo == Fifo!Spec
==============================================================================
