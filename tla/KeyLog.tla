------------------------------- MODULE KeyLog -------------------------------
(***************************************************************************)
(* logdb.c as SaveRecords, SaveUsers and their loaders use it: a save      *)
(* opens the log with DB_NEW, which lets the pointer file point to the end *)
(* of the index file, and then puts every entry of a map: its data, then   *)
(* its index entry.  A load replays the index file from the pointer on     *)
(* into the balanced tree and goes through the tree in order.  No result   *)
(* of a write is looked at except that of the data.                        *)
(*                                                                         *)
(* The index file is kept from the pointer on: what is before it is never  *)
(* read again.  An index entry stands for itself and the data it points    *)
(* to, which are written before it and never again.                        *)
(***************************************************************************)
EXTENDS Naturals, FiniteSets, SequencesExt

CONSTANT
  Keys           (* of the map, numbered in the map's order                 *)

ASSUME KeysAssumption == Keys \subseteq Nat

VARIABLES
  idx,           (* the index file from the pointer on                      *)
  step,          (* of a save: closed, or what is written next              *)
  unput,         (* keys the last save has not put                          *)
  saved,         (* history: the map the last save was called with          *)
  failed         (* history: some write failed since the last good pointer  *)

logVars == <<idx, step, unput, saved, failed>>

Steps == {"closed", "data", "index"}

LogInit ==
  /\ idx = <<>> /\ step = "closed" /\ unput = {}
  /\ saved = <<>> /\ failed = FALSE

Smallest(S) == CHOOSE k \in S : \A l \in S : k <= l

(* Mutant: the pointer file is left as it is.                              *)
OpenNew_OldPointer(items, ok) ==
  /\ step = "closed"
  /\ step' = "data"
  /\ unput' = DOMAIN items
  /\ saved' = items
  /\ failed' = ~ ok
  /\ UNCHANGED idx

(* dbopen with DB_NEW; ok says whether the pointer could be written.       *)
OpenNew(items, ok) ==
  /\ step = "closed"
  /\ step' = "data"
  /\ idx' = IF ok THEN <<>> ELSE idx
  /\ unput' = DOMAIN items
  /\ saved' = items
  /\ failed' = ~ ok

(* dbput: without its data an entry is not put at all.                     *)
PutData(ok) ==
  /\ step = "data" /\ unput # {}
  /\ IF ok THEN step' = "index" /\ UNCHANGED <<unput, failed>>
           ELSE unput' = unput \ {Smallest(unput)} /\ failed' = TRUE /\ UNCHANGED step
  /\ UNCHANGED <<idx, saved>>

PutIndex(items, ok) ==
  /\ step = "index"
  /\ LET k == Smallest(unput)
     IN  /\ idx' = IF ok THEN Append(idx, [of |-> k, data |-> items[k]])
                         ELSE idx
         /\ unput' = unput \ {k}
  /\ step' = "data"
  /\ failed' = (failed \/ ~ ok)
  /\ UNCHANGED saved

Close ==
  /\ step = "data" /\ unput = {}
  /\ step' = "closed"
  /\ UNCHANGED <<idx, unput, saved, failed>>

LogCrash ==
  /\ step' = "closed"
  /\ UNCHANGED <<idx, unput, saved, failed>>

(* dbopen with DB_RDONLY, and dbseq with a function that enters each entry *)
(* into a map.  Of two entries of a key the older one is the later in the  *)
(* tree's order and stays in the map; module IndexTree has the tree.       *)
Loaded ==
  LET oldest(k) == CHOOSE i \in 1 .. Len(idx) :
                     /\ idx[i].of = k
                     /\ \A j \in 1 .. Len(idx) : idx[j].of = k => i <= j
  IN  [k \in {idx[i].of : i \in 1 .. Len(idx)} |-> idx[oldest(k)].data]

------------------------------------------------------------------------------
(* A load would find what the last save has put so far, and nothing of an  *)
(* older one: a save that was interrupted loses the entries it did not     *)
(* come to, one that ended loses none (CValveMonitor.cpp:96, :1585).       *)
LoadedIsLastSave ==
  ~ failed => Loaded = [k \in DOMAIN saved \ unput |-> saved[k]]
==============================================================================
