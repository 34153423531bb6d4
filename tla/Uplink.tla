------------------------------- MODULE Uplink --------------------------------
(***************************************************************************)
(* What the portal thread promises of each of its queues: the records      *)
(* offered to it reach the server one after the other, and a record is     *)
(* given up only when the server has it.  The n-th record of a queue is    *)
(* number n.  There is no network here, no retry and no restart.           *)
(***************************************************************************)
EXTENDS Naturals

CONSTANTS
  Queues,
  MaxRecords   (* bound: records offered to each queue                     *)

VARIABLES
  offered,     (* how many records were handed to the queue                *)
  got,         (* the records that the server has                          *)
  freed        (* how many the concentrator no longer keeps                *)

vars == <<offered, got, freed>>

Init ==
  /\ offered = [k \in Queues |-> 0]
  /\ got = [k \in Queues |-> {}]
  /\ freed = [k \in Queues |-> 0]

Offer(k) ==
  /\ offered[k] < MaxRecords
  /\ offered' = [offered EXCEPT ![k] = @ + 1]
  /\ UNCHANGED <<got, freed>>

(* The server gets the oldest record that is still kept, and no other.     *)
Deliver(k) ==
  /\ freed[k] < offered[k]
  /\ got' = [got EXCEPT ![k] = @ \union {freed[k] + 1}]
  /\ UNCHANGED <<offered, freed>>

Free(k) ==
  /\ freed[k] + 1 \in got[k]
  /\ freed' = [freed EXCEPT ![k] = @ + 1]
  /\ UNCHANGED <<offered, got>>

Next == \E k \in Queues : Offer(k) \/ Deliver(k) \/ Free(k)

Spec == Init /\ [][Next]_vars
==============================================================================
