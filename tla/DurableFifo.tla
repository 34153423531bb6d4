----------------------------- MODULE DurableFifo -----------------------------
(***************************************************************************)
(* What a log queue promises: an unbounded first-in first-out queue whose  *)
(* content no crash changes.  An enqueue either adds the whole record at   *)
(* the back or nothing; only a dequeue removes, and only from the front.   *)
(***************************************************************************)
EXTENDS Sequences

CONSTANT Values     (* contents of a record, as written to the data file *)

VARIABLE queue      (* records that wait, oldest first                   *)

Init == queue = <<>>

Enqueue(x) == queue' = Append(queue, x)

Dequeue == queue # <<>> /\ queue' = Tail(queue)

Next == Dequeue \/ \E x \in Values : Enqueue(x)

Spec == Init /\ [][Next]_queue
==============================================================================
