----------------------------- MODULE BoundedFifo -----------------------------
(***************************************************************************)
(* What a command buffer of the concentrator promises its users: packets   *)
(* leave in the order they were accepted, each exactly once, and no more   *)
(* than Capacity of them wait at a time.  The promise ends for good when   *)
(* the users break the rule it rests on.                                   *)
(***************************************************************************)
EXTENDS Naturals, Sequences

CONSTANTS
  Capacity,   (* cells of the buffer                          *)
  Packets     (* what a cell can carry                        *)

VARIABLES
  queue,      (* accepted packets, oldest first               *)
  out,        (* the packet that left last                    *)
  broken      (* two users were in the buffer at once         *)

vars == <<queue, out, broken>>

Init == queue = <<>> /\ ~ broken

Put(x) ==
  /\ Len(queue) < Capacity
  /\ queue' = Append(queue, x)
  /\ UNCHANGED out

Get ==
  /\ queue # <<>>
  /\ out' = Head(queue)
  /\ queue' = Tail(queue)

Promise == ~ broken /\ ~ broken' /\ (Get \/ \E x \in Packets : Put(x))

Next == Promise \/ broken'

Spec == Init /\ [][Next]_vars
==============================================================================
