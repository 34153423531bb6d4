------------------------- MODULE CardRechargeProofs --------------------------
(***************************************************************************)
(* What CardRecharge promises for any users, buffers of any sizes and any  *)
(* number of requests and faults: no request reaches its valve twice, and, *)
(* as long as no two replies met in cmdbuf, each recharge that took place  *)
(* is in one place, so that each success that the card reader is told is   *)
(* one of them, told once.                                                 *)
(***************************************************************************)
EXTENDS CardRecharge, SequenceTheorems, FiniteSetTheorems, Integers, TLAPS

(* cmdbuf is a buffer of cbuffer.c, and its counters wrap as those of      *)
(* CBuffer do.  What is proved there about counters is taken from there,   *)
(* and nothing else: cmdbuf has two writers without a lock.                *)
Counters ==
  INSTANCE CBufferProofs WITH
    Size <- CmdCells, Wrap <- Modulus, w <- cw, r <- cr, cells <- cell,
    Packets <- {}, Blank <- "free", Foreign <- "foreign", Producers <- {"host"},
    Owner <- "host", Unlocked <- {}, lock <- {}, pc <- <<>>, slot <- <<>>,
    packet <- <<>>, seen <- <<>>, met <- FALSE, urgent <- FALSE, other <- FALSE,
    line <- "free", wrote <- "nothing", head <- "free", out <- <<>>

------------------------------------------------------------------------------
(* The inductive invariant of the requests                                 *)

(* What waits in a buffer was taken, is of the buffer's kind, has not been *)
(* sent, and waits once: the buffers are in the order of the requests.     *)
WaitsOnce(k) ==
  \A i \in 1 .. Len(buffer[k]) :
    /\ buffer[k][i] \in 1 .. Len(made)
    /\ made[buffer[k][i]].kind = k
    /\ applied[buffer[k][i]] = 0
    /\ \A j \in 1 .. Len(buffer[k]) : i < j => buffer[k][i] < buffer[k][j]

(* The request the card host's thread works on is in no buffer yet.        *)
WorkedOn ==
  card \in {"asked", "locked"} =>
    /\ Len(made) > 0 /\ Request.kind \in Kinds
    /\ applied[Len(made)] = 0
    /\ \A k \in Kinds : \A i \in 1 .. Len(buffer[k]) : buffer[k][i] < Len(made)

NotYetTaken == \A n \in 1 .. MaxRequests : n > Len(made) => applied[n] = 0

RechargeInv ==
  /\ TypeOK
  /\ \A k \in Kinds : WaitsOnce(k)
  /\ WorkedOn /\ NotYetTaken
  /\ card = "expiry" => Len(made) > 0
  /\ air \subseteq 1 .. Len(made)
  /\ AppliedOnce

------------------------------------------------------------------------------
(* Types *)

LEMMA InitEstablishesInv == Init => RechargeInv
<1> SUFFICES ASSUME Init PROVE RechargeInv
  OBVIOUS
<1>1. /\ made = <<>> /\ Len(made) = 0
      /\ \A k \in Kinds : buffer[k] = <<>> /\ Len(buffer[k]) = 0
  BY EmptySeq DEF Init
<1>2. /\ made \in Seq(Requests) /\ Len(made) <= MaxRequests
      /\ buffer \in [Kinds -> Seq(1 .. MaxRequests)]
      /\ \A k \in Kinds : Len(buffer[k]) <= Cells
  BY <1>1, EmptySeq, BoundsAssumption, CellsAssumption DEF Init
<1>3. /\ card \in {"idle", "asked", "locked", "expiry"}
      /\ valve \in {"walk", "erase", "lost", "io"}
      /\ expiring \in Users \union {"nobody"}
      /\ lock \in [Kinds -> {"free", "card"}]
      /\ expires \in [Users -> {"none", "running", "due"}]
  BY DEF Init
<1>4. broadcasting \in BOOLEAN /\ raced \in BOOLEAN
  BY Zenon DEF Init
<1>5. cell \in [0 .. CmdCells - 1 -> Replies]
  BY DEF Init, Replies
<1>6. cw \in 0 .. Modulus - 1 /\ cr \in 0 .. Modulus - 1 /\ faults \in 0 .. MaxFaults
  BY ModulusAssumption, CellsAssumption, BoundsAssumption DEF Init
<1>7. ack \in [Threads -> [at : {"out", "cell", "w"}, w : 0 .. Modulus - 1]]
  <2>1. Silent \in [at : {"out", "cell", "w"}, w : 0 .. Modulus - 1]
    BY ModulusAssumption, CellsAssumption DEF Silent
  <2>2. QED
    BY <2>1 DEF Init
<1>8. /\ air \subseteq 1 .. MaxRequests
      /\ applied \in [1 .. MaxRequests -> Nat]
      /\ reported \in [Users -> Nat] /\ gone \in [Users -> Nat]
  BY DEF Init
<1>9. TypeOK
  BY <1>2, <1>3, <1>4, <1>5, <1>6, <1>7, <1>8, Zenon DEF TypeOK
<1>10. (\A k \in Kinds : WaitsOnce(k)) /\ WorkedOn
  BY <1>1 DEF WaitsOnce, WorkedOn, Init
<1>11. NotYetTaken /\ AppliedOnce /\ card # "expiry" /\ air \subseteq 1 .. Len(made)
  BY DEF NotYetTaken, AppliedOnce, Init
<1>12. QED
  BY <1>9, <1>10, <1>11 DEF RechargeInv

LEMMA IncStaysBelow == ASSUME NEW c \in 0 .. Modulus - 1 PROVE Inc(c) \in 0 .. Modulus - 1
BY ModulusAssumption, CellsAssumption DEF Inc

(* Only Take changes the requests, and it appends one.                     *)
LEMMA MadeStep ==
  ASSUME TypeOK, [Next]_vars
  PROVE  /\ made' \in Seq(Requests) /\ Len(made') <= MaxRequests
         /\ Len(made) \in Nat /\ Len(made') \in Nat /\ Len(made) <= Len(made')
         /\ \A n \in 1 .. Len(made) : made'[n] = made[n]
<1>1. made \in Seq(Requests) /\ Len(made) <= MaxRequests /\ Len(made) \in Nat
  BY LenProperties DEF TypeOK
<1>2. CASE \E u \in Users, k \in Kinds \union {"time"} : Take(u, k)
  <2>1. PICK u \in Users, k \in Kinds \union {"time"} : Take(u, k)
    BY <1>2
  <2>2. [user |-> u, kind |-> k] \in Requests
    BY DEF Requests
  <2>3. made' = Append(made, [user |-> u, kind |-> k]) /\ Len(made) < MaxRequests
    BY <2>1 DEF Take
  <2>4. QED
    BY <1>1, <2>2, <2>3, AppendProperties, BoundsAssumption
<1>3. CASE made' = made
  BY <1>1, <1>3
<1>4. QED
  BY <1>2, <1>3
     DEF Next, CardThread, ValveThread, NoUserList, LockBuffer, BufferFull, PutRequest,
         SetExpiry, SendReply, AckRead, AckDone, Expire, Erase, WalkDone, Send, Receive,
         NothingToDo, Found, TimeUp, Broadcasting, LoseAnswer, vars, threads

(* A reply goes into one cell of cmdbuf, or nowhere.                       *)
LEMMA AckKeepsTypes ==
  ASSUME TypeOK, NEW t \in Threads, NEW reply \in Replies, Ack(t, reply)
  PROVE  /\ cell' \in [0 .. CmdCells - 1 -> Replies]
         /\ cw' \in 0 .. Modulus - 1 /\ cr' \in 0 .. Modulus - 1
         /\ ack' \in [Threads -> [at : {"out", "cell", "w"}, w : 0 .. Modulus - 1]]
         /\ reported' \in [Users -> Nat] /\ gone' \in [Users -> Nat]
<1>1. /\ cell \in [0 .. CmdCells - 1 -> Replies]
      /\ ack \in [Threads -> [at : {"out", "cell", "w"}, w : 0 .. Modulus - 1]]
  BY DEF TypeOK
<1>2. cw \in 0 .. Modulus - 1 /\ cr \in 0 .. Modulus - 1
  BY DEF TypeOK
<1>3. reported \in [Users -> Nat] /\ gone \in [Users -> Nat]
  BY DEF TypeOK
<1>4. CASE CmdFull
  <2>1. gone' = gone \/ gone' = [gone EXCEPT ![reply.user] = @ + 1]
    BY <1>4 DEF Ack
  <2>2. gone' \in [Users -> Nat]
    BY <1>3, <2>1
  <2>3. UNCHANGED <<cell, cw, cr, ack, reported>>
    BY <1>4 DEF Ack, cmdbuf
  <2>4. QED
    BY <1>1, <1>2, <1>3, <2>2, <2>3
<1>5. CASE ~ CmdFull
  <2>1. UNCHANGED <<cw, cr, reported, gone>>
    BY <1>5 DEF Ack
  <2>2. PICK content \in Replies : cell' = [cell EXCEPT ![cw % CmdCells] = content]
    <3>1. Garbage \in Replies
      BY DEF Replies
    <3>2. QED
      BY <1>5, <3>1 DEF Ack
  <2>3. cell' \in [0 .. CmdCells - 1 -> Replies]
    BY <1>1, <2>2
  <2>4. [at |-> "cell", w |-> 0] \in [at : {"out", "cell", "w"}, w : 0 .. Modulus - 1]
    BY ModulusAssumption, CellsAssumption
  <2>5. ack' = [ack EXCEPT ![t] = [at |-> "cell", w |-> 0]]
    BY <1>5 DEF Ack
  <2>6. ack' \in [Threads -> [at : {"out", "cell", "w"}, w : 0 .. Modulus - 1]]
    BY <1>1, <2>4, <2>5
  <2>7. QED
    BY <1>2, <1>3, <2>1, <2>3, <2>6
<1>6. QED
  BY <1>4, <1>5

(* cmdbuf, which both threads write without a lock.                        *)
LEMMA CmdbufTypes ==
  RechargeInv /\ [Next]_vars =>
    /\ cell' \in [0 .. CmdCells - 1 -> Replies]
    /\ cw' \in 0 .. Modulus - 1 /\ cr' \in 0 .. Modulus - 1
    /\ ack' \in [Threads -> [at : {"out", "cell", "w"}, w : 0 .. Modulus - 1]]
    /\ reported' \in [Users -> Nat] /\ gone' \in [Users -> Nat]
<1> DEFINE Goal ==
      /\ cell' \in [0 .. CmdCells - 1 -> Replies]
      /\ cw' \in 0 .. Modulus - 1 /\ cr' \in 0 .. Modulus - 1
      /\ ack' \in [Threads -> [at : {"out", "cell", "w"}, w : 0 .. Modulus - 1]]
      /\ reported' \in [Users -> Nat] /\ gone' \in [Users -> Nat]
<1> SUFFICES ASSUME RechargeInv, [Next]_vars PROVE Goal
  OBVIOUS
<1>1. TypeOK
  BY DEF RechargeInv
<1>2. /\ cell \in [0 .. CmdCells - 1 -> Replies]
      /\ ack \in [Threads -> [at : {"out", "cell", "w"}, w : 0 .. Modulus - 1]]
  BY DEF RechargeInv, TypeOK
<1>3. cw \in 0 .. Modulus - 1 /\ cr \in 0 .. Modulus - 1
  BY DEF RechargeInv, TypeOK
<1>4. reported \in [Users -> Nat] /\ gone \in [Users -> Nat]
  BY DEF RechargeInv, TypeOK
<1>5. made \in Seq(Requests) /\ Len(made) \in Nat
  BY <1>1, LenProperties DEF TypeOK
<1>6. \A n \in 1 .. Len(made) : made[n].user \in Users
  <2>1. \A n \in 1 .. Len(made) : made[n] \in Requests
    BY <1>5, ElementOfSeq
  <2>2. \A r \in Requests : r.user \in Users
    BY DEF Requests
  <2>3. QED
    BY <2>1, <2>2
<1>7. \A u \in Users, code \in {"ok", "failed", "answer"} : Reply(u, code) \in Replies
  BY DEF Reply, Replies
<1>8. CASE NoUserList \/ BufferFull
  <2>1. Request.user \in Users
    BY <1>5, <1>6, <1>8 DEF NoUserList, BufferFull, Request, RechargeInv, WorkedOn
  <2>2. Ack("card", Reply(Request.user, "failed")) \/ UNCHANGED <<cmdbuf, reported, gone>>
    BY <1>8 DEF NoUserList, BufferFull, history
  <2>3. CASE Ack("card", Reply(Request.user, "failed"))
    BY <1>1, <1>7, <2>1, <2>3, AckKeepsTypes DEF Threads
  <2>4. CASE UNCHANGED <<cmdbuf, reported, gone>>
    BY <1>2, <1>3, <1>4, <2>4 DEF cmdbuf
  <2>5. QED
    BY <2>2, <2>3, <2>4
<1>9. CASE \E u \in Users, k \in Kinds \union {"time"} : Take(u, k)
  <2>1. PICK u \in Users, k \in Kinds \union {"time"} : Take(u, k)
    BY <1>9
  <2>2. CASE Ack("card", Reply(u, "answer"))
    BY <1>1, <1>7, <2>2, AckKeepsTypes DEF Threads
  <2>3. CASE UNCHANGED <<cmdbuf, reported, gone>>
    BY <1>2, <1>3, <1>4, <2>3 DEF cmdbuf
  <2>4. QED
    BY <2>1, <2>2, <2>3 DEF Take, history
<1>10. CASE \E u \in Users : Expire(u)
  BY <1>1, <1>7, <1>10, AckKeepsTypes DEF Expire, Threads
<1>11. CASE \E n \in air : Receive(n)
  <2>1. PICK n \in air : Receive(n)
    BY <1>11
  <2>2. made[n].user \in Users
    BY <1>6, <2>1 DEF RechargeInv
  <2>3. \E code \in {"ok", "answer"} : Ack("valve", Reply(made[n].user, code))
    BY <2>1 DEF Receive
  <2>4. QED
    BY <1>1, <1>7, <2>2, <2>3, AckKeepsTypes DEF Threads
<1>12. CASE SendReply
  <2>1. cr' \in 0 .. Modulus - 1
    BY <1>3, <1>12, IncStaysBelow DEF SendReply
  <2>2. \E u : reported' = reported \/ reported' = [reported EXCEPT ![u] = @ + 1]
    BY <1>12 DEF SendReply
  <2>3. reported' \in [Users -> Nat]
    BY <1>4, <2>2
  <2>4. UNCHANGED <<cell, cw, ack, gone>>
    BY <1>12 DEF SendReply
  <2>5. QED
    BY <1>2, <1>3, <1>4, <2>1, <2>3, <2>4
<1>13. CASE \E t \in Threads : AckRead(t)
  <2>1. PICK t \in Threads : ack' = [ack EXCEPT ![t] = [at |-> "w", w |-> cw]]
    BY <1>13 DEF AckRead
  <2>2. [at |-> "w", w |-> cw] \in [at : {"out", "cell", "w"}, w : 0 .. Modulus - 1]
    BY <1>3
  <2>3. ack' \in [Threads -> [at : {"out", "cell", "w"}, w : 0 .. Modulus - 1]]
    BY <1>2, <2>1, <2>2
  <2>4. UNCHANGED <<cell, cw, cr, reported, gone>>
    BY <1>13 DEF AckRead, history
  <2>5. QED
    BY <1>2, <1>3, <1>4, <2>3, <2>4
<1>14. CASE \E t \in Threads : AckDone(t)
  <2>1. PICK t \in Threads : cw' = Inc(ack[t].w) /\ ack' = [ack EXCEPT ![t] = Silent]
    BY <1>14 DEF AckDone
  <2>2. ack[t].w \in 0 .. Modulus - 1
    BY <1>2
  <2>3. cw' \in 0 .. Modulus - 1
    BY <2>1, <2>2, IncStaysBelow
  <2>4. Silent \in [at : {"out", "cell", "w"}, w : 0 .. Modulus - 1]
    BY ModulusAssumption, CellsAssumption DEF Silent
  <2>5. ack' \in [Threads -> [at : {"out", "cell", "w"}, w : 0 .. Modulus - 1]]
    BY <1>2, <2>1, <2>4
  <2>6. UNCHANGED <<cell, cr, reported, gone>>
    BY <1>14 DEF AckDone, history
  <2>7. QED
    BY <1>2, <1>3, <1>4, <2>3, <2>5, <2>6
<1>15. CASE UNCHANGED <<cmdbuf, reported>> /\ (gone' = gone \/ \E n \in air : LoseAnswer(n))
  <2>1. \E u : gone' = gone \/ gone' = [gone EXCEPT ![u] = @ + 1]
    BY <1>15 DEF LoseAnswer
  <2>2. gone' \in [Users -> Nat]
    BY <1>4, <2>1
  <2>3. QED
    BY <1>2, <1>3, <1>4, <1>15, <2>2 DEF cmdbuf
<1>16. QED
  BY <1>8, <1>9, <1>10, <1>11, <1>12, <1>13, <1>14, <1>15
     DEF Next, CardThread, ValveThread, LockBuffer, PutRequest, SetExpiry, Erase, WalkDone,
         Send, NothingToDo, Found, TimeUp, Broadcasting, LoseAnswer, vars, sending, history,
         Threads

(* Where the threads are, the locks and the expiries.                      *)
LEMMA ThreadTypes ==
  RechargeInv /\ [Next]_vars =>
    /\ card' \in {"idle", "asked", "locked", "expiry"}
    /\ valve' \in {"walk", "erase", "lost", "io"}
    /\ expiring' \in Users \union {"nobody"}
    /\ lock' \in [Kinds -> {"free", "card"}]
    /\ expires' \in [Users -> {"none", "running", "due"}]
<1> SUFFICES ASSUME RechargeInv, [Next]_vars
             PROVE  /\ card' \in {"idle", "asked", "locked", "expiry"}
                    /\ valve' \in {"walk", "erase", "lost", "io"}
                    /\ expiring' \in Users \union {"nobody"}
                    /\ lock' \in [Kinds -> {"free", "card"}]
                    /\ expires' \in [Users -> {"none", "running", "due"}]
  OBVIOUS
<1>1. /\ card \in {"idle", "asked", "locked", "expiry"}
      /\ valve \in {"walk", "erase", "lost", "io"}
      /\ expiring \in Users \union {"nobody"}
      /\ lock \in [Kinds -> {"free", "card"}]
      /\ expires \in [Users -> {"none", "running", "due"}]
  BY DEF RechargeInv, TypeOK
<1>2. card' \in {"idle", "asked", "locked", "expiry", card}
  BY DEF Next, CardThread, ValveThread, NoUserList, LockBuffer, BufferFull, PutRequest,
         SetExpiry, SendReply, AckRead, AckDone, Expire, Erase, WalkDone, Send, Receive,
         NothingToDo, Found, Take, TimeUp, Broadcasting, LoseAnswer, vars, threads, sending
<1>3. valve' \in {"walk", "erase", "lost", "io", valve}
  BY DEF Next, CardThread, ValveThread, NoUserList, LockBuffer, BufferFull, PutRequest,
         SetExpiry, SendReply, AckRead, AckDone, Expire, Erase, WalkDone, Send, Receive,
         NothingToDo, Found, Take, TimeUp, Broadcasting, LoseAnswer, vars, threads, sending
<1>4. expiring' \in Users \union {"nobody", expiring}
  BY DEF Next, CardThread, ValveThread, NoUserList, LockBuffer, BufferFull, PutRequest,
         SetExpiry, SendReply, AckRead, AckDone, Expire, Erase, WalkDone, Send, Receive,
         NothingToDo, Found, Take, TimeUp, Broadcasting, LoseAnswer, vars, threads, sending
<1>5. lock' = lock \/ \E k : \E state \in {"free", "card"} : lock' = [lock EXCEPT ![k] = state]
  <2>1. CASE LockBuffer \/ PutRequest
    BY <2>1 DEF LockBuffer, PutRequest
  <2>2. CASE ~ (LockBuffer \/ PutRequest)
    BY <2>2 DEF Next, CardThread, ValveThread, NoUserList, LockBuffer, BufferFull, PutRequest,
         SetExpiry, SendReply, AckRead, AckDone, Expire, Erase, WalkDone, Send, Receive,
         NothingToDo, Found, Take, TimeUp, Broadcasting, LoseAnswer, vars, threads, sending
  <2>3. QED
    BY <2>1, <2>2
<1>6. \/ expires' = expires
      \/ \E u : \E state \in {"none", "running", "due"} : expires' = [expires EXCEPT ![u] = state]
  <2>1. CASE SetExpiry \/ Erase \/ \E u \in Users : TimeUp(u)
    BY <2>1 DEF SetExpiry, Erase, TimeUp
  <2>2. CASE \E n \in air : Receive(n)
    BY <2>2 DEF Receive
  <2>3. QED
    BY <2>1, <2>2
       DEF Next, CardThread, ValveThread, NoUserList, LockBuffer, BufferFull, PutRequest,
         SetExpiry, SendReply, AckRead, AckDone, Expire, Erase, WalkDone, Send, Receive,
         NothingToDo, Found, Take, TimeUp, Broadcasting, LoseAnswer, vars, threads, sending
<1>7. lock' \in [Kinds -> {"free", "card"}]
  BY <1>1, <1>5
<1>8. expires' \in [Users -> {"none", "running", "due"}]
  BY <1>1, <1>6
<1>9. QED
  BY <1>1, <1>2, <1>3, <1>4, <1>7, <1>8

LEMMA FlagTypes ==
  RechargeInv /\ [Next]_vars =>
    broadcasting' \in BOOLEAN /\ raced' \in BOOLEAN /\ faults' \in 0 .. MaxFaults
<1> SUFFICES ASSUME RechargeInv, [Next]_vars
             PROVE  broadcasting' \in BOOLEAN /\ raced' \in BOOLEAN /\ faults' \in 0 .. MaxFaults
  OBVIOUS
<1>1. broadcasting \in BOOLEAN /\ raced \in BOOLEAN /\ faults \in 0 .. MaxFaults
  BY Zenon DEF RechargeInv, TypeOK
<1>2. faults' = faults \/ Fault
  BY DEF Next, CardThread, ValveThread, NoUserList, LockBuffer, BufferFull, PutRequest,
         SetExpiry, SendReply, AckRead, AckDone, Expire, Erase, WalkDone, Send, Receive,
         NothingToDo, Found, Take, TimeUp, Broadcasting, LoseAnswer, vars, threads, sending
<1>3. faults' \in 0 .. MaxFaults
  BY <1>1, <1>2, BoundsAssumption DEF Fault
<1>4. broadcasting' = broadcasting \/ broadcasting' = ~ broadcasting
  BY DEF Next, CardThread, ValveThread, NoUserList, LockBuffer, BufferFull, PutRequest,
         SetExpiry, SendReply, AckRead, AckDone, Expire, Erase, WalkDone, Send, Receive,
         NothingToDo, Found, Take, TimeUp, Broadcasting, LoseAnswer, vars, threads, sending
<1>5. raced' = raced \/ \E t \in Threads : raced' = (raced \/ Writing(Other(t)))
  BY DEF Ack, Next, CardThread, ValveThread, NoUserList, LockBuffer, BufferFull, PutRequest,
         SetExpiry, SendReply, AckRead, AckDone, Expire, Erase, WalkDone, Send, Receive,
         NothingToDo, Found, Take, TimeUp, Broadcasting, LoseAnswer, vars, threads, sending, history, Threads, cmdbuf
<1>6. broadcasting' \in BOOLEAN
  BY <1>1, <1>4, Zenon
<1>7. raced' \in BOOLEAN
  BY <1>1, <1>5, Zenon
<1>8. QED
  BY <1>3, <1>6, <1>7

------------------------------------------------------------------------------
(* The buffers *)

(* The step that puts a request into its buffer: it is newer than all that *)
(* wait, and nothing was applied yet.                                      *)
LEMMA PutKeepsOnce ==
  ASSUME RechargeInv, PutRequest
  PROVE  /\ buffer' \in [Kinds -> Seq(1 .. MaxRequests)]
         /\ \A k \in Kinds : Len(buffer'[k]) <= Cells
         /\ \A k \in Kinds : WaitsOnce(k)'
<1> DEFINE kind == Request.kind
           old == buffer[kind]
           last == Len(made)
<1>1. /\ buffer \in [Kinds -> Seq(1 .. MaxRequests)]
      /\ \A k \in Kinds : Len(buffer[k]) <= Cells
      /\ made \in Seq(Requests) /\ Len(made) <= MaxRequests /\ Len(made) \in Nat
  BY LenProperties DEF RechargeInv, TypeOK
<1>2. /\ kind \in Kinds /\ last > 0 /\ applied[last] = 0
      /\ \A k \in Kinds : \A i \in 1 .. Len(buffer[k]) : buffer[k][i] < last
  BY DEF RechargeInv, WorkedOn, PutRequest
<1>3. made[last].kind = kind
  BY DEF Request
<1>4. /\ buffer' = [buffer EXCEPT ![kind] = Append(@, last)]
      /\ Len(old) < Cells
      /\ UNCHANGED <<made, applied>>
  BY DEF PutRequest
<1>5. old \in Seq(1 .. MaxRequests) /\ Len(old) \in Nat /\ last \in 1 .. MaxRequests
  BY <1>1, <1>2, LenProperties, BoundsAssumption
<1> HIDE DEF kind, last
<1>6. /\ Append(old, last) \in Seq(1 .. MaxRequests) /\ Len(Append(old, last)) = Len(old) + 1
      /\ \A i \in 1 .. Len(old) : Append(old, last)[i] = old[i]
      /\ Append(old, last)[Len(old) + 1] = last
  BY <1>5, AppendProperties
<1>7. buffer'[kind] = Append(old, last)
  BY <1>1, <1>2, <1>4
<1>8. \A k \in Kinds : k # kind => buffer'[k] = buffer[k]
  BY <1>1, <1>4
<1>9. buffer' \in [Kinds -> Seq(1 .. MaxRequests)]
  BY <1>1, <1>4, <1>6
<1>10. \A k \in Kinds : Len(buffer'[k]) <= Cells
  BY <1>1, <1>4, <1>5, <1>6, <1>7, <1>8, CellsAssumption
<1>11. ASSUME NEW k \in Kinds, k # kind PROVE WaitsOnce(k)'
  <2>1. WaitsOnce(k)
    BY DEF RechargeInv
  <2>2. QED
    BY <1>4, <1>8, <1>11, <2>1 DEF WaitsOnce
<1>12. WaitsOnce(kind)'
  <2>1. WaitsOnce(kind)
    BY <1>2 DEF RechargeInv
  <2>2. \A i \in 1 .. Len(old) + 1 :
          /\ Append(old, last)[i] \in 1 .. Len(made)
          /\ made[Append(old, last)[i]].kind = kind
          /\ applied[Append(old, last)[i]] = 0
    BY <1>2, <1>3, <1>5, <1>6, <2>1 DEF WaitsOnce, last
  <2>3. \A i, j \in 1 .. Len(old) + 1 : i < j => Append(old, last)[i] < Append(old, last)[j]
    <3>1. \A i \in 1 .. Len(old) : old[i] < last
      BY <1>2
    <3>2. \A i, j \in 1 .. Len(old) : i < j => old[i] < old[j]
      BY <2>1 DEF WaitsOnce
    <3>3. QED
      BY <1>5, <1>6, <3>1, <3>2
  <2>4. kind' = kind
    BY <1>4 DEF kind, Request
  <2>5. \A i \in 1 .. Len(buffer'[kind]) :
          /\ buffer'[kind][i] \in 1 .. Len(made')
          /\ made'[buffer'[kind][i]].kind = kind
          /\ applied'[buffer'[kind][i]] = 0
          /\ \A j \in 1 .. Len(buffer'[kind]) : i < j => buffer'[kind][i] < buffer'[kind][j]
    BY <1>4, <1>6, <1>7, <2>2, <2>3
  <2>6. QED
    BY <2>4, <2>5 DEF WaitsOnce
<1>13. \A k \in Kinds : WaitsOnce(k)'
  <2>1. kind' = kind
    BY <1>4 DEF kind, Request
  <2>2. QED
    BY <1>11, <1>12, <2>1
<1>14. QED
  BY <1>9, <1>10, <1>13

(* The step that sends a request: it was not applied before, and what      *)
(* still waits is another one.                                             *)
LEMMA SendKeepsOnce ==
  ASSUME RechargeInv, NEW k \in Kinds, Send(k)
  PROVE  /\ buffer' \in [Kinds -> Seq(1 .. MaxRequests)]
         /\ \A q \in Kinds : Len(buffer'[q]) <= Cells
         /\ applied' \in [1 .. MaxRequests -> Nat]
         /\ \A q \in Kinds : WaitsOnce(q)'
         /\ WorkedOn' /\ NotYetTaken' /\ AppliedOnce'
         /\ air' \subseteq 1 .. Len(made)
<1> DEFINE old == buffer[k]
           n == Head(buffer[k])
<1>1. /\ buffer \in [Kinds -> Seq(1 .. MaxRequests)]
      /\ \A q \in Kinds : Len(buffer[q]) <= Cells
      /\ made \in Seq(Requests) /\ Len(made) <= MaxRequests /\ Len(made) \in Nat
      /\ applied \in [1 .. MaxRequests -> Nat]
  BY LenProperties DEF RechargeInv, TypeOK
<1>2. /\ buffer' = [buffer EXCEPT ![k] = Tail(@)]
      /\ old # <<>>
      /\ applied' = applied \/ applied' = [applied EXCEPT ![n] = @ + 1]
      /\ air' \subseteq air \union {n}
      /\ UNCHANGED <<card, made>>
  BY DEF Send
<1>3. old \in Seq(1 .. MaxRequests) /\ Len(old) \in Nat /\ Len(old) > 0
  BY <1>1, <1>2, LenProperties, EmptySeq
<1>4. /\ n = old[1]
      /\ Tail(old) \in Seq(1 .. MaxRequests) /\ Len(Tail(old)) = Len(old) - 1
      /\ \A i \in 1 .. Len(Tail(old)) : Tail(old)[i] = old[i + 1]
  <2>1. Head(old) = old[1]
    BY <1>3
  <2>2. /\ Tail(old) \in Seq(1 .. MaxRequests) /\ Len(Tail(old)) = Len(old) - 1
        /\ \A i \in 1 .. Len(Tail(old)) : Tail(old)[i] = old[i + 1]
    BY <1>2, <1>3, HeadTailProperties
  <2>3. QED
    BY <2>1, <2>2, Zenon
<1>5. buffer'[k] = Tail(old) /\ \A q \in Kinds : q # k => buffer'[q] = buffer[q]
  BY <1>1, <1>2
<1>6. buffer' \in [Kinds -> Seq(1 .. MaxRequests)]
  BY <1>1, <1>2, <1>4
<1>7. \A q \in Kinds : Len(buffer'[q]) <= Cells
  <2>1. Len(old) <= Cells
    BY <1>1
  <2>2. Len(Tail(old)) <= Cells
    BY <1>3, <1>4, <2>1, CellsAssumption
  <2>3. QED
    BY <1>1, <1>5, <2>2
<1>8. WaitsOnce(k)
  BY DEF RechargeInv
<1>9. /\ n \in 1 .. Len(made) /\ made[n].kind = k /\ applied[n] = 0
      /\ \A j \in 1 .. Len(old) : 1 < j => n < old[j]
  BY <1>3, <1>4, <1>8 DEF WaitsOnce
<1> HIDE DEF n
<1>10. n \in 1 .. MaxRequests
  BY <1>1, <1>9, BoundsAssumption
<1>11. /\ applied' \in [1 .. MaxRequests -> Nat]
       /\ applied'[n] \in {0, 1}
       /\ \A m \in 1 .. MaxRequests : m # n => applied'[m] = applied[m]
  <2>1. CASE applied' = applied
    BY <1>1, <1>9, <2>1
  <2>2. CASE applied' = [applied EXCEPT ![n] = @ + 1]
    <3>1. applied' = [applied EXCEPT ![n] = 1]
      BY <1>9, <2>2
    <3>2. QED
      BY <1>1, <1>10, <3>1
  <2>3. QED
    BY <1>2, <2>1, <2>2, Zenon
<1>12. WaitsOnce(k)'
  <2>1. ASSUME NEW i \in 1 .. Len(Tail(old))
        PROVE  /\ Tail(old)[i] \in 1 .. Len(made)
               /\ made[Tail(old)[i]].kind = k
               /\ applied'[Tail(old)[i]] = 0
               /\ \A j \in 1 .. Len(Tail(old)) : i < j => Tail(old)[i] < Tail(old)[j]
    <3>1. i + 1 \in 1 .. Len(old) /\ 1 < i + 1 /\ Tail(old)[i] = old[i + 1]
      BY <1>3, <1>4, <2>1
    <3>2. /\ old[i + 1] \in 1 .. Len(made) /\ made[old[i + 1]].kind = k
          /\ applied[old[i + 1]] = 0 /\ n < old[i + 1]
      BY <1>8, <1>9, <3>1 DEF WaitsOnce
    <3>3. applied'[old[i + 1]] = 0
      <4>1. old[i + 1] \in 1 .. MaxRequests
        BY <1>3, <3>1, ElementOfSeq
      <4>2. old[i + 1] # n
        BY <1>9, <3>2
      <4>3. QED
        BY <1>11, <3>2, <4>1, <4>2, Zenon
    <3>4. ASSUME NEW j \in 1 .. Len(Tail(old)), i < j PROVE Tail(old)[i] < Tail(old)[j]
      <4>1. j + 1 \in 1 .. Len(old) /\ i + 1 < j + 1 /\ Tail(old)[j] = old[j + 1]
        BY <1>3, <1>4, <3>4
      <4>2. QED
        BY <1>8, <3>1, <4>1 DEF WaitsOnce
    <3>5. QED
      BY <3>1, <3>2, <3>3, <3>4
  <2>2. QED
    BY <1>2, <1>5, <2>1 DEF WaitsOnce
<1>13. ASSUME NEW q \in Kinds, q # k PROVE WaitsOnce(q)'
  <2>1. WaitsOnce(q)
    BY DEF RechargeInv
  <2>2. ASSUME NEW i \in 1 .. Len(buffer[q]) PROVE applied'[buffer[q][i]] = 0
    <3>1. buffer[q][i] \in 1 .. Len(made) /\ buffer[q][i] # n /\ applied[buffer[q][i]] = 0
      BY <1>9, <1>13, <2>1 DEF WaitsOnce
    <3>2. buffer[q][i] \in 1 .. MaxRequests
      BY <1>1, <3>1, BoundsAssumption
    <3>3. QED
      BY <1>11, <3>1, <3>2
  <2>3. QED
    BY <1>2, <1>5, <1>13, <2>1, <2>2 DEF WaitsOnce
<1>14. WorkedOn'
  <2>1. ASSUME card \in {"asked", "locked"}
        PROVE  /\ Len(made) > 0 /\ Request.kind \in Kinds
               /\ applied'[Len(made)] = 0
               /\ \A q \in Kinds : \A i \in 1 .. Len(buffer'[q]) : buffer'[q][i] < Len(made)
    <3>1. /\ Len(made) > 0 /\ Request.kind \in Kinds /\ applied[Len(made)] = 0
          /\ \A q \in Kinds : \A i \in 1 .. Len(buffer[q]) : buffer[q][i] < Len(made)
      BY <2>1 DEF RechargeInv, WorkedOn
    <3>2. n < Len(made)
      BY <1>3, <1>4, <3>1
    <3>3. Len(made) \in 1 .. MaxRequests /\ Len(made) # n
      BY <1>1, <1>10, <3>1, <3>2, BoundsAssumption
    <3>4. applied'[Len(made)] = 0
      BY <1>11, <3>1, <3>3
    <3>5. \A i \in 1 .. Len(Tail(old)) : Tail(old)[i] < Len(made)
      BY <1>3, <1>4, <3>1
    <3>6. QED
      BY <1>5, <3>1, <3>4, <3>5
  <2>2. Request' = Request
    BY <1>2 DEF Request
  <2>3. QED
    BY <1>2, <2>1, <2>2 DEF WorkedOn
<1>15. NotYetTaken'
  BY <1>1, <1>2, <1>9, <1>11 DEF NotYetTaken, RechargeInv
<1>16. AppliedOnce'
  BY <1>11 DEF AppliedOnce, RechargeInv
<1>17. air' \subseteq 1 .. Len(made)
  BY <1>2, <1>9 DEF RechargeInv
<1>18. QED
  BY <1>6, <1>7, <1>11, <1>12, <1>13, <1>14, <1>15, <1>16, <1>17

LEMMA TakeKeepsOnce ==
  ASSUME RechargeInv, NEW u \in Users, NEW k \in Kinds \union {"time"}, Take(u, k)
  PROVE  /\ \A q \in Kinds : WaitsOnce(q)'
         /\ WorkedOn' /\ NotYetTaken'
<1>1. /\ made \in Seq(Requests) /\ Len(made) \in Nat /\ Len(made) < MaxRequests
      /\ made' = Append(made, [user |-> u, kind |-> k])
      /\ card' = "asked" => k \in Kinds
      /\ card = "idle" /\ card' \in {"idle", "asked"}
      /\ UNCHANGED <<buffer, applied>>
  BY LenProperties DEF RechargeInv, TypeOK, Take, CardFree, sending
<1>2. [user |-> u, kind |-> k] \in Requests
  BY DEF Requests
<1>3. /\ Len(made') = Len(made) + 1
      /\ \A n \in 1 .. Len(made) : made'[n] = made[n]
      /\ made'[Len(made) + 1] = [user |-> u, kind |-> k]
  BY <1>1, <1>2, AppendProperties
<1>4. ASSUME NEW q \in Kinds PROVE WaitsOnce(q)'
  <2>1. WaitsOnce(q)
    BY DEF RechargeInv
  <2>2. ASSUME NEW i \in 1 .. Len(buffer[q])
        PROVE  /\ buffer[q][i] \in 1 .. Len(made')
               /\ made'[buffer[q][i]].kind = q
    <3>1. buffer[q][i] \in 1 .. Len(made) /\ made[buffer[q][i]].kind = q
      BY <2>1 DEF WaitsOnce
    <3>2. QED
      BY <1>1, <1>3, <3>1
  <2>3. QED
    BY <1>1, <2>1, <2>2 DEF WaitsOnce
<1>5. applied[Len(made')] = 0 /\ NotYetTaken'
  <2>1. \A n \in 1 .. MaxRequests : n > Len(made) => applied[n] = 0
    BY DEF RechargeInv, NotYetTaken
  <2>2. Len(made) + 1 \in 1 .. MaxRequests
    BY <1>1, BoundsAssumption
  <2>3. \A n \in 1 .. MaxRequests : n > Len(made') => applied[n] = 0
    BY <1>1, <1>3, <2>1
  <2>4. applied[Len(made')] = 0
    BY <1>1, <1>3, <2>1, <2>2
  <2>5. QED
    BY <1>1, <2>3, <2>4 DEF NotYetTaken
<1>6. WorkedOn'
  <2>1. \A q \in Kinds : \A i \in 1 .. Len(buffer[q]) : buffer[q][i] < Len(made')
    BY <1>1, <1>3 DEF RechargeInv, WaitsOnce
  <2>2. Request' = [user |-> u, kind |-> k] /\ Len(made') > 0
    BY <1>1, <1>3 DEF Request
  <2>3. card' \in {"asked", "locked"} => Request'.kind \in Kinds
    BY <1>1, <2>2
  <2>4. QED
    BY <1>1, <1>5, <2>1, <2>2, <2>3 DEF WorkedOn
<1>7. QED
  BY <1>4, <1>5, <1>6

(* Every other step leaves the buffers and the valves as they are.         *)
LEMMA OnceStep ==
  RechargeInv /\ [Next]_vars =>
    /\ buffer' \in [Kinds -> Seq(1 .. MaxRequests)]
    /\ \A k \in Kinds : Len(buffer'[k]) <= Cells
    /\ applied' \in [1 .. MaxRequests -> Nat]
    /\ \A k \in Kinds : WaitsOnce(k)'
    /\ WorkedOn' /\ NotYetTaken' /\ AppliedOnce'
    /\ air' \subseteq 1 .. Len(made')
    /\ card' = "expiry" => Len(made') > 0
<1> SUFFICES ASSUME RechargeInv, [Next]_vars
             PROVE  /\ buffer' \in [Kinds -> Seq(1 .. MaxRequests)]
                    /\ \A k \in Kinds : Len(buffer'[k]) <= Cells
                    /\ applied' \in [1 .. MaxRequests -> Nat]
                    /\ \A k \in Kinds : WaitsOnce(k)'
                    /\ WorkedOn' /\ NotYetTaken' /\ AppliedOnce'
                    /\ air' \subseteq 1 .. Len(made')
                    /\ card' = "expiry" => Len(made') > 0
  OBVIOUS
<1>1. /\ buffer \in [Kinds -> Seq(1 .. MaxRequests)]
      /\ \A k \in Kinds : Len(buffer[k]) <= Cells
      /\ applied \in [1 .. MaxRequests -> Nat]
  BY DEF RechargeInv, TypeOK
<1>2. /\ \A k \in Kinds : WaitsOnce(k)
      /\ WorkedOn /\ NotYetTaken /\ AppliedOnce
      /\ air \subseteq 1 .. Len(made)
      /\ card = "expiry" => Len(made) > 0
  BY DEF RechargeInv
<1>3. CASE \E k \in Kinds : Send(k)
  <2>1. PICK k \in Kinds : Send(k)
    BY <1>3
  <2>2. UNCHANGED <<card, made>>
    BY <2>1 DEF Send
  <2>3. air' \subseteq 1 .. Len(made')
    BY <2>1, <2>2, SendKeepsOnce
  <2>4. card' = "expiry" => Len(made') > 0
    BY <1>2, <2>2
  <2>5. QED
    BY <2>1, <2>3, <2>4, SendKeepsOnce
<1>4. CASE \E u \in Users, k \in Kinds \union {"time"} : Take(u, k)
  <2>1. PICK u \in Users, k \in Kinds \union {"time"} : Take(u, k)
    BY <1>4
  <2>2. UNCHANGED <<buffer, applied, air>> /\ card' # "expiry"
    BY <2>1 DEF Take, CardFree, sending
  <2>3. air' \subseteq 1 .. Len(made')
    <3>1. Len(made) \in Nat /\ Len(made') \in Nat /\ Len(made) <= Len(made')
      BY MadeStep DEF RechargeInv
    <3>2. QED
      BY <1>2, <2>2, <3>1
  <2>4. AppliedOnce'
    BY <1>2, <2>2 DEF AppliedOnce
  <2>5. QED
    BY <1>1, <2>1, <2>2, <2>3, <2>4, TakeKeepsOnce
<1>5. CASE PutRequest
  <2>1. UNCHANGED <<made, applied, air>> /\ card' \in {"idle", "expiry"}
    BY <1>5 DEF PutRequest
  <2>2. NotYetTaken' /\ AppliedOnce' /\ WorkedOn' /\ air' \subseteq 1 .. Len(made')
    BY <1>2, <2>1 DEF NotYetTaken, AppliedOnce, WorkedOn
  <2>3. Len(made') > 0
    BY <1>2, <1>5, <2>1 DEF PutRequest, WorkedOn
  <2>4. QED
    BY <1>1, <1>5, <2>1, <2>2, <2>3, PutKeepsOnce
<1>6. CASE /\ UNCHANGED <<made, buffer, applied>>
           /\ air' \subseteq air
           /\ card' \in {card, "idle"} \/ (card = "asked" /\ card' = "locked")
  <2>1. \A k \in Kinds : WaitsOnce(k)'
    BY <1>2, <1>6 DEF WaitsOnce
  <2>2. WorkedOn'
    <3>1. Request' = Request
      BY <1>6 DEF Request
    <3>2. QED
      BY <1>2, <1>6, <3>1 DEF WorkedOn
  <2>3. NotYetTaken' /\ AppliedOnce' /\ air' \subseteq 1 .. Len(made')
    BY <1>2, <1>6 DEF NotYetTaken, AppliedOnce
  <2>4. card' = "expiry" => Len(made') > 0
    BY <1>2, <1>6
  <2>5. QED
    BY <1>1, <1>6, <2>1, <2>2, <2>3, <2>4
<1>7. QED
  BY <1>3, <1>4, <1>5, <1>6
     DEF Next, CardThread, ValveThread, NoUserList, LockBuffer, BufferFull, SetExpiry,
         SendReply, AckRead, AckDone, Expire, Erase, WalkDone, Receive, NothingToDo, Found,
         TimeUp, Broadcasting, LoseAnswer, vars, threads, sending

LEMMA TypeStep == RechargeInv /\ [Next]_vars => TypeOK'
<1> SUFFICES ASSUME RechargeInv, [Next]_vars PROVE TypeOK'
  OBVIOUS
<1>1. made' \in Seq(Requests) /\ Len(made') <= MaxRequests /\ Len(made') \in Nat
  BY MadeStep DEF RechargeInv
<1>2. /\ buffer' \in [Kinds -> Seq(1 .. MaxRequests)]
      /\ \A k \in Kinds : Len(buffer'[k]) <= Cells
      /\ applied' \in [1 .. MaxRequests -> Nat]
      /\ air' \subseteq 1 .. Len(made')
  BY OnceStep
<1>3. air' \subseteq 1 .. MaxRequests
  BY <1>1, <1>2, BoundsAssumption
<1>4. QED
  BY <1>1, <1>2, <1>3, ThreadTypes, CmdbufTypes, FlagTypes, Zenon DEF TypeOK

LEMMA InvHolds == Spec => []RechargeInv
<1>1. Init => RechargeInv
  BY InitEstablishesInv
<1>2. RechargeInv /\ [Next]_vars => RechargeInv'
  <2> SUFFICES ASSUME RechargeInv, [Next]_vars PROVE RechargeInv'
    OBVIOUS
  <2>1. TypeOK'
    BY TypeStep
  <2>2. /\ (\A k \in Kinds : WaitsOnce(k)')
        /\ WorkedOn' /\ NotYetTaken' /\ AppliedOnce'
        /\ air' \subseteq 1 .. Len(made')
        /\ (card' = "expiry" => Len(made') > 0)
    BY OnceStep
  <2>3. QED
    BY <2>1, <2>2, Zenon DEF RechargeInv
<1>3. QED
  BY <1>1, <1>2, PTL DEF Spec

------------------------------------------------------------------------------
(* Theorems *)

(* Whatever the two threads do in cmdbuf at once, its counters stay below  *)
(* their modulus and each cell holds a reply or a mixture; cbuffer_write   *)
(* never gives a recharge or a query a cell that htx or tx does not have.  *)
THEOREM TypeCorrect == Spec => []TypeOK
<1>1. RechargeInv => TypeOK
  BY DEF RechargeInv
<1>2. QED
  BY <1>1, InvHolds, PTL

(* Recharge puts a request into htx once, before the expiry is set, and    *)
(* neither the expiry, nor a lost answer, nor a lock kept where htx was    *)
(* full makes CValveMonitor put or send it again.                          *)
THEOREM AppliedAtMostOnce == Spec => []AppliedOnce
<1>1. RechargeInv => AppliedOnce
  BY DEF RechargeInv
<1>2. QED
  BY <1>1, InvHolds, PTL

------------------------------------------------------------------------------
(* The inductive invariant of the replies                                  *)

(* A thread that is to write a reply is not writing another.               *)
HandsInv ==
  /\ card # "idle" => ~ Writing("card")
  /\ valve \in {"io", "lost"} => ~ Writing("valve")

AirInv == \A n \in air : applied[n] > 0

CmdbufInv ==
  /\ Pending <= CmdCells
  /\ \A t \in Threads : ack[t].at = "w" => ack[t].w = cw
  /\ ~ (Writing("card") /\ Writing("valve"))

(* A success was told or lost, is in cmdbuf or on its way: in one place.   *)
Balanced(u) ==
  reported[u] + gone[u] + Cardinality(OkCells(u)) + Cardinality(Answers(u))
    = Cardinality(Applied(u))

ToldInv == \A u \in Users : Balanced(u)

ReplyInv ==
  /\ HandsInv /\ AirInv
  /\ ~ raced => CmdbufInv /\ ToldInv

------------------------------------------------------------------------------
(* Sets and counters                                                       *)

LEMMA CmdbufIsRing ==
  /\ CmdCells \in Nat \ {0} /\ Modulus \in Nat \ {0}
  /\ CmdCells < Modulus /\ Counters!Ring(CmdCells, Modulus)
BY CellsAssumption, ModulusAssumption DEF Counters!Ring

LEMMA CmdbufCounters == Counters!CountersWrap(CmdCells, Modulus)
BY CmdbufIsRing, ModulusAssumption, Counters!RingCounters

LEMMA CmdbufCounterLaws ==
  /\ Counters!CellIsKept(CmdCells, Modulus) /\ Counters!CellsDiffer(CmdCells, Modulus)
  /\ Counters!GapIs(Modulus) /\ Counters!GapMoves(Modulus) /\ Counters!RowMoves(Modulus)
BY CmdbufCounters DEF Counters!CountersWrap

LEMMA SubsetIsSmaller ==
  ASSUME NEW S, NEW T, T \subseteq S, IsFiniteSet(S)
  PROVE  IsFiniteSet(T) /\ Cardinality(T) <= Cardinality(S)
BY FS_Subset

LEMMA SetsAreFinite ==
  ASSUME TypeOK, NEW u
  PROVE  /\ IsFiniteSet(OkCells(u)) /\ IsFiniteSet(Applied(u)) /\ IsFiniteSet(Answers(u))
         /\ Cardinality(OkCells(u)) \in Nat /\ Cardinality(Applied(u)) \in Nat
         /\ Cardinality(Answers(u)) \in Nat
<1>1. IsFiniteSet(0 .. CmdCells - 1)
  BY CmdbufIsRing, FS_Interval
<1>2. IsFiniteSet(DOMAIN made)
  <2>1. DOMAIN made = 1 .. Len(made) /\ Len(made) \in Nat
    BY LenProperties DEF TypeOK
  <2>2. QED
    BY <2>1, FS_Interval
<1>3. /\ OkCells(u) \subseteq 0 .. CmdCells - 1
      /\ Applied(u) \subseteq DOMAIN made
      /\ Answers(u) \subseteq DOMAIN made
  BY DEF OkCells, Applied, Answers
<1>4. IsFiniteSet(OkCells(u)) /\ IsFiniteSet(Applied(u)) /\ IsFiniteSet(Answers(u))
  BY <1>1, <1>2, <1>3, SubsetIsSmaller
<1>5. QED
  BY <1>4, FS_CardinalityType

LEMMA WaitingValue ==
  ASSUME TypeOK
  PROVE  /\ Waiting \in 0 .. Modulus - 1
         /\ (cr + Waiting) % Modulus = cw
         /\ cw \in 0 .. Modulus - 1 /\ cr \in 0 .. Modulus - 1
<1>1. Waiting = Counters!Gap(cw, cr, Modulus)
  BY DEF Waiting, Counters!Gap
<1>2. QED
  BY <1>1, CmdbufIsRing, CmdbufCounterLaws DEF TypeOK, Counters!GapIs

LEMMA SlotRange ==
  ASSUME TypeOK, NEW i \in Nat
  PROVE  Slot(i) \in 0 .. CmdCells - 1
<1>1. cr + i \in Nat
  BY WaitingValue
<1>2. (cr + i) % Modulus \in Nat
  BY <1>1, CmdbufIsRing
<1>3. PICK x \in Nat : x = (cr + i) % Modulus
  BY <1>2
<1>4. x % CmdCells \in 0 .. CmdCells - 1
  BY CmdbufIsRing
<1>5. QED
  BY <1>3, <1>4 DEF Slot

------------------------------------------------------------------------------
(* What keeps the balance                                                  *)

(* Nothing changes for the user.                                           *)
LEMMA BalanceKept ==
  ASSUME NEW u, Balanced(u), reported'[u] = reported[u], gone'[u] = gone[u],
         OkCells(u)' = OkCells(u), Answers(u)' = Answers(u), Applied(u)' = Applied(u)
  PROVE  Balanced(u)'
BY DEF Balanced

(* An answer is lost, or finds no cell.                                    *)
LEMMA BalanceLost ==
  ASSUME TypeOK, NEW u \in Users, NEW n \in Answers(u), Balanced(u),
         reported'[u] = reported[u], gone'[u] = gone[u] + 1, OkCells(u)' = OkCells(u),
         Answers(u)' = Answers(u) \ {n}, Applied(u)' = Applied(u)
  PROVE  Balanced(u)'
<1>1. /\ IsFiniteSet(Answers(u)) /\ Cardinality(OkCells(u)) \in Nat
      /\ Cardinality(Applied(u)) \in Nat /\ Cardinality(Answers(u)) \in Nat
  BY SetsAreFinite
<1>2. Cardinality(Answers(u)') = Cardinality(Answers(u)) - 1
  BY <1>1, FS_RemoveElement
<1>3. reported[u] \in Nat /\ gone[u] \in Nat
  BY DEF TypeOK
<1>4. QED
  BY <1>1, <1>2, <1>3 DEF Balanced

(* An answer becomes a reply.                                              *)
LEMMA BalanceMoved ==
  ASSUME TypeOK, NEW u \in Users, NEW n \in Answers(u), NEW s, s \notin OkCells(u), Balanced(u),
         reported'[u] = reported[u], gone'[u] = gone[u], OkCells(u)' = OkCells(u) \union {s},
         Answers(u)' = Answers(u) \ {n}, Applied(u)' = Applied(u)
  PROVE  Balanced(u)'
<1>1. /\ IsFiniteSet(OkCells(u)) /\ IsFiniteSet(Answers(u))
      /\ Cardinality(OkCells(u)) \in Nat /\ Cardinality(Applied(u)) \in Nat
      /\ Cardinality(Answers(u)) \in Nat
  BY SetsAreFinite
<1>2. Cardinality(OkCells(u)') = Cardinality(OkCells(u)) + 1
  BY <1>1, FS_AddElement
<1>3. Cardinality(Answers(u)') = Cardinality(Answers(u)) - 1
  BY <1>1, FS_RemoveElement
<1>4. reported[u] \in Nat /\ gone[u] \in Nat
  BY DEF TypeOK
<1>5. QED
  BY <1>1, <1>2, <1>3, <1>4 DEF Balanced

(* A recharge takes place and its answer is on the way.                    *)
LEMMA BalanceGrown ==
  ASSUME TypeOK, NEW u \in Users, NEW n, n \notin Applied(u), Balanced(u),
         reported'[u] = reported[u], gone'[u] = gone[u], OkCells(u)' = OkCells(u),
         Answers(u)' = Answers(u) \union {n}, Applied(u)' = Applied(u) \union {n}
  PROVE  Balanced(u)'
<1>1. /\ IsFiniteSet(Applied(u)) /\ IsFiniteSet(Answers(u)) /\ n \notin Answers(u)
      /\ Cardinality(OkCells(u)) \in Nat /\ Cardinality(Applied(u)) \in Nat
      /\ Cardinality(Answers(u)) \in Nat
  BY SetsAreFinite DEF Answers
<1>2. Cardinality(Applied(u)') = Cardinality(Applied(u)) + 1
  BY <1>1, FS_AddElement
<1>3. Cardinality(Answers(u)') = Cardinality(Answers(u)) + 1
  BY <1>1, FS_AddElement
<1>4. reported[u] \in Nat /\ gone[u] \in Nat
  BY DEF TypeOK
<1>5. QED
  BY <1>1, <1>2, <1>3, <1>4 DEF Balanced

(* A reply of success leaves cmdbuf and is told.                           *)
LEMMA BalanceTold ==
  ASSUME TypeOK, NEW u \in Users, NEW s \in OkCells(u), Balanced(u),
         reported'[u] = reported[u] + 1, gone'[u] = gone[u], OkCells(u)' = OkCells(u) \ {s},
         Answers(u)' = Answers(u), Applied(u)' = Applied(u)
  PROVE  Balanced(u)'
<1>1. /\ IsFiniteSet(OkCells(u))
      /\ Cardinality(OkCells(u)) \in Nat /\ Cardinality(Applied(u)) \in Nat
      /\ Cardinality(Answers(u)) \in Nat
  BY SetsAreFinite
<1>2. Cardinality(OkCells(u)') = Cardinality(OkCells(u)) - 1
  BY <1>1, FS_RemoveElement
<1>3. reported[u] \in Nat /\ gone[u] \in Nat
  BY DEF TypeOK
<1>4. QED
  BY <1>1, <1>2, <1>3 DEF Balanced

------------------------------------------------------------------------------
(* cmdbuf                                                                  *)

(* Nothing changes in cmdbuf.                                              *)
LEMMA SameCells ==
  ASSUME UNCHANGED <<cell, cw, cr, ack>>
  PROVE  /\ \A u : OkCells(u)' = OkCells(u)
         /\ CmdbufInv => CmdbufInv'
         /\ HandsInv /\ card' \in {card, "idle"} /\ valve' = valve => HandsInv'
<1>1. /\ Waiting' = Waiting /\ (\A t : Writing(t)' = Writing(t))
      /\ \A i : Slot(i)' = Slot(i)
  BY DEF Waiting, Writing, Slot
<1>2. Pending' = Pending
  <2>1. Busy' <=> Busy
    BY <1>1 DEF Busy
  <2>2. QED
    BY <1>1, <2>1 DEF Pending
<1>3. \A u : OkCells(u)' = OkCells(u)
  BY <1>1, <1>2 DEF OkCells
<1>4. CmdbufInv => CmdbufInv'
  BY <1>1, <1>2 DEF CmdbufInv
<1>5. QED
  BY <1>1, <1>3, <1>4 DEF HandsInv

(* Ack, while the other thread is not writing.                             *)
LEMMA AckInCells ==
  ASSUME TypeOK, CmdbufInv, NEW t \in Threads, ~ Writing(t), NEW reply, Ack(t, reply),
         ~ raced'
  PROVE  /\ CmdbufInv'
         /\ reported' = reported
         /\ reply.code # "ok" => gone' = gone
         /\ \A u : reply # Reply(u, "ok") => OkCells(u)' = OkCells(u)
         /\ \A u : reply = Reply(u, "ok") =>
              \/ gone' = [gone EXCEPT ![u] = @ + 1] /\ OkCells(u)' = OkCells(u)
              \/ /\ gone' = gone /\ cw % CmdCells \notin OkCells(u)
                 /\ OkCells(u)' = OkCells(u) \union {cw % CmdCells}
<1>1. CASE CmdFull
  <2>1. /\ UNCHANGED <<cell, cw, cr, ack, reported>>
        /\ gone' = IF reply.code = "ok" THEN [gone EXCEPT ![reply.user] = @ + 1] ELSE gone
    BY <1>1 DEF Ack, cmdbuf
  <2>2. CmdbufInv' /\ \A u : OkCells(u)' = OkCells(u)
    BY <2>1, SameCells
  <2>3. \A u : reply = Reply(u, "ok") => gone' = [gone EXCEPT ![u] = @ + 1]
    BY <2>1 DEF Reply
  <2>4. QED
    BY <2>1, <2>2, <2>3
<1>2. CASE ~ CmdFull
  <2>1. /\ ack' = [ack EXCEPT ![t] = [at |-> "cell", w |-> 0]]
        /\ ~ Writing(Other(t))
        /\ cell' = [cell EXCEPT ![cw % CmdCells] = reply]
        /\ UNCHANGED <<cw, cr, reported, gone>>
    <3>1. ~ Writing(Other(t))
      BY <1>2 DEF Ack
    <3>2. QED
      BY <1>2, <3>1 DEF Ack
  <2>2. ~ Busy /\ Pending = Waiting
    <3>1. \A x \in Threads : ~ Writing(x)
      BY <2>1 DEF Threads, Other
    <3>2. ~ Busy
      BY <3>1 DEF Busy
    <3>3. QED
      BY <3>2, WaitingValue DEF Pending
  <2>3. /\ \A x \in Threads : x # t => ack'[x] = ack[x]
        /\ ack'[t] = [at |-> "cell", w |-> 0]
    BY <2>1 DEF TypeOK
  <2>4. Writing(t)' /\ ~ Writing(Other(t))'
    BY <2>1, <2>3 DEF Writing, Other, Threads
  <2>5. Waiting' = Waiting /\ (\A i : Slot(i)' = Slot(i)) /\ (cw % CmdCells)' = cw % CmdCells
    BY <2>1 DEF Waiting, Slot
  <2>6. Pending' = Waiting + 1
    <3>1. Busy'
      BY <2>4 DEF Busy
    <3>2. QED
      BY <2>5, <3>1 DEF Pending
  <2>7. Waiting < CmdCells
    <3>1. Waiting # CmdCells
      BY <1>2 DEF CmdFull, Waiting
    <3>2. Waiting <= CmdCells
      BY <2>2 DEF CmdbufInv
    <3>3. Waiting \in Nat /\ CmdCells \in Nat
      BY WaitingValue, CmdbufIsRing
    <3>4. QED
      BY <3>1, <3>2, <3>3
  <2>8. CmdbufInv'
    <3>1. Pending' <= CmdCells
      BY <2>6, <2>7, WaitingValue, CmdbufIsRing
    <3>2. \A x \in Threads : ack'[x].at = "w" => ack'[x].w = cw'
      BY <2>1, <2>3 DEF CmdbufInv
    <3>3. ~ (Writing("card")' /\ Writing("valve")')
      BY <2>4 DEF Other, Threads
    <3>4. QED
      BY <3>1, <3>2, <3>3 DEF CmdbufInv
  <2>9. Slot(Waiting) = cw % CmdCells
    BY WaitingValue DEF Slot
  <2>10. ASSUME NEW u, NEW s \in OkCells(u)', s # cw % CmdCells
         PROVE  s \in OkCells(u)
    <3>1. /\ s \in 0 .. CmdCells - 1 /\ cell'[s] = Reply(u, "ok")
          /\ \E i \in 0 .. Pending' - 1 : s = Slot(i)
      BY <2>5 DEF OkCells, Reply
    <3>2. PICK i \in 0 .. Pending' - 1 : s = Slot(i)
      BY <3>1
    <3>3. i # Waiting
      BY <2>9, <2>10, <3>2
    <3>4. i \in 0 .. Pending - 1
      BY <2>2, <2>6, <3>3, WaitingValue
    <3>5. cell[s] = Reply(u, "ok")
      BY <2>1, <2>10, <3>1 DEF TypeOK
    <3>6. QED
      BY <3>1, <3>2, <3>4, <3>5 DEF OkCells
  <2>11. ASSUME NEW u, reply # Reply(u, "ok") PROVE cw % CmdCells \notin OkCells(u)'
    <3>1. cw % CmdCells \in 0 .. CmdCells - 1
      BY WaitingValue, CmdbufIsRing
    <3>2. cell'[cw % CmdCells] = reply
      BY <2>1, <3>1 DEF TypeOK
    <3>3. QED
      BY <2>11, <3>2 DEF OkCells, Reply
  <2>12. \A u : cw % CmdCells \notin OkCells(u)
    <3>1. ASSUME NEW i \in 0 .. Pending - 1 PROVE Slot(i) # cw % CmdCells
      <4>1. i \in 0 .. CmdCells - 1 /\ Waiting \in 0 .. CmdCells - 1 /\ i # Waiting
        BY <2>2, <2>7, WaitingValue, CmdbufIsRing
      <4>2. Slot(i) # Slot(Waiting)
        BY <4>1, WaitingValue, CmdbufIsRing, CmdbufCounterLaws DEF Slot, Counters!CellsDiffer
      <4>3. QED
        BY <2>9, <4>2
    <3>2. QED
      BY <3>1 DEF OkCells
  <2>13. ASSUME NEW u, NEW s \in OkCells(u) PROVE s \in OkCells(u)'
    <3>1. PICK i \in 0 .. Pending - 1 : s = Slot(i)
      BY DEF OkCells
    <3>2. i \in 0 .. Pending' - 1
      BY <2>2, <2>6, WaitingValue
    <3>3. s \in 0 .. CmdCells - 1 /\ cell'[s] = Reply(u, "ok")
      BY <2>1, <2>12 DEF OkCells, TypeOK
    <3>4. s = Slot(i)'
      BY <2>5, <3>1
    <3>5. QED
      BY <3>2, <3>3, <3>4 DEF OkCells, Reply
  <2>14. ASSUME NEW u, reply = Reply(u, "ok") PROVE cw % CmdCells \in OkCells(u)'
    <3>1. cw % CmdCells \in 0 .. CmdCells - 1
      BY WaitingValue, CmdbufIsRing
    <3>2. cell'[cw % CmdCells] = Reply(u, "ok")
      BY <2>1, <2>14, <3>1 DEF TypeOK
    <3>3. PICK i \in Nat : i = Waiting
      BY WaitingValue
    <3>4. i \in 0 .. Pending' - 1 /\ cw % CmdCells = Slot(i)'
      BY <2>5, <2>6, <2>9, <3>3
    <3>5. QED
      BY <3>1, <3>2, <3>4 DEF OkCells, Reply
  <2>15. \A u : reply # Reply(u, "ok") => OkCells(u)' = OkCells(u)
    BY <2>10, <2>11, <2>13
  <2>16. \A u : reply = Reply(u, "ok") => OkCells(u)' = OkCells(u) \union {cw % CmdCells}
    BY <2>10, <2>13, <2>14
  <2>17. QED
    BY <2>1, <2>8, <2>12, <2>15, <2>16
<1>3. QED
  BY <1>1, <1>2

(* A thread that has finished with its cell reads w, and then writes it.   *)
LEMMA FinishInCells ==
  ASSUME TypeOK, CmdbufInv, NEW t \in Threads, AckRead(t) \/ AckDone(t)
  PROVE  CmdbufInv' /\ (\A u : OkCells(u)' = OkCells(u)) /\ UNCHANGED <<reported, gone>>
<1>1. Writing(t) /\ \A x \in Threads : x # t => ~ Writing(x)
  BY DEF AckRead, AckDone, Writing, CmdbufInv, Threads
<1>2. CASE AckRead(t)
  <2>1. /\ ack' = [ack EXCEPT ![t] = [at |-> "w", w |-> cw]]
        /\ UNCHANGED <<cell, cw, cr, reported, gone>>
    BY <1>2 DEF AckRead, history
  <2>2. /\ \A x \in Threads : x # t => ack'[x] = ack[x]
        /\ ack'[t] = [at |-> "w", w |-> cw]
    BY <2>1 DEF TypeOK
  <2>3. \A x \in Threads : Writing(x)' <=> Writing(x)
    BY <1>1, <2>2 DEF Writing
  <2>4. Pending' = Pending
    <3>1. Busy' <=> Busy
      BY <2>3 DEF Busy, Threads
    <3>2. Waiting' = Waiting
      BY <2>1 DEF Waiting
    <3>3. QED
      BY <3>1, <3>2 DEF Pending
  <2>5. CmdbufInv'
    BY <2>1, <2>2, <2>3, <2>4 DEF CmdbufInv, Threads
  <2>6. \A u : OkCells(u)' = OkCells(u)
    <3>1. \A i : Slot(i)' = Slot(i)
      BY <2>1 DEF Slot
    <3>2. QED
      BY <2>1, <2>4, <3>1 DEF OkCells
  <2>7. QED
    BY <2>1, <2>5, <2>6
<1>3. CASE AckDone(t)
  <2>1. /\ ack' = [ack EXCEPT ![t] = Silent] /\ ack[t].at = "w"
        /\ cw' = Inc(ack[t].w)
        /\ UNCHANGED <<cell, cr, reported, gone>>
    BY <1>3 DEF AckDone, history
  <2>2. cw' = Counters!Succ(cw, Modulus)
    BY <2>1 DEF CmdbufInv, Inc, Counters!Succ
  <2>3. /\ \A x \in Threads : x # t => ack'[x] = ack[x]
        /\ ack'[t] = Silent
    BY <2>1 DEF TypeOK
  <2>4. \A x \in Threads : ~ Writing(x)'
    BY <1>1, <2>3 DEF Writing, Silent
  <2>5. Busy /\ ~ Busy'
    BY <1>1, <2>4 DEF Busy, Threads
  <2>6. Pending = Waiting + 1 /\ Waiting < Modulus - 1
    <3>1. Pending = Waiting + 1
      BY <2>5 DEF Pending
    <3>2. QED
      BY <3>1, WaitingValue, CmdbufIsRing DEF CmdbufInv
  <2>7. Waiting' = Waiting + 1
    <3>1. Waiting = Counters!Gap(cw, cr, Modulus) /\ Waiting' = Counters!Gap(cw', cr', Modulus)
      BY DEF Waiting, Counters!Gap
    <3>2. QED
      BY <2>1, <2>2, <2>6, <3>1, WaitingValue, CmdbufIsRing, CmdbufCounterLaws
         DEF Counters!GapMoves
  <2>8. Pending' = Pending
    BY <2>5, <2>6, <2>7, WaitingValue DEF Pending
  <2>9. CmdbufInv'
    <3>1. \A x \in Threads : ack'[x].at # "w"
      BY <2>4 DEF Writing, Threads, CmdbufInv
    <3>2. QED
      BY <2>4, <2>8, <3>1 DEF CmdbufInv, Threads
  <2>10. \A u : OkCells(u)' = OkCells(u)
    <3>1. \A i : Slot(i)' = Slot(i)
      BY <2>1 DEF Slot
    <3>2. QED
      BY <2>1, <2>8, <3>1 DEF OkCells
  <2>11. QED
    BY <2>1, <2>9, <2>10
<1>4. QED
  BY <1>2, <1>3

(* SendReply: the oldest cell is one of the replies, and not after it.     *)
LEMMA SendReplyInCells ==
  ASSUME TypeOK, CmdbufInv, SendReply
  PROVE  /\ CmdbufInv'
         /\ \A u : OkCells(u)' = OkCells(u) \ {cr % CmdCells}
         /\ \A u : cell[cr % CmdCells] = Reply(u, "ok") => cr % CmdCells \in OkCells(u)
<1>1. cr # cw /\ cr' = Counters!Succ(cr, Modulus) /\ UNCHANGED <<cell, cw, ack>>
  BY DEF SendReply, Inc, Counters!Succ
<1>2. Waiting > 0
  <2>1. Waiting = IF cw >= cr THEN cw - cr ELSE cw + Modulus - cr
    BY WaitingValue, CmdbufIsRing, CmdbufCounterLaws DEF Waiting, Counters!Gap, Counters!GapIs
  <2>2. QED
    BY <1>1, <2>1, WaitingValue, CmdbufIsRing
<1>3. Waiting' = Waiting - 1
  <2>1. Waiting = Counters!Gap(cw, cr, Modulus) /\ Waiting' = Counters!Gap(cw', cr', Modulus)
    BY DEF Waiting, Counters!Gap
  <2>2. QED
    BY <1>1, <1>2, <2>1, WaitingValue, CmdbufIsRing, CmdbufCounterLaws DEF Counters!GapMoves
<1>4. \A x : Writing(x)' = Writing(x)
  BY <1>1 DEF Writing
<1>5. Pending' = Pending - 1 /\ Pending \in Nat /\ Pending > 0
  <2>1. Busy' <=> Busy
    BY <1>4 DEF Busy
  <2>2. QED
    BY <1>2, <1>3, <2>1, WaitingValue DEF Pending
<1>6. CmdbufInv'
  BY <1>1, <1>4, <1>5, CmdbufIsRing DEF CmdbufInv
<1>7. Slot(0) = cr % CmdCells
  <2>1. cr + 0 \in 0 .. 2 * Modulus - 1 /\ cr + 0 = cr
    BY WaitingValue, CmdbufIsRing
  <2>2. QED
    BY <2>1, CmdbufIsRing, CmdbufCounterLaws DEF Slot, Counters!CellIsKept
<1>8. \A i \in 0 .. Pending' - 1 : Slot(i)' = Slot(i + 1) /\ i + 1 \in 1 .. Pending - 1
  <2>1. TAKE i \in 0 .. Pending' - 1
  <2>2. i \in 0 .. Modulus - 1 /\ i + 1 \in 1 .. Pending - 1
    BY <1>5, CmdbufIsRing DEF CmdbufInv
  <2>3. (Counters!Succ(cr, Modulus) + i) % Modulus = (cr + (i + 1)) % Modulus
    BY <2>2, WaitingValue, CmdbufIsRing, CmdbufCounterLaws DEF Counters!RowMoves
  <2>4. QED
    BY <1>1, <2>2, <2>3 DEF Slot
<1>9. \A i \in 1 .. Pending - 1 : Slot(i) # cr % CmdCells
  <2>1. TAKE i \in 1 .. Pending - 1
  <2>2. i \in 0 .. CmdCells - 1 /\ 0 \in 0 .. CmdCells - 1 /\ i # 0
    BY <1>5, CmdbufIsRing DEF CmdbufInv
  <2>3. Slot(i) # Slot(0)
    BY <2>2, WaitingValue, CmdbufIsRing, CmdbufCounterLaws DEF Slot, Counters!CellsDiffer
  <2>4. QED
    BY <1>7, <2>3
<1>10. \A u : OkCells(u)' \subseteq OkCells(u) \ {cr % CmdCells}
  <2>1. TAKE u
  <2>2. ASSUME NEW s \in OkCells(u)'
        PROVE  s \in OkCells(u) \ {cr % CmdCells}
    <3>1. /\ s \in 0 .. CmdCells - 1 /\ cell[s] = Reply(u, "ok")
          /\ \E i \in 0 .. Pending' - 1 : s = Slot(i)'
      BY <1>1 DEF OkCells, Reply
    <3>2. PICK i \in 0 .. Pending' - 1 : s = Slot(i)'
      BY <3>1
    <3>3. s = Slot(i + 1) /\ i + 1 \in 1 .. Pending - 1 /\ i + 1 \in 0 .. Pending - 1
      BY <1>5, <1>8, <3>2
    <3>4. QED
      BY <1>9, <3>1, <3>3 DEF OkCells
  <2>3. QED
    BY <2>2
<1>11. ASSUME NEW u, cell[cr % CmdCells] = Reply(u, "ok")
       PROVE  cr % CmdCells \in OkCells(u)
  <2>1. cr % CmdCells \in 0 .. CmdCells - 1 /\ 0 \in 0 .. Pending - 1
    BY <1>5, WaitingValue, CmdbufIsRing
  <2>2. QED
    BY <1>7, <1>11, <2>1 DEF OkCells
<1>12. \A u : OkCells(u) \ {cr % CmdCells} \subseteq OkCells(u)'
  <2>1. TAKE u
  <2>2. ASSUME NEW s \in OkCells(u), s # cr % CmdCells
        PROVE  s \in OkCells(u)'
    <3>1. PICK i \in 0 .. Pending - 1 : s = Slot(i)
      BY DEF OkCells
    <3>2. i # 0
      BY <1>7, <2>2, <3>1
    <3>3. i - 1 \in 0 .. Pending' - 1 /\ (i - 1) + 1 = i
      BY <1>5, <3>2
    <3>4. s = Slot(i - 1)'
      BY <1>8, <3>1, <3>3
    <3>5. s \in 0 .. CmdCells - 1 /\ cell'[s] = Reply(u, "ok")
      BY <1>1 DEF OkCells
    <3>6. QED
      BY <3>3, <3>4, <3>5 DEF OkCells, Reply
  <2>3. QED
    BY <2>2
<1>13. QED
  BY <1>6, <1>10, <1>11, <1>12

------------------------------------------------------------------------------
(* The steps                                                               *)

(* Ack touches ack only at its own thread.                                 *)
LEMMA AckLeavesOther ==
  ASSUME TypeOK, NEW t \in Threads, NEW reply, Ack(t, reply)
  PROVE  \A x \in Threads : x # t => (Writing(x)' <=> Writing(x))
<1>1. ack' = ack \/ ack' = [ack EXCEPT ![t] = [at |-> "cell", w |-> 0]]
  BY DEF Ack, cmdbuf
<1>2. \A x \in Threads : x # t => ack'[x] = ack[x]
  BY <1>1 DEF TypeOK
<1>3. QED
  BY <1>2 DEF Writing

(* The steps, by what they do to cmdbuf, to the answers and to the         *)
(* recharges that took place.                                              *)
CardAcks ==
  \/ NoUserList
  \/ (BufferFull /\ Request.kind = "recharge")
  \/ \E u \in Users : Take(u, "time")

Asks == \E u \in Users, k \in Kinds : Take(u, k)

Finishes == \E t \in Threads : AckRead(t) \/ AckDone(t)

Rests ==
  UNCHANGED <<cell, cw, cr, ack, reported, gone, made, applied, raced, air>>

LEMMA StepKinds ==
  ASSUME [Next]_vars
  PROVE  \/ CardAcks \/ Asks \/ Finishes \/ SendReply
         \/ \E u \in Users : Expire(u)
         \/ \E k \in Kinds : Send(k)
         \/ \E n \in air : Receive(n) \/ LoseAnswer(n)
         \/ Rests
<1>1. CASE LockBuffer \/ PutRequest \/ SetExpiry \/ Erase \/ WalkDone \/ NothingToDo \/ Found
           \/ Broadcasting \/ UNCHANGED vars
  <2>1. Rests
    BY <1>1 DEF Rests, LockBuffer, PutRequest, SetExpiry, Erase, WalkDone, NothingToDo, Found,
                Broadcasting, vars, threads, cmdbuf, history
  <2>2. QED
    BY <2>1
<1>2. CASE \E u \in Users : TimeUp(u)
  <2>1. Rests
    BY <1>2 DEF Rests, TimeUp, threads, cmdbuf, history
  <2>2. QED
    BY <2>1
<1>3. CASE BufferFull /\ Request.kind # "recharge"
  <2>1. Rests
    BY <1>3 DEF Rests, BufferFull, cmdbuf, history
  <2>2. QED
    BY <2>1
<1>4. CASE AckRead("card") \/ AckDone("card") \/ AckRead("valve") \/ AckDone("valve")
  BY <1>4 DEF Finishes, Threads
<1>5. CASE \E u \in Users, k \in Kinds \union {"time"} : Take(u, k)
  BY <1>5 DEF CardAcks, Asks
<1>6. QED
  BY <1>1, <1>2, <1>3, <1>4, <1>5 DEF Next, CardThread, ValveThread, CardAcks

LEMMA HandsStep ==
  ASSUME RechargeInv, HandsInv, [Next]_vars
  PROVE  HandsInv'
<1>1. TypeOK
  BY DEF RechargeInv
<1>2. ASSUME NEW t \in Threads, Other(t) = "card" \/ Other(t) = "valve", NEW reply, Ack(t, reply),
             t = "card" => card' = "idle" /\ valve' = valve,
             t = "valve" => valve' \notin {"io", "lost"} /\ card' = card
      PROVE  HandsInv'
  <2>1. \A x \in Threads : x # t => (Writing(x)' <=> Writing(x))
    BY <1>1, <1>2, AckLeavesOther
  <2>2. QED
    BY <1>2, <2>1 DEF HandsInv, Threads
<1>3. CASE CardAcks
  <2>1. /\ \E reply : Ack("card", reply)
        /\ card' = "idle" /\ valve' = valve
    BY <1>3 DEF CardAcks, NoUserList, BufferFull, Take, CardFree
  <2>2. QED
    BY <1>2, <2>1 DEF Threads, Other
<1>4. CASE Asks
  <2>1. UNCHANGED <<cell, cw, cr, ack, valve>> /\ ~ Writing("card")
    BY <1>4 DEF Asks, Kinds, Take, CardFree, cmdbuf
  <2>2. \A x : Writing(x)' <=> Writing(x)
    BY <2>1 DEF Writing
  <2>3. QED
    BY <2>1, <2>2 DEF HandsInv
<1>5. CASE Finishes
  <2>1. PICK t \in Threads : AckRead(t) \/ AckDone(t)
    BY <1>5 DEF Finishes
  <2>2. UNCHANGED <<card, valve>> /\ Writing(t)
    BY <2>1 DEF AckRead, AckDone, threads, Writing
  <2>3. \A x \in Threads : x # t => ack'[x] = ack[x]
    BY <1>1, <2>1 DEF AckRead, AckDone, TypeOK
  <2>4. QED
    BY <2>2, <2>3 DEF HandsInv, Writing, Threads
<1>6. CASE SendReply
  <2>1. UNCHANGED <<card, valve, ack>>
    BY <1>6 DEF SendReply, threads
  <2>2. QED
    BY <2>1 DEF HandsInv, Writing
<1>7. CASE (\E u \in Users : Expire(u)) \/ \E n \in air : Receive(n)
  <2>1. /\ \E reply : Ack("valve", reply)
        /\ valve' \notin {"io", "lost"} /\ card' = card
    BY <1>7 DEF Expire, Receive
  <2>2. QED
    BY <1>2, <2>1 DEF Threads, Other
<1>8. CASE \E k \in Kinds : Send(k)
  <2>1. UNCHANGED <<card, ack>> /\ valve' = "walk"
    BY <1>8 DEF Send, cmdbuf
  <2>2. QED
    BY <2>1 DEF HandsInv, Writing
<1>9. CASE Rests \/ \E n \in air : LoseAnswer(n)
  <2>1. \A x : Writing(x)' <=> Writing(x)
    BY <1>9 DEF Rests, Writing, LoseAnswer, cmdbuf
  <2>2. card' # "idle" => card # "idle" \/ Asks
    BY DEF Asks, Kinds, Next, CardThread, ValveThread, NoUserList, LockBuffer, BufferFull,
           PutRequest, SetExpiry, SendReply, AckRead, AckDone, Expire, Erase, WalkDone, Send,
           Receive, NothingToDo, Found, Take, TimeUp, Broadcasting, LoseAnswer, vars, threads
  <2>3. valve' \in {"io", "lost"} => valve \in {"io", "lost"} \/ ~ Writing("valve")
    BY DEF ValveFree, Next, CardThread, ValveThread, NoUserList, LockBuffer, BufferFull,
           PutRequest, SetExpiry, SendReply, AckRead, AckDone, Expire, Erase, WalkDone, Send,
           Receive, NothingToDo, Found, Take, TimeUp, Broadcasting, LoseAnswer, vars, threads
  <2>4. QED
    BY <1>4, <2>1, <2>2, <2>3 DEF HandsInv
<1>10. QED
  BY <1>3, <1>4, <1>5, <1>6, <1>7, <1>8, <1>9, StepKinds

LEMMA AirStep ==
  ASSUME RechargeInv, AirInv, [Next]_vars
  PROVE  AirInv'
<1>1. CASE \E k \in Kinds : Send(k)
  <2>1. PICK k \in Kinds : Send(k)
    BY <1>1
  <2> DEFINE n == Head(buffer[k])
  <2>2. /\ n \in 1 .. MaxRequests
        /\ applied \in [1 .. MaxRequests -> Nat]
        /\ air \subseteq 1 .. MaxRequests
    <3>1. buffer[k] \in Seq(1 .. MaxRequests) /\ buffer[k] # <<>>
      BY <2>1 DEF Send, RechargeInv, TypeOK
    <3>2. QED
      BY <3>1, HeadTailProperties DEF RechargeInv, TypeOK
  <2>3. \/ applied' = [applied EXCEPT ![n] = @ + 1] /\ air' = air \union {n}
        \/ UNCHANGED <<applied, air>>
    BY <2>1 DEF Send
  <2> HIDE DEF n
  <2>4. CASE applied' = [applied EXCEPT ![n] = @ + 1] /\ air' = air \union {n}
    <3>1. \A m \in 1 .. MaxRequests : applied'[m] = IF m = n THEN applied[m] + 1 ELSE applied[m]
      BY <2>2, <2>4
    <3>2. \A m \in 1 .. MaxRequests : applied[m] \in Nat
      BY <2>2
    <3>3. QED
      BY <2>2, <2>4, <3>1, <3>2 DEF AirInv
  <2>5. CASE UNCHANGED <<applied, air>>
    BY <2>5 DEF AirInv
  <2>6. QED
    BY <2>3, <2>4, <2>5
<1>2. CASE ~ \E k \in Kinds : Send(k)
  <2>1. applied' = applied /\ air' \subseteq air
    BY <1>2 DEF Next, CardThread, ValveThread, NoUserList, LockBuffer, BufferFull, PutRequest,
         SetExpiry, SendReply, AckRead, AckDone, Expire, Erase, WalkDone, Receive,
         NothingToDo, Found, Take, TimeUp, Broadcasting, LoseAnswer, vars
  <2>2. QED
    BY <2>1 DEF AirInv
<1>3. QED
  BY <1>1, <1>2

(* A request just taken has not reached its valve.                         *)
LEMMA SameApplied ==
  ASSUME RechargeInv, [Next]_vars, applied' = applied
  PROVE  \A u : Applied(u)' = Applied(u)
<1>1. /\ Len(made) \in Nat /\ Len(made') \in Nat /\ Len(made) <= Len(made')
      /\ Len(made') <= MaxRequests
      /\ \A n \in 1 .. Len(made) : made'[n] = made[n]
  BY MadeStep DEF RechargeInv
<1>2. DOMAIN made = 1 .. Len(made) /\ DOMAIN made' = 1 .. Len(made')
  BY MadeStep, LenProperties DEF RechargeInv, TypeOK
<1>3. \A n \in 1 .. MaxRequests : n > Len(made) => applied[n] = 0
  BY DEF RechargeInv, NotYetTaken
<1>4. \A n \in DOMAIN made' : applied[n] > 0 => n \in DOMAIN made /\ made'[n] = made[n]
  BY <1>1, <1>2, <1>3, BoundsAssumption
<1>5. \A n \in DOMAIN made : n \in DOMAIN made' /\ made'[n] = made[n]
  BY <1>1, <1>2
<1>6. QED
  BY <1>4, <1>5 DEF Applied

(* No success is added to cmdbuf, none is told, none was carried out.      *)
LEMMA ToldKept ==
  ASSUME ToldInv, UNCHANGED <<reported, gone, air>>,
         \A u \in Users : OkCells(u)' = OkCells(u) /\ Applied(u)' = Applied(u)
  PROVE  ToldInv'
<1>1. \A u \in Users : Answers(u)' = Answers(u)
  BY DEF Answers
<1>2. QED
  BY <1>1, BalanceKept DEF ToldInv

(* A packet reaches its valve, or is lost.                                 *)
LEMMA ToldAfterSend ==
  ASSUME RechargeInv, [Next]_vars, ToldInv, NEW k \in Kinds, Send(k)
  PROVE  ToldInv'
<1> DEFINE n == Head(buffer[k])
<1>1. /\ UNCHANGED <<cell, cw, cr, ack, reported, gone, made>>
      /\ \/ applied' = [applied EXCEPT ![n] = @ + 1] /\ air' = air \union {n}
         \/ UNCHANGED <<applied, air>>
  BY DEF Send, cmdbuf, history
<1>2. TypeOK /\ TypeOK' /\ \A u : OkCells(u)' = OkCells(u)
  BY <1>1, TypeStep, SameCells DEF RechargeInv
<1>3. /\ n \in 1 .. Len(made) /\ n \in 1 .. MaxRequests /\ applied[n] = 0
      /\ DOMAIN made = 1 .. Len(made)
  <2>1. buffer[k] \in Seq(1 .. MaxRequests) /\ buffer[k] # <<>>
    BY DEF Send, RechargeInv, TypeOK
  <2>2. /\ Len(buffer[k]) \in Nat /\ Len(buffer[k]) > 0
        /\ n = buffer[k][1] /\ n \in 1 .. MaxRequests
    <3>1. PICK old \in Seq(1 .. MaxRequests) : old = buffer[k] /\ old # <<>>
      BY <2>1
    <3>2. Len(old) \in Nat /\ Len(old) > 0 /\ Head(old) = old[1]
      BY <3>1, LenProperties, EmptySeq
    <3>3. Head(old) \in 1 .. MaxRequests
      BY <3>1, HeadTailProperties
    <3>4. QED
      BY <3>1, <3>2, <3>3
  <2>3. 1 \in 1 .. Len(buffer[k])
    BY <2>2
  <2>4. buffer[k][1] \in 1 .. Len(made) /\ applied[buffer[k][1]] = 0
    BY <2>3 DEF RechargeInv, WaitsOnce
  <2>5. QED
    BY <2>2, <2>4, LenProperties DEF RechargeInv, TypeOK
<1> HIDE DEF n
<1>4. CASE UNCHANGED <<applied, air>>
  BY <1>1, <1>2, <1>4, ToldKept DEF Applied
<1>5. CASE applied' = [applied EXCEPT ![n] = @ + 1] /\ air' = air \union {n}
  <2>1. applied'[n] = 1 /\ \A m \in 1 .. MaxRequests : m # n => applied'[m] = applied[m]
    BY <1>2, <1>3, <1>5 DEF TypeOK
  <2>2. \A m \in DOMAIN made : m # n => applied'[m] = applied[m]
    BY <1>3, <2>1, LenProperties, BoundsAssumption DEF RechargeInv, TypeOK
  <2>3. ASSUME NEW u \in Users PROVE Balanced(u)'
    <3>1. Balanced(u)
      BY DEF ToldInv
    <3>2. n \notin Applied(u)
      BY <1>3 DEF Applied
    <3>3. CASE made[n] = [user |-> u, kind |-> "recharge"]
      <4>1. Applied(u)' = Applied(u) \union {n}
        BY <1>1, <1>3, <2>1, <2>2, <3>3 DEF Applied
      <4>2. Answers(u)' = Answers(u) \union {n}
        BY <1>5, <4>1 DEF Answers
      <4>3. QED
        BY <1>1, <1>2, <3>1, <3>2, <4>1, <4>2, BalanceGrown
    <3>4. CASE made[n] # [user |-> u, kind |-> "recharge"]
      <4>1. Applied(u)' = Applied(u)
        BY <1>1, <2>2, <3>4 DEF Applied
      <4>2. Answers(u)' = Answers(u)
        BY <1>5, <3>2, <4>1 DEF Answers
      <4>3. QED
        BY <1>1, <1>2, <3>1, <4>1, <4>2, BalanceKept
    <3>5. QED
      BY <3>3, <3>4
  <2>4. QED
    BY <2>3 DEF ToldInv
<1>6. QED
  BY <1>1, <1>4, <1>5

(* An answer comes in: ParseRecharge makes it a success.                   *)
LEMMA ToldAfterReceive ==
  ASSUME RechargeInv, [Next]_vars, HandsInv, AirInv, CmdbufInv, ToldInv,
         NEW n \in air, Receive(n), ~ raced'
  PROVE  CmdbufInv' /\ ToldInv'
<1> DEFINE reply == IF made[n].kind = "recharge"
                      THEN Reply(made[n].user, "ok") ELSE Reply(made[n].user, "answer")
<1>1. /\ Ack("valve", reply) /\ air' = air \ {n} /\ valve = "io"
      /\ UNCHANGED <<made, applied>>
  BY DEF Receive
<1>2. ~ Writing("valve") /\ "valve" \in Threads
  BY <1>1 DEF HandsInv, Threads
<1>3. TypeOK /\ TypeOK' /\ \A u : Applied(u)' = Applied(u)
  BY <1>1, TypeStep, SameApplied DEF RechargeInv
<1>4. /\ CmdbufInv' /\ reported' = reported
      /\ reply.code # "ok" => gone' = gone
      /\ \A u : reply # Reply(u, "ok") => OkCells(u)' = OkCells(u)
      /\ \A u : reply = Reply(u, "ok") =>
           \/ gone' = [gone EXCEPT ![u] = @ + 1] /\ OkCells(u)' = OkCells(u)
           \/ /\ gone' = gone /\ cw % CmdCells \notin OkCells(u)
              /\ OkCells(u)' = OkCells(u) \union {cw % CmdCells}
  <2> HIDE DEF reply
  <2>1. QED
    BY <1>1, <1>2, <1>3, AckInCells
<1>5. n \in DOMAIN made /\ made[n] \in Requests /\ applied[n] > 0
  <2>1. made \in Seq(Requests) /\ n \in 1 .. Len(made)
    BY DEF RechargeInv, TypeOK
  <2>2. QED
    BY <2>1, LenProperties, ElementOfSeq DEF AirInv
<1>6. ASSUME NEW u \in Users PROVE Balanced(u)'
  <2>1. Balanced(u)
    BY DEF ToldInv
  <2>2. CASE reply = Reply(u, "ok")
    <3>1. made[n] = [user |-> u, kind |-> "recharge"]
      BY <1>5, <2>2 DEF Reply, Requests
    <3>2. n \in Answers(u)
      BY <1>5, <3>1 DEF Answers, Applied
    <3>3. Answers(u)' = Answers(u) \ {n}
      BY <1>1, <1>3 DEF Answers
    <3>4. CASE gone' = [gone EXCEPT ![u] = @ + 1] /\ OkCells(u)' = OkCells(u)
      <4>1. gone'[u] = gone[u] + 1
        BY <1>3, <3>4 DEF TypeOK
      <4>2. QED
        BY <1>3, <1>4, <2>1, <3>2, <3>3, <3>4, <4>1, BalanceLost
    <3>5. CASE /\ gone' = gone /\ cw % CmdCells \notin OkCells(u)
               /\ OkCells(u)' = OkCells(u) \union {cw % CmdCells}
      BY <1>3, <1>4, <2>1, <3>2, <3>3, <3>5, BalanceMoved
    <3>6. QED
      BY <1>4, <2>2, <3>4, <3>5
  <2>3. CASE reply # Reply(u, "ok")
    <3>1. OkCells(u)' = OkCells(u)
      BY <1>4, <2>3
    <3>2. n \notin Applied(u) \/ made[n].kind # "recharge"
      BY <1>5, <2>3 DEF Applied, Reply
    <3>3. n \notin Applied(u)
      BY <3>2 DEF Applied
    <3>4. Answers(u)' = Answers(u)
      BY <1>1, <1>3, <3>3 DEF Answers
    <3>5. gone'[u] = gone[u]
      <4>1. CASE made[n].kind = "recharge"
        <5>1. reply = Reply(made[n].user, "ok") /\ made[n].user # u
          BY <2>3, <4>1
        <5>2. gone' = gone \/ gone' = [gone EXCEPT ![made[n].user] = @ + 1]
          BY <1>4, <5>1
        <5>3. QED
          BY <1>3, <5>1, <5>2 DEF TypeOK
      <4>2. CASE made[n].kind # "recharge"
        BY <1>4, <4>2 DEF Reply
      <4>3. QED
        BY <4>1, <4>2
    <3>6. QED
      BY <1>3, <1>4, <2>1, <3>1, <3>4, <3>5, BalanceKept
  <2>4. QED
    BY <2>2, <2>3
<1>7. QED
  BY <1>4, <1>6 DEF ToldInv

(* A reply goes out to the reader.                                         *)
LEMMA ToldAfterReply ==
  ASSUME RechargeInv, [Next]_vars, CmdbufInv, ToldInv, SendReply
  PROVE  CmdbufInv' /\ ToldInv'
<1> DEFINE s == cr % CmdCells
<1>1. /\ reported' = IF cell[s].code = "ok"
                       THEN [reported EXCEPT ![cell[s].user] = @ + 1] ELSE reported
      /\ UNCHANGED <<made, applied, air, gone>>
  BY DEF SendReply, threads
<1>2. TypeOK /\ TypeOK' /\ \A u : Applied(u)' = Applied(u) /\ Answers(u)' = Answers(u)
  <2>1. TypeOK /\ TypeOK' /\ \A u : Applied(u)' = Applied(u)
    BY <1>1, TypeStep, SameApplied DEF RechargeInv
  <2>2. QED
    BY <1>1, <2>1 DEF Answers
<1>3. /\ CmdbufInv' /\ \A u : OkCells(u)' = OkCells(u) \ {s}
      /\ \A u : cell[s] = Reply(u, "ok") => s \in OkCells(u)
  BY <1>2, SendReplyInCells
<1>4. cell[s] \in Replies
  <2>1. s \in 0 .. CmdCells - 1
    BY <1>2, WaitingValue, CmdbufIsRing
  <2>2. QED
    BY <1>2, <2>1 DEF TypeOK
<1> HIDE DEF s
<1>5. ASSUME NEW u \in Users PROVE Balanced(u)'
  <2>1. Balanced(u)
    BY DEF ToldInv
  <2>2. CASE cell[s] = Reply(u, "ok")
    <3>1. reported'[u] = reported[u] + 1
      BY <1>1, <1>2, <2>2 DEF Reply, TypeOK
    <3>2. QED
      BY <1>1, <1>2, <1>3, <2>1, <2>2, <3>1, BalanceTold
  <2>3. CASE cell[s] # Reply(u, "ok")
    <3>1. cell[s].code = "ok" => cell[s].user # u
      BY <1>4, <2>3 DEF Replies, Reply, Garbage
    <3>2. reported'[u] = reported[u]
      BY <1>1, <1>2, <3>1 DEF TypeOK
    <3>3. s \notin OkCells(u)
      BY <2>3 DEF OkCells
    <3>4. OkCells(u)' = OkCells(u)
      BY <1>3, <3>3
    <3>5. QED
      BY <1>1, <1>2, <2>1, <3>2, <3>4, BalanceKept
  <2>4. QED
    BY <2>2, <2>3
<1>6. QED
  BY <1>3, <1>5 DEF ToldInv

(* An answer is lost on the line.                                          *)
LEMMA ToldAfterLoss ==
  ASSUME RechargeInv, [Next]_vars, AirInv, ToldInv, NEW n \in air, LoseAnswer(n)
  PROVE  ToldInv'
<1>1. /\ UNCHANGED <<cell, cw, cr, ack, reported, made, applied>> /\ air' = air \ {n}
      /\ gone' = IF made[n].kind = "recharge"
                   THEN [gone EXCEPT ![made[n].user] = @ + 1] ELSE gone
  BY DEF LoseAnswer, threads, cmdbuf
<1>2. TypeOK /\ \A u : Applied(u)' = Applied(u) /\ OkCells(u)' = OkCells(u)
  BY <1>1, SameApplied, SameCells DEF RechargeInv
<1>3. n \in DOMAIN made /\ made[n] \in Requests /\ applied[n] > 0
  <2>1. made \in Seq(Requests) /\ n \in 1 .. Len(made)
    BY DEF RechargeInv, TypeOK
  <2>2. QED
    BY <2>1, LenProperties, ElementOfSeq DEF AirInv
<1>4. ASSUME NEW u \in Users PROVE Balanced(u)'
  <2>1. Balanced(u)
    BY DEF ToldInv
  <2>2. CASE made[n] = [user |-> u, kind |-> "recharge"]
    <3>1. n \in Answers(u)
      BY <1>3, <2>2 DEF Answers, Applied
    <3>2. Answers(u)' = Answers(u) \ {n}
      BY <1>1, <1>2 DEF Answers
    <3>3. gone'[u] = gone[u] + 1
      BY <1>1, <1>2, <2>2 DEF TypeOK
    <3>4. QED
      BY <1>1, <1>2, <2>1, <3>1, <3>2, <3>3, BalanceLost
  <2>3. CASE made[n] # [user |-> u, kind |-> "recharge"]
    <3>1. n \notin Applied(u)
      BY <2>3 DEF Applied
    <3>2. Answers(u)' = Answers(u)
      BY <1>1, <1>2, <3>1 DEF Answers
    <3>3. gone'[u] = gone[u]
      BY <1>1, <1>2, <1>3, <2>3 DEF Requests, TypeOK
    <3>4. QED
      BY <1>1, <1>2, <2>1, <3>2, <3>3, BalanceKept
  <2>4. QED
    BY <2>2, <2>3
<1>5. QED
  BY <1>4 DEF ToldInv

LEMMA RacedStays == [Next]_vars /\ ~ raced' => ~ raced
<1>1. [Next]_vars => raced' = raced \/ \E t \in Threads : raced' = (raced \/ Writing(Other(t)))
  BY DEF Ack, Next, CardThread, ValveThread, NoUserList, LockBuffer, BufferFull, PutRequest,
         SetExpiry, SendReply, AckRead, AckDone, Expire, Erase, WalkDone, Send, Receive,
         NothingToDo, Found, Take, TimeUp, Broadcasting, LoseAnswer, vars, threads, sending,
         history, Threads, cmdbuf
<1>2. QED
  BY <1>1, Zenon

LEMMA ToldStep ==
  ASSUME RechargeInv, ReplyInv, [Next]_vars, ~ raced'
  PROVE  CmdbufInv' /\ ToldInv'
<1>1. HandsInv /\ AirInv /\ CmdbufInv /\ ToldInv /\ TypeOK
  BY RacedStays DEF ReplyInv, RechargeInv
<1>2. TypeOK'
  BY TypeStep
<1>3. applied' = applied => \A u : Applied(u)' = Applied(u)
  BY SameApplied
<1>4. ASSUME NEW t \in Threads, ~ Writing(t), NEW reply, Ack(t, reply),
             reply.code # "ok", UNCHANGED <<applied, air>>
      PROVE  CmdbufInv' /\ ToldInv'
  <2>1. \A u : reply # Reply(u, "ok")
    BY <1>4 DEF Reply
  <2>2. /\ CmdbufInv' /\ UNCHANGED <<reported, gone>>
        /\ \A u : OkCells(u)' = OkCells(u)
    BY <1>1, <1>4, <2>1, AckInCells
  <2>3. QED
    BY <1>1, <1>3, <1>4, <2>2, ToldKept
<1>5. CASE CardAcks
  <2>1. /\ \E u : \E code \in {"failed", "answer"} : Ack("card", Reply(u, code))
        /\ UNCHANGED <<applied, air>> /\ ~ Writing("card")
    BY <1>1, <1>5 DEF CardAcks, NoUserList, BufferFull, Take, CardFree, HandsInv
  <2>2. \A u : Reply(u, "failed").code # "ok" /\ Reply(u, "answer").code # "ok"
    BY DEF Reply
  <2>3. QED
    BY <1>4, <2>1, <2>2 DEF Threads
<1>6. CASE Asks
  <2>1. UNCHANGED <<cell, cw, cr, ack, reported, gone, applied, air>>
    BY <1>6 DEF Asks, Kinds, Take, cmdbuf, history
  <2>2. QED
    BY <1>1, <1>3, <2>1, SameCells, ToldKept
<1>7. CASE Finishes
  <2>1. PICK t \in Threads : AckRead(t) \/ AckDone(t)
    BY <1>7 DEF Finishes
  <2>2. UNCHANGED <<applied, air>>
    BY <2>1 DEF AckRead, AckDone
  <2>3. CmdbufInv' /\ (\A u : OkCells(u)' = OkCells(u)) /\ UNCHANGED <<reported, gone>>
    BY <1>1, <2>1, FinishInCells
  <2>4. QED
    BY <1>1, <1>3, <2>2, <2>3, ToldKept
<1>8. CASE SendReply
  BY <1>1, <1>8, ToldAfterReply
<1>9. CASE \E u \in Users : Expire(u)
  <2>1. PICK u \in Users : Expire(u)
    BY <1>9
  <2>2. Ack("valve", Reply(u, "failed")) /\ ~ Writing("valve") /\ UNCHANGED <<applied, air>>
    BY <2>1 DEF Expire, ValveFree
  <2>3. Reply(u, "failed").code # "ok"
    BY DEF Reply
  <2>4. QED
    BY <1>4, <2>2, <2>3 DEF Threads
<1>10. CASE \E k \in Kinds : Send(k)
  <2>1. PICK k \in Kinds : Send(k)
    BY <1>10
  <2>2. ToldInv'
    BY <1>1, <2>1, ToldAfterSend
  <2>3. UNCHANGED <<cell, cw, cr, ack>>
    BY <2>1 DEF Send, cmdbuf
  <2>4. QED
    BY <1>1, <2>2, <2>3, SameCells
<1>11. CASE \E n \in air : Receive(n)
  BY <1>1, <1>11, ToldAfterReceive
<1>12. CASE Rests
  <2>1. UNCHANGED <<cell, cw, cr, ack, reported, gone, applied, air>>
    BY <1>12 DEF Rests
  <2>2. QED
    BY <1>1, <1>3, <2>1, SameCells, ToldKept
<1>13. CASE \E n \in air : LoseAnswer(n)
  <2>1. PICK n \in air : LoseAnswer(n)
    BY <1>13
  <2>2. ToldInv'
    BY <1>1, <2>1, ToldAfterLoss
  <2>3. UNCHANGED <<cell, cw, cr, ack>>
    BY <2>1 DEF LoseAnswer, cmdbuf
  <2>4. QED
    BY <1>1, <2>2, <2>3, SameCells
<1>14. QED
  BY <1>5, <1>6, <1>7, <1>8, <1>9, <1>10, <1>11, <1>12, <1>13, StepKinds

LEMMA ReplyInvInitially == Init => ReplyInv
<1> SUFFICES ASSUME Init PROVE ReplyInv
  OBVIOUS
<1>1. RechargeInv /\ TypeOK
  BY InitEstablishesInv DEF RechargeInv
<1>2. HandsInv /\ AirInv /\ \A t \in Threads : ~ Writing(t) /\ ack[t].at # "w"
  BY DEF Init, HandsInv, AirInv, Writing, Silent, Threads
<1>3. Waiting = 0 /\ Pending = 0
  <2>1. Waiting = 0
    <3>1. Waiting = Counters!Gap(0, 0, Modulus)
      BY DEF Waiting, Init, Counters!Gap
    <3>2. QED
      BY <3>1, CmdbufIsRing, CmdbufCounterLaws DEF Counters!GapIs
  <2>2. ~ Busy
    BY <1>2 DEF Busy
  <2>3. QED
    BY <2>1, <2>2 DEF Pending
<1>4. CmdbufInv
  BY <1>2, <1>3, CmdbufIsRing DEF CmdbufInv, Threads
<1>5. ASSUME NEW u \in Users PROVE Balanced(u)
  <2>1. OkCells(u) = {} /\ Answers(u) = {} /\ Applied(u) = {}
    BY <1>3 DEF OkCells, Answers, Applied, Init
  <2>2. reported[u] = 0 /\ gone[u] = 0
    BY DEF Init
  <2>3. QED
    BY <2>1, <2>2, FS_EmptySet DEF Balanced
<1>6. QED
  BY <1>2, <1>4, <1>5 DEF ReplyInv, ToldInv

LEMMA ReplyInvHolds == Spec => [](RechargeInv /\ ReplyInv)
<1>1. Init => RechargeInv /\ ReplyInv
  BY InitEstablishesInv, ReplyInvInitially
<1>2. RechargeInv /\ RechargeInv' /\ ReplyInv /\ [Next]_vars => ReplyInv'
  <2> SUFFICES ASSUME RechargeInv, ReplyInv, [Next]_vars PROVE ReplyInv'
    OBVIOUS
  <2>1. HandsInv' /\ AirInv'
    BY HandsStep, AirStep DEF ReplyInv
  <2>2. ~ raced' => CmdbufInv' /\ ToldInv'
    BY ToldStep
  <2>3. QED
    BY <2>1, <2>2, Zenon DEF ReplyInv
<1>3. QED
  BY <1>1, <1>2, InvHolds, PTL DEF Spec

------------------------------------------------------------------------------
(* The theorem *)

(* As long as no two replies met in cmdbuf, each recharge that reached its *)
(* valve is in exactly one place: ParseRecharge turns its answer into one  *)
(* reply, cmdbuf gives each reply out once, whatever its size and however  *)
(* often its counters wrap, and an answer that is lost or finds no cell is *)
(* counted.  This is the part of AppliedIsReported that no fairness is     *)
(* needed for.                                                             *)
THEOREM NoneIsMislaid == Spec => []EachIsAccountedFor
<1>1. ReplyInv => EachIsAccountedFor
  BY DEF ReplyInv, ToldInv, Balanced, EachIsAccountedFor, Recharged
<1>2. QED
  BY <1>1, ReplyInvHolds, PTL

(* In particular the reader is told no more successes than recharges of    *)
(* that user took place (AckRecharge).                                     *)
THEOREM SuccessIsTrue == Spec => []SuccessWasApplied
<1>1. RechargeInv /\ ReplyInv => SuccessWasApplied
  <2> SUFFICES ASSUME RechargeInv, ReplyInv, ~ raced, NEW u \in Users
               PROVE  reported[u] <= Recharged(u)
    BY DEF SuccessWasApplied
  <2>1. reported[u] + gone[u] + Cardinality(OkCells(u)) + Cardinality(Answers(u))
          = Cardinality(Applied(u))
    BY DEF ReplyInv, ToldInv, Balanced
  <2>2. /\ Cardinality(OkCells(u)) \in Nat /\ Cardinality(Answers(u)) \in Nat
        /\ Cardinality(Applied(u)) \in Nat /\ reported[u] \in Nat /\ gone[u] \in Nat
    BY SetsAreFinite DEF RechargeInv, TypeOK
  <2>3. QED
    BY <2>1, <2>2 DEF Recharged
<1>2. QED
  BY <1>1, ReplyInvHolds, PTL
==============================================================================
