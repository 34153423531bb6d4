---------------------------- MODULE CardRecharge -----------------------------
(***************************************************************************)
(* Recharging and querying a user by card: CCardHost's thread takes the    *)
(* requests of the card reader, CValveMonitor's thread sends them to the   *)
(* user's valve and hands the answers back (CValveMonitor::Recharge,       *)
(* QueryUser, their Parse functions and the expiry walk of Run).           *)
(*                                                                         *)
(* A recharge goes through htx under htxlock, a query through tx under     *)
(* txlock; where a buffer is full the function returns with the lock held. *)
(* A recharge expires after five seconds, except while valves are being    *)
(* registered.  Both threads write replies to the reader into cmdbuf,      *)
(* without a lock: between cbuffer_write and cbuffer_write_done the other  *)
(* may get the same cell, which then holds either reply or a mixture, and  *)
(* w ++ may work on an old w.                                              *)
(*                                                                         *)
(* Each operation on the maps users and expires is one step here, and the  *)
(* line is ready whenever there is something to write or to read.          *)
(***************************************************************************)
EXTENDS Naturals, Sequences, FiniteSets

CONSTANTS
  Users,         (* those the map knows, each with its valve             *)
  Cells,         (* of htx and tx                                        *)
  CmdCells,      (* of cmdbuf                                            *)
  Modulus,       (* at which the counters of cmdbuf wrap: 2^32           *)
  MaxRequests,   (* bound: requests of the card reader                   *)
  MaxFaults      (* bound: lost packets and answers, a busy list         *)

ASSUME CellsAssumption == Cells \in Nat \ {0} /\ CmdCells \in Nat \ {0}
ASSUME ModulusAssumption ==
  Modulus \in Nat /\ Modulus > CmdCells /\ Modulus % CmdCells = 0
ASSUME BoundsAssumption == MaxRequests \in Nat /\ MaxFaults \in Nat

VARIABLES
  card,          (* where the card host's thread is                      *)
  made,          (* the requests it took; it works on the last one       *)
  valve,         (* where the valve thread is                            *)
  expiring,      (* the user whose expiry it reports, or "nobody"        *)
  lock,          (* htxlock and txlock                                   *)
  buffer,        (* htx and tx                                           *)
  expires,       (* the map, with whether the time is up                 *)
  broadcasting,
  cell, cw, cr,  (* cmdbuf                                               *)
  ack,           (* how far each thread is with writing to cmdbuf, and w *)
                 (* as it read it for w ++                               *)
  air,           (* external: answers of the valves on their way         *)
  applied,       (* external: how often each request reached its valve   *)
  reported,      (* history: replies of success the reader got           *)
  gone,          (* history: applied, but answer lost or no cell for it  *)
  raced,         (* history: both threads were in cmdbuf at once         *)
  faults

threads == <<card, made, valve, expiring>>
sending == <<lock, buffer, expires, broadcasting>>
cmdbuf == <<cell, cw, cr, ack>>
history == <<reported, gone, raced>>
vars == <<threads, sending, cmdbuf, air, applied, history, faults>>

Kinds == {"recharge", "query"}
Threads == {"card", "valve"}
Requests == [user : Users, kind : Kinds \union {"time"}]
Reply(u, code) == [user |-> u, code |-> code]
Garbage == [user |-> "none", code |-> "garbage"]
Replies == [user : Users, code : {"ok", "failed", "answer"}] \union {Garbage}
Silent == [at |-> "out", w |-> 0]
Writing(t) == ack[t].at # "out"

Request == made[Len(made)]
Inc(counter) == (counter + 1) % Modulus
Other(t) == IF t = "card" THEN "valve" ELSE "card"
CmdFull == (cw + Modulus - cr) % Modulus = CmdCells

Fault ==
  /\ faults < MaxFaults
  /\ faults' = faults + 1

Init ==
  /\ card = "idle" /\ made = <<>>
  /\ valve = "walk" /\ expiring = "nobody"
  /\ lock = [k \in Kinds |-> "free"]
  /\ buffer = [k \in Kinds |-> <<>>]
  /\ expires = [u \in Users |-> "none"]
  /\ broadcasting = TRUE
  /\ cell = [i \in 0 .. CmdCells - 1 |-> Garbage]
  /\ cw = 0 /\ cr = 0
  /\ ack = [t \in Threads |-> Silent]
  /\ air = {}
  /\ applied = [n \in 1 .. MaxRequests |-> 0]
  /\ reported = [u \in Users |-> 0]
  /\ gone = [u \in Users |-> 0]
  /\ raced = FALSE
  /\ faults = 0

------------------------------------------------------------------------------
(* Replies: AckRecharge, AckQueryUser and AckTimeOrRemove in either thread *)

(* cbuffer_write, and the reply is put into the cell: over the other       *)
(* thread's, under it, or mixed with it if that one is still writing.      *)
Ack(t, reply) ==
  LET slot == cw % CmdCells
      race == Writing(Other(t))
      mixed == [user : {reply.user, cell[slot].user},
                code : {reply.code, cell[slot].code}] \intersect Replies
  IN  IF CmdFull
        THEN /\ gone' = IF reply.code = "ok"
                          THEN [gone EXCEPT ![reply.user] = @ + 1] ELSE gone
             /\ UNCHANGED <<cmdbuf, reported, raced>>
        ELSE /\ ack' = [ack EXCEPT ![t] = [at |-> "cell", w |-> 0]]
             /\ \E content \in IF race THEN mixed \union {Garbage} ELSE {reply} :
                  cell' = [cell EXCEPT ![slot] = content]
             /\ raced' = (raced \/ race)
             /\ UNCHANGED <<cw, cr, reported, gone>>

(* cbuffer_write_done: w ++, which reads w ...                             *)
AckRead(t) ==
  /\ ack[t].at = "cell"
  /\ ack' = [ack EXCEPT ![t] = [at |-> "w", w |-> cw]]
  /\ UNCHANGED <<threads, sending, cell, cw, cr, air, applied, history, faults>>

(* ... and writes it, which undoes what the other thread did meanwhile.    *)
AckDone(t) ==
  /\ ack[t].at = "w"
  /\ cw' = Inc(ack[t].w)
  /\ ack' = [ack EXCEPT ![t] = Silent]
  /\ UNCHANGED <<threads, sending, cell, cr, air, applied, history, faults>>

------------------------------------------------------------------------------
(* The card host's thread *)

CardFree == card = "idle" /\ ~ Writing("card")

(* ParseAndExecute.  The time (and the existence of a user) is answered at *)
(* once.                                                                   *)
Take(u, kind) ==
  /\ CardFree
  /\ Len(made) < MaxRequests
  /\ made' = Append(made, [user |-> u, kind |-> kind])
  /\ IF kind = "time"
       THEN Ack("card", Reply(u, "answer")) /\ UNCHANGED card
       ELSE card' = "asked" /\ UNCHANGED <<cmdbuf, history>>
  /\ UNCHANGED <<valve, expiring, sending, air, applied, faults>>

(* GetUserList fails three times, because another thread has the list, or  *)
(* the list has no such user.                                              *)
NoUserList ==
  /\ card = "asked"
  /\ card' = "idle"
  /\ Ack("card", Reply(Request.user, "failed"))
  /\ Fault
  /\ UNCHANGED <<made, valve, expiring, sending, air, applied>>

LockBuffer ==
  /\ card = "asked"
  /\ lock[Request.kind] = "free"
  /\ lock' = [lock EXCEPT ![Request.kind] = "card"]
  /\ card' = "locked"
  /\ UNCHANGED <<made, valve, expiring, buffer, expires, broadcasting, cmdbuf,
                 air, applied, history, faults>>

(* No cell: back with the lock held; only a recharge is answered.          *)
BufferFull ==
  /\ card = "locked"
  /\ Len(buffer[Request.kind]) = Cells
  /\ card' = "idle"
  /\ IF Request.kind = "recharge"
       THEN Ack("card", Reply(Request.user, "failed"))
       ELSE UNCHANGED <<cmdbuf, history>>
  /\ UNCHANGED <<made, valve, expiring, sending, air, applied, faults>>

PutRequest_NotChecked ==
  /\ card = "locked"
  /\ buffer' = [buffer EXCEPT ![Request.kind] = Append(@, Len(made))]
  /\ lock' = [lock EXCEPT ![Request.kind] = "free"]
  /\ card' = IF Request.kind = "recharge" THEN "expiry" ELSE "idle"
  /\ UNCHANGED <<made, valve, expiring, expires, broadcasting, cmdbuf, air,
                 applied, history, faults>>

(* The packet is filled in and published, and the lock released.           *)
PutRequest ==
  /\ card = "locked"
  /\ Len(buffer[Request.kind]) < Cells
  /\ buffer' = [buffer EXCEPT ![Request.kind] = Append(@, Len(made))]
  /\ lock' = [lock EXCEPT ![Request.kind] = "free"]
  /\ card' = IF Request.kind = "recharge" THEN "expiry" ELSE "idle"
  /\ UNCHANGED <<made, valve, expiring, expires, broadcasting, cmdbuf, air,
                 applied, history, faults>>

(* Only now is the recharge given five seconds.                            *)
SetExpiry ==
  /\ card = "expiry"
  /\ expires' = [expires EXCEPT ![Request.user] = "running"]
  /\ card' = "idle"
  /\ UNCHANGED <<made, valve, expiring, lock, buffer, broadcasting, cmdbuf, air,
                 applied, history, faults>>

SendReply_NotDone ==
  /\ CardFree
  /\ cr # cw
  /\ LET reply == cell[cr % CmdCells]
     IN  reported' = IF reply.code = "ok"
                       THEN [reported EXCEPT ![reply.user] = @ + 1] ELSE reported
  /\ UNCHANGED <<threads, sending, cmdbuf, air, applied, gone, raced, faults>>

(* The oldest reply goes out to the reader.                                *)
SendReply ==
  /\ CardFree
  /\ cr # cw
  /\ LET reply == cell[cr % CmdCells]
     IN  reported' = IF reply.code = "ok"
                       THEN [reported EXCEPT ![reply.user] = @ + 1] ELSE reported
  /\ cr' = Inc(cr)
  /\ UNCHANGED <<threads, sending, cell, cw, ack, air, applied, gone, raced,
                 faults>>

------------------------------------------------------------------------------
(* The valve thread *)

ValveFree == ~ Writing("valve")

Due == {u \in Users : expires[u] = "due"}

(* In the normal process: an entry whose time is up is reported ...        *)
Expire(u) ==
  /\ valve = "walk" /\ ~ broadcasting /\ ValveFree
  /\ u \in Due
  /\ valve' = "erase"
  /\ expiring' = u
  /\ Ack("valve", Reply(u, "failed"))
  /\ UNCHANGED <<card, made, sending, air, applied, faults>>

(* ... and erased.  The iterator then moves on twice: past the next entry, *)
(* from the last entry back to some other, and if none is left for ever in *)
(* a circle.                                                               *)
Erase ==
  /\ valve = "erase" /\ ValveFree
  /\ expires' = [expires EXCEPT ![expiring] = "none"]
  /\ expiring' = "nobody"
  /\ IF \A u \in Users : expires'[u] = "none"
       THEN valve' = "lost"
       ELSE valve' \in {"walk", "io"}
  /\ UNCHANGED <<card, made, lock, buffer, broadcasting, cmdbuf, air, applied,
                 history, faults>>

(* A new entry may end the circle.                                         *)
Found ==
  /\ valve = "lost"
  /\ \E u \in Users : expires[u] # "none"
  /\ valve' = "walk"
  /\ UNCHANGED <<card, made, expiring, sending, cmdbuf, air, applied, history,
                 faults>>

WalkDone ==
  /\ valve = "walk" /\ ValveFree
  /\ broadcasting \/ Due = {}
  /\ valve' = "io"
  /\ UNCHANGED <<card, made, expiring, sending, cmdbuf, air, applied, history,
                 faults>>

Send_NotDone(k) ==
  /\ valve = "io"
  /\ buffer[k] # <<>>
  /\ k = "query" => buffer["recharge"] = <<>>
  /\ applied' = [applied EXCEPT ![Head(buffer[k])] = @ + 1]
  /\ air' = air \union {Head(buffer[k])}
  /\ valve' = "walk"
  /\ UNCHANGED <<card, made, expiring, sending, cmdbuf, history, faults>>

(* A packet is written to the line, htx first, and reaches its valve or    *)
(* not; the valve carries it out and answers.                              *)
Send(k) ==
  /\ valve = "io"
  /\ buffer[k] # <<>>
  /\ k = "query" => buffer["recharge"] = <<>>
  /\ buffer' = [buffer EXCEPT ![k] = Tail(@)]
  /\ \/ /\ applied' = [applied EXCEPT ![Head(buffer[k])] = @ + 1]
        /\ air' = air \union {Head(buffer[k])}
        /\ UNCHANGED faults
     \/ UNCHANGED <<applied, air>> /\ Fault
  /\ valve' = "walk"
  /\ UNCHANGED <<card, made, expiring, lock, expires, broadcasting, cmdbuf,
                 history>>

Receive_OnlyPending(n) ==
  /\ valve = "io"
  /\ n \in air
  /\ air' = air \ {n}
  /\ IF made[n].kind = "query"
       THEN Ack("valve", Reply(made[n].user, "answer")) /\ UNCHANGED expires
     ELSE IF expires[made[n].user] # "none"
       THEN /\ expires' = [expires EXCEPT ![made[n].user] = "none"]
            /\ Ack("valve", Reply(made[n].user, "ok"))
       ELSE UNCHANGED <<expires, cmdbuf, history>>
  /\ valve' = "walk"
  /\ UNCHANGED <<card, made, expiring, lock, buffer, broadcasting, applied,
                 faults>>

(* ParseRecharge ends the expiry, whichever request it was for; and        *)
(* ParseQueryUser.                                                         *)
Receive(n) ==
  /\ valve = "io"
  /\ n \in air
  /\ air' = air \ {n}
  /\ IF made[n].kind = "recharge"
       THEN /\ expires' = [expires EXCEPT ![made[n].user] = "none"]
            /\ Ack("valve", Reply(made[n].user, "ok"))
       ELSE /\ Ack("valve", Reply(made[n].user, "answer"))
            /\ UNCHANGED expires
  /\ valve' = "walk"
  /\ UNCHANGED <<card, made, expiring, lock, buffer, broadcasting, applied,
                 faults>>

NothingToDo ==
  /\ valve = "io"
  /\ \A k \in Kinds : buffer[k] = <<>>
  /\ air = {}
  /\ valve' = "walk"
  /\ UNCHANGED <<card, made, expiring, sending, cmdbuf, air, applied, history,
                 faults>>

------------------------------------------------------------------------------
(* Everything else *)

(* Five seconds are over, by the time the walk read when it began.         *)
TimeUp(u) ==
  /\ valve = "io" \/ (valve = "walk" /\ ~ ValveFree)
  /\ expires[u] = "running"
  /\ expires' = [expires EXCEPT ![u] = "due"]
  /\ UNCHANGED <<threads, lock, buffer, broadcasting, cmdbuf, air, applied,
                 history, faults>>

(* Registration begins or ends.                                            *)
Broadcasting ==
  /\ valve = "io"
  /\ broadcasting' = ~ broadcasting
  /\ UNCHANGED <<threads, lock, buffer, expires, cmdbuf, air, applied, history,
                 faults>>

LoseAnswer(n) ==
  /\ n \in air
  /\ air' = air \ {n}
  /\ gone' = IF made[n].kind = "recharge"
               THEN [gone EXCEPT ![made[n].user] = @ + 1] ELSE gone
  /\ Fault
  /\ UNCHANGED <<threads, sending, cmdbuf, applied, reported, raced>>

CardThread ==
  \/ NoUserList \/ LockBuffer \/ BufferFull \/ PutRequest \/ SetExpiry
  \/ SendReply \/ AckRead("card") \/ AckDone("card")

ValveThread ==
  \/ \E u \in Users : Expire(u)
  \/ Erase \/ WalkDone
  \/ \E k \in Kinds : Send(k)
  \/ \E n \in air : Receive(n)
  \/ NothingToDo \/ AckRead("valve") \/ AckDone("valve")

Next ==
  \/ CardThread
  \/ ValveThread
  \/ Found
  \/ \E u \in Users, k \in Kinds \union {"time"} : Take(u, k)
  \/ \E u \in Users : TimeUp(u)
  \/ Broadcasting
  \/ \E n \in air : LoseAnswer(n)

(* Both threads run for ever; whether a circle ends is open.               *)
Fairness == WF_vars(CardThread) /\ WF_vars(ValveThread)

Spec == Init /\ [][Next]_vars /\ Fairness

------------------------------------------------------------------------------
(* Properties *)

(* The variables stay in their types, and no more packets lie in htx or tx *)
(* than cbuffer_write has cells for.                                       *)
TypeOK ==
  /\ card \in {"idle", "asked", "locked", "expiry"}
  /\ made \in Seq(Requests) /\ Len(made) <= MaxRequests
  /\ valve \in {"walk", "erase", "lost", "io"}
  /\ expiring \in Users \union {"nobody"}
  /\ lock \in [Kinds -> {"free", "card"}]
  /\ buffer \in [Kinds -> Seq(1 .. MaxRequests)]
  /\ \A k \in Kinds : Len(buffer[k]) <= Cells
  /\ expires \in [Users -> {"none", "running", "due"}]
  /\ broadcasting \in BOOLEAN
  /\ cell \in [0 .. CmdCells - 1 -> Replies]
  /\ cw \in 0 .. Modulus - 1 /\ cr \in 0 .. Modulus - 1
  /\ ack \in [Threads -> [at : {"out", "cell", "w"}, w : 0 .. Modulus - 1]]
  /\ air \subseteq 1 .. MaxRequests
  /\ applied \in [1 .. MaxRequests -> Nat]
  /\ reported \in [Users -> Nat] /\ gone \in [Users -> Nat]
  /\ raced \in BOOLEAN
  /\ faults \in 0 .. MaxFaults

(* The recharges of a user that took place, and those of which the answer  *)
(* is on its way.                                                          *)
Applied(u) ==
  {n \in DOMAIN made :
     made[n] = [user |-> u, kind |-> "recharge"] /\ applied[n] > 0}

Answers(u) == air \intersect Applied(u)

Recharged(u) == Cardinality(Applied(u))

(* How many replies lie in cmdbuf, the one being written included, where   *)
(* the i-th of them lies, and which cells hold a success of a user.        *)
Waiting == (cw + Modulus - cr) % Modulus
Busy == \E t \in Threads : Writing(t)
Pending == Waiting + (IF Busy THEN 1 ELSE 0)
Slot(i) == ((cr + i) % Modulus) % CmdCells

OkCells(u) ==
  {s \in 0 .. CmdCells - 1 :
     cell[s] = Reply(u, "ok") /\ \E i \in 0 .. Pending - 1 : s = Slot(i)}

(* A request reaches its valve at most once, whatever is lost or expires:  *)
(* nobody is credited twice.                                               *)
AppliedOnce == \A n \in 1 .. MaxRequests : applied[n] <= 1

(* Unless two replies raced in cmdbuf, each recharge that took place is in *)
(* one place: told to the reader, in a cell of cmdbuf, on its way from the *)
(* valve, or lost where an answer was lost or met a full cmdbuf.  None is  *)
(* told or written twice, none is overwritten, none is told that was not.  *)
EachIsAccountedFor ==
  ~ raced => \A u \in Users :
    reported[u] + gone[u] + Cardinality(OkCells(u)) + Cardinality(Answers(u))
      = Recharged(u)

(* In particular, each success the reader is told is a recharge of that    *)
(* user that took place, told once.                                        *)
SuccessWasApplied ==
  ~ raced => \A u \in Users : reported[u] <= Recharged(u)

(* A lock kept where a buffer was full, which stops the card host's thread *)
(* at its next request.                                                    *)
Blocked == card = "asked" /\ lock[Request.kind] = "card"

(* A recharge that took place is reported, unless the answer was lost or   *)
(* met a full cmdbuf, two replies raced, or a thread has stopped.          *)
AppliedIsReported ==
  <>[](\/ Blocked \/ valve = "lost" \/ raced
       \/ \A u \in Users : reported[u] + gone[u] = Recharged(u))

(* The expiry walk only passes over the map: it comes back to the line.    *)
WalkEnds == valve # "lost"
==============================================================================
