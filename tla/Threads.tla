------------------------------- MODULE Threads -------------------------------
(***************************************************************************)
(* The threads of the program and the locks they meet at: CPortal,         *)
(* CHeatMonitor, CCardHost, the screen (CMainLoop), and the thread of the  *)
(* valves, which is CForwarderMonitor or CValveMonitor (WIRELESS in        *)
(* config.ini).  Of each routine only its locks are kept, in the order in  *)
(* which it takes and releases them; what it does with the lines and the   *)
(* queues is in the other modules.                                         *)
(*                                                                         *)
(* The portal sends with a queue's lock held and takes m_GPRSLock inside;  *)
(* it configures valves with m_GPRSLock held and takes m_ForwarderLock     *)
(* inside; the forwarder's thread inserts into the queues with             *)
(* m_ForwarderLock held.  The order of the locks is a circle.              *)
(*                                                                         *)
(* A CLock is a mutex that may be released by anybody and that its owner   *)
(* cannot take twice.  A routine is the set of the sequences of steps      *)
(* through its code, cut where no lock is held; a thread goes through its  *)
(* routines again and again, in any order.                                 *)
(***************************************************************************)
EXTENDS Naturals, Sequences

CONSTANTS
  RecordQueues,  (* "charge" and "consume", which are treated alike         *)
  MaxSends,      (* bound: packets a queue is emptied of, and valves asked, *)
                 (* in one go                                               *)
  MaxUsers       (* bound: valves of CValveMonitor                          *)

ASSUME BoundsAssumption == MaxSends \in Nat /\ MaxUsers \in Nat
ASSUME QueuesAssumption ==
  RecordQueues \intersect
    {"heat", "valve", "GPRS", "SentLog", "Heat", "Forwarder", "ForwarderInfo",
     "users", "tx", "htx"} = {}

VARIABLES
  wireless,      (* the thread of the valves is CForwarderMonitor's         *)
  meters,        (* meter_cfg.ini names at least one meter                  *)
  todo,          (* of each thread: paths its routine may still take, which *)
                 (* share the next step; none between two routines          *)
  owner          (* of each lock                                            *)

vars == <<wireless, meters, todo, owner>>

Threads == {"portal", "heat", "valves", "cardhost", "screen"}
Queues == {"heat", "valve"} \union RecordQueues       (* a lock for each     *)
Locks == Queues \union
  {"GPRS", "SentLog", "Heat", "Forwarder", "ForwarderInfo", "users", "tx", "htx"}
Free == "free"

------------------------------------------------------------------------------
(* Sets of paths                                                           *)

Take(l) == [op |-> "take", lock |-> l]
TryTake(l) == [op |-> "try", lock |-> l]
Release(l) == [op |-> "release", lock |-> l]

Nothing == {<<>>}
Then(A, B) == {a \o b : a \in A, b \in B}
UpTo(n, A) ==
  LET times[k \in 0 .. n] == IF k = 0 THEN Nothing ELSE Nothing \union Then(A, times[k - 1])
  IN  times[n]

Section(l, A) == Then({<<Take(l)>>}, Then(A, {<<Release(l)>>}))
Plain(l) == Section(l, Nothing)
Tried(l) == {<<TryTake(l), Release(l)>>}
Keeps(l) == {<<Take(l)>>}               (* it returns without releasing it  *)

------------------------------------------------------------------------------
(* CPortal                                                                 *)

(* Mutant: a record is sent as soon as it is inserted.                     *)
Insert_Sends(q) == Section(q, Plain("GPRS"))

Insert(q) == Plain(q)

LogSentData(logged) == IF logged THEN Plain("SentLog") ELSE Nothing

(* Mutant: a command that comes in the middle of an exchange is executed   *)
(* at once.                                                                *)
GPRS_Send_Executes(logged) ==
  Then(LogSentData(logged),
       Nothing \union Section("GPRS", Nothing \union Plain("htx") \union Keeps("htx")))

(* A packet that is not sent before registration needs no line.            *)
GPRS_Send(logged) == Then(LogSentData(logged), Nothing \union Plain("GPRS"))

SendQueue(q) == Section(q, UpTo(MaxSends, GPRS_Send(TRUE)))

(* Mutant: the lock is released before the insertion, and once more after. *)
SendHeatData_Early ==
  IF meters THEN Then(Plain("Heat"), Then(Insert("heat"), {<<Release("Heat")>>}))
  ELSE {<<Release("Heat")>>}

(* CHeatMonitor's, in the portal's thread; without meters the lock is not  *)
(* taken and yet released.                                                 *)
SendHeatData ==
  IF meters THEN Section("Heat", Nothing \union Insert("heat")) ELSE {<<Release("Heat")>>}

OnFixTimer == SendHeatData \union SendQueue("heat") \union SendQueue("valve")
SendRecords == UNION {SendQueue(q) : q \in RecordQueues}

(* Records of a late answer that comes while another is waited for.        *)
ParseData == Nothing \union UNION {Insert(q) : q \in RecordQueues}

(* The data are not ready, or a buffer is full: the lock is kept.          *)
ConfigForwarder == Section("Forwarder", ParseData) \union Keeps("Forwarder")
ConfigValves == UpTo(MaxUsers, Plain("htx") \union Keeps("htx"))

GPRS_Receive ==
  Section("GPRS", UpTo(2, IF wireless THEN ConfigForwarder ELSE ConfigValves))

IsRegistered == Plain("GPRS") \union GPRS_Send(FALSE)
GetGPRSInfoTask == Plain("GPRS")

Portal ==
  IsRegistered \union GPRS_Receive \union OnFixTimer \union SendRecords
    \union GetGPRSInfoTask

------------------------------------------------------------------------------
(* The thread of the valves                                                *)

SetForwarderInfo == Plain("ForwarderInfo")
SaveUsers == Plain("users")
SendForwarderData == Section("Forwarder", UpTo(MaxSends, Insert("valve")))
CollectData == Section("Forwarder", UpTo(MaxSends, ParseData))
GetForwarderInfoTask == Plain("Forwarder") \union Keeps("Forwarder")

Forwarder ==
  SetForwarderInfo \union SaveUsers \union CollectData \union SendForwarderData
    \union GetForwarderInfoTask \union ParseData

ValveMonitor == Plain("tx") \union ParseData \union Insert("valve")

------------------------------------------------------------------------------
(* The other threads                                                       *)

HeatMonitor == Plain("Heat")

(* CardHost's calls of GetUserList, QueryUser and Recharge.                *)
CardHost ==
  Tried("users") \union
  IF wireless THEN {} ELSE UNION {Plain(l) \union Keeps(l) : l \in {"tx", "htx"}}

Screen ==
  Tried("GPRS") \union Tried("Heat") \union
  IF wireless THEN Plain("ForwarderInfo") \union Tried("ForwarderInfo")
  ELSE Plain("tx") \union Tried("users")

Routines(t) ==
  CASE t = "portal" -> Portal
    [] t = "heat" -> HeatMonitor
    [] t = "valves" -> IF wireless THEN Forwarder ELSE ValveMonitor
    [] t = "cardhost" -> CardHost
    [] t = "screen" -> Screen

------------------------------------------------------------------------------
Init ==
  /\ wireless \in BOOLEAN /\ meters \in BOOLEAN
  /\ todo = [t \in Threads |-> {}]
  /\ owner = [l \in Locks |-> Free]

(* The thread decides for its next step, or comes to the routine's end.    *)
Decisions(paths) ==
  LET steps == {Head(path) : path \in paths \ Nothing}
  IN  {{path \in paths \ Nothing : Head(path) = next} : next \in steps}
        \union {{} : end \in paths \intersect Nothing}

Call(t) ==
  /\ todo[t] = {}
  /\ \E paths \in Decisions(Routines(t) \ Nothing) : todo' = [todo EXCEPT ![t] = paths]
  /\ UNCHANGED <<wireless, meters, owner>>

NextStep(t) == Head(CHOOSE path \in todo[t] : TRUE)
At(t, op) == todo[t] # {} /\ NextStep(t).op = op
Done(t, n) ==
  \E paths \in Decisions({SubSeq(path, n + 1, Len(path)) : path \in todo[t]}) :
    todo' = [todo EXCEPT ![t] = paths]

Lock(t) ==
  /\ At(t, "take") /\ owner[NextStep(t).lock] = Free
  /\ owner' = [owner EXCEPT ![NextStep(t).lock] = t]
  /\ Done(t, 1)
  /\ UNCHANGED <<wireless, meters>>

TryLock(t) ==
  /\ At(t, "try")
  /\ IF owner[NextStep(t).lock] = Free
       THEN owner' = [owner EXCEPT ![NextStep(t).lock] = t] /\ Done(t, 1)
       ELSE Done(t, 2) /\ UNCHANGED owner
  /\ UNCHANGED <<wireless, meters>>

UnLock(t) ==
  /\ At(t, "release")
  /\ owner' = [owner EXCEPT ![NextStep(t).lock] = Free]
  /\ Done(t, 1)
  /\ UNCHANGED <<wireless, meters>>

Step(t) == Lock(t) \/ TryLock(t) \/ UnLock(t)

Next == \E t \in Threads : Call(t) \/ Step(t)

Spec == Init /\ [][Next]_vars

------------------------------------------------------------------------------
(* Properties                                                              *)

(* Only the owner of a lock releases it, but for the lock of the meters    *)
(* when there is no meter (CHeatMonitor.cpp:239).                          *)
UnlocksItsOwn ==
  \A t \in Threads : At(t, "release") =>
    owner[NextStep(t).lock] = t \/ (NextStep(t).lock = "Heat" /\ ~ meters)

(* The owner went on without releasing the lock; so may ConfigValve,       *)
(* GetForwarderInfoTask, QueryUser and Recharge, and nobody else.          *)
IsKept(l) ==
  /\ l \in {"Forwarder", "tx", "htx"} /\ owner[l] # Free
  /\ \A path \in todo[owner[l]] : \A i \in 1 .. Len(path) :
       path[i] = Release(l) => \E j \in 1 .. i - 1 : path[j].lock = l

WaitsFor(t, u) == At(t, "take") /\ owner[NextStep(t).lock] = u /\ ~ IsKept(NextStep(t).lock)

(* Though the order of the locks is a circle, the threads never wait in    *)
(* one, but for a lock that was kept (CPortal.cpp:865).                    *)
NoCircularWait ==
  ~ \E S \in (SUBSET Threads) \ {{}} : \A t \in S : \E u \in S : WaitsFor(t, u)

(* Threads that wait only for one another, or for one that is between two  *)
(* routines: none of them goes on before another one did.                  *)
StandStill(S) ==
  \A t \in S :
    /\ At(t, "take") /\ owner[NextStep(t).lock] # Free
    /\ owner[NextStep(t).lock] \in S \/ todo[owner[NextStep(t).lock]] = {}

(* Threads stand still only where one of them waits for a lock that was    *)
(* kept: no other deadlock, of all of them or of some (CPortal.cpp:865).   *)
OnlyLostStandStill ==
  \A S \in (SUBSET Threads) \ {{}} :
    StandStill(S) => \E t \in S : IsKept(NextStep(t).lock)

(* A thread that is lost, since it waits for a lock that was kept, holds   *)
(* none of the locks under which records and the meters' data are handed   *)
(* on, and m_GPRSLock only if nobody else waits for it (CPortal.cpp:775).  *)
LostHoldNothingWanted ==
  \A t \in Threads : At(t, "take") /\ IsKept(NextStep(t).lock) =>
    \A l \in Locks : owner[l] = t /\ l # NextStep(t).lock =>
      /\ l \notin Queues \union {"SentLog", "Heat", "users", "ForwarderInfo"}
      /\ l = "GPRS" => \A u \in Threads : ~ (At(u, "take") /\ NextStep(u).lock = l)
==============================================================================
