------------------------------ MODULE ValveLine ------------------------------
(***************************************************************************)
(* CValveMonitor: registration of the valves and the thread that owns the  *)
(* half-duplex line to them (dynamic registration, workmode 0).            *)
(*                                                                         *)
(* At its start the concentrator picks a fresh session id and has all      *)
(* valves forget the old one.  It then broadcasts four times, each time    *)
(* after a long silence: a valve without the session answers with its      *)
(* user, and is confirmed with the session id after the next silence.  A   *)
(* query ends the broadcasts: a valve still without the session answers    *)
(* that it is unregistered, and one such answer starts the broadcasts      *)
(* again.  In the normal process the valves are asked for their data every *)
(* punctual interval, and the query is repeated.                           *)
(*                                                                         *)
(* Packets wait in tx and htx (high priority); a packet is begun only when *)
(* as many answers have been read as packets were written, or nothing came *)
(* for a while.  The valves (external) answer what reaches them.  A lost   *)
(* packet or answer, an answer that comes after the concentrator stopped   *)
(* waiting, an incomplete write, a valve that forgets its session and a    *)
(* restart are faults, at most MaxFaults of them.                          *)
(***************************************************************************)
EXTENDS Integers, Sequences, FiniteSets, SequencesExt

CONSTANTS
  Valves,
  All,                          (* the broadcast address                 *)
  TxCells, HtxCells, RxCells,   (* sizes of the buffers                  *)
  HeatData,                     (* valveDataType is VALVE_DATA_TYPE_HEAT *)
  MaxRetry,                     (* poll timeouts before rc := wc; 5      *)
  MaxUrgent,                    (* bound: packets other threads send     *)
  MaxFaults                     (* bound: faults                         *)

ASSUME AddressAssumption == IsFiniteSet(Valves) /\ All \notin Valves
ASSUME CellsAssumption == {TxCells, HtxCells, RxCells} \subseteq Nat \ {0}
ASSUME BoundsAssumption ==
  /\ HeatData \in BOOLEAN
  /\ MaxRetry \in Nat /\ MaxUrgent \in Nat /\ MaxFaults \in Nat

VARIABLES
  at,              (* Run: its timers, arming EPOLLOUT, or epoll_wait    *)
  broadcasting, counter, unregistered,
  users,           (* what the map says of each valve                    *)
  sid,             (* session id                                         *)
  tx, htx, rx,     (* the buffers                                        *)
  balance,         (* rc - wc                                            *)
  retry,
  armed,           (* EPOLLOUT is listened to                            *)
  wrote,           (* buffer whose head is half written, or "none"       *)
  recent,          (* the last I/O is less than 50 ms ago                *)
  quiet,           (* the last complete write is long ago                *)
  valveSid,        (* external: the session each valve is in, 0 if none  *)
  air,             (* external: answers on their way                     *)
  urgent,          (* number of packets other threads sent               *)
  faults

registration == <<broadcasting, counter, unregistered, users>>
buffers == <<tx, htx, rx>>
line == <<balance, retry, armed, wrote, recent>>
valves == <<valveSid, air>>
vars == <<at, registration, sid, buffers, line, quiet, valves, urgent, faults>>

Packets == [to : Valves \union {All},
            kind : {"broadcast", "query", "confirm", "time", "data"}]
Answers == [from : Valves, kind : {"user", "unregistered", "time", "data"}]
To(v, kind) == [to |-> v, kind |-> kind]

(* cbuffer_write, the packet and cbuffer_write_done; a packet that finds   *)
(* no cell is dropped.                                                     *)
Put(buffer, packets, cells) ==
  LET all == buffer \o packets
  IN  IF Len(all) <= cells THEN all ELSE SubSeq(all, 1, cells)

Known == {v \in Valves : users[v] # "unknown"}

(* One packet for each of the valves, in the order of the map.             *)
ForEach(S, kind) ==
  LET order == SetToSeq(S) IN [i \in DOMAIN order |-> To(order[i], kind)]

Fault ==
  /\ faults < MaxFaults
  /\ faults' = faults + 1

Init ==
  /\ at = "timers"
  /\ broadcasting = TRUE /\ counter = 0 /\ unregistered = 0
  /\ users = [v \in Valves |-> "unknown"]
  /\ sid = 1
  /\ tx = <<>> /\ htx = <<>> /\ rx = <<>>
  /\ balance = 0 /\ retry = 0
  /\ armed = FALSE /\ wrote = "none" /\ recent = FALSE
  /\ quiet = TRUE
  /\ valveSid = [v \in Valves |-> 0]
  /\ air = {}
  /\ urgent = 0
  /\ faults = 0

------------------------------------------------------------------------------
(* The timers: what Run does before it turns to the line *)

Query_KeepsCount ==
  /\ at = "timers" /\ broadcasting /\ counter = 4
  /\ tx' = Put(tx, <<To(All, "query")>>, TxCells)
  /\ broadcasting' = FALSE
  /\ counter' = counter + 1
  /\ at' = "arm"
  /\ UNCHANGED <<unregistered, users, sid, htx, rx, line, quiet, valves,
                 urgent, faults>>

(* After the fourth broadcast: the query, and on to the normal process.    *)
Query ==
  /\ at = "timers" /\ broadcasting /\ counter = 4
  /\ unregistered' = 0
  /\ tx' = Put(tx, <<To(All, "query")>>, TxCells)
  /\ broadcasting' = FALSE
  /\ counter' = counter + 1
  /\ at' = "arm"
  /\ UNCHANGED <<users, sid, htx, rx, line, quiet, valves, urgent, faults>>

Broadcast_NoRoomCheck ==
  /\ at = "timers" /\ broadcasting /\ counter # 4
  /\ quiet
  /\ htx' = htx \o [i \in DOMAIN rx |-> To(rx[i], "confirm")]
  /\ rx' = <<>>
  /\ counter' = counter + 1
  /\ tx' = Put(tx, <<To(All, "broadcast")>>, TxCells)
  /\ at' = "arm"
  /\ UNCHANGED <<broadcasting, unregistered, users, sid, line, quiet, valves,
                 urgent, faults>>

(* Nothing was written for long: the valves in rx are confirmed, and once  *)
(* there is room for all of them in htx, the next broadcast.               *)
Broadcast ==
  /\ at = "timers" /\ broadcasting /\ counter # 4
  /\ quiet
  /\ LET room == HtxCells - Len(htx)
         n == IF Len(rx) <= room THEN Len(rx) ELSE room
     IN  /\ htx' = htx \o [i \in 1 .. n |-> To(rx[i], "confirm")]
         /\ rx' = SubSeq(rx, n + 1, Len(rx))
         /\ IF n = Len(rx)
              THEN /\ counter' = counter + 1
                   /\ tx' = Put(tx, <<To(All, "broadcast")>>, TxCells)
              ELSE UNCHANGED <<counter, tx>>
  /\ at' = "arm"
  /\ UNCHANGED <<broadcasting, unregistered, users, sid, line, quiet, valves,
                 urgent, faults>>

NotQuiet ==
  /\ at = "timers" /\ broadcasting /\ counter # 4
  /\ ~ quiet
  /\ at' = "arm"
  /\ UNCHANGED <<registration, sid, buffers, line, quiet, valves, urgent,
                 faults>>

(* Somebody answered that it is unregistered.                              *)
Rebroadcast ==
  /\ at = "timers" /\ ~ broadcasting /\ unregistered > 0
  /\ broadcasting' = TRUE
  /\ counter' = 1
  /\ at' = "arm"
  /\ UNCHANGED <<unregistered, users, sid, buffers, line, quiet, valves,
                 urgent, faults>>

(* punctualTimer is done, in a minute or more, with nothing left to send:  *)
(* SyncValveTime, GetPunctualData (which passes over the valves without a  *)
(* user), GetTimeData, GetHeatData and BroadcastQuery.                     *)
Punctual ==
  /\ at = "timers" /\ ~ broadcasting /\ unregistered = 0
  /\ tx = <<>> /\ htx = <<>>
  /\ LET withUser == {v \in Valves : users[v] = "user"}
         requests == ForEach(Known, "time") \o ForEach(withUser, "data")
                       \o ForEach(Known, "data")
                       \o IF HeatData THEN ForEach(Known, "data") ELSE <<>>
     IN  tx' = Put(tx, Append(requests, To(All, "query")), TxCells)
  /\ at' = "arm"
  /\ UNCHANGED <<registration, sid, htx, rx, line, quiet, valves, urgent,
                 faults>>

NotPunctual ==
  /\ at = "timers" /\ ~ broadcasting /\ unregistered = 0
  /\ at' = "arm"
  /\ UNCHANGED <<registration, sid, buffers, line, quiet, valves, urgent,
                 faults>>

------------------------------------------------------------------------------
(* The line *)

MayArm == (tx # <<>> \/ htx # <<>>) /\ balance = 0

(* Within 50 ms of the last I/O it is not armed, later it is.              *)
Arm ==
  /\ at = "arm"
  /\ \/ MayArm /\ armed' = TRUE
     \/ (MayArm => recent) /\ UNCHANGED armed
  /\ at' = "wait"
  /\ UNCHANGED <<registration, sid, buffers, balance, retry, wrote, recent,
                 quiet, valves, urgent, faults>>

(* The answer to a broadcast: the user is kept if the valve is new, and    *)
(* the valve waits for its confirmation, in rx or else in tx.              *)
ParseUser(v) ==
  /\ users' = [users EXCEPT ![v] = IF @ = "unknown" THEN "user" ELSE @]
  /\ IF Len(rx) < RxCells
       THEN rx' = Append(rx, v) /\ UNCHANGED tx
       ELSE tx' = Put(tx, <<To(v, "confirm")>>, TxCells) /\ UNCHANGED rx
  /\ UNCHANGED unregistered

ParseUnregistered_KnownIgnored(v) ==
  /\ IF users[v] = "unknown"
       THEN /\ users' = [users EXCEPT ![v] = "nobody"]
            /\ tx' = Put(tx, <<To(v, "data")>>, TxCells)
            /\ unregistered' = unregistered + 1
       ELSE UNCHANGED <<users, tx, unregistered>>
  /\ UNCHANGED rx

(* The answer to a query: a new valve is entered without a user and asked  *)
(* for its data.                                                           *)
ParseUnregistered(v) ==
  /\ IF users[v] = "unknown"
       THEN /\ users' = [users EXCEPT ![v] = "nobody"]
            /\ tx' = Put(tx, <<To(v, "data")>>, TxCells)
       ELSE UNCHANGED <<users, tx>>
  /\ unregistered' = unregistered + 1
  /\ UNCHANGED rx

(* The valve's clock is set if it differs and the portal's time is known.  *)
ParseTime(v) ==
  /\ \/ tx' = Put(tx, <<To(v, "data")>>, TxCells)
     \/ UNCHANGED tx
  /\ UNCHANGED <<users, rx, unregistered>>

ParseAck(a) ==
  \/ a.kind = "user" /\ ParseUser(a.from)
  \/ a.kind = "unregistered" /\ ParseUnregistered(a.from)
  \/ a.kind = "time" /\ ParseTime(a.from)
  \/ a.kind = "data" /\ UNCHANGED <<users, rx, tx, unregistered>>

(* An answer is read; a packet may be written in the same pass.            *)
Read(a) ==
  /\ at = "wait"
  /\ a \in air
  /\ air' = air \ {a}
  /\ ParseAck(a)
  /\ balance' = balance + 1
  /\ retry' = 0
  /\ recent' = TRUE
  /\ at' \in IF armed THEN {"wait", "timers"} ELSE {"timers"}
  /\ UNCHANGED <<broadcasting, counter, sid, htx, armed, wrote, quiet,
                 valveSid, urgent, faults>>

(* What the valves do when a packet reaches those in R.                    *)
Reach(p, R) ==
  LET strangers == {v \in R : valveSid[v] # sid}
      one == R \cap {p.to}
  IN CASE p.kind = "broadcast" ->
            /\ air' = air \union {[from |-> v, kind |-> "user"] : v \in strangers}
            /\ UNCHANGED valveSid
       [] p.kind = "query" ->
            /\ air' = air \union
                 {[from |-> v, kind |-> "unregistered"] : v \in strangers}
            /\ UNCHANGED valveSid
       [] p.kind = "confirm" ->
            /\ valveSid' = [v \in Valves |-> IF v \in one THEN sid ELSE valveSid[v]]
            /\ UNCHANGED air
       [] OTHER ->
            /\ air' = air \union {[from |-> v, kind |-> p.kind] : v \in one}
            /\ UNCHANGED valveSid

Reached(p) ==
  \/ Reach(p, Valves) /\ UNCHANGED faults
  \/ \E R \in SUBSET Valves : R # Valves /\ Reach(p, R) /\ Fault

(* The last byte of a packet: read_done, wc ++, and EPOLLOUT is disarmed.  *)
Written ==
  /\ armed' = FALSE
  /\ wrote' = "none"
  /\ recent' = TRUE
  /\ quiet' = FALSE
  /\ balance' = balance - 1
  /\ at' = "timers"
  /\ UNCHANGED <<registration, sid, rx, retry, urgent>>

WriteUrgent ==
  /\ at = "wait" /\ armed
  /\ htx # <<>> /\ wrote # "tx"
  /\ htx' = Tail(htx)
  /\ Reached(Head(htx))
  /\ Written
  /\ UNCHANGED tx

WriteNormal_First ==
  /\ at = "wait" /\ armed
  /\ tx # <<>>
  /\ tx' = Tail(tx)
  /\ Reached(Head(tx))
  /\ Written
  /\ UNCHANGED htx

WriteNormal ==
  /\ at = "wait" /\ armed
  /\ htx = <<>> /\ tx # <<>>
  /\ tx' = Tail(tx)
  /\ Reached(Head(tx))
  /\ Written
  /\ UNCHANGED htx

(* The line takes only a part of the packet.                               *)
WritePart ==
  /\ at = "wait" /\ armed
  /\ wrote = "none"
  /\ wrote' = IF htx # <<>> THEN "htx" ELSE "tx"
  /\ Fault
  /\ recent' = TRUE
  /\ at' = "timers"
  /\ UNCHANGED <<registration, sid, buffers, balance, retry, armed, quiet,
                 valves, urgent>>

(* The first part came from tx, the rest comes from htx: no valve          *)
(* understands it, and the packet of high priority is gone.                *)
WriteMixed ==
  /\ at = "wait" /\ armed
  /\ htx # <<>> /\ wrote = "tx"
  /\ htx' = Tail(htx)
  /\ Written
  /\ UNCHANGED <<tx, valves, faults>>

(* epoll_wait times out: nothing is read for 200 ms.                       *)
Timeout ==
  /\ at = "wait" /\ ~ armed
  /\ IF air # {} THEN Fault ELSE UNCHANGED faults
  /\ IF retry > MaxRetry
       THEN balance' = 0 /\ retry' = 0
       ELSE retry' = retry + 1 /\ UNCHANGED balance
  /\ recent' = FALSE
  /\ at' = "timers"
  /\ UNCHANGED <<registration, sid, buffers, armed, wrote, quiet, valves,
                 urgent>>

------------------------------------------------------------------------------
(* Everything else *)

(* More than 120 + valveCount - 60 seconds have passed since the last      *)
(* write: far longer than a packet waits for the line.                     *)
Silence ==
  /\ ~ quiet
  /\ tx = <<>> /\ htx = <<>>
  /\ quiet' = TRUE
  /\ UNCHANGED <<at, registration, sid, buffers, line, valves, urgent, faults>>

(* Recharge and ConfigValve, in other threads.                             *)
Urgent(v) ==
  /\ urgent < MaxUrgent
  /\ v \in Known /\ Len(htx) < HtxCells
  /\ htx' = Append(htx, To(v, "data"))
  /\ urgent' = urgent + 1
  /\ UNCHANGED <<at, registration, sid, tx, rx, line, quiet, valves, faults>>

LoseAnswer(a) ==
  /\ a \in air
  /\ air' = air \ {a}
  /\ Fault
  /\ UNCHANGED <<at, registration, sid, buffers, line, quiet, valveSid, urgent>>

ValveForgets(v) ==
  /\ valveSid[v] # 0
  /\ valveSid' = [valveSid EXCEPT ![v] = 0]
  /\ Fault
  /\ UNCHANGED <<at, registration, sid, buffers, line, quiet, air, urgent>>

Restart_SameSid ==
  /\ Fault
  /\ at' = "timers"
  /\ broadcasting' = TRUE /\ counter' = 0 /\ unregistered' = 0
  /\ users' = [v \in Valves |-> "unknown"]
  /\ tx' = <<>> /\ htx' = <<>> /\ rx' = <<>>
  /\ balance' = 0 /\ retry' = 0
  /\ armed' = FALSE /\ wrote' = "none" /\ recent' = FALSE
  /\ quiet' = TRUE
  /\ \E deaf \in SUBSET Valves :
       valveSid' = [v \in Valves |-> IF v \in deaf THEN valveSid[v] ELSE 0]
  /\ UNCHANGED <<sid, air, urgent>>

(* A new life: lastUsers is loaded but users starts empty; random() gives  *)
(* a session id the valves have not seen; some of them may miss all three  *)
(* BroadcastClearSID.                                                      *)
Restart ==
  /\ Fault
  /\ at' = "timers"
  /\ broadcasting' = TRUE /\ counter' = 0 /\ unregistered' = 0
  /\ users' = [v \in Valves |-> "unknown"]
  /\ sid' = sid + 1
  /\ tx' = <<>> /\ htx' = <<>> /\ rx' = <<>>
  /\ balance' = 0 /\ retry' = 0
  /\ armed' = FALSE /\ wrote' = "none" /\ recent' = FALSE
  /\ quiet' = TRUE
  /\ \E deaf \in SUBSET Valves :
       valveSid' = [v \in Valves |-> IF v \in deaf THEN valveSid[v] ELSE 0]
  /\ UNCHANGED <<air, urgent>>

Timers ==
  \/ Query \/ Broadcast \/ NotQuiet \/ Rebroadcast \/ Punctual \/ NotPunctual

InputOutput ==
  \/ Arm
  \/ \E a \in air : Read(a)
  \/ WriteUrgent \/ WriteNormal \/ WritePart \/ WriteMixed
  \/ Timeout

Next ==
  \/ Timers
  \/ InputOutput
  \/ Silence
  \/ \E v \in Valves : Urgent(v) \/ ValveForgets(v)
  \/ \E a \in air : LoseAnswer(a)
  \/ Restart

(* The thread runs for ever, time passes, and punctualTimer is done again  *)
(* and again.                                                              *)
Fairness ==
  /\ WF_vars(Timers \/ InputOutput)
  /\ WF_vars(Silence)
  /\ SF_vars(Punctual)

Spec == Init /\ [][Next]_vars /\ Fairness

------------------------------------------------------------------------------
(* Properties *)

(* The variables stay in their types, and no buffer holds more packets     *)
(* than cbuffer_write has cells for.                                       *)
TypeOK ==
  /\ at \in {"timers", "arm", "wait"}
  /\ broadcasting \in BOOLEAN
  /\ counter \in 0 .. 5
  /\ unregistered \in Nat
  /\ users \in [Valves -> {"unknown", "nobody", "user"}]
  /\ sid \in 1 .. MaxFaults + 1
  /\ tx \in Seq(Packets) /\ Len(tx) <= TxCells
  /\ htx \in Seq(Packets) /\ Len(htx) <= HtxCells
  /\ rx \in Seq(Valves) /\ Len(rx) <= RxCells
  /\ balance \in Int
  /\ retry \in 0 .. MaxRetry + 1
  /\ armed \in BOOLEAN /\ recent \in BOOLEAN /\ quiet \in BOOLEAN
  /\ wrote \in {"none", "tx", "htx"}
  /\ valveSid \in [Valves -> 0 .. sid]
  /\ air \subseteq Answers
  /\ urgent \in 0 .. MaxUrgent
  /\ faults \in 0 .. MaxFaults

(* A valve that is in the current session, and so keeps silent when others *)
(* are called to register, is in the concentrator's map: no restart leaves *)
(* a valve behind that neither side would ever bring up again.             *)
ConfirmedIsKnown == \A v \in Valves : valveSid[v] = sid => v \in Known

(* EPOLLOUT is listened to only while there is a packet to write, so that  *)
(* Run is not called again and again for nothing (CValveMonitor.cpp:443),  *)
(* and a packet that is half written has not left its buffer.              *)
ArmedHasPacket ==
  /\ armed => tx # <<>> \/ htx # <<>>
  /\ wrote # "none" => armed
  /\ wrote = "tx" => tx # <<>>
  /\ wrote = "htx" => htx # <<>>

(* While a packet is half written it stays the first of its buffer, and    *)
(* one from htx is completed from htx, or forgotten by a restart; one from *)
(* tx may not be (CValveMonitor.cpp:438).                                  *)
HalfWrittenStays ==
  [][/\ wrote = "tx" /\ wrote' = "tx" => Head(tx') = Head(tx)
     /\ wrote = "htx" =>
          \/ wrote' = "htx" /\ Head(htx') = Head(htx)
          \/ wrote' = "none" /\ (htx' = Tail(htx) \/ Restart)]_vars

(* Whatever was lost, every valve gets into the session and stays there.   *)
EventuallyConfirmed == <>[](\A v \in Valves : valveSid[v] = sid)

(* Registration always ends: data is collected again and again.            *)
NormalProcessResumes == []<>(~ broadcasting /\ unregistered = 0)

(* A packet half written from tx is completed from tx.                     *)
HalfWrittenIsCompleted ==
  [][wrote = "tx" /\ wrote' = "none" => Restart \/ tx' = Tail(tx)]_vars
==============================================================================
