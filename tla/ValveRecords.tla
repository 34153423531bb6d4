---------------------------- MODULE ValveRecords ----------------------------
(***************************************************************************)
(* How CValveMonitor fetches the recharge records of the valves.  A valve  *)
(* keeps its last Cells records, numbered 1 .. Cells over and over.  Every *)
(* hour GetPunctualData asks each valve for its pointers; at noon          *)
(* GetRechargeData fetches, packet by packet, what lies between the pointer*)
(* it has reached (sentRecharge) and the valve's, and hands it to CPortal. *)
(* The pointers are kept in data/records, a log of module KeyLog.          *)
(*                                                                         *)
(* During the fetch the thread takes whatever packet comes next for the    *)
(* awaited answer, moves the pointer, and only then looks what it is.      *)
(*                                                                         *)
(* A pointer has 7 bits, and the 8th says that the memory is full.         *)
(***************************************************************************)
EXTENDS KeyLog, Integers

CONSTANTS
  Users,         (* the valves in users; other Keys are old entries         *)
  Cells,         (* records a valve keeps (20)                              *)
  Payload,       (* records that fit into a packet (10)                     *)
  Overrun,       (* what a pointer is more when the memory is full (0x80)   *)
  MaxRecords,    (* bound: recharges the valves record                      *)
  MaxFaults      (* bound: packets lost or garbled, waits too short, writes *)
                 (* that fail, and crashes                                  *)

ASSUME RecordsAssumption ==
  Users \subseteq Keys /\ MaxRecords \in Nat /\ MaxFaults \in Nat

ASSUME SizesAssumption ==
  /\ Cells \in Nat \ {0} /\ Payload \in Nat \ {0}
  /\ Overrun \in Nat /\ Overrun >= Cells

VARIABLES
  phase,         (* of the thread                                           *)
  records,       (* last and sentRecharge of each key, and how many records *)
                 (* the pointer has passed (at, a history)                  *)
  sync,          (* syncRecords                                             *)
  todo,          (* valves the noon loop has not come to                    *)
  delta, i,      (* of the noon loop                                        *)
  req,           (* the request GetRechargeData waits for                   *)
  asked,         (* valves asked for their pointers                         *)
  line,          (* external: packets to be read                            *)
  written,       (* external: records each valve has made                   *)
  got,           (* history: records the portal was handed, by number       *)
  skipped, mistaken, overrun, (* histories, see below                       *)
  faults

fetch == <<todo, delta, i, req>>
histories == <<got, skipped, mistaken, overrun>>
vars == <<logVars, phase, records, sync, fetch, asked, line, written, histories, faults>>

NoRecord == [last |-> 0, sent |-> 0, at |-> 0]
Of(map, k) == IF k \in DOMAIN map THEN map[k] ELSE NoRecord
NoRequest == [from |-> 0, kind |-> "none", off |-> 0, n |-> 0]

Init ==
  /\ LogInit
  /\ phase = "idle"
  /\ records = [k \in Keys \ Users |-> NoRecord]
  /\ sync = TRUE
  /\ todo = {} /\ delta = 0 /\ i = 0 /\ req = NoRequest
  /\ asked = {} /\ line = <<>>
  /\ written = [v \in Users |-> 0]
  /\ got = [v \in Users |-> {}]
  /\ skipped = {} /\ mistaken = {} /\ overrun = {}
  /\ faults = 0

MayFail(fault) ==
  /\ fault => faults < MaxFaults
  /\ faults' = faults + IF fault THEN 1 ELSE 0

Goes(to) == phase' = to

------------------------------------------------------------------------------
(* The valves (external)                                                   *)

RecordsMade == LET Plus(v, n) == written[v] + n IN FoldSet(Plus, 0, Users)

(* The record's number in its cell: the last one written there.            *)
InCell(v, c) == {n \in 1 .. written[v] : n > written[v] - Cells /\ (n - c) % Cells = 0}

(* It makes no difference to anybody at the other steps.                   *)
Recharged(v) ==
  /\ phase \in {"idle", "ask"}
  /\ RecordsMade < MaxRecords
  /\ written' = [written EXCEPT ![v] = @ + 1]
  /\ overrun' = IF written[v] + 1 - Of(records, v).at >= Cells
                  THEN overrun \union {v} ELSE overrun
  /\ UNCHANGED <<logVars, phase, records, sync, fetch, asked, line, got, skipped,
                 mistaken, faults>>

(* The number of the next record, and whether old ones were overwritten.   *)
Pointers(v) ==
  {1 + (written[v] % Cells) + full :
     full \in IF written[v] >= Cells THEN {0, Overrun} ELSE {0}}

(* The records from offset off on; the memory is a ring.                   *)
Stored(v, off, n) == UNION {InCell(v, c) : c \in off .. off + n - 1}

------------------------------------------------------------------------------
(* Parsing                                                                 *)

(* Mutant: the pointers of a valve that is known are not taken over.       *)
WithPointer_FirstOnly(map, v, pointer) ==
  IF v \in DOMAIN map THEN map
  ELSE [k \in DOMAIN map \union {v} |->
          IF k = v THEN [NoRecord EXCEPT !.last = pointer - 1] ELSE map[k]]

(* What ParsePunctualData makes of the records.                            *)
WithPointer(map, v, pointer) ==
  [k \in DOMAIN map \union {v} |->
     IF k = v THEN [Of(map, v) EXCEPT !.last = pointer - 1] ELSE map[k]]

ParsePunctualData(map, v, pointer) ==
  /\ records' = WithPointer(map, v, pointer)
  /\ sync' = (sync \/ v \notin DOMAIN map \/ map[v].last # pointer - 1)

ParseRechargeData(v, numbers) == got' = [got EXCEPT ![v] = @ \union numbers]

(* map is what the records are when it is called.  A packet that is not    *)
(* whole has no effect: both bytes of its checksum are wrong (the code lets*)
(* one pass of which one byte is right).                                   *)
ParseAck(map, packet) ==
  IF packet.whole /\ packet.req.kind = "pointers"
    THEN ParsePunctualData(map, packet.req.from, packet.pointer) /\ UNCHANGED got
    ELSE /\ records' = map /\ UNCHANGED sync
         /\ IF packet.whole THEN ParseRechargeData(packet.req.from, packet.numbers)
                            ELSE UNCHANGED got

------------------------------------------------------------------------------
(* The normal loop of Run                                                  *)

(* punctualTimer.Done(): GetPunctualData, and SaveRecords if need be.      *)
PunctualRound ==
  /\ phase = "idle"
  /\ asked' = Users
  /\ Goes(IF sync THEN "save" ELSE "idle")
  /\ UNCHANGED <<logVars, records, sync, fetch, line, written, histories, faults>>

(* A request is written and answered, or the packet is lost.               *)
Report(v) ==
  /\ phase = "idle" /\ line = <<>> /\ v \in asked
  /\ asked' = asked \ {v}
  /\ \/ /\ MayFail(FALSE)
        /\ \E pointer \in Pointers(v) :
             line' = <<[req |-> [from |-> v, kind |-> "pointers", off |-> 0, n |-> 0],
                        whole |-> TRUE, pointer |-> pointer, numbers |-> {}]>>
     \/ MayFail(TRUE) /\ UNCHANGED line
  /\ UNCHANGED <<logVars, phase, records, sync, fetch, written, histories>>

ReadPacket ==
  /\ phase = "idle" /\ line # <<>>
  /\ ParseAck(records, Head(line))
  /\ line' = Tail(line)
  /\ UNCHANGED <<logVars, phase, fetch, asked, written, skipped, mistaken, overrun, faults>>

(* SaveRecords; the files may not open                                     *)
Save ==
  /\ phase = "save"
  /\ \/ \E ok \in BOOLEAN :
          /\ MayFail(~ ok)
          /\ OpenNew(records, ok) \/ PutData(ok) \/ PutIndex(records, ok)
          /\ UNCHANGED <<phase, sync>>
     \/ /\ Close /\ MayFail(FALSE)
        /\ sync' = FALSE /\ Goes("idle")
     \/ /\ step = "closed" /\ MayFail(TRUE)
        /\ Goes("idle") /\ UNCHANGED <<logVars, sync>>
  /\ UNCHANGED <<records, fetch, asked, line, written, histories>>

------------------------------------------------------------------------------
(* GetRechargeData at noon                                                 *)

Noon ==
  /\ phase = "idle"
  /\ Goes("next") /\ todo' = Users
  /\ UNCHANGED <<logVars, records, sync, delta, i, req, asked, line, written,
                 histories, faults>>

Current == Smallest(todo)
NextUser ==
  /\ todo' = todo \ {Current} /\ Goes("next")
  /\ delta' = 0 /\ i' = 0 /\ req' = NoRequest

NoonDone ==
  /\ phase = "next" /\ todo = {}
  /\ Goes("idle")
  /\ UNCHANGED <<logVars, records, sync, fetch, asked, line, written, histories, faults>>

(* The test of the loop has no mask: & 0x7F applies to the comparison's    *)
(* result.  With delta 0 the loop then goes round for ever.                *)
While ==
  /\ phase = "next" /\ todo # {}
  /\ LET v == Current
         rec == Of(records, v)
         last == rec.last % Overrun
     IN  /\ records' = [k \in DOMAIN records \union {v} |-> Of(records, k)]
         /\ IF rec.sent = rec.last
              THEN NextUser /\ UNCHANGED skipped
              ELSE /\ delta' = last - rec.sent + IF last < rec.sent THEN Cells ELSE 0
                   /\ i' = 0
                   /\ skipped' = IF delta' > Payload THEN skipped \union {v} ELSE skipped
                   /\ Goes(IF delta' = 0 THEN "spin" ELSE "ask")
                   /\ UNCHANGED <<todo, req>>
  /\ UNCHANGED <<logVars, sync, asked, line, written, got, mistaken, overrun, faults>>

Least(a, b) == IF a < b THEN a ELSE b

(* The offset counts the packets fetched before twice: sentRecharge has    *)
(* been moved, and i * payload is added.                                   *)
Request ==
  [from |-> Current, kind |-> "records",
   off |-> records[Current].sent + i * Payload + 1,
   n |-> Least(Payload, delta - i * Payload)]

Answer(whole) ==
  [req |-> Request, whole |-> whole, pointer |-> 1,
   numbers |-> Stored(Current, Request.off, Request.n)]

(* Mutant: the pointer moves with the request, and no answer comes.        *)
SendCommand_MovesPointer ==
  /\ phase = "ask" /\ i * Payload < delta
  /\ NextUser /\ MayFail(TRUE)
  /\ records' = [records EXCEPT ![Current].sent = (@ + Request.n) % Cells,
                                ![Current].at = @ + Request.n]
  /\ UNCHANGED <<logVars, sync, asked, line, written, histories>>

SendCommand ==
  /\ phase = "ask" /\ i * Payload < delta
  /\ \/ /\ req' = Request /\ Goes("wait")
        /\ \/ \E whole \in BOOLEAN :
                MayFail(~ whole) /\ line' = Append(line, Answer(whole))
           \/ MayFail(TRUE) /\ UNCHANGED line           (* it is lost *)
        /\ UNCHANGED <<todo, delta, i>>
     \/ NextUser /\ MayFail(TRUE) /\ UNCHANGED line     (* it is not written *)
  /\ UNCHANGED <<logVars, records, sync, asked, written, histories>>

(* Mutant: the pointer is not brought back into the ring.                  *)
Moved_NoRing(v, n) ==
  [records EXCEPT ![v].sent = @ + n, ![v].at = @ + n]

Moved(v, n) ==
  [records EXCEPT ![v].sent = (@ + n) % Cells, ![v].at = @ + n]

(* WaitCmdAck took a packet: the pointer moves, then the packet is parsed. *)
(* The records are lost if this is not the awaited answer and that one is  *)
(* not still to come.                                                      *)
WaitCmdAck ==
  /\ phase = "wait" /\ line # <<>>
  /\ ParseAck(Moved(Current, req.n), Head(line))
  /\ line' = Tail(line)
  /\ LET answers(p) == p.whole /\ p.req = req
     IN  mistaken' = IF \E k \in 1 .. Len(line) : answers(line[k])
                       THEN mistaken ELSE mistaken \union {Current}
  /\ i' = i + 1 /\ req' = NoRequest
  /\ Goes("ask")
  /\ UNCHANGED <<logVars, todo, delta, asked, written, skipped, overrun, faults>>

(* Nothing came within a millisecond, or a packet came in so many pieces   *)
(* that three reads left half of it on the line.                           *)
WaitTimeout ==
  /\ phase = "wait"
  /\ MayFail(line # <<>>)
  /\ \/ UNCHANGED <<line, mistaken>>
     \/ /\ line # <<>> /\ Head(line).whole
        /\ line' = [line EXCEPT ![1].whole = FALSE]
        /\ mistaken' = mistaken \union {Head(line).req.from}
  /\ NextUser
  /\ UNCHANGED <<logVars, records, sync, asked, written, got, skipped, overrun>>

Fetched ==
  /\ phase = "ask" /\ i * Payload >= delta
  /\ sync' = TRUE
  /\ Goes("next") /\ delta' = 0 /\ i' = 0
  /\ UNCHANGED <<logVars, records, todo, req, asked, line, written, histories, faults>>

------------------------------------------------------------------------------
(* The process dies and starts again; what was on the line may be gone.    *)
Crash ==
  /\ MayFail(TRUE)
  /\ LogCrash
  /\ Goes("idle")
  /\ records' = Loaded
  /\ sync' = FALSE
  /\ todo' = {} /\ delta' = 0 /\ i' = 0 /\ req' = NoRequest /\ asked' = {}
  /\ line' \in {line, <<>>}
  /\ mistaken' = IF line' = line THEN mistaken
                 ELSE mistaken \union {line[k].req.from : k \in 1 .. Len(line)}
  /\ overrun' = overrun \union {v \in Users : written[v] - Of(records', v).at >= Cells}
  /\ UNCHANGED <<written, got, skipped>>

Run ==
  \/ PunctualRound \/ ReadPacket \/ Save
  \/ Noon \/ NoonDone \/ While \/ SendCommand \/ WaitCmdAck \/ WaitTimeout \/ Fetched

Next ==
  \/ Run \/ Crash
  \/ \E v \in Users : Recharged(v) \/ Report(v)

(* Within a pass of Run's loop the thread never waits for anything but the *)
(* line; every pass looks at both timers and at the line.                  *)
Fairness ==
  /\ WF_vars(Save) /\ WF_vars(NoonDone \/ While \/ SendCommand \/ WaitCmdAck
                              \/ WaitTimeout \/ Fetched)
  /\ SF_vars(PunctualRound) /\ SF_vars(Noon) /\ SF_vars(ReadPacket)
  /\ \A v \in Users : SF_vars(Report(v))

Spec == Init /\ [][Next]_vars /\ Fairness

------------------------------------------------------------------------------
(* Properties                                                              *)

(* The pointers stay in their ranges, and the noon loop waits only for     *)
(* packets of the valve it is at.                                          *)
TypeOK ==
  /\ phase \in {"idle", "save", "next", "ask", "wait", "spin"}
  /\ step \in Steps /\ (phase # "save" => step = "closed")
  /\ DOMAIN records \subseteq Keys
  /\ \A k \in DOMAIN records :
       /\ records[k].sent \in 0 .. Cells - 1
       /\ records[k].last \in 0 .. Cells - 1 \union Overrun .. Overrun + Cells - 1
  /\ phase = "wait" => req.from = Current /\ req.n \in 1 .. Payload
  /\ todo \subseteq Users /\ asked \subseteq Users

OnLine(v) ==
  UNION {line[k].numbers : k \in {l \in 1 .. Len(line) : line[l].whole /\ line[l].req.from = v}}

(* v's records: none left behind by a fetch of more than a packet (skipped),*)
(* none lost with an answer for which another packet was taken (mistaken), *)
(* a ring of them was never left unfetched, which looks like none (overrun).*)
Regular(v) == v \notin skipped \union mistaken \union overrun

(* Every record the pointer has passed, in memory or in the file that a    *)
(* restart will load, is with the portal or about to be parsed, whatever   *)
(* was lost, garbled or interrupted (CValveMonitor.cpp:932).               *)
FetchedUpToPointer ==
  \A v \in Users : Regular(v) =>
    1 .. Of(records, v).at \union 1 .. Of(Loaded, v).at \subseteq got[v] \union OnLine(v)

(* Again and again the portal has every record made: whatever was lost or  *)
(* interrupted is asked for at a later noon, unless the thread is lost in  *)
(* the loop of a valve whose pointer has the flag (CValveMonitor.cpp:915). *)
EventuallyFetched ==
  \A v \in Users :
    []<>(1 .. written[v] \subseteq got[v] \/ ~ Regular(v) \/ phase = "spin")
==============================================================================
