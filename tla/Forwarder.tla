------------------------------ MODULE Forwarder ------------------------------
(***************************************************************************)
(* CForwarderMonitor: the valves are reached over radio forwarders on one  *)
(* serial line.  A command goes to the forwarder with A2, which passes it  *)
(* to the valve, and the valve's answer is fetched with A3 (SendA2A3); A1  *)
(* asks the forwarder for its valves.  An answer has to come within three  *)
(* seconds; SendA2A3 makes two attempts, and the valve cannot tell the     *)
(* second from a new command.                                              *)
(*                                                                         *)
(* ParseData compares the command (A1, A2 or A3) of an answer with the one *)
(* sent, and nothing else: a late answer, or one for the other thread that *)
(* uses the line (ConfigValve runs in the portal's thread; m_ForwarderLock *)
(* is not held by SendA1, GetValveUserID and SendCardHostCommand), is      *)
(* taken for the awaited one.  `misread' says that this has happened.      *)
(*                                                                         *)
(* GetForwarderInfoTask and ConfigValve return with m_ForwarderLock held   *)
(* when the forwarders' data are not ready.                                *)
(*                                                                         *)
(* The noon batch fetches records from a valve "while (sent != pointer &   *)
(* 0x7F)", which C reads as (sent != pointer) & 0x7F: a pointer with its   *)
(* flag set, or one behind the end of the ring, is never reached, and the  *)
(* batch goes on as long as the valve answers, with m_ForwarderLock held.  *)
(*                                                                         *)
(* One forwarder, and valves that send temperatures.  A timer is done or   *)
(* not, as it likes: the passes of Run last from a second to many minutes. *)
(***************************************************************************)
EXTENDS Naturals, Sequences, FiniteSets, SequencesExt

CONSTANTS
  Valves,        (* of the forwarder, each with its user                 *)
  CardCells,     (* of m_CardCmdBuf: 10                                  *)
  Records,       (* in the ring of records of a valve: 20 recharges, 2400*)
                 (* consumptions, 6000 temperatures, taken as one ring   *)
  MaxRequests,   (* bound: requests of the card host                     *)
  MaxConfigs,    (* bound: configurations of the server                  *)
  MaxFaults,     (* bound: commands and answers lost or late, valves out *)
                 (* of reach or with a wrong clock                       *)
  MaxTrouble     (* bound: faults, and two for each request and          *)
                 (* configuration                                        *)

ASSUME ValvesAssumption == IsFiniteSet(Valves)
ASSUME BoundsAssumption ==
  /\ CardCells \in Nat \ {0} /\ Records \in Nat \ {0} /\ MaxFaults \in Nat
  /\ MaxRequests \in Nat /\ MaxConfigs \in Nat /\ MaxTrouble \in Nat

VARIABLES
  phase,         (* where Run is                                         *)
  call,          (* where the portal's thread is in ConfigValve          *)
  step,          (* of the exchange each thread is at                    *)
  cmd,           (* A1, A2 or A3                                         *)
  job,           (* the valve command it is for                          *)
  outer,         (* the job whose answer made it set the valve's clock   *)
  tries,         (* of SendA2A3                                          *)
  todo,          (* valves the loop over the map has not come to         *)
  lock,          (* m_ForwarderLock: who holds it                        *)
  ready,         (* m_ForwardInfoDataReady; its timer runs if so         *)
  offline,       (* IsOffline of the forwarder                           *)
  active, missing, (* valves with IsActive, with IsDataMissing           *)
  ids,           (* valves whose UserID is known                         *)
  newId,         (* m_IsNewUserIDFound                                   *)
  users,         (* those in the vector users, by valve                  *)
  behind,        (* how far the records sent are behind each pointer     *)
  cmdBuf,        (* m_CardCmdBuf: the requests in it                     *)
  asked,         (* requests of the card host                            *)
  configs, count,(* calls of ConfigValve, and its count of valves        *)
  air,           (* external: answers of the forwarder on their way      *)
  held,          (* external: the answer the forwarder has of each valve *)
  applied,       (* external: how often each request reached its valve   *)
  did,           (* external: valves that did the time or configuration  *)
                 (* command of this pass, of this call                   *)
  gave,          (* external: valves that did the data command of the pass*)
  unread,        (* history: valves whose data were not read in the pass *)
  replied,       (* history: what the reader heard of each request       *)
  misread,       (* history: an answer was taken for another one         *)
  faults

exchange == <<step, cmd, job, outer, tries>>
line == <<air, held, applied, did, gave>>
map == <<offline, active, missing, unread, ids, newId, behind>>
card == <<cmdBuf, asked>>
portal == <<call, configs, count>>
vars == <<phase, exchange, todo, lock, ready, map, users, card, portal, line,
          replied, misread, faults>>

Threads == {"monitor", "portal"}
CardKinds == {"recharge", "query"}
Kinds == CardKinds \union {"id", "data", "time", "set", "record", "config"}
Requests == 1 .. MaxRequests
A1 == [kind |-> "A1", n |-> 0]
Jobs == [kind : Kinds, valve : Valves, n : 0 .. MaxRequests]
None == [kind |-> "none", n |-> 0]
Answers == [cmd : {"A2"}, by : Threads, late : BOOLEAN]
   \union [cmd : {"A1"}, by : Threads, late : BOOLEAN]
   \union [cmd : {"A3"}, valve : Valves, kind : Kinds \union {"null"},
           by : Threads, late : BOOLEAN]

MAX_A2_A3_RETRY_COUNT == 2

(* The distance to a pointer that no count of records is equal to.         *)
Endless == Records

Init ==
  /\ phase = "A1" /\ call = "idle"
  /\ step = [t \in Threads |-> IF t = "monitor" THEN "write" ELSE "idle"]
  /\ cmd = [t \in Threads |-> "A1"]
  /\ job = [t \in Threads |-> IF t = "monitor" THEN A1 ELSE None]
  /\ outer = [t \in Threads |-> None]
  /\ tries = [t \in Threads |-> 1]
  /\ todo = [t \in Threads |-> {}]
  /\ lock = "free" /\ ready = FALSE
  /\ offline = TRUE /\ active = {} /\ missing = {}
  /\ unread = {}
  /\ ids = {} /\ newId = FALSE /\ behind = [v \in Valves |-> 0]
  /\ users \in SUBSET Valves       (* LoadUsers *)
  /\ cmdBuf = <<>> /\ asked = <<>>
  /\ configs = 0 /\ count = 0
  /\ air = <<>> /\ held = [v \in Valves |-> "null"]
  /\ applied = [n \in Requests |-> 0]
  /\ did = [t \in Threads |-> {}] /\ gave = {}
  /\ replied = [n \in Requests |-> "nothing"]
  /\ misread = FALSE
  /\ faults = 0

------------------------------------------------------------------------------
(* One exchange: SendCommand, SendA2, SendA3                               *)

Set(f, t, x) == [f EXCEPT ![t] = x]

Begin(t, what) ==
  /\ step' = Set(step, t, "write")
  /\ cmd' = Set(cmd, t, IF what.kind = "A1" THEN "A1" ELSE "A2")
  /\ job' = Set(job, t, what)
  /\ tries' = Set(tries, t, 1)

Trouble == faults + 2 * (Len(asked) + configs)

MayFail(fault) ==
  /\ fault => faults < MaxFaults /\ Trouble < MaxTrouble
  /\ faults' = faults + IF fault THEN 1 ELSE 0

Executes(t, reached) ==
  /\ applied' = [n \in Requests |->
                   applied[n] + IF reached /\ n = job[t].n THEN 1 ELSE 0]
  /\ did' = IF reached /\ job[t].kind \in {"time", "config"}
              THEN [did EXCEPT ![t] = @ \union {job[t].valve}] ELSE did
  /\ gave' = IF reached /\ job[t].kind = "data"
               THEN gave \union {job[t].valve} ELSE gave

AnswerTo(t, kind) ==
  IF cmd[t] = "A3"
    THEN [cmd |-> "A3", valve |-> job[t].valve, kind |-> kind,
          by |-> t, late |-> FALSE]
    ELSE [cmd |-> cmd[t], by |-> t, late |-> FALSE]

(* External: an A2 reaches the valve or does not, and its answer comes     *)
(* back to the forwarder or does not; A3 fetches it from there.  The       *)
(* forwarder answers at once.                                              *)
Forwards(t) ==
  /\ IF cmd[t] = "A3" THEN held' = [held EXCEPT ![job[t].valve] = "null"]
                      ELSE cmd[t] = "A1" => UNCHANGED held
  /\ IF cmd[t] = "A2"
       THEN \E reached, back \in BOOLEAN :
              /\ Executes(t, reached)
              /\ held' = [held EXCEPT ![job[t].valve] =
                            IF reached /\ back THEN job[t].kind ELSE "null"]
              /\ MayFail(~ reached \/ ~ back)
       ELSE UNCHANGED <<applied, did, gave, faults>>
  /\ air' = Append(air, AnswerTo(t, IF cmd[t] = "A3" THEN held[job[t].valve]
                                    ELSE "null"))

Write(t) ==
  /\ step[t] = "write"
  /\ step' = Set(step, t, "read")
  /\ \/ Forwards(t)
     \/ MayFail(TRUE) /\ UNCHANGED line      (* the command is lost *)
  /\ UNCHANGED <<phase, cmd, job, outer, tries, todo, lock, ready, map, users,
                 card, portal, replied, misread>>

(* AckRecharge and AckQueryUser name the user only: the reader takes them  *)
(* for the answer to the first request of this kind that is open.          *)
Tell(kind, v, code) ==
  LET open == {n \in 1 .. Len(asked) : /\ asked[n].kind = kind /\ asked[n].valve = v
                                       /\ replied[n] = "nothing"}
  IN  replied' = [n \in Requests |->
        IF n \in open /\ \A m \in open : n <= m THEN code ELSE replied[n]]

(* ParseData returns true: for a record of a valve whose user is not known *)
(* only if it is one of temperatures.                                      *)
Accepts(t, answer) ==
  /\ answer.cmd = cmd[t]
  /\ answer.cmd = "A3" =>
       /\ answer.kind \notin {"null", "set"}
       /\ answer.kind \in CardKinds => answer.valve \in ids

Refuses(t, answer) ==
  \/ ~ Accepts(t, answer)
  \/ answer.cmd = "A3" /\ answer.kind = "record" /\ answer.valve \notin ids

(* Mutant: SendA2A3 tries once more than it may.                           *)
NextAttempt_OneMore(t) ==
  /\ step' = Set(step, t, IF cmd[t] = "A1" \/ tries[t] > MAX_A2_A3_RETRY_COUNT
                            THEN "failed" ELSE "write")
  /\ cmd' = Set(cmd, t, IF cmd[t] = "A1" THEN "A1" ELSE "A2")
  /\ tries' = Set(tries, t, tries[t] + 1)

NextAttempt(t) ==
  IF cmd[t] = "A1" \/ tries[t] = MAX_A2_A3_RETRY_COUNT
    THEN /\ step' = Set(step, t, "failed")
         /\ UNCHANGED <<cmd, tries>>
    ELSE /\ step' = Set(step, t, "write")
         /\ cmd' = Set(cmd, t, "A2")
         /\ tries' = Set(tries, t, tries[t] + 1)

(* One more record was sent; if there was none, all others are missing.    *)
Fetched(distance) ==
  IF distance = Endless THEN Endless ELSE (distance + Records - 1) % Records

(* An answer with the valve's pointers, or with one of its records.        *)
Distances(answer) ==
  CASE answer.kind = "data" -> 0 .. Records
    [] answer.kind = "record" -> {Fetched(behind[answer.valve])}
    [] OTHER -> {behind[answer.valve]}

(* What ParseData does with an answer it accepts.                          *)
Parse(t, answer) ==
  /\ misread' = (misread \/ answer.late \/ answer.by # t
                 \/ (answer.cmd = "A3" /\ answer.kind # job[t].kind))
  /\ IF answer.cmd = "A1" THEN \E listed \in SUBSET Valves : active' = active \union listed
                         ELSE UNCHANGED active
  /\ IF answer.cmd = "A3"
       THEN /\ ids' = ids \union (IF answer.kind = "id" THEN {answer.valve} ELSE {})
            /\ newId' = (newId \/ answer.kind = "id")
            /\ \E distance \in Distances(answer) :
                 behind' = Set(behind, answer.valve, distance)
            /\ IF answer.kind \in CardKinds
                 THEN Tell(answer.kind, answer.valve, "ok") ELSE UNCHANGED replied
       ELSE UNCHANGED <<ids, newId, behind, replied>>

(* The thread no longer waits for the answers that are on their way to it. *)
TooLate(t, answers) ==
  [i \in 1 .. Len(answers) |->
     [answers[i] EXCEPT !.late = answers[i].late \/ answers[i].by = t]]

Awaited(t) == {i \in 1 .. Len(air) : air[i].by = t /\ ~ air[i].late}

(* ReadBuf throws away what has come before it looks: the beginning of     *)
(* air, but it is there before the awaited answer.                         *)
ReadAnswer(t) ==
  /\ step[t] = "read"
  /\ \E k \in {i \in 1 .. Len(air) : \A j \in Awaited(t) : i <= j} :
       LET answer == air[k]
           rest == SubSeq(air, k + 1, Len(air))
       IN  \/ /\ Accepts(t, answer)
              /\ air' = rest
              /\ Parse(t, answer)
              /\ \/ /\ cmd[t] = "A2"
                    /\ step' = Set(step, t, "write")
                    /\ cmd' = Set(cmd, t, "A3")
                    /\ UNCHANGED <<job, outer, tries, faults>>
                 \/ /\ cmd[t] # "A2"
                    /\ step' = Set(step, t, "ok")
                    /\ UNCHANGED <<cmd, job, outer, tries, faults>>
                 \/ (* SetValveTime *)
                    /\ answer.cmd = "A3" /\ answer.kind = "time"
                    /\ outer[t] = None /\ MayFail(TRUE)
                    /\ outer' = Set(outer, t, job[t])
                    /\ Begin(t, [kind |-> "set", valve |-> answer.valve, n |-> 0])
           \/ /\ Refuses(t, answer)
              /\ air' = TooLate(t, rest)
              /\ NextAttempt(t)
              /\ UNCHANGED <<job, outer, active, ids, newId, behind, replied,
                             misread, faults>>
  /\ UNCHANGED <<phase, todo, lock, ready, offline, missing, unread, users, card,
                 portal, held, applied, did, gave>>

ReadTimeout(t) ==
  /\ step[t] = "read"
  /\ \/ (* the answer is late, or lost *)
        /\ Awaited(t) # {} /\ MayFail(TRUE)
        /\ \/ air' = TooLate(t, air)
           \/ \E i \in Awaited(t) : air' = TooLate(t, RemoveAt(air, i))
     \/ (* there is none, and what there was is thrown away *)
        /\ Awaited(t) = {} /\ MayFail(FALSE)
        /\ \E k \in 0 .. Len(air) : air' = SubSeq(air, k + 1, Len(air))
  /\ NextAttempt(t)
  /\ UNCHANGED <<phase, job, outer, todo, lock, ready, map, users, card, portal,
                 held, applied, did, gave, replied, misread>>

(* Back in ParseData of the answer with the valve's time, which is true.   *)
ClockSet(t) ==
  /\ step[t] \in {"ok", "failed"} /\ outer[t] # None
  /\ job' = Set(job, t, outer[t])
  /\ outer' = Set(outer, t, None)
  /\ step' = Set(step, t, "ok")
  /\ UNCHANGED <<phase, cmd, tries, todo, lock, ready, map, users, card, portal,
                 line, replied, misread, faults>>

Finished(t) == step[t] \in {"ok", "failed"} /\ outer[t] = None
Ends(t) ==
  /\ step' = Set(step, t, "idle")
  /\ job' = Set(job, t, None)
  /\ cmd' = Set(cmd, t, "A1") /\ tries' = Set(tries, t, 1)
  /\ UNCHANGED outer

------------------------------------------------------------------------------
(* SendValveCtrlOneByOne: a command to each valve of the map               *)

Serves(kind, v) ==
  /\ ~ offline /\ v \in active
  /\ kind = "time" => v \notin missing      (* IsFixTimeCommand           *)
  /\ kind = "id" => v \notin ids
  /\ kind = "record" => behind[v] # 0

NextValve(t, kind) ==
  /\ step[t] = "idle"
  /\ \E v \in todo[t] :
       IF Serves(kind, v)
         THEN /\ Begin(t, [kind |-> kind, valve |-> v, n |-> 0])
              /\ UNCHANGED <<outer, todo>>
         ELSE /\ todo' = [todo EXCEPT ![t] = @ \ {v}]
              /\ UNCHANGED exchange
  /\ UNCHANGED <<phase, lock, ready, map, users, card, portal, line, replied,
                 misread, faults>>

(* Mutant: a valve is counted whether it answered or not.                  *)
ValveDone_CountsFailed(t, kind) ==
  /\ Finished(t)
  /\ Ends(t)
  /\ todo' = [todo EXCEPT ![t] = @ \ {job[t].valve}]
  /\ count' = IF kind = "config" THEN (count + 1) % 256 ELSE count
  /\ UNCHANGED <<phase, call, lock, ready, map, users, card, configs, line,
                 replied, misread, faults>>

(* Mutant: a valve that does not give its time is not left out.            *)
ValveDone_NeverMissing(t, kind) ==
  /\ Finished(t)
  /\ Ends(t)
  /\ todo' = [todo EXCEPT ![t] = @ \ {job[t].valve}]
  /\ UNCHANGED <<phase, lock, ready, map, users, card, portal, line, replied,
                 misread, faults>>

(* The batch functions stay with a valve until it has no record left, or   *)
(* does not give one.                                                      *)
ValveDone(t, kind) ==
  /\ Finished(t)
  /\ Ends(t)
  /\ todo' = IF kind = "record" /\ step[t] = "ok" THEN todo
             ELSE [todo EXCEPT ![t] = @ \ {job[t].valve}]
  /\ missing' = missing \union
       (IF kind \in {"id", "time"} /\ step[t] = "failed" THEN {job[t].valve} ELSE {})
  /\ unread' = unread \union
       (IF kind = "data" /\ step[t] = "failed" THEN {job[t].valve} ELSE {})
  /\ count' = IF kind = "config" /\ step[t] = "ok" THEN (count + 1) % 256 ELSE count
  /\ UNCHANGED <<phase, call, lock, ready, offline, active, ids, newId, behind,
                 users, card, configs, line, replied, misread, faults>>

Loop(t, kind) == NextValve(t, kind) \/ ValveDone(t, kind)
LoopEnds(t) == step[t] = "idle" /\ todo[t] = {}
AllValves(t) == todo' = Set(todo, t, Valves)

------------------------------------------------------------------------------
(* Run                                                                     *)

Goes(to) == phase' = to

(* ResetForwarderData, and SendA1 every 300 seconds.                       *)
Pass ==
  /\ phase = "pass"
  /\ active' = {} /\ missing' = {} /\ unread' = {}
  /\ did' = Set(did, "monitor", {}) /\ gave' = {}
  /\ \/ Goes("A1") /\ Begin("monitor", A1)
     \/ Goes("round") /\ UNCHANGED <<step, cmd, job, tries>>
  /\ UNCHANGED <<outer, todo, lock, ready, offline, ids, newId, behind, users,
                 card, portal, air, held, applied, replied, misread, faults>>

SentA1 ==
  /\ phase = "A1" /\ Finished("monitor")
  /\ Ends("monitor")
  /\ offline' = (step["monitor"] = "failed")
  /\ ready' = TRUE
  /\ Goes("id") /\ AllValves("monitor")
  /\ UNCHANGED <<lock, active, missing, unread, ids, newId, behind, users, card, portal,
                 line, replied, misread, faults>>

GotIds ==
  /\ phase = "id" /\ LoopEnds("monitor")
  /\ Goes("round")
  /\ UNCHANGED <<exchange, todo, lock, ready, map, users, card, portal, line,
                 replied, misread, faults>>

(* m_RepeatTimer.Done()                                                    *)
Round ==
  /\ phase = "round"
  /\ \E done \in BOOLEAN :
       Goes(IF ~ done THEN "card" ELSE IF newId THEN "save" ELSE "lock")
  /\ UNCHANGED <<exchange, todo, lock, ready, map, users, card, portal, line,
                 replied, misread, faults>>

(* SaveUsers clears the vector and fills it again, unless the file cannot  *)
(* be opened.                                                              *)
SaveUsers ==
  /\ phase = "save"
  /\ \/ Goes("fill") /\ users' = {}
     \/ Goes("lock") /\ UNCHANGED users
  /\ UNCHANGED <<exchange, todo, lock, ready, map, card, portal, line, replied,
                 misread, faults>>

FillUsers ==
  /\ phase = "fill"
  /\ users' = ids
  /\ newId' = FALSE
  /\ Goes("lock")
  /\ UNCHANGED <<exchange, todo, lock, ready, offline, active, missing, unread, ids,
                 behind, card, portal, line, replied, misread, faults>>

(* GetPunctualData and GetValveTime do nothing if the data are not ready.  *)
ForEachIfReady == todo' = Set(todo, "monitor", IF ready THEN Valves ELSE {})

LockRound ==
  /\ phase = "lock" /\ lock = "free"
  /\ lock' = "monitor"
  /\ Goes("data") /\ ForEachIfReady
  /\ UNCHANGED <<exchange, ready, map, users, card, portal, line, replied, misread, faults>>

GotData ==
  /\ phase = "data" /\ LoopEnds("monitor")
  /\ Goes("time") /\ ForEachIfReady
  /\ UNCHANGED <<exchange, lock, ready, map, users, card, portal, line, replied,
                 misread, faults>>

GotTime ==
  /\ phase = "time" /\ LoopEnds("monitor")
  /\ lock' = "free"
  /\ Goes("send")
  /\ UNCHANGED <<exchange, todo, ready, map, users, card, portal, line, replied,
                 misread, faults>>

(* SendForwarderData hands the data of these valves to CPortal, whether    *)
(* GetPunctualData got them or not: only GetValveTime sets IsDataMissing.  *)
Sent == IF offline THEN {} ELSE active \ missing

SendForwarderData ==
  /\ phase = "send" /\ lock = "free"
  /\ Goes("card")
  /\ did' = Set(did, "monitor", {}) /\ gave' = {} /\ unread' = {}
  /\ UNCHANGED <<exchange, todo, lock, ready, offline, active, missing, ids, newId,
                 behind, users, card, portal, air, held, applied, replied, misread,
                 faults>>

SendCardHostCommand ==
  /\ phase = "card"
  /\ IF cmdBuf = <<>>
       THEN Goes("info") /\ UNCHANGED <<step, cmd, job, tries>>
       ELSE Goes("reply") /\ Begin("monitor", Head(cmdBuf))
  /\ UNCHANGED <<outer, todo, lock, ready, map, users, card, portal, line, replied,
                 misread, faults>>

(* Mutant: the reader is told of success whatever SendA2A3 returned.       *)
CardHostCommandDone_AlwaysOk ==
  /\ phase = "reply" /\ Finished("monitor")
  /\ Ends("monitor")
  /\ cmdBuf' = Tail(cmdBuf)
  /\ Tell(job["monitor"].kind, job["monitor"].valve, "ok")
  /\ Goes("info")
  /\ UNCHANGED <<todo, lock, ready, map, users, asked, portal, line, misread, faults>>

(* Mutant: the request is done with and the reader is not told.            *)
CardHostCommandDone_NoAck ==
  /\ phase = "reply" /\ Finished("monitor")
  /\ Ends("monitor")
  /\ cmdBuf' = Tail(cmdBuf)
  /\ Goes("info")
  /\ UNCHANGED <<todo, lock, ready, map, users, asked, portal, line, replied,
                 misread, faults>>

(* After a failure the user's id comes from the map again, all zero if the *)
(* map has none: the reader does not know such a user.                     *)
CardHostCommandDone ==
  /\ phase = "reply" /\ Finished("monitor")
  /\ Ends("monitor")
  /\ cmdBuf' = Tail(cmdBuf)
  /\ IF step["monitor"] = "failed"
       THEN Tell(job["monitor"].kind, job["monitor"].valve,
                 IF job["monitor"].valve \in ids THEN "failed" ELSE "nobody")
       ELSE UNCHANGED replied
  /\ Goes("info")
  /\ UNCHANGED <<todo, lock, ready, map, users, asked, portal, line, misread, faults>>

(* Mutant: it returns with the lock when the data get too old as well.     *)
GetForwarderInfoTask_KeepsLock ==
  /\ phase = "info" /\ lock = "free"
  /\ ready' \in IF ready THEN BOOLEAN ELSE {FALSE}
  /\ lock' = IF ready' THEN "free" ELSE "monitor"
  /\ Goes("noon")
  /\ UNCHANGED <<exchange, todo, map, users, card, portal, line, replied, misread, faults>>

GetForwarderInfoTask ==
  /\ phase = "info" /\ lock = "free"
  /\ IF ready
       THEN ready' \in BOOLEAN /\ UNCHANGED lock
       ELSE lock' = "monitor" /\ UNCHANGED ready
  /\ Goes("noon")
  /\ UNCHANGED <<exchange, todo, map, users, card, portal, line, replied, misread, faults>>

NotNoon ==
  /\ phase = "noon"
  /\ Goes("pass")
  /\ UNCHANGED <<exchange, todo, lock, ready, map, users, card, portal, line,
                 replied, misread, faults>>

DayNoonTimerTask ==
  /\ phase = "noon" /\ lock = "free"
  /\ IF ready
       THEN lock' = "monitor" /\ Goes("record") /\ AllValves("monitor")
       ELSE Goes("pass") /\ UNCHANGED <<lock, todo>>
  /\ UNCHANGED <<exchange, ready, map, users, card, portal, line, replied, misread, faults>>

GotRecords ==
  /\ phase = "record" /\ LoopEnds("monitor")
  /\ lock' = "free"
  /\ Goes("pass")
  /\ UNCHANGED <<exchange, todo, ready, map, users, card, portal, line, replied,
                 misread, faults>>

Monitor ==
  \/ Write("monitor") \/ ReadAnswer("monitor") \/ ReadTimeout("monitor")
  \/ ClockSet("monitor")
  \/ phase \in {"id", "data", "time", "record"} /\ Loop("monitor", phase)
  \/ Pass \/ SentA1 \/ GotIds \/ Round \/ SaveUsers \/ FillUsers
  \/ LockRound \/ GotData \/ GotTime \/ SendForwarderData
  \/ SendCardHostCommand \/ CardHostCommandDone
  \/ GetForwarderInfoTask \/ NotNoon \/ DayNoonTimerTask \/ GotRecords

------------------------------------------------------------------------------
(* ConfigValve in the portal's thread, and the card host's thread          *)

ConfigValve ==
  /\ call = "idle" /\ configs < MaxConfigs /\ Trouble + 2 <= MaxTrouble
  /\ configs' = configs + 1
  /\ call' = "lock"
  /\ UNCHANGED <<phase, exchange, todo, lock, ready, map, users, card, count, line,
                 replied, misread, faults>>

(* Without data it returns 0, with the lock held.                          *)
LockConfig ==
  /\ call = "lock" /\ lock = "free"
  /\ lock' = "portal"
  /\ IF ready
       THEN call' = "config" /\ AllValves("portal")
       ELSE call' = "idle" /\ UNCHANGED todo
  /\ UNCHANGED <<phase, exchange, ready, map, users, card, configs, count, line,
                 replied, misread, faults>>

Configured ==
  /\ call = "config" /\ LoopEnds("portal")
  /\ lock' = "free"
  /\ call' = "idle" /\ count' = 0
  /\ did' = Set(did, "portal", {})
  /\ UNCHANGED <<phase, exchange, todo, ready, map, users, card, configs, air, held,
                 applied, gave, replied, misread, faults>>

Portal ==
  \/ Write("portal") \/ ReadAnswer("portal") \/ ReadTimeout("portal")
  \/ ClockSet("portal")
  \/ call = "config" /\ Loop("portal", "config")
  \/ LockConfig \/ Configured

(* CCardHost reports a failure at once for a user it does not find, or when *)
(* users_lock is taken.  Then Recharge and QueryUser look for the user again,*)
(* without the lock: while the vector is filled there may be none, and      *)
(* nobody is told; nor is anybody without a free cell.                      *)
Ask(kind, v) ==
  /\ Len(asked) < MaxRequests /\ Trouble + 2 <= MaxTrouble
  /\ asked' = Append(asked, [kind |-> kind, valve |-> v])
  /\ \E listed, found \in IF phase = "fill" THEN BOOLEAN ELSE {v \in users} :
       IF listed /\ found /\ Len(cmdBuf) < CardCells
         THEN /\ cmdBuf' = Append(cmdBuf, [kind |-> kind, valve |-> v,
                                           n |-> Len(asked) + 1])
              /\ UNCHANGED replied
         ELSE /\ replied' = [replied EXCEPT ![Len(asked) + 1] =
                               IF listed THEN "dropped" ELSE "failed"]
              /\ UNCHANGED cmdBuf
  /\ UNCHANGED <<phase, exchange, todo, lock, ready, map, users, portal, line,
                 misread, faults>>

CardHost == \E kind \in CardKinds, v \in Valves : Ask(kind, v)

Next == Monitor \/ Portal \/ ConfigValve \/ CardHost

(* Both threads go on as long as they can; requests come or do not.        *)
Fairness == WF_vars(Monitor) /\ WF_vars(Portal)
Spec == Init /\ [][Next]_vars /\ Fairness

------------------------------------------------------------------------------
(* Properties                                                              *)

(* The threads are where the code can be, the lock is held by a thread     *)
(* inside its locked section or by one that left it without unlocking      *)
(* (CForwarderMonitor.cpp:1462, :1483), and an exchange is one of its own. *)
TypeOK ==
  /\ phase \in {"pass", "A1", "id", "round", "save", "fill", "lock", "data", "time",
                "send", "card", "reply", "info", "noon", "record"}
  /\ call \in {"idle", "lock", "config"}
  /\ step \in [Threads -> {"idle", "write", "read", "ok", "failed"}]
  /\ cmd \in [Threads -> {"A1", "A2", "A3"}]
  /\ job \in [Threads -> Jobs \union {A1, None}]
  /\ outer \in [Threads -> Jobs \union {None}]
  /\ tries \in [Threads -> 1 .. MAX_A2_A3_RETRY_COUNT]
  /\ todo \in [Threads -> SUBSET Valves]
  /\ lock \in Threads \union {"free"}
  /\ faults \in 0 .. MaxFaults
  /\ {ready, offline, newId, misread} \subseteq BOOLEAN
  /\ \A S \in {active, missing, unread, ids, users, gave} : S \subseteq Valves
  /\ behind \in [Valves -> 0 .. Records]
  /\ Len(cmdBuf) <= CardCells /\ Len(asked) <= MaxRequests
  /\ configs \in 0 .. MaxConfigs /\ count \in 0 .. 255
  /\ \A i \in 1 .. Len(air) : air[i] \in Answers
  /\ held \in [Valves -> Kinds \union {"null"}]
  /\ applied \in [Requests -> Nat]
  /\ replied \in [Requests -> {"nothing", "ok", "failed", "nobody", "dropped"}]

(* A user who is told of success has been recharged, at most twice: once   *)
(* for each attempt of SendA2A3 (CForwarderMonitor.cpp:243).  Only an      *)
(* answer that is taken for another one makes it otherwise.                *)
SuccessWasApplied ==
  \A n \in 1 .. Len(asked) :
    /\ applied[n] <= 2
    /\ replied[n] = "ok" => applied[n] > 0 \/ misread

(* What SendForwarderData hands to the portal has a time that the valve    *)
(* gave in this pass, although ResetForwarderData and the loops over the   *)
(* map share IsActive and IsDataMissing over many exchanges; and the       *)
(* temperatures are of this pass as well, but for the valves whose read in *)
(* GetPunctualData failed, which nobody notes: theirs are of an earlier    *)
(* pass and go out under the new time (CForwarderMonitor.cpp:65, :263,     *)
(* :1205, :1353).                                                          *)
SentIsFresh ==
  phase = "send" /\ ready =>
    misread \/ Sent \subseteq did["monitor"] \intersect (gave \union unread)

(* The portal is told of no more configured valves than there are, however *)
(* the monitor's exchanges run in between (CForwarderMonitor.cpp:1473).    *)
ConfiguredValvesAreCounted ==
  call = "config" => count <= Cardinality(did["portal"]) \/ misread

Leaked ==
  \/ lock = "portal" /\ call # "config"
  \/ lock = "monitor" /\ phase \notin {"data", "time", "record"}

(* The lock is lost only where the data were not ready, and then they stay *)
(* so until the next A1 (CForwarderMonitor.cpp:1462, :1483).               *)
LostOnlyWhenNotReady ==
  [][Leaked' /\ ~ Leaked => ~ ready]_vars

(* The noon batch is at a valve whose pointer no record reaches.           *)
BatchIsEndless == phase = "record" /\ \E v \in todo["monitor"] : behind[v] = Endless

(* A request that got a cell is answered, with success, a failure or a     *)
(* failure for nobody, unless the lock is lost, answers got mixed up or    *)
(* the noon batch never ends (CForwarderMonitor.cpp:1733, :1756, :1778).   *)
EventuallyAnswered ==
  \/ <>[]BatchIsEndless
  \/ \A n \in Requests :
       (n <= Len(asked) /\ replied[n] = "nothing") ~>
         (replied[n] # "nothing" \/ Leaked \/ misread)
==============================================================================
