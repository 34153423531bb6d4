--------------------------- MODULE ForwarderProofs ---------------------------
(***************************************************************************)
(* What Forwarder promises for any valves, any number of requests and      *)
(* configurations and any faults: what the reader, the portal and the      *)
(* server are told is true as long as no answer was taken for another one, *)
(* and nobody is recharged more than twice, whatever was.                  *)
(***************************************************************************)
EXTENDS Forwarder, SequenceTheorems, FiniteSetTheorems, TLAPS

------------------------------------------------------------------------------
(* The inductive invariant                                                 *)

Asked == [kind : CardKinds, valve : Valves]
CardJobs == [kind : CardKinds, valve : Valves, n : 1 .. MaxRequests]

Shapes ==
  /\ air \in Seq(Answers)
  /\ cmdBuf \in Seq(CardJobs) /\ asked \in Seq(Asked)
  /\ did \in [Threads -> SUBSET Valves]

(* The job a thread will come back to, with its clock set or not.          *)
Base(t) == IF outer[t] = None THEN job[t] ELSE outer[t]

InExchange(t) ==
  /\ step[t] = "idle" <=> job[t] = None
  /\ step[t] # "idle" => (cmd[t] = "A1" <=> job[t] = A1)
  /\ outer[t] # None => job[t] \in Jobs /\ job[t].kind = "set" /\ job[t].n = 0

Looping == {"id", "data", "time", "record"}

(* The valve of the loop's job is still to be done.                        *)
AtValve(t, kind) ==
  /\ Base(t) \in Jobs /\ Base(t).kind = kind /\ Base(t).n = 0
  /\ Base(t).valve \in todo[t]

MonitorWorks ==
  /\ phase = "A1" => job["monitor"] = A1 /\ outer["monitor"] = None
  /\ phase \in Looping => step["monitor"] = "idle" \/ AtValve("monitor", phase)
  /\ phase = "reply" => cmdBuf # <<>> /\ Base("monitor") = Head(cmdBuf)
  /\ phase \notin Looping \union {"A1", "reply"} => step["monitor"] = "idle"

PortalWorks ==
  step["portal"] = "idle" \/ (call = "config" /\ AtValve("portal", "config"))

LockInv ==
  /\ phase \in {"data", "time", "record"} => lock = "monitor"
  /\ call = "config" => lock = "portal"

ControlInv ==
  /\ \A t \in Threads : InExchange(t)
  /\ MonitorWorks /\ PortalWorks /\ LockInv

(* The requests wait in the order in which they came, each once, and none  *)
(* that is not being worked on was sent.                                   *)
WaitingInv ==
  \A i \in 1 .. Len(cmdBuf) :
    /\ cmdBuf[i].n \in 1 .. Len(asked)
    /\ asked[cmdBuf[i].n] = [kind |-> cmdBuf[i].kind, valve |-> cmdBuf[i].valve]
    /\ \A j \in 1 .. Len(cmdBuf) : i < j => cmdBuf[i].n < cmdBuf[j].n
    /\ applied[cmdBuf[i].n] = 0 \/ (i = 1 /\ phase = "reply")

NotYetAsked ==
  \A n \in Requests : n > Len(asked) => applied[n] = 0 /\ replied[n] = "nothing"

(* Attempts of SendA2A3 whose A2 was written.                              *)
Spent ==
  IF step["monitor"] = "write" /\ cmd["monitor"] = "A2"
    THEN tries["monitor"] - 1 ELSE tries["monitor"]

AttemptsInv ==
  /\ \A n \in Requests : applied[n] <= MAX_A2_A3_RETRY_COUNT
  /\ phase = "reply" /\ outer["monitor"] = None /\ step["monitor"] \in {"write", "read"}
       => applied[job["monitor"].n] <= Spent

RequestsInv == WaitingInv /\ NotYetAsked /\ AttemptsInv

(* The valve has done what the job asks for; only the monitor asks for     *)
(* data.                                                                   *)
WasDone(t, what) ==
  /\ what.kind \in CardKinds => applied[what.n] > 0
  /\ what.kind \in {"time", "config"} => what.valve \in did[t]
  /\ t = "monitor" /\ what.kind = "data" => what.valve \in gave

IfHeldDone(t) == held[job[t].valve] = job[t].kind => WasDone(t, job[t])

(* An answer that is not late is to the command its thread waits for, and  *)
(* tells the truth.                                                        *)
AnswersAreTrue(t) ==
  \A i \in Awaited(t) :
    /\ step[t] = "read" /\ air[i].cmd = cmd[t]
    /\ \A j \in Awaited(t) : i = j
    /\ cmd[t] = "A2" => IfHeldDone(t)
    /\ cmd[t] = "A3" => /\ air[i].valve = job[t].valve
                        /\ air[i].kind = job[t].kind => WasDone(t, job[t])

ExchangeIsTrue(t) ==
  /\ AnswersAreTrue(t)
  /\ step[t] \in {"write", "read"} /\ cmd[t] = "A3" => IfHeldDone(t)
  /\ step[t] = "ok" \/ outer[t] # None => WasDone(t, Base(t))
  /\ outer[t] # None => outer[t].kind = "time"

(* The requests that are open are those that wait, but for the first one   *)
(* once it was answered.                                                   *)
Answered == phase = "reply" /\ step["monitor"] = "ok"

OpenInv ==
  /\ \A n \in 1 .. Len(asked) :
       replied[n] = "nothing" => \E i \in 1 .. Len(cmdBuf) : cmdBuf[i].n = n
  /\ \A i \in 1 .. Len(cmdBuf) :
       replied[cmdBuf[i].n] = "nothing" <=> ~ (i = 1 /\ Answered)

RepliesAreTrue == \A n \in Requests : replied[n] = "ok" => applied[n] > 0

(* The valve's data and its time are of this pass, or are still to be read.*)
DataIsFresh(v) ==
  phase \in {"data", "time", "send"} =>
    v \in gave \union unread \/ (phase = "data" /\ v \in todo["monitor"])

TimeIsFresh(v) ==
  phase \in {"time", "send"} =>
    v \in did["monitor"] \/ (phase = "time" /\ v \in todo["monitor"])

FreshInv ==
  ready /\ ~ offline => \A v \in active \ missing : DataIsFresh(v) /\ TimeIsFresh(v)

CountInv ==
  IF call = "config"
    THEN count <= Cardinality(did["portal"] \ todo["portal"])
    ELSE count = 0 /\ did["portal"] = {}

TruthInv ==
  /\ \A t \in Threads : ExchangeIsTrue(t)
  /\ OpenInv /\ RepliesAreTrue /\ FreshInv /\ CountInv

ForwarderInv ==
  /\ TypeOK /\ Shapes
  /\ ControlInv /\ RequestsInv
  /\ ~ misread => TruthInv

------------------------------------------------------------------------------
(* The steps                                                               *)

LEMMA JobsAreApart ==
  /\ A1 \notin Jobs /\ None \notin Jobs /\ A1 # None
  /\ CardJobs \subseteq Jobs
  /\ \A v \in Valves, kind \in Kinds, n \in 0 .. MaxRequests :
       [kind |-> kind, valve |-> v, n |-> n] \in Jobs
<1>1. A1.kind = "A1" /\ None.kind = "none"
  BY DEF A1, None
<1>2. \A what \in Jobs : what.kind \in Kinds
  BY DEF Jobs
<1>3. "A1" \notin Kinds /\ "none" \notin Kinds
  BY DEF Kinds, CardKinds
<1>4. CardJobs \subseteq Jobs
  BY BoundsAssumption DEF CardJobs, Jobs, Kinds
<1>5. QED
  BY <1>1, <1>2, <1>3, <1>4 DEF Jobs

Rest(k) == SubSeq(air, k + 1, Len(air))

(* What ReadAnswer does with an answer.                                    *)
Rejects(t, k) ==
  /\ Refuses(t, air[k])
  /\ air' = TooLate(t, Rest(k))
  /\ NextAttempt(t)
  /\ UNCHANGED <<job, outer, active, ids, newId, behind, replied, misread, faults>>

Takes(t, k) ==
  /\ Accepts(t, air[k])
  /\ air' = Rest(k)
  /\ Parse(t, air[k])

GoesOn(t) ==
  /\ cmd[t] = "A2"
  /\ step' = Set(step, t, "write") /\ cmd' = Set(cmd, t, "A3")
  /\ UNCHANGED <<job, outer, tries, faults>>

Succeeds(t) ==
  /\ cmd[t] # "A2"
  /\ step' = Set(step, t, "ok")
  /\ UNCHANGED <<cmd, job, outer, tries, faults>>

SetsClock(t, k) ==
  /\ air[k].cmd = "A3" /\ air[k].kind = "time"
  /\ outer[t] = None /\ MayFail(TRUE)
  /\ outer' = Set(outer, t, job[t])
  /\ Begin(t, [kind |-> "set", valve |-> air[k].valve, n |-> 0])

LEMMA ReadAnswerKinds ==
  ASSUME NEW t, ReadAnswer(t)
  PROVE  /\ step[t] = "read"
         /\ UNCHANGED <<phase, todo, lock, ready, offline, missing, unread, users, card,
                        portal, held, applied, did, gave>>
         /\ \E k \in 1 .. Len(air) :
              /\ \A j \in Awaited(t) : k <= j
              /\ \/ Rejects(t, k)
                 \/ Takes(t, k) /\ (GoesOn(t) \/ Succeeds(t) \/ SetsClock(t, k))
BY Zenon DEF ReadAnswer, Rejects, Takes, GoesOn, Succeeds, SetsClock, Rest

(* The steps of an exchange, and those of a loop over the valves.          *)
Exchanges(t) == Write(t) \/ ReadAnswer(t) \/ ReadTimeout(t) \/ ClockSet(t)

Loops(t) ==
  \/ t = "monitor" /\ phase \in Looping /\ Loop(t, phase)
  \/ t = "portal" /\ call = "config" /\ Loop(t, "config")

(* Those in which no exchange begins, ends or goes on.                     *)
Rests ==
  \/ GotIds \/ Round \/ SaveUsers \/ FillUsers \/ LockRound \/ GotData \/ GotTime
  \/ SendForwarderData \/ GetForwarderInfoTask \/ NotNoon \/ DayNoonTimerTask
  \/ GotRecords \/ ConfigValve \/ LockConfig \/ Configured \/ CardHost

LEMMA StepKinds ==
  ASSUME Next
  PROVE  \/ \E t \in Threads : Exchanges(t) \/ Loops(t)
         \/ Pass \/ SentA1 \/ SendCardHostCommand \/ CardHostCommandDone
         \/ Rests
BY Zenon DEF Next, Monitor, Portal, Exchanges, Loops, Looping, Rests, Threads

(* Which steps change what the proofs ask about.                           *)
WhoChanges ==
  /\ UNCHANGED <<held, applied>> \/ \E t \in Threads : Write(t)
  /\ UNCHANGED air \/ \E t \in Threads : Write(t) \/ ReadAnswer(t) \/ ReadTimeout(t)
  /\ UNCHANGED did \/ Pass \/ SendForwarderData \/ Configured \/ \E t \in Threads : Write(t)
  /\ UNCHANGED gave \/ Pass \/ SendForwarderData \/ \E t \in Threads : Write(t)
  /\ UNCHANGED unread \/ Pass \/ SendForwarderData \/ \E t \in Threads : Loops(t)
  /\ UNCHANGED replied \/ CardHost \/ CardHostCommandDone \/ \E t \in Threads : ReadAnswer(t)
  /\ UNCHANGED misread \/ \E t \in Threads : ReadAnswer(t)
  /\ UNCHANGED newId \/ FillUsers \/ \E t \in Threads : ReadAnswer(t)
  /\ UNCHANGED active \/ Pass \/ \E t \in Threads : ReadAnswer(t)
  /\ UNCHANGED missing \/ Pass \/ \E t \in Threads : Loops(t)
  /\ UNCHANGED ready \/ SentA1 \/ GetForwarderInfoTask
  /\ UNCHANGED offline \/ SentA1
  /\ UNCHANGED count \/ Configured \/ \E t \in Threads : Loops(t)
  /\ UNCHANGED configs \/ ConfigValve
  /\ UNCHANGED card \/ CardHost \/ CardHostCommandDone
  /\ UNCHANGED faults \/ \E t \in Threads : Exchanges(t)

LEMMA StepChanges ==
  ASSUME Next
  PROVE  WhoChanges
<1>1. ASSUME NEW t \in Threads, Exchanges(t) PROVE WhoChanges
  BY <1>1 DEF WhoChanges, Exchanges, Write, ReadAnswer, ReadTimeout, ClockSet, line, map,
     portal
<1>2. ASSUME NEW t \in Threads, Loops(t) PROVE WhoChanges
  <2>1. PICK kind : Loop(t, kind)
    BY <1>2 DEF Loops
  <2>2. QED
    BY <1>2, <2>1 DEF WhoChanges, Loop, NextValve, ValveDone, line, map, portal
<1>3. CASE Pass \/ SentA1 \/ SendCardHostCommand \/ CardHostCommandDone
  BY <1>3 DEF WhoChanges, Pass, SentA1, SendCardHostCommand, CardHostCommandDone, line, map,
     portal
<1>4. CASE \/ GotIds \/ Round \/ SaveUsers \/ FillUsers \/ LockRound \/ GotData \/ GotTime
          \/ SendForwarderData
  BY <1>4 DEF WhoChanges, GotIds, Round, SaveUsers, FillUsers, LockRound, GotData, GotTime,
     SendForwarderData, line, map, portal
<1>5. CASE \/ GetForwarderInfoTask \/ NotNoon \/ DayNoonTimerTask \/ GotRecords \/ ConfigValve
          \/ LockConfig \/ Configured
  BY <1>5 DEF WhoChanges, GetForwarderInfoTask, NotNoon, DayNoonTimerTask, GotRecords,
     ConfigValve, LockConfig, Configured, line, map, portal
<1>6. CASE CardHost
  BY <1>6 DEF WhoChanges, CardHost, Ask, line, map, portal
<1>7. QED
  BY <1>1, <1>2, <1>3, <1>4, <1>5, <1>6, StepKinds DEF Rests

------------------------------------------------------------------------------
(* Types                                                                   *)

LEMMA AnswerFacts ==
  ASSUME NEW a \in Answers
  PROVE  /\ a.cmd \in {"A1", "A2", "A3"} /\ a.by \in Threads /\ a.late \in BOOLEAN
         /\ a.cmd = "A3" => a.valve \in Valves /\ a.kind \in Kinds \union {"null"}
<1>1. CASE a \in [cmd : {"A1"}, by : Threads, late : BOOLEAN]
  BY <1>1
<1>2. CASE a \in [cmd : {"A2"}, by : Threads, late : BOOLEAN]
  BY <1>2
<1>3. CASE a \in [cmd : {"A3"}, valve : Valves, kind : Kinds \union {"null"},
                  by : Threads, late : BOOLEAN]
  BY <1>3
<1>4. QED
  BY <1>1, <1>2, <1>3 DEF Answers

ExchangeTypes ==
  /\ step \in [Threads -> {"idle", "write", "read", "ok", "failed"}]
  /\ cmd \in [Threads -> {"A1", "A2", "A3"}]
  /\ job \in [Threads -> Jobs \union {A1, None}]
  /\ outer \in [Threads -> Jobs \union {None}]
  /\ tries \in [Threads -> 1 .. MAX_A2_A3_RETRY_COUNT]

LEMMA BeginTypes ==
  ASSUME ExchangeTypes, NEW t \in Threads, NEW what \in Jobs \union {A1}, Begin(t, what),
         outer' = outer \/ (job[t] \in Jobs /\ outer' = Set(outer, t, job[t]))
  PROVE  ExchangeTypes'
BY DEF ExchangeTypes, Begin, Set, MAX_A2_A3_RETRY_COUNT

LEMMA NextAttemptTypes ==
  ASSUME ExchangeTypes, NEW t \in Threads, NextAttempt(t), UNCHANGED <<job, outer>>
  PROVE  ExchangeTypes'
<1>1. tries[t] \in 1 .. MAX_A2_A3_RETRY_COUNT
  BY DEF ExchangeTypes
<1>2. tries[t] # MAX_A2_A3_RETRY_COUNT => tries[t] + 1 \in 1 .. MAX_A2_A3_RETRY_COUNT
  BY <1>1 DEF MAX_A2_A3_RETRY_COUNT
<1>3. QED
  BY <1>2 DEF ExchangeTypes, NextAttempt, Set

LEMMA ReadAnswerTypes ==
  ASSUME TypeOK, Shapes, ControlInv, NEW t \in Threads, ReadAnswer(t)
  PROVE  ExchangeTypes'
<1>1. ExchangeTypes
  BY DEF TypeOK, ExchangeTypes
<1>2. PICK k \in 1 .. Len(air) :
        \/ Rejects(t, k)
        \/ Takes(t, k) /\ (GoesOn(t) \/ Succeeds(t) \/ SetsClock(t, k))
  BY ReadAnswerKinds
<1>3. CASE Rejects(t, k)
  BY <1>1, <1>3, NextAttemptTypes DEF Rejects
<1>4. CASE GoesOn(t) \/ Succeeds(t)
  BY <1>1, <1>4 DEF GoesOn, Succeeds, ExchangeTypes, Set
<1>5. CASE Takes(t, k) /\ SetsClock(t, k)
  <2>1. air[k] \in Answers /\ air[k].cmd = "A3" /\ cmd[t] = "A3"
    BY <1>5, ElementOfSeq DEF Takes, Accepts, SetsClock, Shapes
  <2>2. air[k].valve \in Valves
    BY <2>1, AnswerFacts
  <2>3. [kind |-> "set", valve |-> air[k].valve, n |-> 0] \in Jobs
    <3>1. PICK v \in Valves : v = air[k].valve
      BY <2>2
    <3>2. 0 \in 0 .. MaxRequests /\ "set" \in Kinds
      BY BoundsAssumption DEF Kinds
    <3>3. QED
      BY <3>1, <3>2, JobsAreApart
  <2>4. step[t] = "read"
    BY ReadAnswerKinds
  <2>5. job[t] \in Jobs
    BY <1>1, <2>1, <2>4 DEF ExchangeTypes, ControlInv, InExchange
  <2>6. QED
    BY <1>1, <1>5, <2>3, <2>5, BeginTypes DEF SetsClock
<1>6. QED
  BY <1>2, <1>3, <1>4, <1>5

LEMMA LoopTypes ==
  ASSUME TypeOK, NEW t \in Threads, NEW kind \in Looping \union {"config"}, Loop(t, kind)
  PROVE  ExchangeTypes' /\ todo' \in [Threads -> SUBSET Valves]
<1>1. ExchangeTypes /\ todo \in [Threads -> SUBSET Valves]
  BY DEF TypeOK, ExchangeTypes
<1>2. CASE NextValve(t, kind)
  <2>1. PICK v \in todo[t] :
          IF Serves(kind, v)
            THEN Begin(t, [kind |-> kind, valve |-> v, n |-> 0]) /\ UNCHANGED <<outer, todo>>
            ELSE todo' = [todo EXCEPT ![t] = @ \ {v}] /\ UNCHANGED exchange
    BY <1>2 DEF NextValve
  <2>2. [kind |-> kind, valve |-> v, n |-> 0] \in Jobs
    BY <1>1, JobsAreApart, BoundsAssumption DEF Looping, Kinds
  <2>3. CASE Serves(kind, v)
    BY <1>1, <2>1, <2>2, <2>3, BeginTypes
  <2>4. CASE ~ Serves(kind, v)
    BY <1>1, <2>1, <2>4 DEF exchange, ExchangeTypes
  <2>5. QED
    BY <2>3, <2>4
<1>3. CASE ValveDone(t, kind)
  <2>1. ExchangeTypes'
    BY <1>1, <1>3 DEF ValveDone, Ends, ExchangeTypes, Set, MAX_A2_A3_RETRY_COUNT
  <2>2. todo' = todo \/ todo' = [todo EXCEPT ![t] = @ \ {job[t].valve}]
    BY <1>3 DEF ValveDone
  <2>3. QED
    BY <1>1, <2>1, <2>2
<1>4. QED
  BY <1>2, <1>3 DEF Loop

LEMMA ExchangeTypesStep ==
  ASSUME TypeOK, Shapes, ControlInv, Next
  PROVE  ExchangeTypes'
<1>1. ExchangeTypes
  BY DEF TypeOK, ExchangeTypes
<1>2. ASSUME NEW t \in Threads, Exchanges(t) PROVE ExchangeTypes'
  <2>1. CASE Write(t)
    BY <1>1, <2>1 DEF Write, Set, ExchangeTypes
  <2>2. CASE ReadTimeout(t)
    BY <1>1, <2>2, NextAttemptTypes DEF ReadTimeout
  <2>3. CASE ClockSet(t)
    BY <1>1, <2>3 DEF ClockSet, Set, ExchangeTypes
  <2>4. QED
    BY <1>2, <2>1, <2>2, <2>3, ReadAnswerTypes DEF Exchanges
<1>3. ASSUME NEW t \in Threads, Loops(t) PROVE ExchangeTypes'
  BY <1>3, LoopTypes DEF Loops
<1>4. CASE Pass
  BY <1>1, <1>4, BeginTypes DEF Pass, Threads, ExchangeTypes
<1>5. CASE SentA1 \/ CardHostCommandDone
  BY <1>1, <1>5 DEF SentA1, CardHostCommandDone, Ends, ExchangeTypes, Set,
       MAX_A2_A3_RETRY_COUNT
<1>6. CASE SendCardHostCommand
  <2>1. cmdBuf # <<>> => Head(cmdBuf) \in Jobs
    BY HeadTailProperties, JobsAreApart DEF Shapes
  <2>2. QED
    BY <1>1, <1>6, <2>1, BeginTypes DEF SendCardHostCommand, Threads, ExchangeTypes
<1>7. CASE Rests
  BY <1>1, <1>7 DEF Rests, GotIds, Round, SaveUsers, FillUsers, LockRound, GotData, GotTime,
       SendForwarderData, GetForwarderInfoTask, NotNoon, DayNoonTimerTask, GotRecords,
       ConfigValve, LockConfig, Configured, CardHost, Ask, exchange, ExchangeTypes
<1>8. QED
  BY <1>2, <1>3, <1>4, <1>5, <1>6, <1>7, StepKinds

(* The answers of s, but for those that are late, are some of r.           *)
Within(s, r) ==
  \E f \in [1 .. Len(s) -> 1 .. Len(r)] :
    /\ \A i, j \in 1 .. Len(s) : f[i] = f[j] => i = j
    /\ \A i \in 1 .. Len(s) : s[i].late \/ s[i] = r[f[i]]

LEMMA LateAnswer ==
  ASSUME NEW a \in Answers, NEW t \in Threads,
         NEW b, b = [a EXCEPT !.late = a.late \/ a.by = t]
  PROVE  /\ b \in Answers
         /\ ~ b.late => b = a /\ a.by # t
<1>1. PICK late \in BOOLEAN : late = (a.late \/ a.by = t)
  BY Zenon
<1>2. b = [a EXCEPT !.late = late]
  BY <1>1, Zenon
<1>3. a.late = FALSE /\ late = FALSE => a = [a EXCEPT !.late = late]
  <2>1. CASE a \in [cmd : {"A1"}, by : Threads, late : BOOLEAN]
    BY <2>1
  <2>2. CASE a \in [cmd : {"A2"}, by : Threads, late : BOOLEAN]
    BY <2>2
  <2>3. CASE a \in [cmd : {"A3"}, valve : Valves, kind : Kinds \union {"null"},
                    by : Threads, late : BOOLEAN]
    BY <2>3
  <2>4. QED
    BY <2>1, <2>2, <2>3 DEF Answers
<1>4. b \in Answers /\ b.late = late
  <2>1. CASE a \in [cmd : {"A1"}, by : Threads, late : BOOLEAN]
    BY <1>2, <2>1 DEF Answers
  <2>2. CASE a \in [cmd : {"A2"}, by : Threads, late : BOOLEAN]
    BY <1>2, <2>2 DEF Answers
  <2>3. CASE a \in [cmd : {"A3"}, valve : Valves, kind : Kinds \union {"null"},
                    by : Threads, late : BOOLEAN]
    BY <1>2, <2>3 DEF Answers
  <2>4. QED
    BY <2>1, <2>2, <2>3 DEF Answers
<1>5. a.late \in BOOLEAN
  BY AnswerFacts
<1>6. ~ b.late => a.late = FALSE /\ late = FALSE /\ a.by # t
  BY <1>1, <1>4, <1>5, Zenon
<1>7. QED
  BY <1>2, <1>3, <1>4, <1>6, Zenon

LEMMA TooLateFacts ==
  ASSUME NEW t \in Threads, NEW s \in Seq(Answers)
  PROVE  /\ TooLate(t, s) \in Seq(Answers) /\ Len(TooLate(t, s)) = Len(s)
         /\ Within(TooLate(t, s), s)
         /\ \A i \in 1 .. Len(s) : TooLate(t, s)[i].late \/ TooLate(t, s)[i].by # t
<1> DEFINE u == TooLate(t, s)
<1>1. \A i \in 1 .. Len(s) : u[i] = [s[i] EXCEPT !.late = s[i].late \/ s[i].by = t]
  BY DEF TooLate
<1>2. \A i \in 1 .. Len(s) :
        u[i] \in Answers /\ (~ u[i].late => u[i] = s[i] /\ s[i].by # t)
  <2>1. SUFFICES ASSUME NEW i \in 1 .. Len(s)
                 PROVE  u[i] \in Answers /\ (~ u[i].late => u[i] = s[i] /\ s[i].by # t)
    OBVIOUS
  <2>2. s[i] \in Answers
    BY ElementOfSeq
  <2>3. QED
    BY <1>1, <2>2, LateAnswer
<1>3. DOMAIN u = 1 .. Len(s) /\ u = [i \in 1 .. Len(s) |-> u[i]] /\ Len(s) \in Nat
  BY LenProperties DEF TooLate
<1> HIDE DEF u
<1>4. u \in Seq(Answers) /\ Len(u) = Len(s)
  BY <1>2, <1>3, IsASeq, LenProperties
<1>5. Within(u, s)
  <2> DEFINE f == [i \in 1 .. Len(u) |-> i]
  <2>1. /\ f \in [1 .. Len(u) -> 1 .. Len(s)]
        /\ \A i, j \in 1 .. Len(u) : f[i] = f[j] => i = j
    BY <1>4
  <2>2. \A i \in 1 .. Len(u) : u[i].late \/ u[i] = s[f[i]]
    BY <1>2, <1>4
  <2> HIDE DEF f
  <2>3. QED
    BY <2>1, <2>2 DEF Within
<1>6. QED
  BY <1>2, <1>4, <1>5 DEF u

LEMMA RestFacts ==
  ASSUME NEW s \in Seq(Answers), NEW k \in 0 .. Len(s)
  PROVE  /\ SubSeq(s, k + 1, Len(s)) \in Seq(Answers)
         /\ Len(SubSeq(s, k + 1, Len(s))) = Len(s) - k
         /\ \A i \in 1 .. Len(s) - k : SubSeq(s, k + 1, Len(s))[i] = s[k + i]
         /\ Within(SubSeq(s, k + 1, Len(s)), s)
<1> DEFINE u == SubSeq(s, k + 1, Len(s))
<1>1. Len(s) \in Nat
  BY LenProperties
<1>2. /\ u \in Seq(Answers) /\ Len(u) = Len(s) - k
      /\ \A i \in 1 .. Len(s) - k : u[i] = s[k + i]
  BY <1>1, SubSeqProperties
<1> HIDE DEF u
<1>3. Within(u, s)
  <2> DEFINE f == [i \in 1 .. Len(u) |-> k + i]
  <2>1. /\ f \in [1 .. Len(u) -> 1 .. Len(s)]
        /\ \A i, j \in 1 .. Len(u) : f[i] = f[j] => i = j
    BY <1>1, <1>2
  <2>2. \A i \in 1 .. Len(u) : u[i].late \/ u[i] = s[f[i]]
    BY <1>2
  <2> HIDE DEF f
  <2>3. QED
    BY <2>1, <2>2 DEF Within
<1>4. QED
  BY <1>2, <1>3 DEF u

LEMMA RemoveFacts ==
  ASSUME NEW s \in Seq(Answers), NEW k \in 1 .. Len(s)
  PROVE  RemoveAt(s, k) \in Seq(Answers) /\ Within(RemoveAt(s, k), s)
<1> DEFINE p == SubSeq(s, 1, k - 1)
           q == SubSeq(s, k + 1, Len(s))
           u == RemoveAt(s, k)
<1>1. Len(s) \in Nat
  BY LenProperties
<1>2. p \in Seq(Answers) /\ Len(p) = k - 1 /\ \A i \in 1 .. k - 1 : p[i] = s[i]
  BY <1>1, SubSeqProperties
<1>3. /\ q \in Seq(Answers) /\ Len(q) = Len(s) - k
      /\ \A i \in 1 .. Len(s) - k : q[i] = s[k + i]
  BY <1>1, RestFacts
<1>4. u = p \o q
  BY DEF RemoveAt
<1> HIDE DEF p, q, u
<1>5. /\ u \in Seq(Answers) /\ Len(u) = Len(s) - 1
      /\ \A i \in 1 .. Len(s) - 1 : u[i] = IF i <= k - 1 THEN p[i] ELSE q[i - (k - 1)]
  <2>1. /\ u \in Seq(Answers) /\ Len(u) = Len(p) + Len(q)
        /\ \A i \in 1 .. Len(p) + Len(q) : u[i] = IF i <= Len(p) THEN p[i] ELSE q[i - Len(p)]
    BY <1>2, <1>3, <1>4, ConcatProperties
  <2>2. Len(p) + Len(q) = Len(s) - 1 /\ Len(p) = k - 1
    BY <1>1, <1>2, <1>3
  <2>3. QED
    BY <2>1, <2>2
<1>6. \A i \in 1 .. Len(s) - 1 : u[i] = s[IF i < k THEN i ELSE i + 1]
  BY <1>1, <1>2, <1>3, <1>5
<1>7. Within(u, s)
  <2> DEFINE f == [i \in 1 .. Len(u) |-> IF i < k THEN i ELSE i + 1]
  <2>1. /\ f \in [1 .. Len(u) -> 1 .. Len(s)]
        /\ \A i, j \in 1 .. Len(u) : f[i] = f[j] => i = j
    BY <1>1, <1>5
  <2>2. \A i \in 1 .. Len(u) : u[i].late \/ u[i] = s[f[i]]
    BY <1>5, <1>6
  <2> HIDE DEF f
  <2>3. QED
    BY <2>1, <2>2 DEF Within
<1>8. QED
  BY <1>5, <1>7 DEF u

LEMMA WithinTrans ==
  ASSUME NEW s, NEW r, NEW q, Within(s, r), Within(r, q)
  PROVE  Within(s, q)
<1>1. PICK f \in [1 .. Len(s) -> 1 .. Len(r)] :
        /\ \A i, j \in 1 .. Len(s) : f[i] = f[j] => i = j
        /\ \A i \in 1 .. Len(s) : s[i].late \/ s[i] = r[f[i]]
  BY DEF Within
<1>2. PICK g \in [1 .. Len(r) -> 1 .. Len(q)] :
        /\ \A i, j \in 1 .. Len(r) : g[i] = g[j] => i = j
        /\ \A i \in 1 .. Len(r) : r[i].late \/ r[i] = q[g[i]]
  BY DEF Within
<1> DEFINE h == [i \in 1 .. Len(s) |-> g[f[i]]]
<1>3. h \in [1 .. Len(s) -> 1 .. Len(q)]
  BY <1>1, <1>2
<1>4. \A i, j \in 1 .. Len(s) : h[i] = h[j] => i = j
  BY <1>1, <1>2
<1>5. \A i \in 1 .. Len(s) : s[i].late \/ s[i] = q[h[i]]
  <2>1. SUFFICES ASSUME NEW i \in 1 .. Len(s), ~ s[i].late PROVE s[i] = q[h[i]]
    OBVIOUS
  <2>2. s[i] = r[f[i]] /\ f[i] \in 1 .. Len(r)
    BY <1>1, <2>1
  <2>3. r[f[i]] = q[g[f[i]]]
    BY <1>2, <2>1, <2>2
  <2>4. QED
    BY <2>2, <2>3
<1> HIDE DEF h
<1>6. QED
  BY <1>3, <1>4, <1>5 DEF Within

LEMMA AnswerToType ==
  ASSUME ExchangeTypes, NEW t \in Threads, step[t] # "idle", InExchange(t),
         NEW kind \in Kinds \union {"null"}
  PROVE  AnswerTo(t, kind) \in Answers
<1>1. cmd[t] \in {"A1", "A2", "A3"}
  BY DEF ExchangeTypes
<1>2. CASE cmd[t] = "A3"
  <2>1. job[t] \in Jobs
    BY <1>2 DEF ExchangeTypes, InExchange
  <2>2. QED
    BY <1>2, <2>1 DEF AnswerTo, Answers, Jobs
<1>3. CASE cmd[t] # "A3"
  BY <1>1, <1>3 DEF AnswerTo, Answers
<1>4. QED
  BY <1>2, <1>3

(* What each thread does to the answers on their way: the line's one       *)
(* addition, and the thread's own losses.                                  *)
NoneAwaited(t) == \A i \in 1 .. Len(air) : air[i].late \/ air[i].by # t

Appends(t) ==
  /\ Len(air') = Len(air) + 1
  /\ \A i \in 1 .. Len(air) : air'[i] = air[i]
  /\ \E kind \in Kinds \union {"null"} :
       /\ air'[Len(air) + 1] = AnswerTo(t, kind)
       /\ cmd[t] = "A3" => kind = held[job[t].valve]

LEMMA WriteKinds ==
  ASSUME TypeOK, Shapes, NEW t \in Threads, InExchange(t), Write(t)
  PROVE  /\ air' \in Seq(Answers)
         /\ Appends(t) \/ UNCHANGED air
<1>1. UNCHANGED air \/ Forwards(t)
  BY DEF Write, line
<1>2. CASE Forwards(t)
  <2>1. cmd[t] = "A3" => job[t].valve \in Valves
    BY DEF InExchange, Write, TypeOK, Jobs
  <2>2. PICK kind \in Kinds \union {"null"} :
          /\ air' = Append(air, AnswerTo(t, kind))
          /\ cmd[t] = "A3" => kind = held[job[t].valve]
    BY <1>2, <2>1 DEF Forwards, TypeOK
  <2>3. AnswerTo(t, kind) \in Answers
    BY AnswerToType DEF Write, TypeOK, ExchangeTypes
  <2>4. QED
    BY <2>2, <2>3, AppendProperties DEF Shapes, Appends
<1>3. QED
  BY <1>1, <1>2 DEF Shapes

LEMMA ReadKinds ==
  ASSUME Shapes, NEW t \in Threads, ReadAnswer(t) \/ ReadTimeout(t)
  PROVE  air' \in Seq(Answers) /\ Within(air', air)
<1>1. air \in Seq(Answers)
  BY DEF Shapes
<1>2. CASE ReadAnswer(t)
  <2>1. PICK k \in 1 .. Len(air) : air' = Rest(k) \/ air' = TooLate(t, Rest(k))
    BY <1>2, ReadAnswerKinds DEF Rejects, Takes
  <2>2. k \in 0 .. Len(air)
    BY <1>1, LenProperties
  <2>3. Rest(k) \in Seq(Answers) /\ Within(Rest(k), air)
    BY <1>1, <2>2, RestFacts DEF Rest
  <2>4. CASE air' = TooLate(t, Rest(k))
    BY <1>1, <2>3, <2>4, TooLateFacts, WithinTrans
  <2>5. QED
    BY <2>1, <2>3, <2>4
<1>3. CASE ReadTimeout(t)
  <2>1. CASE air' = TooLate(t, air)
    BY <1>1, <2>1, TooLateFacts
  <2>2. CASE \E i \in Awaited(t) : air' = TooLate(t, RemoveAt(air, i))
    <3>1. PICK i \in 1 .. Len(air) : air' = TooLate(t, RemoveAt(air, i))
      BY <2>2 DEF Awaited
    <3>2. RemoveAt(air, i) \in Seq(Answers) /\ Within(RemoveAt(air, i), air)
      BY <1>1, RemoveFacts
    <3>3. QED
      BY <1>1, <3>1, <3>2, TooLateFacts, WithinTrans
  <2>3. CASE \E k \in 0 .. Len(air) : air' = SubSeq(air, k + 1, Len(air))
    BY <1>1, <2>3, RestFacts
  <2>4. QED
    BY <1>3, <2>1, <2>2, <2>3 DEF ReadTimeout
<1>4. QED
  BY <1>2, <1>3

LEMMA OthersLeaveAir ==
  ASSUME Next
  PROVE  UNCHANGED air \/ \E t \in Threads : Write(t) \/ ReadAnswer(t) \/ ReadTimeout(t)
BY StepChanges DEF WhoChanges

LEMMA AirTypes ==
  ASSUME TypeOK, Shapes, ControlInv, Next
  PROVE  air' \in Seq(Answers)
BY OthersLeaveAir, WriteKinds, ReadKinds DEF ControlInv, Shapes

(* The valves of which command the thread's loop goes through.             *)
LoopKind(t) == IF t = "monitor" THEN phase ELSE "config"

LEMMA LoopsAtValve ==
  ASSUME ControlInv, NEW t \in Threads, Loops(t), Finished(t)
  PROVE  /\ job[t] \in Jobs /\ job[t].kind = LoopKind(t) /\ job[t].n = 0
         /\ job[t].valve \in todo[t]
BY DEF Finished, Loops, ControlInv, MonitorWorks, PortalWorks, AtValve, Base, LoopKind

ControlTypes ==
  /\ phase \in {"pass", "A1", "id", "round", "save", "fill", "lock", "data", "time",
                "send", "card", "reply", "info", "noon", "record"}
  /\ call \in {"idle", "lock", "config"}
  /\ lock \in Threads \union {"free"}
  /\ todo \in [Threads -> SUBSET Valves]

LEMMA ControlTypesStep ==
  ASSUME TypeOK, Next
  PROVE  ControlTypes'
<1>1. ControlTypes
  BY DEF TypeOK, ControlTypes
<1>2. ASSUME NEW t \in Threads, Exchanges(t) PROVE ControlTypes'
  BY <1>1, <1>2 DEF ControlTypes, Exchanges, Write, ReadAnswer, ReadTimeout, ClockSet, portal
<1>3. ASSUME NEW t \in Threads, Loops(t) PROVE ControlTypes'
  <2>1. PICK kind \in Looping \union {"config"} : Loop(t, kind)
    BY <1>3 DEF Loops
  <2>2. UNCHANGED <<phase, call, lock>>
    BY <2>1 DEF Loop, NextValve, ValveDone, portal
  <2>3. QED
    BY <1>1, <2>1, <2>2, LoopTypes DEF ControlTypes
<1>4. CASE Pass \/ SentA1 \/ SendCardHostCommand \/ CardHostCommandDone
  BY <1>1, <1>4 DEF ControlTypes, Pass, SentA1, SendCardHostCommand, CardHostCommandDone,
     Goes, AllValves, Set, portal
<1>5. CASE Rests
  BY <1>1, <1>5 DEF ControlTypes, Rests, GotIds, Round, SaveUsers, FillUsers, LockRound,
     GotData, GotTime, SendForwarderData, GetForwarderInfoTask, NotNoon, DayNoonTimerTask,
     GotRecords, ConfigValve, LockConfig, Configured, CardHost, Ask, Goes, AllValves,
     ForEachIfReady, Set, portal, Threads
<1>6. QED
  BY <1>2, <1>3, <1>4, <1>5, StepKinds

Flags == {ready, offline, newId, misread} \subseteq BOOLEAN

LEMMA FlagsStep ==
  ASSUME TypeOK, Next
  PROVE  Flags'
<1>1. ready \in BOOLEAN /\ offline \in BOOLEAN /\ newId \in BOOLEAN /\ misread \in BOOLEAN
  BY DEF TypeOK
<1>2. ready' \in BOOLEAN
  <2>1. UNCHANGED ready \/ SentA1 \/ GetForwarderInfoTask
    BY StepChanges DEF WhoChanges
  <2>2. QED
    BY <1>1, <2>1 DEF SentA1, GetForwarderInfoTask
<1>3. offline' \in BOOLEAN
  <2>1. UNCHANGED offline \/ offline' = (step["monitor"] = "failed")
    BY StepChanges DEF WhoChanges, SentA1
  <2>2. QED
    BY <1>1, <2>1, Zenon
<1>4. newId' \in BOOLEAN /\ misread' \in BOOLEAN
  <2>1. \/ UNCHANGED <<newId, misread>>
        \/ newId' = FALSE /\ UNCHANGED misread
        \/ \E t \in Threads : ReadAnswer(t)
    BY StepChanges DEF WhoChanges, FillUsers
  <2>2. ASSUME NEW t \in Threads, ReadAnswer(t)
        PROVE  newId' \in BOOLEAN /\ misread' \in BOOLEAN
    <3>1. PICK k \in 1 .. Len(air) : UNCHANGED <<newId, misread>> \/ Parse(t, air[k])
      BY <2>2, ReadAnswerKinds DEF Rejects, Takes
    <3>2. QED
      BY <1>1, <3>1, Zenon DEF Parse
  <2>3. QED
    BY <1>1, <2>1, <2>2
<1>5. QED
  BY <1>2, <1>3, <1>4 DEF Flags

ValveSets ==
  /\ \A S \in {active, missing, unread, ids, users, gave} : S \subseteq Valves
  /\ behind \in [Valves -> 0 .. Records]

LEMMA FetchedFacts ==
  ASSUME NEW distance \in 0 .. Records
  PROVE  Fetched(distance) \in 0 .. Records
<1>1. Records \in Nat \ {0}
  BY BoundsAssumption
<1>2. (distance + Records - 1) % Records \in 0 .. Records - 1
  BY <1>1
<1>3. QED
  BY <1>1, <1>2 DEF Fetched, Endless

(* A command that comes through: the forwarder's answer, and what becomes  *)
(* of the answer it has of the valve and of the valve.                     *)
LEMMA WorksOnValve ==
  ASSUME TypeOK, NEW t \in Threads, InExchange(t), step[t] # "idle", cmd[t] # "A1"
  PROVE  job[t] \in Jobs /\ job[t].kind \in Kinds /\ job[t].valve \in Valves
         /\ job[t].n \in 0 .. MaxRequests
BY DEF TypeOK, InExchange, Jobs

LEMMA LineTypes ==
  ASSUME TypeOK, Shapes, ControlInv, Next
  PROVE  /\ held' \in [Valves -> Kinds \union {"null"}]
         /\ applied' \in [Requests -> Nat]
         /\ did' \in [Threads -> SUBSET Valves]
         /\ gave' \subseteq Valves
<1>1. /\ held \in [Valves -> Kinds \union {"null"}] /\ applied \in [Requests -> Nat]
      /\ did \in [Threads -> SUBSET Valves] /\ gave \subseteq Valves
  BY DEF TypeOK, Shapes
<1>2. \/ UNCHANGED <<held, applied, did, gave>>
      \/ /\ UNCHANGED <<held, applied>> /\ \E t \in Threads : did' = Set(did, t, {})
         /\ gave' \in {gave, {}}
      \/ \E t \in Threads : Write(t)
  BY StepChanges DEF WhoChanges, Pass, SendForwarderData, Configured, Threads
<1>3. ASSUME NEW t \in Threads, Write(t), Forwards(t), cmd[t] # "A1"
      PROVE  /\ held' \in [Valves -> Kinds \union {"null"}]
             /\ applied' \in [Requests -> Nat] /\ did' \in [Threads -> SUBSET Valves]
             /\ gave' \subseteq Valves
  <2>1. job[t].kind \in Kinds /\ job[t].valve \in Valves
    BY <1>3, WorksOnValve DEF ControlInv, Write
  <2>2. CASE cmd[t] = "A3"
    BY <1>1, <1>3, <2>1, <2>2 DEF Forwards
  <2>3. CASE cmd[t] = "A2"
    <3>1. PICK reached \in BOOLEAN, back \in BOOLEAN :
            /\ Executes(t, reached)
            /\ held' = [held EXCEPT ![job[t].valve] =
                          IF reached /\ back THEN job[t].kind ELSE "null"]
      BY <1>3, <2>3 DEF Forwards
    <3>2. \A n \in Requests : (IF reached /\ n = job[t].n THEN 1 ELSE 0) \in Nat
      OBVIOUS
    <3>3. applied' \in [Requests -> Nat]
      BY <1>1, <3>1, <3>2 DEF Executes
    <3>4. did' \in [Threads -> SUBSET Valves] /\ gave' \subseteq Valves
      BY <1>1, <2>1, <3>1 DEF Executes
    <3>5. held' \in [Valves -> Kinds \union {"null"}]
      BY <1>1, <2>1, <3>1
    <3>6. QED
      BY <3>3, <3>4, <3>5
  <2>4. cmd[t] \in {"A1", "A2", "A3"}
    BY DEF TypeOK
  <2>5. QED
    BY <1>3, <2>2, <2>3, <2>4
<1>4. ASSUME NEW t \in Threads, Write(t), cmd[t] = "A1" \/ ~ Forwards(t)
      PROVE  UNCHANGED <<held, applied, did, gave>>
  BY <1>4 DEF Write, Forwards, line
<1>5. QED
  BY <1>1, <1>2, <1>3, <1>4 DEF Set

LEMMA ParseKeepsSets ==
  ASSUME TypeOK, NEW t, NEW a \in Answers, Parse(t, a)
  PROVE  /\ active' \subseteq Valves /\ ids' \subseteq Valves
         /\ behind' \in [Valves -> 0 .. Records]
<1>1. active \subseteq Valves /\ ids \subseteq Valves /\ behind \in [Valves -> 0 .. Records]
  BY DEF TypeOK
<1>2. active' \subseteq Valves
  BY <1>1, Zenon DEF Parse
<1>3. a.cmd = "A3" => a.valve \in Valves
  BY AnswerFacts
<1>4. ids' \subseteq Valves
  BY <1>1, <1>3 DEF Parse
<1>5. CASE a.cmd = "A3"
  <2>1. PICK distance \in Distances(a) : behind' = [behind EXCEPT ![a.valve] = distance]
    BY <1>5 DEF Parse, Set
  <2>2. behind[a.valve] \in 0 .. Records
    BY <1>1, <1>3, <1>5
  <2>3. Distances(a) \subseteq 0 .. Records
    BY <2>2, FetchedFacts DEF Distances
  <2>4. behind' \in [Valves -> 0 .. Records]
    BY <1>1, <2>1, <2>3
  <2>5. QED
    BY <1>2, <1>4, <2>4
<1>6. CASE a.cmd # "A3"
  <2>1. UNCHANGED behind
    BY <1>6 DEF Parse
  <2>2. QED
    BY <1>1, <1>2, <1>4, <2>1
<1>7. QED
  BY <1>2, <1>4, <1>5, <1>6

LEMMA ValveSetsStep ==
  ASSUME TypeOK, Shapes, ControlInv, Next
  PROVE  ValveSets'
<1> DEFINE Good ==
      /\ active \subseteq Valves /\ missing \subseteq Valves /\ unread \subseteq Valves
      /\ ids \subseteq Valves /\ users \subseteq Valves
      /\ behind \in [Valves -> 0 .. Records]
<1>1. Good
  BY DEF TypeOK
<1>2. ASSUME NEW t \in Threads, Exchanges(t) PROVE Good'
  <2>1. UNCHANGED <<missing, unread, users>>
    BY <1>2 DEF Exchanges, Write, ReadAnswer, ReadTimeout, ClockSet, map
  <2>2. UNCHANGED <<active, ids, behind>>
        \/ \E k \in 1 .. Len(air) : Parse(t, air[k])
    BY <1>2, ReadAnswerKinds DEF Exchanges, Write, ReadTimeout, ClockSet, map, Rejects, Takes
  <2>3. \A k \in 1 .. Len(air) : air[k] \in Answers
    BY DEF TypeOK
  <2>4. QED
    BY <1>1, <2>1, <2>2, <2>3, ParseKeepsSets
<1>3. ASSUME NEW t \in Threads, Loops(t) PROVE Good'
  <2>1. UNCHANGED <<active, ids, behind, users>>
    BY <1>3 DEF Loops, Loop, NextValve, ValveDone, map
  <2>2. \/ UNCHANGED <<missing, unread>>
        \/ /\ missing' \subseteq missing \union {job[t].valve}
           /\ unread' \subseteq unread \union {job[t].valve}
           /\ Finished(t)
    BY <1>3 DEF Loops, Loop, NextValve, ValveDone, map
  <2>3. Finished(t) => job[t].valve \in Valves
    BY <1>3, LoopsAtValve DEF Jobs
  <2>4. QED
    BY <1>1, <2>1, <2>2, <2>3
<1>4. ASSUME Pass \/ SentA1 \/ SendCardHostCommand \/ CardHostCommandDone PROVE Good'
  <2>1. /\ active' \in {active, {}} /\ missing' \in {missing, {}} /\ unread' \in {unread, {}}
        /\ UNCHANGED <<ids, users, behind>>
    BY <1>4 DEF Pass, SentA1, SendCardHostCommand, CardHostCommandDone, map
  <2>2. QED
    BY <1>1, <2>1
<1>5. ASSUME Rests PROVE Good'
  <2>1. /\ unread' \in {unread, {}} /\ users' \in {users, {}, ids}
        /\ UNCHANGED <<active, missing, ids, behind>>
    BY <1>5 DEF Rests, GotIds, Round, SaveUsers, FillUsers, LockRound,
       GotData, GotTime, SendForwarderData, GetForwarderInfoTask, NotNoon, DayNoonTimerTask,
       GotRecords, ConfigValve, LockConfig, Configured, CardHost, Ask, map
  <2>2. QED
    BY <1>1, <2>1
<1>6. Good'
  BY <1>2, <1>3, <1>4, <1>5, StepKinds
<1>7. gave' \subseteq Valves
  BY LineTypes
<1>8. QED
  BY <1>6, <1>7 DEF ValveSets

(* The steps that fault once more than before were allowed to.             *)
LEMMA FaultsStep ==
  ASSUME TypeOK, Next
  PROVE  faults' \in 0 .. MaxFaults
<1>1. faults \in 0 .. MaxFaults /\ MaxFaults \in Nat
  BY BoundsAssumption DEF TypeOK
<1>2. ASSUME NEW fault \in BOOLEAN, MayFail(fault) PROVE faults' \in 0 .. MaxFaults
  BY <1>1, <1>2 DEF MayFail
<1>3. \/ UNCHANGED faults \/ MayFail(TRUE) \/ MayFail(FALSE)
      \/ \E t \in Threads : Write(t)
  BY StepChanges, ReadAnswerKinds DEF WhoChanges, Exchanges, ReadTimeout, ClockSet,
     Rejects, GoesOn, Succeeds, SetsClock
<1>4. ASSUME NEW t \in Threads, Write(t) PROVE faults' \in 0 .. MaxFaults
  <2>1. \/ UNCHANGED faults \/ MayFail(TRUE)
        \/ \E reached, back \in BOOLEAN : MayFail(~ reached \/ ~ back)
    BY <1>4 DEF Write, Forwards
  <2>2. ASSUME NEW reached \in BOOLEAN, NEW back \in BOOLEAN, MayFail(~ reached \/ ~ back)
        PROVE  faults' \in 0 .. MaxFaults
    <3>1. PICK fault \in BOOLEAN : fault = (~ reached \/ ~ back)
      BY Zenon
    <3>2. MayFail(fault)
      BY <2>2, <3>1, Zenon
    <3>3. QED
      BY <1>2, <3>2
  <2>3. QED
    BY <1>1, <1>2, <2>1, <2>2
<1>5. QED
  BY <1>1, <1>2, <1>3, <1>4

(* The requests: those asked and those that wait.                          *)
Calls ==
  /\ cmdBuf \in Seq(CardJobs) /\ asked \in Seq(Asked)
  /\ Len(cmdBuf) <= CardCells /\ Len(asked) <= MaxRequests
  /\ configs \in 0 .. MaxConfigs

(* The request CardHost makes, and what becomes of it.                     *)
Asks(kind, v) ==
  /\ Len(asked) < MaxRequests
  /\ asked' = Append(asked, [kind |-> kind, valve |-> v])

GetsCell(kind, v) ==
  /\ Len(cmdBuf) < CardCells
  /\ cmdBuf' = Append(cmdBuf, [kind |-> kind, valve |-> v, n |-> Len(asked) + 1])
  /\ UNCHANGED replied

IsTurnedAway ==
  /\ UNCHANGED cmdBuf
  /\ \E code \in {"dropped", "failed"} :
       replied' = [replied EXCEPT ![Len(asked) + 1] = code]

LEMMA CardHostKinds ==
  ASSUME CardHost
  PROVE  /\ \E kind \in CardKinds, v \in Valves :
              Asks(kind, v) /\ (GetsCell(kind, v) \/ IsTurnedAway)
         /\ UNCHANGED <<phase, exchange, todo, lock, ready, map, users, portal, line,
                        misread, faults>>
BY Zenon DEF CardHost, Ask, Asks, GetsCell, IsTurnedAway

(* The steps at which the requests that wait change.                       *)
LEMMA CardKindsOfStep ==
  ASSUME Next
  PROVE  \/ CardHost \/ CardHostCommandDone
         \/ UNCHANGED card /\ (UNCHANGED configs \/ ConfigValve)
BY StepChanges DEF WhoChanges

LEMMA CallsStep ==
  ASSUME TypeOK, Shapes, ControlInv, Next
  PROVE  Calls'
<1>1. Calls /\ Len(asked) \in Nat /\ Len(cmdBuf) \in Nat /\ MaxRequests \in Nat
  BY LenProperties, BoundsAssumption DEF TypeOK, Shapes, Calls
<1>2. CASE CardHost
  <2>1. PICK kind \in CardKinds, v \in Valves :
          Asks(kind, v) /\ (GetsCell(kind, v) \/ IsTurnedAway)
    BY <1>2, CardHostKinds
  <2>2. UNCHANGED configs
    BY <1>2, CardHostKinds DEF portal
  <2>3. [kind |-> kind, valve |-> v] \in Asked
    BY DEF Asked
  <2>4. asked' \in Seq(Asked) /\ Len(asked') = Len(asked) + 1
    BY <1>1, <2>1, <2>3, AppendProperties DEF Calls, Asks
  <2>5. Len(asked) + 1 \in 1 .. MaxRequests
    BY <1>1, <2>1 DEF Asks, Calls
  <2>6. [kind |-> kind, valve |-> v, n |-> Len(asked) + 1] \in CardJobs
    BY <2>5 DEF CardJobs
  <2>7. CASE GetsCell(kind, v)
    <3>1. cmdBuf' \in Seq(CardJobs) /\ Len(cmdBuf') = Len(cmdBuf) + 1
      BY <1>1, <2>6, <2>7, AppendProperties DEF GetsCell, Calls
    <3>2. Len(cmdBuf') <= CardCells
      BY <1>1, <2>7, <3>1, BoundsAssumption DEF GetsCell
    <3>3. QED
      BY <1>1, <2>1, <2>2, <2>4, <3>1, <3>2 DEF Calls, Asks
  <2>8. CASE IsTurnedAway
    BY <1>1, <2>1, <2>2, <2>4, <2>8 DEF Calls, Asks, IsTurnedAway
  <2>9. QED
    BY <2>1, <2>7, <2>8
<1>3. CASE CardHostCommandDone
  <2>1. cmdBuf # <<>> /\ cmdBuf' = Tail(cmdBuf)
    BY <1>3 DEF CardHostCommandDone, ControlInv, MonitorWorks
  <2>2. cmdBuf' \in Seq(CardJobs) /\ Len(cmdBuf') = Len(cmdBuf) - 1
    BY <1>1, <2>1, HeadTailProperties DEF Calls
  <2>3. UNCHANGED <<asked, configs>>
    BY <1>3 DEF CardHostCommandDone, portal
  <2>4. QED
    BY <1>1, <2>2, <2>3, BoundsAssumption DEF Calls
<1>4. CASE UNCHANGED <<card, configs>>
  BY <1>1, <1>4 DEF Calls, card
<1>5. CASE UNCHANGED card /\ ConfigValve
  BY <1>1, <1>5, BoundsAssumption DEF Calls, card, ConfigValve
<1>6. QED
  BY <1>2, <1>3, <1>4, <1>5, CardKindsOfStep DEF card

LEMMA CountStep ==
  ASSUME TypeOK, Next
  PROVE  count' \in 0 .. 255
<1>1. count \in 0 .. 255
  BY DEF TypeOK
<1>2. UNCHANGED count \/ count' = 0 \/ count' = (count + 1) % 256
  BY StepChanges DEF WhoChanges, Configured, Loops, Loop, NextValve, ValveDone, portal
<1>3. QED
  BY <1>1, <1>2

Codes == {"nothing", "ok", "failed", "nobody", "dropped"}

(* The open request that is told of is the least one for this user.        *)
TellsOf(n, kind, v) ==
  /\ n \in 1 .. Len(asked) /\ asked[n].kind = kind /\ asked[n].valve = v
  /\ replied[n] = "nothing"

LEMMA TellFacts ==
  ASSUME NEW kind, NEW v, NEW code, Tell(kind, v, code)
  PROVE  /\ replied' = [n \in Requests |-> replied'[n]]
         /\ \A n \in Requests :
              \/ replied'[n] = replied[n]
              \/ /\ replied'[n] = code /\ TellsOf(n, kind, v)
                 /\ \A m \in 1 .. Len(asked) : TellsOf(m, kind, v) => n <= m
         /\ \A n \in Requests :
              /\ TellsOf(n, kind, v)
              /\ \A m \in 1 .. Len(asked) : TellsOf(m, kind, v) => n <= m
              => replied'[n] = code
<1> DEFINE open == {n \in 1 .. Len(asked) : TellsOf(n, kind, v)}
           best(n) == n \in open /\ \A m \in open : n <= m
<1>1. replied' = [n \in Requests |-> IF best(n) THEN code ELSE replied[n]]
  BY Zenon DEF Tell, TellsOf
<1>2. \A n \in Requests :
        best(n) <=> TellsOf(n, kind, v) /\ \A m \in 1 .. Len(asked) : TellsOf(m, kind, v) => n <= m
  BY DEF TellsOf
<1> HIDE DEF best
<1>3. QED
  BY <1>1, <1>2

LEMMA TellTypes ==
  ASSUME TypeOK, NEW kind, NEW v, NEW code \in Codes, Tell(kind, v, code)
  PROVE  replied' \in [Requests -> Codes]
BY TellFacts DEF TypeOK, Codes

LEMMA RepliedTypes ==
  ASSUME TypeOK, Shapes, Next
  PROVE  replied' \in [Requests -> Codes]
<1>1. replied \in [Requests -> Codes]
  BY DEF TypeOK, Codes
<1>2. \/ UNCHANGED replied \/ CardHost
      \/ \E kind, v : \E code \in Codes : Tell(kind, v, code)
  BY StepChanges, ReadAnswerKinds DEF WhoChanges, Rejects, Takes, Parse, CardHostCommandDone,
     Codes
<1>3. CardHost => UNCHANGED replied \/ IsTurnedAway
  BY CardHostKinds DEF GetsCell
<1>4. QED
  BY <1>1, <1>2, <1>3, TellTypes DEF IsTurnedAway, Codes

LEMMA TypesStep ==
  ASSUME TypeOK, Shapes, ControlInv, Next
  PROVE  TypeOK' /\ Shapes'
<1>1. air' \in Seq(Answers) /\ \A i \in 1 .. Len(air') : air'[i] \in Answers
  BY AirTypes, ElementOfSeq
<1>2. /\ ControlTypes' /\ ExchangeTypes' /\ Flags' /\ ValveSets' /\ Calls'
      /\ faults' \in 0 .. MaxFaults /\ count' \in 0 .. 255
      /\ replied' \in [Requests -> Codes]
  BY ControlTypesStep, ExchangeTypesStep, FlagsStep, ValveSetsStep, CallsStep, FaultsStep,
     CountStep, RepliedTypes
<1>3. TypeOK'
  BY <1>1, <1>2, LineTypes DEF TypeOK, ControlTypes, ExchangeTypes, Flags, ValveSets, Calls,
     Codes
<1>4. QED
  BY <1>1, <1>2, <1>3, LineTypes DEF Shapes, Calls

------------------------------------------------------------------------------
(* The threads are where the code can be                                   *)

(* Thread u's part of an exchange is as it was.                            *)
Same(u) ==
  /\ step'[u] = step[u] /\ cmd'[u] = cmd[u] /\ job'[u] = job[u]
  /\ outer'[u] = outer[u] /\ tries'[u] = tries[u]

LEMMA BeginFacts ==
  ASSUME ExchangeTypes, NEW t \in Threads, NEW what \in Jobs \union {A1}, Begin(t, what)
  PROVE  /\ step'[t] = "write" /\ job'[t] = what /\ tries'[t] = 1
         /\ cmd'[t] = IF what = A1 THEN "A1" ELSE "A2"
         /\ \A u \in Threads \ {t} :
              step'[u] = step[u] /\ cmd'[u] = cmd[u] /\ job'[u] = job[u] /\ tries'[u] = tries[u]
<1>1. what.kind = "A1" <=> what = A1
  BY DEF Jobs, Kinds, CardKinds, A1
<1>2. QED
  BY <1>1 DEF Begin, Set, ExchangeTypes

LEMMA EndsFacts ==
  ASSUME ExchangeTypes, NEW t \in Threads, Ends(t)
  PROVE  /\ step'[t] = "idle" /\ job'[t] = None /\ outer' = outer
         /\ \A u \in Threads \ {t} : Same(u)
BY DEF Ends, Set, ExchangeTypes, Same

LEMMA ExchangeControl ==
  ASSUME TypeOK, Shapes, NEW t \in Threads, InExchange(t), Exchanges(t)
  PROVE  /\ step[t] # "idle" /\ step'[t] # "idle"
         /\ InExchange(t)' /\ Base(t)' = Base(t)
         /\ \A u \in Threads \ {t} : Same(u)
         /\ UNCHANGED <<phase, call, todo, lock, ready, offline, missing, unread, users, configs,
                        count, cmdBuf, asked>>
<1>1. ExchangeTypes
  BY DEF TypeOK, ExchangeTypes
<1>2. /\ step[t] # "idle"
      /\ UNCHANGED <<phase, call, todo, lock, ready, offline, missing, unread, users, configs,
                     count, cmdBuf, asked>>
  BY DEF Exchanges, Write, ReadAnswer, ReadTimeout, ClockSet, portal, card, map
<1>3. job[t] # None /\ (cmd[t] = "A1" <=> job[t] = A1)
  BY <1>2 DEF InExchange
<1>4. ASSUME NextAttempt(t), UNCHANGED <<job, outer>>, step[t] = "read"
      PROVE  /\ step'[t] # "idle" /\ InExchange(t)' /\ Base(t)' = Base(t)
             /\ \A u \in Threads \ {t} : Same(u)
  <2>1. step'[t] \in {"failed", "write"} /\ (cmd'[t] = "A1" <=> cmd[t] = "A1")
    BY <1>1, <1>4 DEF NextAttempt, Set, ExchangeTypes
  <2>2. \A u \in Threads \ {t} : Same(u)
    BY <1>1, <1>4 DEF NextAttempt, Set, ExchangeTypes, Same
  <2>3. QED
    BY <1>3, <1>4, <2>1, <2>2 DEF InExchange, Base
<1>5. CASE Write(t)
  <2>1. /\ step'[t] = "read" /\ UNCHANGED <<cmd, job, outer, tries>>
        /\ \A u \in Threads \ {t} : step'[u] = step[u]
    BY <1>1, <1>5 DEF Write, Set, ExchangeTypes
  <2>2. QED
    BY <1>2, <1>3, <2>1 DEF InExchange, Base, Same
<1>6. CASE ReadTimeout(t)
  BY <1>2, <1>4, <1>6 DEF ReadTimeout
<1>7. CASE ClockSet(t)
  <2>1. /\ step'[t] = "ok" /\ job'[t] = outer[t] /\ outer'[t] = None
        /\ UNCHANGED <<cmd, tries>>
        /\ \A u \in Threads \ {t} :
             step'[u] = step[u] /\ job'[u] = job[u] /\ outer'[u] = outer[u]
    BY <1>1, <1>7 DEF ClockSet, Set, ExchangeTypes
  <2>2. outer[t] # None /\ outer[t] \in Jobs /\ job[t] \in Jobs
    BY <1>1, <1>7 DEF ClockSet, ExchangeTypes, InExchange
  <2>3. QED
    BY <1>2, <1>3, <2>1, <2>2, JobsAreApart DEF InExchange, Base, Same
<1>8. CASE ReadAnswer(t)
  <2>1. PICK k \in 1 .. Len(air) :
          \/ Rejects(t, k)
          \/ Takes(t, k) /\ (GoesOn(t) \/ Succeeds(t) \/ SetsClock(t, k))
    BY <1>8, ReadAnswerKinds
  <2>2. step[t] = "read"
    BY <1>8 DEF ReadAnswer
  <2>3. CASE Rejects(t, k)
    BY <1>2, <1>4, <2>2, <2>3 DEF Rejects
  <2>4. CASE GoesOn(t)
    <3>1. /\ step'[t] = "write" /\ cmd'[t] = "A3" /\ cmd[t] = "A2"
          /\ UNCHANGED <<job, outer, tries>>
          /\ \A u \in Threads \ {t} : step'[u] = step[u] /\ cmd'[u] = cmd[u]
      BY <1>1, <2>4 DEF GoesOn, Set, ExchangeTypes
    <3>2. QED
      BY <1>2, <1>3, <3>1 DEF InExchange, Base, Same
  <2>5. CASE Succeeds(t)
    <3>1. /\ step'[t] = "ok" /\ UNCHANGED <<job, outer, tries, cmd>>
          /\ \A u \in Threads \ {t} : step'[u] = step[u]
      BY <1>1, <2>5 DEF Succeeds, Set, ExchangeTypes
    <3>2. QED
      BY <1>2, <1>3, <3>1 DEF InExchange, Base, Same
  <2>6. CASE Takes(t, k) /\ SetsClock(t, k)
    <3> DEFINE set == [kind |-> "set", valve |-> air[k].valve, n |-> 0]
    <3>1. air[k] \in Answers /\ air[k].cmd = "A3" /\ cmd[t] = "A3"
      BY <2>6, ElementOfSeq DEF Takes, Accepts, SetsClock, Shapes
    <3>2. air[k].valve \in Valves
      BY <3>1, AnswerFacts
    <3>3. set \in Jobs /\ set.kind = "set" /\ set.n = 0
      <4>1. PICK v \in Valves : v = air[k].valve
        BY <3>2
      <4>2. 0 \in 0 .. MaxRequests /\ "set" \in Kinds
        BY BoundsAssumption DEF Kinds
      <4>3. QED
        BY <4>1, <4>2, JobsAreApart
    <3>4. job[t] \in Jobs /\ outer[t] = None
      BY <1>1, <1>3, <2>6, <3>1 DEF ExchangeTypes, SetsClock
    <3>5. Begin(t, set) /\ outer' = Set(outer, t, job[t])
      BY <2>6 DEF SetsClock
    <3> HIDE DEF set
    <3>6. /\ outer'[t] = job[t]
          /\ \A u \in Threads \ {t} : outer'[u] = outer[u]
      BY <1>1, <3>5 DEF Set, ExchangeTypes
    <3>7. /\ step'[t] = "write" /\ job'[t] = set /\ cmd'[t] = "A2"
          /\ \A u \in Threads \ {t} :
               step'[u] = step[u] /\ cmd'[u] = cmd[u] /\ job'[u] = job[u]
               /\ tries'[u] = tries[u]
      BY <1>1, <3>3, <3>5, BeginFacts, JobsAreApart
    <3>8. QED
      BY <1>2, <3>3, <3>4, <3>6, <3>7, JobsAreApart DEF InExchange, Base, Same
  <2>7. QED
    BY <2>1, <2>3, <2>4, <2>5, <2>6
<1>9. QED
  BY <1>2, <1>5, <1>6, <1>7, <1>8 DEF Exchanges

LEMMA SameControl ==
  ASSUME NEW u, InExchange(u), Same(u)
  PROVE  InExchange(u)' /\ Base(u)' = Base(u) /\ step'[u] = step[u]
BY DEF InExchange, Base, Same

(* What a step of a loop does: the next valve's exchange begins, or the    *)
(* valve is left out, or its exchange is over.                             *)
NextBegins(t, v) ==
  /\ Serves(LoopKind(t), v)
  /\ Begin(t, [kind |-> LoopKind(t), valve |-> v, n |-> 0])
  /\ UNCHANGED <<outer, todo, missing, unread, count>>

NextSkipped(t, v) ==
  /\ ~ Serves(LoopKind(t), v)
  /\ todo' = [todo EXCEPT ![t] = @ \ {v}]
  /\ UNCHANGED <<step, cmd, job, outer, tries, missing, unread, count>>

LEMMA LoopKinds ==
  ASSUME NEW t \in Threads, Loops(t)
  PROVE  /\ UNCHANGED <<phase, call, lock, ready, offline, active, ids, newId, behind, users,
                        cmdBuf, asked, configs, air, held, applied, did, gave, replied,
                        misread, faults>>
         /\ \/ step[t] = "idle" /\ \E v \in todo[t] : NextBegins(t, v) \/ NextSkipped(t, v)
            \/ ValveDone(t, LoopKind(t))
BY DEF Loops, Loop, LoopKind, NextValve, NextBegins, NextSkipped, ValveDone, Threads,
   portal, map, card, line, exchange

LEMMA LoopControl ==
  ASSUME TypeOK, ControlInv, NEW t \in Threads, Loops(t)
  PROVE  /\ InExchange(t)'
         /\ step'[t] = "idle" \/ AtValve(t, LoopKind(t))'
         /\ \A u \in Threads \ {t} : Same(u) /\ todo'[u] = todo[u]
<1>1. ExchangeTypes /\ InExchange(t) /\ todo \in [Threads -> SUBSET Valves]
  BY DEF TypeOK, ExchangeTypes, ControlInv
<1>2. LoopKind(t)' = LoopKind(t) /\ LoopKind(t) \in Kinds
  BY LoopKinds DEF LoopKind, Loops, Looping, Kinds
<1>3. CASE ValveDone(t, LoopKind(t))
  <2>1. /\ step'[t] = "idle" /\ job'[t] = None /\ outer' = outer /\ outer[t] = None
        /\ \A u \in Threads \ {t} : Same(u)
    BY <1>1, <1>3, EndsFacts DEF ValveDone, Finished
  <2>2. \A u \in Threads \ {t} : todo'[u] = todo[u]
    BY <1>1, <1>3 DEF ValveDone
  <2>3. QED
    BY <2>1, <2>2 DEF InExchange
<1>4. ASSUME NEW v \in todo[t], NextBegins(t, v), step[t] = "idle"
      PROVE  /\ InExchange(t)' /\ AtValve(t, LoopKind(t))'
             /\ \A u \in Threads \ {t} : Same(u) /\ todo'[u] = todo[u]
  <2> DEFINE what == [kind |-> LoopKind(t), valve |-> v, n |-> 0]
  <2>1. what \in Jobs /\ what.kind = LoopKind(t) /\ what.valve = v /\ what.n = 0
    <3>1. v \in Valves /\ 0 \in 0 .. MaxRequests
      BY <1>1, BoundsAssumption
    <3>2. QED
      BY <1>2, <3>1, JobsAreApart
  <2>2. Begin(t, what)
    BY <1>4 DEF NextBegins
  <2> HIDE DEF what
  <2>3. outer[t] = None
    BY <1>1, <1>4, JobsAreApart DEF InExchange
  <2>4. UNCHANGED <<outer, todo>>
    BY <1>4 DEF NextBegins
  <2>5. /\ step'[t] = "write" /\ job'[t] = what /\ cmd'[t] = "A2"
        /\ \A u \in Threads \ {t} : Same(u)
    BY <1>1, <2>1, <2>2, <2>4, BeginFacts, JobsAreApart DEF Same
  <2>6. QED
    BY <1>2, <2>1, <2>3, <2>4, <2>5, JobsAreApart DEF InExchange, AtValve, Base
<1>5. ASSUME NEW v \in todo[t], NextSkipped(t, v), step[t] = "idle"
      PROVE  /\ InExchange(t)' /\ step'[t] = "idle"
             /\ \A u \in Threads \ {t} : Same(u) /\ todo'[u] = todo[u]
  BY <1>1, <1>5 DEF NextSkipped, InExchange, Same
<1>6. QED
  BY <1>3, <1>4, <1>5, LoopKinds

LEMMA ControlStep ==
  ASSUME TypeOK, Shapes, ControlInv, Next
  PROVE  ControlInv'
<1>1. ExchangeTypes /\ \A t \in Threads : InExchange(t)
  BY DEF TypeOK, ExchangeTypes, ControlInv
<1>0. Threads = {"monitor", "portal"} /\ "monitor" \in Threads /\ "portal" \in Threads
  BY DEF Threads
<1>2. ASSUME NEW t \in Threads, Exchanges(t) PROVE ControlInv'
  <2>1. /\ step[t] # "idle" /\ step'[t] # "idle"
        /\ InExchange(t)' /\ Base(t)' = Base(t)
        /\ \A u \in Threads \ {t} : Same(u)
        /\ UNCHANGED <<phase, call, todo, lock, cmdBuf>>
    BY <1>1, <1>2, ExchangeControl
  <2>2. \A u \in Threads : /\ InExchange(u)' /\ Base(u)' = Base(u)
                           /\ step'[u] = "idle" <=> step[u] = "idle"
    BY <1>1, <2>1, SameControl
  <2>3. phase # "A1" => MonitorWorks'
    BY <1>0, <2>1, <2>2 DEF ControlInv, MonitorWorks, AtValve
  <2>4. phase = "A1" => MonitorWorks'
    <3>1. SUFFICES ASSUME phase = "A1" PROVE job'["monitor"] = A1 /\ outer'["monitor"] = None
      BY <2>1 DEF MonitorWorks, Looping
    <3>2. job["monitor"] = A1 /\ outer["monitor"] = None
      BY <3>1 DEF ControlInv, MonitorWorks
    <3>3. Base("monitor") = A1 /\ Base("monitor")' = A1
      BY <1>0, <2>2, <3>2 DEF Base
    <3>4. outer'["monitor"] \in Jobs \union {None}
      BY <1>0, ExchangeTypesStep DEF ExchangeTypes
    <3>5. QED
      BY <3>3, <3>4, JobsAreApart DEF Base
  <2>5. PortalWorks' /\ LockInv'
    BY <1>0, <2>1, <2>2 DEF ControlInv, PortalWorks, AtValve, LockInv
  <2>6. QED
    BY <2>2, <2>3, <2>4, <2>5 DEF ControlInv
<1>3. ASSUME NEW t \in Threads, Loops(t) PROVE ControlInv'
  <2>1. /\ InExchange(t)'
        /\ step'[t] = "idle" \/ AtValve(t, LoopKind(t))'
        /\ \A u \in Threads \ {t} : Same(u) /\ todo'[u] = todo[u]
    BY <1>3, LoopControl
  <2>2. UNCHANGED <<phase, call, lock, cmdBuf>>
    BY <1>3, LoopKinds
  <2>3. \A u \in Threads \ {t} : /\ InExchange(u)' /\ Base(u)' = Base(u)
                                 /\ step'[u] = step[u] /\ todo'[u] = todo[u]
                                 /\ job'[u] = job[u] /\ outer'[u] = outer[u]
    BY <1>1, <2>1, SameControl DEF Same
  <2>4. MonitorWorks'
    <3>1. CASE t = "monitor"
      <4>1. phase \in Looping /\ LoopKind(t) = phase
        BY <1>3, <3>1 DEF Loops, LoopKind
      <4>2. QED
        BY <2>1, <2>2, <3>1, <4>1 DEF MonitorWorks, Looping, AtValve, LoopKind
    <3>2. CASE t # "monitor"
      BY <1>0, <2>2, <2>3, <3>2 DEF ControlInv, MonitorWorks, AtValve
    <3>3. QED
      BY <3>1, <3>2
  <2>5. PortalWorks'
    <3>1. CASE t = "portal"
      BY <1>3, <2>1, <2>2, <3>1 DEF Loops, LoopKind, PortalWorks, AtValve
    <3>2. CASE t # "portal"
      BY <1>0, <2>2, <2>3, <3>2 DEF ControlInv, PortalWorks, AtValve
    <3>3. QED
      BY <3>1, <3>2
  <2>6. QED
    BY <1>0, <2>1, <2>2, <2>3, <2>4, <2>5 DEF ControlInv, LockInv
<1>4. CASE Pass \/ SentA1 \/ SendCardHostCommand \/ CardHostCommandDone
  <2>1. UNCHANGED <<call, lock>> /\ Same("portal") /\ todo'["portal"] = todo["portal"]
    <3>1. UNCHANGED <<call, lock, outer>> /\ todo'["portal"] = todo["portal"]
      BY <1>0, <1>4 DEF Pass, SentA1, SendCardHostCommand, CardHostCommandDone, AllValves, Set,
         portal, Ends, TypeOK
    <3>2. \A f, x : Set(f, "monitor", x)["portal"] = f["portal"]
      BY DEF Set
    <3>3. \A what : Begin("monitor", what) /\ UNCHANGED outer => Same("portal")
      BY <3>2 DEF Begin, Same
    <3>4. Ends("monitor") => Same("portal")
      BY <3>2 DEF Ends, Same
    <3>5. \/ Ends("monitor") \/ (\E what : Begin("monitor", what))
          \/ UNCHANGED <<step, cmd, job, tries>>
      BY <1>4 DEF Pass, SentA1, SendCardHostCommand, CardHostCommandDone
    <3>6. QED
      BY <3>1, <3>3, <3>4, <3>5 DEF Same
  <2>2. /\ InExchange("portal")' /\ Base("portal")' = Base("portal")
        /\ step'["portal"] = step["portal"]
    BY <1>1, <1>0, <2>1, SameControl
  <2>3. PortalWorks'
    BY <2>1, <2>2 DEF ControlInv, PortalWorks, AtValve
  <2>4. LockInv'
    BY <1>4, <2>1 DEF ControlInv, LockInv, Pass, SentA1, SendCardHostCommand,
       CardHostCommandDone, Goes
  <2>5. CASE Ends("monitor") /\ Finished("monitor") /\ phase' \notin {"A1", "reply"}
    <3>1. step'["monitor"] = "idle" /\ job'["monitor"] = None /\ outer'["monitor"] = None
      BY <1>1, <1>0, <2>5, EndsFacts DEF Finished
    <3>2. InExchange("monitor")' /\ MonitorWorks'
      BY <2>5, <3>1 DEF InExchange, MonitorWorks
    <3>3. QED
      BY <1>0, <2>2, <2>3, <2>4, <3>2 DEF ControlInv
  <2>6. ASSUME NEW what \in Jobs \union {A1}, Begin("monitor", what), UNCHANGED outer,
               step["monitor"] = "idle",
               \/ phase' = "A1" /\ what = A1
               \/ phase' = "reply" /\ cmdBuf' # <<>> /\ what = Head(cmdBuf')
        PROVE  ControlInv'
    <3>1. outer["monitor"] = None /\ what # None
      BY <1>1, <1>0, <2>6, JobsAreApart DEF InExchange
    <3>2. /\ step'["monitor"] = "write" /\ job'["monitor"] = what
          /\ outer'["monitor"] = None
          /\ cmd'["monitor"] = IF what = A1 THEN "A1" ELSE "A2"
      BY <1>1, <1>0, <2>6, <3>1, BeginFacts
    <3>3. InExchange("monitor")' /\ MonitorWorks'
      BY <2>6, <3>1, <3>2 DEF InExchange, MonitorWorks, Looping, Base
    <3>4. QED
      BY <1>0, <2>2, <2>3, <2>4, <3>3 DEF ControlInv
  <2>7. CASE UNCHANGED <<step, cmd, job, tries, outer>> /\ step["monitor"] = "idle"
             /\ phase' \notin {"A1", "reply"}
    <3>1. InExchange("monitor")' /\ MonitorWorks'
      BY <1>1, <1>0, <2>7 DEF InExchange, MonitorWorks
    <3>2. QED
      BY <1>0, <2>2, <2>3, <2>4, <3>1 DEF ControlInv
  <2>8. CASE Pass
    <3>1. step["monitor"] = "idle" /\ UNCHANGED outer
      BY <2>8 DEF Pass, ControlInv, MonitorWorks, Looping
    <3>2. \/ phase' = "A1" /\ Begin("monitor", A1)
          \/ phase' = "round" /\ UNCHANGED <<step, cmd, job, tries>>
      BY <2>8 DEF Pass, Goes
    <3>3. QED
      BY <2>6, <2>7, <3>1, <3>2
  <2>9. CASE SendCardHostCommand
    <3>1. step["monitor"] = "idle" /\ UNCHANGED <<outer, cmdBuf>>
      BY <2>9 DEF SendCardHostCommand, ControlInv, MonitorWorks, Looping, card
    <3>2. \/ phase' = "info" /\ UNCHANGED <<step, cmd, job, tries>>
          \/ phase' = "reply" /\ cmdBuf # <<>> /\ Begin("monitor", Head(cmdBuf))
      BY <2>9 DEF SendCardHostCommand, Goes
    <3>3. cmdBuf # <<>> => Head(cmdBuf) \in Jobs
      BY HeadTailProperties, JobsAreApart DEF Shapes
    <3>4. QED
      BY <2>6, <2>7, <3>1, <3>2, <3>3
  <2>10. QED
    BY <1>4, <2>5, <2>8, <2>9 DEF SentA1, CardHostCommandDone, Goes
<1>5. CASE Rests
  <2>1. UNCHANGED <<step, cmd, job, outer, tries>>
    BY <1>5, CardHostKinds DEF Rests, GotIds, Round, SaveUsers, FillUsers, LockRound,
       GotData, GotTime, SendForwarderData, GetForwarderInfoTask, NotNoon, DayNoonTimerTask,
       GotRecords, ConfigValve, LockConfig, Configured, exchange
  <2>2. \A t \in Threads : InExchange(t)' /\ Base(t)' = Base(t) /\ step'[t] = step[t]
    BY <1>1, <2>1 DEF InExchange, Base
  <2>3. CASE CardHost
    <3>1. UNCHANGED <<phase, call, lock, todo>>
      BY <2>3, CardHostKinds DEF portal
    <3>2. cmdBuf # <<>> => cmdBuf' # <<>> /\ Head(cmdBuf') = Head(cmdBuf)
      <4>1. UNCHANGED cmdBuf \/ \E e : cmdBuf' = Append(cmdBuf, e)
        BY <2>3, CardHostKinds DEF GetsCell, IsTurnedAway
      <4>2. cmdBuf \in Seq(CardJobs)
        BY DEF Shapes
      <4>3. QED
        BY <4>1, <4>2
    <3>3. QED
      BY <1>0, <2>1, <2>2, <3>1, <3>2 DEF ControlInv, MonitorWorks, AtValve, PortalWorks, LockInv
  <2>4. CASE ConfigValve \/ LockConfig \/ Configured
    <3>1. UNCHANGED <<phase, cmdBuf>> /\ todo'["monitor"] = todo["monitor"]
      BY <2>4, <1>0 DEF ConfigValve, LockConfig, Configured, AllValves, Set, card, TypeOK
    <3>2. MonitorWorks'
      BY <1>0, <2>1, <2>2, <3>1 DEF ControlInv, MonitorWorks, AtValve
    <3>3. PortalWorks' /\ LockInv'
      <4>1. call # "config" \/ LoopEnds("portal") => step'["portal"] = "idle"
        BY <2>1 DEF ControlInv, PortalWorks, LoopEnds
      <4>2. QED
        BY <2>4, <2>1, <3>1, <4>1 DEF ControlInv, PortalWorks, LockInv, ConfigValve, LockConfig,
           Configured
    <3>4. QED
      BY <2>2, <3>2, <3>3 DEF ControlInv
  <2>5. CASE \/ GotIds \/ Round \/ SaveUsers \/ FillUsers \/ LockRound \/ GotData \/ GotTime
             \/ SendForwarderData \/ GetForwarderInfoTask \/ NotNoon \/ DayNoonTimerTask
             \/ GotRecords
    <3>1. /\ step["monitor"] = "idle" /\ phase' \notin {"A1", "reply"}
          /\ call' = call /\ todo'["portal"] = todo["portal"]
          /\ lock = "free" \/ call # "config" \/ lock' = lock
      BY <2>5, <1>0 DEF GotIds, Round, SaveUsers, FillUsers, LockRound, GotData, GotTime,
         SendForwarderData, GetForwarderInfoTask, NotNoon, DayNoonTimerTask, GotRecords,
         ControlInv, MonitorWorks, LockInv, Looping, LoopEnds, Goes, AllValves, ForEachIfReady,
         Set, portal, TypeOK
    <3>2. MonitorWorks'
      BY <2>1, <3>1 DEF MonitorWorks
    <3>3. PortalWorks'
      BY <1>0, <2>1, <2>2, <3>1 DEF ControlInv, PortalWorks, AtValve
    <3>4. LockInv'
      BY <2>5, <3>1 DEF GotIds, Round, SaveUsers, FillUsers, LockRound, GotData, GotTime,
         SendForwarderData, GetForwarderInfoTask, NotNoon, DayNoonTimerTask, GotRecords,
         ControlInv, LockInv, Goes
    <3>5. QED
      BY <2>2, <3>2, <3>3, <3>4 DEF ControlInv
  <2>6. QED
    BY <1>5, <2>3, <2>4, <2>5 DEF Rests
<1>6. QED
  BY <1>2, <1>3, <1>4, <1>5, StepKinds

------------------------------------------------------------------------------
(* The requests                                                            *)

(* The monitor works on a request of the card host, and not on a clock.    *)
OnRequest ==
  /\ phase = "reply" /\ outer["monitor"] = None /\ step["monitor"] # "idle"
  /\ cmdBuf # <<>> /\ job["monitor"] = Head(cmdBuf)
  /\ job["monitor"] = cmdBuf[1] /\ cmd["monitor"] # "A1" /\ 1 \in 1 .. Len(cmdBuf)

LEMMA ReplyIsOnRequest ==
  ASSUME TypeOK, Shapes, ControlInv, phase = "reply", outer["monitor"] = None
  PROVE  OnRequest
<1>1. cmdBuf # <<>> /\ job["monitor"] = Head(cmdBuf)
  BY DEF ControlInv, MonitorWorks, Base
<1>2. Head(cmdBuf) = cmdBuf[1] /\ 1 \in 1 .. Len(cmdBuf) /\ Head(cmdBuf) \in Jobs
  BY <1>1, HeadTailProperties, EmptySeq, JobsAreApart DEF Shapes
<1>3. step["monitor"] # "idle" /\ cmd["monitor"] # "A1"
  BY <1>1, <1>2, JobsAreApart DEF ControlInv, InExchange, Threads
<1>4. QED
  BY <1>1, <1>2, <1>3 DEF OnRequest

(* Only what the card host asked for counts among the requests.            *)
LEMMA OtherJobs ==
  ASSUME TypeOK, Shapes, ControlInv, NEW t \in Threads, step[t] # "idle", cmd[t] # "A1"
  PROVE  job[t].n = 0 \/ (t = "monitor" /\ OnRequest)
<1>1. InExchange(t) /\ job[t] # A1 /\ job[t] # None
  BY DEF ControlInv, InExchange
<1>2. CASE outer[t] # None
  BY <1>1, <1>2 DEF InExchange
<1>3. CASE outer[t] = None /\ t = "portal"
  BY <1>3 DEF ControlInv, PortalWorks, AtValve, Base
<1>4. CASE outer[t] = None /\ t = "monitor"
  <2>1. phase \in Looping \union {"reply"}
    BY <1>1, <1>4 DEF ControlInv, MonitorWorks
  <2>2. phase \in Looping => job[t].n = 0
    BY <1>4 DEF ControlInv, MonitorWorks, AtValve, Base
  <2>3. QED
    BY <1>4, <2>1, <2>2, ReplyIsOnRequest
<1>5. QED
  BY <1>2, <1>3, <1>4 DEF Threads

(* What a command that comes through does to the requests and the valve.   *)
LEMMA WriteWorks ==
  ASSUME TypeOK, NEW t \in Threads, Write(t)
  PROVE  \/ UNCHANGED <<applied, did, gave>> /\ (cmd[t] = "A2" => UNCHANGED line)
         \/ /\ cmd[t] = "A2"
            /\ \E reached, back \in BOOLEAN :
                 /\ Executes(t, reached)
                 /\ held' = [held EXCEPT ![job[t].valve] =
                               IF reached /\ back THEN job[t].kind ELSE "null"]
BY DEF Write, Forwards, line

LEMMA AppliedKinds ==
  ASSUME TypeOK, Shapes, ControlInv, Next
  PROVE  \/ UNCHANGED applied
         \/ /\ Write("monitor") /\ OnRequest /\ cmd["monitor"] = "A2"
            /\ \E reached \in BOOLEAN : \A n \in Requests :
                 applied'[n] = applied[n] + IF reached /\ n = job["monitor"].n THEN 1 ELSE 0
<1>1. UNCHANGED applied \/ \E t \in Threads : Write(t)
  BY StepChanges DEF WhoChanges
<1>2. SUFFICES ASSUME NEW t \in Threads, Write(t), applied' # applied
               PROVE  /\ t = "monitor" /\ OnRequest /\ cmd["monitor"] = "A2"
                      /\ \E reached \in BOOLEAN : \A n \in Requests :
                           applied'[n] = applied[n]
                             + IF reached /\ n = job["monitor"].n THEN 1 ELSE 0
  BY <1>1
<1>3. PICK reached \in BOOLEAN : cmd[t] = "A2" /\ Executes(t, reached)
  BY <1>2, WriteWorks
<1>4. applied' = [n \in Requests |-> applied[n] + IF reached /\ n = job[t].n THEN 1 ELSE 0]
  BY <1>3 DEF Executes
<1>5. job[t].n # 0
  <2>1. SUFFICES ASSUME job[t].n = 0 PROVE applied' = applied
    BY <1>2
  <2>2. \A n \in Requests : n # job[t].n /\ applied[n] + 0 = applied[n]
    BY <2>1, BoundsAssumption DEF Requests, TypeOK
  <2>3. applied' = [n \in Requests |-> applied[n]]
    BY <1>4, <2>2
  <2>4. QED
    BY <2>3 DEF TypeOK
<1>6. step[t] # "idle"
  BY <1>2 DEF Write
<1>7. t = "monitor" /\ OnRequest
  BY <1>3, <1>5, <1>6, OtherJobs
<1>8. QED
  BY <1>3, <1>4, <1>7

(* Which replies a step may change.                                        *)
LEMMA RepliedKinds ==
  ASSUME Next
  PROVE  \/ UNCHANGED replied \/ (CardHost /\ IsTurnedAway)
         \/ /\ \E t \in Threads : ReadAnswer(t)
            /\ \E kind, v : Tell(kind, v, "ok")
         \/ /\ CardHostCommandDone /\ step["monitor"] = "failed"
            /\ \E code \in {"failed", "nobody"} :
                 Tell(job["monitor"].kind, job["monitor"].valve, code)
<1>1. ASSUME NEW t \in Threads, ReadAnswer(t)
      PROVE  UNCHANGED replied \/ \E kind, v : Tell(kind, v, "ok")
  BY <1>1, ReadAnswerKinds DEF Rejects, Takes, Parse
<1>2. CardHost => UNCHANGED replied \/ IsTurnedAway
  BY CardHostKinds DEF GetsCell
<1>3. QED
  BY <1>1, <1>2, StepChanges DEF WhoChanges, CardHostCommandDone

LEMMA WaitingStep ==
  ASSUME TypeOK, Shapes, ControlInv, RequestsInv, Next
  PROVE  WaitingInv'
<1>1. /\ cmdBuf \in Seq(CardJobs) /\ asked \in Seq(Asked)
      /\ Len(asked) \in Nat /\ Len(cmdBuf) \in Nat /\ Len(asked) <= MaxRequests
      /\ MaxRequests \in Nat /\ applied \in [Requests -> Nat]
  <2>1. /\ cmdBuf \in Seq(CardJobs) /\ asked \in Seq(Asked) /\ MaxRequests \in Nat
        /\ Len(asked) <= MaxRequests /\ applied \in [Requests -> Nat]
    BY BoundsAssumption DEF TypeOK, Shapes
  <2>2. Len(asked) \in Nat /\ Len(cmdBuf) \in Nat
    BY <2>1, LenProperties
  <2>3. QED
    BY <2>1, <2>2
<1>2. \A i \in 1 .. Len(cmdBuf) : cmdBuf[i].n \in 1 .. Len(asked) /\ cmdBuf[i].n \in Requests
  <2>1. \A n \in 1 .. Len(asked) : n \in Requests
    BY <1>1 DEF Requests
  <2>2. QED
    BY <2>1 DEF RequestsInv, WaitingInv
<1>3. CASE CardHost
  <2>1. PICK kind \in CardKinds, v \in Valves :
          Asks(kind, v) /\ (GetsCell(kind, v) \/ IsTurnedAway)
    BY <1>3, CardHostKinds
  <2>2. UNCHANGED <<phase, applied>>
    BY <1>3, CardHostKinds DEF line
  <2> DEFINE last == Len(asked) + 1
  <2>3. /\ Len(asked') = last /\ \A n \in 1 .. Len(asked) : asked'[n] = asked[n]
        /\ asked'[last] = [kind |-> kind, valve |-> v]
    BY <1>1, <2>1, AppendProperties DEF Asks, Asked
  <2>4. last \in Requests /\ last > Len(asked)
    BY <1>1, <2>1 DEF Asks, Requests, TypeOK
  <2>5. applied[last] = 0
    BY <2>4 DEF RequestsInv, NotYetAsked
  <2>6. CASE GetsCell(kind, v)
    <3> DEFINE new == [kind |-> kind, valve |-> v, n |-> last]
    <3>1. new \in CardJobs
      BY <2>4 DEF CardJobs, Requests
    <3>2. cmdBuf' = Append(cmdBuf, new)
      BY <2>6 DEF GetsCell
    <3>3. new.n = last /\ new.kind = kind /\ new.valve = v
      OBVIOUS
    <3> HIDE DEF new, last
    <3>4. /\ Len(cmdBuf') = Len(cmdBuf) + 1
          /\ \A i \in 1 .. Len(cmdBuf) : cmdBuf'[i] = cmdBuf[i]
          /\ cmdBuf'[Len(cmdBuf) + 1] = new
      BY <1>1, <3>1, <3>2, AppendProperties
    <3>5. ASSUME NEW i \in 1 .. Len(cmdBuf')
          PROVE  /\ cmdBuf'[i].n \in 1 .. Len(asked')
                 /\ asked'[cmdBuf'[i].n] = [kind |-> cmdBuf'[i].kind, valve |-> cmdBuf'[i].valve]
                 /\ applied'[cmdBuf'[i].n] = 0 \/ (i = 1 /\ phase' = "reply")
      <4>1. CASE i \in 1 .. Len(cmdBuf)
        <5>1. /\ cmdBuf'[i] = cmdBuf[i] /\ cmdBuf[i].n \in 1 .. Len(asked)
              /\ asked[cmdBuf[i].n] = [kind |-> cmdBuf[i].kind, valve |-> cmdBuf[i].valve]
              /\ applied[cmdBuf[i].n] = 0 \/ (i = 1 /\ phase = "reply")
          BY <3>4, <4>1 DEF RequestsInv, WaitingInv
        <5>2. cmdBuf[i].n \in 1 .. Len(asked')
          BY <1>1, <2>3, <5>1 DEF last
        <5>3. QED
          BY <2>2, <2>3, <5>1, <5>2
      <4>2. CASE i = Len(cmdBuf) + 1
        <5>1. last \in 1 .. last
          BY <1>1 DEF last
        <5>2. QED
          BY <2>2, <2>3, <2>5, <3>3, <3>4, <4>2, <5>1
      <4>3. QED
        BY <1>1, <3>4, <4>1, <4>2
    <3>6. ASSUME NEW i \in 1 .. Len(cmdBuf'), NEW j \in 1 .. Len(cmdBuf'), i < j
          PROVE  cmdBuf'[i].n < cmdBuf'[j].n
      <4>1. i \in 1 .. Len(cmdBuf) /\ cmdBuf'[i] = cmdBuf[i]
        BY <1>1, <3>4, <3>6
      <4>2. CASE j \in 1 .. Len(cmdBuf)
        BY <3>4, <3>6, <4>1, <4>2 DEF RequestsInv, WaitingInv
      <4>3. CASE j = Len(cmdBuf) + 1
        <5>1. cmdBuf[i].n \in 1 .. Len(asked)
          BY <1>2, <4>1
        <5>2. cmdBuf[i].n < last
          BY <1>1, <5>1 DEF last
        <5>3. QED
          BY <3>3, <3>4, <4>1, <4>3, <5>2
      <4>4. QED
        BY <1>1, <3>4, <4>2, <4>3
    <3>7. QED
      BY <3>5, <3>6 DEF WaitingInv
  <2>7. CASE IsTurnedAway
    <3> HIDE DEF last
    <3>1. ASSUME NEW i \in 1 .. Len(cmdBuf)
          PROVE  /\ cmdBuf[i].n \in 1 .. Len(asked')
                 /\ asked'[cmdBuf[i].n] = [kind |-> cmdBuf[i].kind, valve |-> cmdBuf[i].valve]
      <4>1. cmdBuf[i].n \in 1 .. Len(asked)
        BY <1>2
      <4>2. cmdBuf[i].n \in 1 .. last
        BY <1>1, <4>1 DEF last
      <4>3. QED
        BY <2>3, <4>1, <4>2 DEF RequestsInv, WaitingInv
    <3>2. UNCHANGED cmdBuf
      BY <2>7 DEF IsTurnedAway
    <3>3. QED
      BY <2>2, <3>1, <3>2 DEF RequestsInv, WaitingInv
  <2>8. QED
    BY <2>1, <2>6, <2>7
<1>4. CASE CardHostCommandDone
  <2>1. cmdBuf # <<>> /\ cmdBuf' = Tail(cmdBuf) /\ UNCHANGED <<asked, applied>>
    BY <1>4 DEF CardHostCommandDone, ControlInv, MonitorWorks, line
  <2>2. /\ Len(cmdBuf') = Len(cmdBuf) - 1
        /\ \A i \in 1 .. Len(cmdBuf') : cmdBuf'[i] = cmdBuf[i + 1]
    BY <1>1, <2>1, HeadTailProperties
  <2>3. \A i \in 1 .. Len(cmdBuf') : i + 1 \in 1 .. Len(cmdBuf) /\ i + 1 # 1
    BY <1>1, <2>2
  <2>4. \A i, j \in 1 .. Len(cmdBuf') : i < j => i + 1 < j + 1
    OBVIOUS
  <2>5. QED
    BY <2>1, <2>2, <2>3, <2>4 DEF RequestsInv, WaitingInv
<1>5. CASE UNCHANGED card
  <2>1. UNCHANGED <<cmdBuf, asked>>
    BY <1>5 DEF card
  <2>2. ASSUME NEW i \in 1 .. Len(cmdBuf)
        PROVE  applied'[cmdBuf[i].n] = 0 \/ (i = 1 /\ phase' = "reply")
    <3>1. CASE i = 1 /\ phase = "reply"
      <4>1. phase' = "reply" \/ CardHostCommandDone
        BY <3>1, StepKinds DEF Exchanges, Loops, Loop, Write, ReadAnswer, ReadTimeout,
           ClockSet, Looping, NextValve, ValveDone, Pass, SentA1, SendCardHostCommand, Rests,
           GotIds, Round, SaveUsers, FillUsers, LockRound, GotData, GotTime,
           SendForwarderData, NotNoon, DayNoonTimerTask, GetForwarderInfoTask, GotRecords,
           ConfigValve, LockConfig, Configured, CardHost, Ask
      <4>2. QED
        BY <1>1, <2>1, <3>1, <4>1, HeadTailProperties
        DEF CardHostCommandDone, ControlInv, MonitorWorks
    <3>2. CASE ~ (i = 1 /\ phase = "reply")
      <4>1. applied[cmdBuf[i].n] = 0
        BY <3>2 DEF RequestsInv, WaitingInv
      <4>2. CASE UNCHANGED applied
        BY <4>1, <4>2
      <4>3. CASE Write("monitor") /\ OnRequest
                 /\ \E reached \in BOOLEAN : \A n \in Requests :
                      applied'[n] = applied[n] + IF reached /\ n = job["monitor"].n THEN 1 ELSE 0
        <5>1. i # 1 /\ job["monitor"] = cmdBuf[1] /\ 1 \in 1 .. Len(cmdBuf)
          BY <3>2, <4>3 DEF OnRequest
        <5>2. cmdBuf[1].n < cmdBuf[i].n
          <6>1. 1 < i
            BY <1>1, <5>1
          <6>2. QED
            BY <5>1, <6>1 DEF RequestsInv, WaitingInv
        <5>3. cmdBuf[i].n # job["monitor"].n /\ cmdBuf[i].n \in Requests
          BY <1>1, <1>2, <5>1, <5>2
        <5>4. applied'[cmdBuf[i].n] = applied[cmdBuf[i].n] + 0
          BY <4>3, <5>3
        <5>5. QED
          BY <4>1, <5>4
      <4>4. QED
        BY <4>2, <4>3, AppliedKinds
    <3>3. QED
      BY <3>1, <3>2
  <2>3. QED
    BY <2>1, <2>2 DEF RequestsInv, WaitingInv
<1>6. QED
  BY <1>3, <1>4, <1>5, CardKindsOfStep

LEMMA AskedGrows ==
  ASSUME Shapes, CardHost
  PROVE  Len(asked') = Len(asked) + 1
<1>1. PICK kind \in CardKinds, v \in Valves : asked' = Append(asked, [kind |-> kind, valve |-> v])
  BY CardHostKinds DEF Asks
<1>2. [kind |-> kind, valve |-> v] \in Asked /\ asked \in Seq(Asked)
  BY DEF Asked, Shapes
<1>3. QED
  BY <1>1, <1>2, AppendProperties

LEMMA NotYetAskedStep ==
  ASSUME TypeOK, Shapes, ControlInv, RequestsInv, Next
  PROVE  NotYetAsked'
<1>1. SUFFICES ASSUME NEW n \in Requests, n > Len(asked')
               PROVE  applied'[n] = 0 /\ replied'[n] = "nothing"
  BY DEF NotYetAsked, Requests
<1>2. n \in Nat /\ Len(asked) \in Nat /\ cmdBuf \in Seq(CardJobs) /\ asked \in Seq(Asked)
  BY <1>1, LenProperties DEF Shapes, Requests
<1>3. Len(asked') = Len(asked) \/ (CardHost /\ Len(asked') = Len(asked) + 1)
  BY CardKindsOfStep, AskedGrows DEF card, CardHostCommandDone
<1>4. n > Len(asked) /\ applied[n] = 0 /\ replied[n] = "nothing"
  <2>1. n > Len(asked)
    BY <1>1, <1>2, <1>3
  <2>2. QED
    BY <2>1 DEF RequestsInv, NotYetAsked
<1>5. applied'[n] = 0
  <2>1. ASSUME OnRequest PROVE n # job["monitor"].n
    <3>1. job["monitor"].n \in 1 .. Len(asked)
      BY <2>1 DEF OnRequest, RequestsInv, WaitingInv
    <3>2. QED
      BY <1>2, <1>4, <3>1
  <2>2. QED
    BY <1>4, <2>1, AppliedKinds
<1>6. replied'[n] = "nothing"
  <2>1. ASSUME NEW kind, NEW v, NEW code, Tell(kind, v, code) PROVE replied'[n] = replied[n]
    <3>1. ~ TellsOf(n, kind, v)
      BY <1>2, <1>4 DEF TellsOf
    <3>2. QED
      BY <2>1, <3>1, TellFacts
  <2>2. CASE CardHost /\ IsTurnedAway
    <3>1. Len(asked') = Len(asked) + 1
      BY <2>2, AskedGrows
    <3>2. n # Len(asked) + 1
      BY <1>1, <1>2, <3>1
    <3>3. QED
      BY <1>4, <2>2, <3>2 DEF IsTurnedAway, TypeOK
  <2>3. QED
    BY <1>4, <2>1, <2>2, RepliedKinds
<1>7. QED
  BY <1>5, <1>6

(* The two attempts of SendA2A3, and what each of its steps spends.        *)
LEMMA AttemptSpends ==
  ASSUME TypeOK, Shapes, ControlInv, Exchanges("monitor"), OnRequest,
         step["monitor"] \in {"write", "read"},
         outer'["monitor"] = None, step'["monitor"] \in {"write", "read"}
  PROVE  /\ Spent \in 0 .. 2 /\ Spent' \in 0 .. 2 /\ Spent <= Spent'
         /\ Write("monitor") /\ cmd["monitor"] = "A2" => Spent + 1 <= Spent'
<1>1. /\ tries["monitor"] \in 1 .. 2 /\ "monitor" \in Threads
      /\ ExchangeTypes /\ cmd["monitor"] # "A1" /\ outer["monitor"] = None
      /\ step["monitor"] # "idle"
  BY DEF TypeOK, ExchangeTypes, MAX_A2_A3_RETRY_COUNT, Threads, OnRequest
<1>2. Spent \in 0 .. 2
  BY <1>1 DEF Spent
<1>3. CASE Write("monitor")
  <2>1. step["monitor"] = "write" /\ step'["monitor"] = "read" /\ UNCHANGED <<tries, cmd>>
    BY <1>1, <1>3 DEF Write, Set, ExchangeTypes
  <2>2. QED
    BY <1>1, <2>1 DEF Spent
<1>4. ASSUME NextAttempt("monitor"), step["monitor"] = "read"
      PROVE  Spent <= Spent' /\ Spent' \in 0 .. 2
  <2>1. Spent = tries["monitor"]
    BY <1>4 DEF Spent
  <2>2. /\ step'["monitor"] = "write" /\ cmd'["monitor"] = "A2"
        /\ tries'["monitor"] = tries["monitor"] + 1 /\ tries["monitor"] # 2
    BY <1>1, <1>4 DEF NextAttempt, Set, ExchangeTypes, MAX_A2_A3_RETRY_COUNT
  <2>3. QED
    BY <1>1, <2>1, <2>2 DEF Spent
<1>5. CASE ReadTimeout("monitor")
  BY <1>2, <1>4, <1>5 DEF ReadTimeout, Write
<1>6. CASE ClockSet("monitor")
  BY <1>1, <1>6 DEF ClockSet
<1>7. CASE ReadAnswer("monitor")
  <2>1. step["monitor"] = "read"
    BY <1>7 DEF ReadAnswer
  <2>2. PICK k \in 1 .. Len(air) :
          \/ Rejects("monitor", k)
          \/ Takes("monitor", k)
             /\ (GoesOn("monitor") \/ Succeeds("monitor") \/ SetsClock("monitor", k))
    BY <1>7, ReadAnswerKinds
  <2>3. CASE Rejects("monitor", k)
    BY <1>2, <1>4, <2>1, <2>3 DEF Rejects, Write
  <2>4. CASE GoesOn("monitor")
    <3>1. step'["monitor"] = "write" /\ cmd'["monitor"] = "A3" /\ UNCHANGED tries
      BY <1>1, <2>4 DEF GoesOn, Set, ExchangeTypes
    <3>2. QED
      BY <1>1, <2>1, <3>1 DEF Spent, Write
  <2>5. CASE Succeeds("monitor")
    BY <1>1, <2>5 DEF Succeeds, Set, ExchangeTypes
  <2>6. CASE SetsClock("monitor", k)
    <3>1. outer'["monitor"] = job["monitor"]
      BY <1>1, <2>6 DEF SetsClock, Set, ExchangeTypes
    <3>2. QED
      BY <1>1, <3>1 DEF ControlInv, InExchange
  <2>7. QED
    BY <2>2, <2>3, <2>4, <2>5, <2>6
<1>8. QED
  BY <1>2, <1>3, <1>5, <1>6, <1>7 DEF Exchanges

LEMMA AttemptsStep ==
  ASSUME TypeOK, Shapes, ControlInv, RequestsInv, Next
  PROVE  AttemptsInv'
<1>1. /\ applied \in [Requests -> Nat] /\ tries["monitor"] \in 1 .. 2
      /\ \A n \in Requests : applied[n] <= 2
      /\ Threads = {"monitor", "portal"} /\ "monitor" \in Threads /\ ExchangeTypes
  BY DEF TypeOK, RequestsInv, AttemptsInv, MAX_A2_A3_RETRY_COUNT, Threads, ExchangeTypes
<1>2. OnRequest => job["monitor"].n \in Requests
  <2>1. CardJobs \subseteq [kind : CardKinds, valve : Valves, n : Requests]
    BY DEF CardJobs, Requests
  <2>2. QED
    BY <2>1, ElementOfSeq DEF OnRequest, Shapes
<1>3. \A n \in Requests : applied'[n] <= 2
  <2>1. SUFFICES ASSUME NEW n \in Requests, NEW reached \in BOOLEAN,
                        Write("monitor"), OnRequest, cmd["monitor"] = "A2",
                        applied'[n] = applied[n] + IF reached /\ n = job["monitor"].n THEN 1 ELSE 0
                 PROVE  applied'[n] <= 2
    BY <1>1, AppliedKinds
  <2>2. CASE n # job["monitor"].n
    BY <1>1, <2>1, <2>2
  <2>3. CASE n = job["monitor"].n
    <3>1. applied[n] <= tries["monitor"] - 1
      BY <2>1, <2>3 DEF RequestsInv, AttemptsInv, OnRequest, Write, Spent
    <3>2. QED
      BY <1>1, <2>1, <3>1
  <2>4. QED
    BY <2>2, <2>3
<1>4. ASSUME phase' = "reply", outer'["monitor"] = None, step'["monitor"] \in {"write", "read"}
      PROVE  applied'[job'["monitor"].n] <= Spent'
  <2>1. CASE Exchanges("monitor")
    <3>1. /\ phase = "reply" /\ step["monitor"] # "idle" /\ Base("monitor")' = Base("monitor")
      BY <1>1, <1>4, <2>1, ExchangeControl DEF ControlInv
    <3>2. outer["monitor"] = None /\ step["monitor"] \in {"write", "read"}
      <4>1. ~ ClockSet("monitor")
        BY <1>1, <1>4 DEF ClockSet, Set, ExchangeTypes
      <4>2. step["monitor"] \in {"write", "read"}
        BY <2>1, <4>1 DEF Exchanges, Write, ReadAnswer, ReadTimeout
      <4>3. outer' = outer \/ outer' = Set(outer, "monitor", job["monitor"])
        BY <2>1, <4>1, ReadAnswerKinds DEF Exchanges, Write, ReadTimeout, exchange,
           Rejects, GoesOn, Succeeds, SetsClock
      <4>4. outer' = outer
        BY <1>1, <1>4, <3>1, <4>3 DEF Set, ExchangeTypes, ControlInv, InExchange
      <4>5. QED
        BY <1>4, <4>2, <4>4
    <3>3. OnRequest /\ job'["monitor"] = job["monitor"]
      BY <1>4, <3>1, <3>2, ReplyIsOnRequest DEF Base
    <3>4. /\ Spent \in 0 .. 2 /\ Spent' \in 0 .. 2 /\ Spent <= Spent'
          /\ Write("monitor") /\ cmd["monitor"] = "A2" => Spent + 1 <= Spent'
      BY <1>4, <2>1, <3>2, <3>3, AttemptSpends
    <3>5. PICK n \in Requests : n = job["monitor"].n
      BY <1>2, <3>3
    <3>6. applied[n] <= Spent
      BY <3>1, <3>2, <3>5 DEF RequestsInv, AttemptsInv
    <3>7. applied'[n] = applied[n]
            \/ (applied'[n] = applied[n] + 1 /\ Write("monitor") /\ cmd["monitor"] = "A2")
      BY <1>1, AppliedKinds
    <3>8. QED
      BY <1>1, <3>3, <3>4, <3>5, <3>6, <3>7
  <2>2. CASE SendCardHostCommand
    <3>1. Begin("monitor", Head(cmdBuf)) /\ cmdBuf # <<>> /\ phase = "card"
          /\ UNCHANGED applied
      BY <1>4, <2>2 DEF SendCardHostCommand, Goes, line
    <3>2. Head(cmdBuf) \in Jobs /\ Head(cmdBuf) = cmdBuf[1] /\ 1 \in 1 .. Len(cmdBuf)
      BY <3>1, HeadTailProperties, EmptySeq, JobsAreApart DEF Shapes
    <3>3. /\ step'["monitor"] = "write" /\ job'["monitor"] = cmdBuf[1]
          /\ tries'["monitor"] = 1 /\ cmd'["monitor"] = "A2"
      BY <1>1, <3>1, <3>2, BeginFacts, JobsAreApart
    <3>4. Spent' = 0
      BY <3>3 DEF Spent
    <3>5. applied[cmdBuf[1].n] = 0
      BY <3>1, <3>2 DEF RequestsInv, WaitingInv
    <3>6. QED
      BY <3>1, <3>3, <3>4, <3>5
  <2>3. CASE /\ UNCHANGED <<phase, applied>> /\ Same("monitor")
    BY <1>4, <2>3 DEF Same, Spent, RequestsInv, AttemptsInv
  <2>4. CASE \E t \in Threads : t # "monitor" /\ (Exchanges(t) \/ Loops(t))
    <3>1. PICK t \in Threads : t # "monitor" /\ (Exchanges(t) \/ Loops(t))
      BY <2>4
    <3>2. phase' = phase /\ Same("monitor")
      BY <1>1, <3>1, ExchangeControl, LoopControl, LoopKinds DEF ControlInv
    <3>3. UNCHANGED applied
      <4>1. Write("monitor") => step["monitor"] = "write" /\ step'["monitor"] = "read"
        BY <1>1 DEF Write, Set, ExchangeTypes
      <4>2. QED
        BY <3>2, <4>1, AppliedKinds DEF Same
    <3>4. QED
      BY <2>3, <3>2, <3>3
  <2>5. CASE Rests
    <3>1. UNCHANGED exchange /\ UNCHANGED applied
      BY <2>5, CardHostKinds DEF Rests, GotIds, Round, SaveUsers, FillUsers, LockRound,
         GotData, GotTime, SendForwarderData, GetForwarderInfoTask, NotNoon, DayNoonTimerTask,
         GotRecords, ConfigValve, LockConfig, Configured, line
    <3>2. UNCHANGED phase
      BY <1>4, <2>5, CardHostKinds DEF Rests, GotIds, Round, SaveUsers, FillUsers, LockRound,
         GotData, GotTime, SendForwarderData, GetForwarderInfoTask, NotNoon, DayNoonTimerTask,
         GotRecords, ConfigValve, LockConfig, Configured, Goes
    <3>3. QED
      BY <2>3, <3>1, <3>2 DEF exchange, Same
  <2>6. ~ (Pass \/ SentA1 \/ CardHostCommandDone \/ Loops("monitor"))
    <3>1. ~ Loops("monitor")
      BY <1>1, <1>4, LoopKinds DEF Loops, Looping
    <3>2. QED
      BY <1>4, <3>1, Zenon DEF Pass, SentA1, CardHostCommandDone, Goes
  <2>7. QED
    BY <1>1, <2>1, <2>2, <2>4, <2>5, <2>6, StepKinds
<1>5. QED
  BY <1>3, <1>4 DEF AttemptsInv, MAX_A2_A3_RETRY_COUNT

LEMMA RequestsStep ==
  ASSUME TypeOK, Shapes, ControlInv, RequestsInv, Next
  PROVE  RequestsInv'
BY WaitingStep, NotYetAskedStep, AttemptsStep DEF RequestsInv

------------------------------------------------------------------------------
(* What is true while no answer is taken for another one                   *)

LEMMA MisreadStays ==
  ASSUME Next, ~ misread'
  PROVE  ~ misread
<1>1. UNCHANGED misread \/ \E t \in Threads : ReadAnswer(t)
  BY StepChanges DEF WhoChanges
<1>2. ASSUME NEW t \in Threads, ReadAnswer(t) PROVE ~ misread
  <2>1. PICK k \in 1 .. Len(air) : UNCHANGED misread \/ Parse(t, air[k])
    BY <1>2, ReadAnswerKinds DEF Rejects, Takes
  <2>2. QED
    BY <2>1, Zenon DEF Parse
<1>3. QED
  BY <1>1, <1>2

(* The answers thread t waits for are some of those it waited for.         *)
OneAwaited(t) == \A i, j \in Awaited(t) : i = j

Fewer(t) ==
  /\ \A i \in Awaited(t)' : \E j \in Awaited(t) : air'[i] = air[j]
  /\ OneAwaited(t) => OneAwaited(t)'

LEMMA WithinFewer ==
  ASSUME NEW t, Within(air', air)
  PROVE  Fewer(t)
<1>1. PICK f \in [1 .. Len(air') -> 1 .. Len(air)] :
        /\ \A i, j \in 1 .. Len(air') : f[i] = f[j] => i = j
        /\ \A i \in 1 .. Len(air') : air'[i].late \/ air'[i] = air[f[i]]
  BY DEF Within
<1>2. \A i \in Awaited(t)' : f[i] \in Awaited(t) /\ air'[i] = air[f[i]]
  BY <1>1 DEF Awaited
<1>3. \A i \in Awaited(t)' : i \in 1 .. Len(air')
  BY DEF Awaited
<1>4. QED
  BY <1>1, <1>2, <1>3 DEF Fewer, OneAwaited

LEMMA FewerAnswers ==
  ASSUME TypeOK, Shapes, ControlInv, Next, NEW t \in Threads, ~ Write(t)
  PROVE  Fewer(t)
<1>1. CASE UNCHANGED air
  BY <1>1 DEF Fewer, OneAwaited, Awaited
<1>2. ASSUME NEW u \in Threads, ReadAnswer(u) \/ ReadTimeout(u) PROVE Fewer(t)
  BY <1>2, ReadKinds, WithinFewer
<1>3. ASSUME NEW u \in Threads, u # t, Appends(u) PROVE Fewer(t)
  <2>1. Len(air) \in Nat /\ Len(air') = Len(air) + 1
    BY <1>3, LenProperties DEF Appends, Shapes
  <2>2. air'[Len(air) + 1].by = u
    BY <1>3 DEF Appends, AnswerTo
  <2>3. \A i \in Awaited(t)' : i \in Awaited(t) /\ air'[i] = air[i]
    BY <1>3, <2>1, <2>2 DEF Appends, Awaited
  <2>4. QED
    BY <2>3 DEF Fewer, OneAwaited
<1>4. ASSUME NEW u \in Threads, u # t, Write(u) PROVE Fewer(t)
  BY <1>1, <1>3, <1>4, WriteKinds DEF ControlInv
<1>5. QED
  BY <1>1, <1>2, <1>4, OthersLeaveAir

LEMMA NotReading ==
  ASSUME NEW t, ExchangeIsTrue(t)
  PROVE  OneAwaited(t) /\ (step[t] # "read" => Awaited(t) = {})
BY DEF ExchangeIsTrue, AnswersAreTrue, OneAwaited

(* Which jobs are the threads' own.                                        *)
LEMMA OwnJobs ==
  ASSUME TypeOK, Shapes, ControlInv, NEW t \in Threads, step[t] # "idle"
  PROVE  /\ job[t].kind \in CardKinds => job[t].n \in Requests
         /\ Base(t).kind \in CardKinds => Base(t).n \in Requests
         /\ IF t = "portal" THEN job[t].kind \in {"config", "set"} ELSE job[t].kind # "config"
<1>1. CASE t = "portal"
  <2>1. Base(t).kind = "config" /\ (job[t] = Base(t) \/ job[t].kind = "set")
    BY <1>1 DEF ControlInv, PortalWorks, AtValve, InExchange, Base
  <2>2. QED
    BY <1>1, <2>1 DEF CardKinds
<1>2. CASE t = "monitor" /\ phase # "reply"
  <2>1. Base(t).kind \in Looping \union {"A1"} /\ (job[t] = Base(t) \/ job[t].kind = "set")
    BY <1>2 DEF ControlInv, MonitorWorks, AtValve, InExchange, Base, A1
  <2>2. QED
    BY <1>2, <2>1 DEF CardKinds, Looping
<1>3. CASE t = "monitor" /\ phase = "reply"
  <2>1. Base(t) \in CardJobs /\ (job[t] = Base(t) \/ job[t].kind = "set")
    <3>1. cmdBuf # <<>> /\ Base(t) = Head(cmdBuf)
      BY <1>3 DEF ControlInv, MonitorWorks
    <3>2. Head(cmdBuf) \in CardJobs
      BY <3>1, HeadTailProperties DEF Shapes
    <3>3. QED
      BY <3>1, <3>2 DEF ControlInv, InExchange, Base
  <2>2. Base(t).n \in Requests /\ Base(t).kind \in CardKinds
    BY <2>1 DEF CardJobs, Requests
  <2>3. QED
    BY <1>3, <2>1, <2>2 DEF CardKinds
<1>4. QED
  BY <1>1, <1>2, <1>3 DEF Threads

(* What was done stays so while the thread has an exchange.                *)
Grows(t) ==
  /\ \A n \in Requests : applied[n] > 0 => applied'[n] > 0
  /\ did[t] \subseteq did'[t]
  /\ t = "monitor" => gave \subseteq gave'

LEMMA GrowsStep ==
  ASSUME TypeOK, Shapes, ControlInv, Next, NEW t \in Threads, step[t] # "idle"
  PROVE  Grows(t)
<1>1. /\ applied \in [Requests -> Nat] /\ did \in [Threads -> SUBSET Valves]
  BY DEF TypeOK, Shapes
<1>2. \A n \in Requests : applied[n] > 0 => applied'[n] > 0
  <2>1. SUFFICES ASSUME NEW n \in Requests, applied[n] > 0 PROVE applied'[n] > 0
    OBVIOUS
  <2>2. applied'[n] = applied[n] \/ applied'[n] = applied[n] + 1
    <3>1. applied[n] \in Nat
      BY <1>1
    <3>2. QED
      BY <3>1, AppliedKinds
  <2>3. QED
    BY <1>1, <2>1, <2>2
<1>3. \/ UNCHANGED <<did, gave>> \/ (\E u \in Threads : Write(u))
      \/ did' = Set(did, "monitor", {}) /\ (Pass \/ SendForwarderData)
      \/ did' = Set(did, "portal", {}) /\ Configured
  <2>1. Configured => UNCHANGED gave
    BY DEF Configured
  <2>2. QED
    BY <2>1, StepChanges DEF WhoChanges, Pass, SendForwarderData, Configured
<1>4. ASSUME NEW u \in Threads, Write(u)
      PROVE  did[t] \subseteq did'[t] /\ gave \subseteq gave'
  <2>1. /\ did' = did \/ did' = [did EXCEPT ![u] = @ \union {job[u].valve}]
        /\ gave' = gave \/ gave' = gave \union {job[u].valve}
    BY <1>4, WriteWorks DEF Executes
  <2>2. QED
    BY <1>1, <2>1
<1>5. CASE did' = Set(did, "monitor", {}) /\ (Pass \/ SendForwarderData)
  <2>1. step["monitor"] = "idle"
    BY <1>5 DEF Pass, SendForwarderData, ControlInv, MonitorWorks, Looping
  <2>2. t = "portal"
    BY <2>1 DEF Threads
  <2>3. QED
    BY <1>1, <1>2, <1>5, <2>2 DEF Set, Grows
<1>6. CASE did' = Set(did, "portal", {}) /\ Configured
  <2>1. step["portal"] = "idle"
    BY <1>6 DEF Configured, LoopEnds
  <2>2. t = "monitor" /\ UNCHANGED gave
    BY <1>6, <2>1 DEF Threads, Configured
  <2>3. QED
    BY <1>1, <1>2, <1>6, <2>2 DEF Set, Grows
<1>7. QED
  BY <1>2, <1>3, <1>4, <1>5, <1>6 DEF Grows

LEMMA DoneStays ==
  ASSUME NEW t, NEW what, Grows(t), what.kind \in CardKinds => what.n \in Requests
  PROVE  WasDone(t, what) => /\ what.kind \in CardKinds => applied'[what.n] > 0
                             /\ what.kind \in {"time", "config"} => what.valve \in did'[t]
                             /\ t = "monitor" /\ what.kind = "data" => what.valve \in gave'
BY DEF WasDone, Grows

LEMMA WriteForwards ==
  ASSUME TypeOK, Shapes, NEW t \in Threads, InExchange(t), Write(t)
  PROVE  UNCHANGED line \/ (Appends(t) /\ Forwards(t))
<1>1. SUFFICES ASSUME Forwards(t) PROVE Appends(t)
  BY DEF Write
<1>2. air' = Append(air, AnswerTo(t, IF cmd[t] = "A3" THEN held[job[t].valve] ELSE "null"))
  BY <1>1 DEF Forwards
<1>3. Appends(t) \/ UNCHANGED air
  BY WriteKinds
<1>4. air' # air
  BY <1>2 DEF Shapes
<1>5. QED
  BY <1>3, <1>4

(* A thread that waits for no answer and has heard none.                   *)
LEMMA FreshIsTrue ==
  ASSUME NEW t, Awaited(t)' = {}, step'[t] \notin {"read", "ok"},
         cmd'[t] # "A3" \/ step'[t] = "idle",
         outer'[t] = None
  PROVE  ExchangeIsTrue(t)'
BY DEF ExchangeIsTrue, AnswersAreTrue

LEMMA NoneLeft ==
  ASSUME NEW t, Awaited(t) = {}, Fewer(t)
  PROVE  Awaited(t)' = {}
BY DEF Fewer

(* The forwarder's answer of a valve stands for what the thread's own      *)
(* command did, whatever another thread sends.                             *)
LEMMA HeldStays ==
  ASSUME TypeOK, Shapes, ControlInv, Next, NEW t \in Threads, ~ Write(t), step[t] # "idle",
         job[t] \in Jobs, held'[job[t].valve] = job[t].kind
  PROVE  held[job[t].valve] = job[t].kind \/ WasDone(t, job[t])
<1>1. job[t].kind \in Kinds /\ job[t].valve \in Valves /\ held \in [Valves -> Kinds \union {"null"}]
  BY DEF Jobs, TypeOK
<1>2. UNCHANGED held \/ \E u \in Threads : Write(u)
  BY StepChanges DEF WhoChanges
<1>3. ASSUME NEW u \in Threads, Write(u)
      PROVE  held[job[t].valve] = job[t].kind \/ WasDone(t, job[t])
  <2>1. u # t /\ step[u] # "idle"
    BY <1>3 DEF Write
  <2>2. \/ UNCHANGED held
        \/ held' = [held EXCEPT ![job[u].valve] = "null"]
        \/ held' = [held EXCEPT ![job[u].valve] = job[u].kind]
    <3>1. CASE UNCHANGED line \/ cmd[u] = "A1"
      BY <1>3, <3>1 DEF Write, Forwards, line
    <3>2. CASE Forwards(u) /\ cmd[u] = "A2"
      BY <3>2 DEF Forwards
    <3>3. CASE Forwards(u) /\ cmd[u] = "A3"
      BY <3>3 DEF Forwards
    <3>4. cmd[u] \in {"A1", "A2", "A3"}
      BY DEF TypeOK
    <3>5. QED
      BY <1>3, <3>1, <3>2, <3>3, <3>4 DEF Write
  <2>3. "null" \notin Kinds
    BY DEF Kinds, CardKinds
  <2>4. held[job[t].valve] = job[t].kind \/ job[u].kind = job[t].kind
    BY <1>1, <2>2, <2>3
  <2>5. job[u].kind = job[t].kind => job[t].kind = "set"
    BY <2>1, OwnJobs DEF Threads
  <2>6. job[t].kind = "set" => WasDone(t, job[t])
    BY DEF WasDone, CardKinds
  <2>7. QED
    BY <2>4, <2>5, <2>6
<1>4. QED
  BY <1>2, <1>3

LEMMA Undisturbed ==
  ASSUME TypeOK, Shapes, ControlInv, Next, NEW t \in Threads, ~ Write(t), Same(t),
         ExchangeIsTrue(t)
  PROVE  ExchangeIsTrue(t)'
<1>1. Fewer(t)
  BY FewerAnswers
<1>2. OneAwaited(t) /\ OneAwaited(t)'
  BY <1>1, NotReading DEF Fewer
<1>3. CASE step[t] = "idle"
  <2>1. Awaited(t)' = {}
    BY <1>1, <1>3, NoneLeft, NotReading
  <2>2. outer[t] = None
    BY <1>3, JobsAreApart DEF ControlInv, InExchange
  <2>3. QED
    BY <1>3, <2>1, <2>2, FreshIsTrue DEF Same
<1>4. CASE step[t] # "idle"
  <2>1. Grows(t)
    BY <1>4, GrowsStep
  <2>2. /\ WasDone(t, job[t]) => WasDone(t, job[t])'
        /\ WasDone(t, Base(t)) => WasDone(t, Base(t))'
    <3>1. job'[t] = job[t] /\ Base(t)' = Base(t)
      BY DEF Same, Base
    <3>2. QED
      BY <1>4, <2>1, <3>1, OwnJobs DEF WasDone, Grows
  <2>3. cmd[t] # "A1" => (IfHeldDone(t) => IfHeldDone(t)')
    <3>1. SUFFICES ASSUME cmd[t] # "A1", IfHeldDone(t), held'[job[t].valve] = job[t].kind
                   PROVE  WasDone(t, job[t])'
      BY DEF IfHeldDone, Same
    <3>2. job[t] \in Jobs
      BY <1>4, <3>1, WorksOnValve DEF ControlInv
    <3>3. held[job[t].valve] = job[t].kind \/ WasDone(t, job[t])
      BY <1>4, <3>1, <3>2, HeldStays
    <3>4. QED
      BY <2>2, <3>1, <3>3 DEF IfHeldDone
  <2>4. AnswersAreTrue(t)'
    <3>1. SUFFICES ASSUME NEW i \in Awaited(t)', NEW j \in Awaited(t), air'[i] = air[j]
                   PROVE  /\ step'[t] = "read" /\ air'[i].cmd = cmd'[t]
                          /\ \A k \in Awaited(t)' : i = k
                          /\ cmd'[t] = "A2" => IfHeldDone(t)'
                          /\ cmd'[t] = "A3" =>
                               /\ air'[i].valve = job'[t].valve
                               /\ air'[i].kind = job'[t].kind => WasDone(t, job[t])'
      BY <1>1 DEF AnswersAreTrue, Fewer
    <3>2. /\ step[t] = "read" /\ air[j].cmd = cmd[t]
          /\ cmd[t] = "A2" => IfHeldDone(t)
          /\ cmd[t] = "A3" => /\ air[j].valve = job[t].valve
                              /\ air[j].kind = job[t].kind => WasDone(t, job[t])
      BY DEF ExchangeIsTrue, AnswersAreTrue
    <3>3. QED
      BY <1>2, <2>2, <2>3, <3>1, <3>2 DEF Same, OneAwaited
  <2>5. QED
    BY <2>2, <2>3, <2>4 DEF ExchangeIsTrue, Same
<1>5. QED
  BY <1>3, <1>4

LEMMA WriteIsTrue ==
  ASSUME TypeOK, Shapes, ControlInv, Next, NEW t \in Threads, Write(t), ExchangeIsTrue(t)
  PROVE  ExchangeIsTrue(t)'
<1>1. ExchangeTypes /\ InExchange(t) /\ step[t] = "write"
  BY DEF TypeOK, ExchangeTypes, ControlInv, Write
<1>2. step'[t] = "read" /\ UNCHANGED <<cmd, job, outer, tries>>
  BY <1>1 DEF Write, Set, ExchangeTypes
<1>3. Awaited(t) = {}
  BY <1>1, NotReading
<1>4. /\ WasDone(t, job[t]) => WasDone(t, job[t])'
      /\ WasDone(t, Base(t)) => WasDone(t, Base(t))'
  <2>1. Grows(t)
    BY <1>1, GrowsStep
  <2>2. job'[t] = job[t] /\ Base(t)' = Base(t)
    BY <1>2 DEF Base
  <2>3. QED
    BY <1>1, <2>1, <2>2, OwnJobs DEF WasDone, Grows
<1>5. \/ UNCHANGED line
      \/ Appends(t) /\ Forwards(t)
  BY <1>1, WriteForwards DEF Write
<1>6. CASE UNCHANGED line
  <2>1. Awaited(t)' = {} /\ UNCHANGED held
    BY <1>3, <1>6 DEF line, Awaited
  <2>2. AnswersAreTrue(t)'
    BY <2>1 DEF AnswersAreTrue
  <2>3. IfHeldDone(t) => IfHeldDone(t)'
    BY <1>2, <1>4, <2>1 DEF IfHeldDone
  <2>4. QED
    BY <1>1, <1>2, <1>4, <2>2, <2>3 DEF ExchangeIsTrue
<1>7. CASE Appends(t) /\ Forwards(t)
  <2>1. PICK kind \in Kinds \union {"null"} :
          /\ air'[Len(air) + 1] = AnswerTo(t, kind)
          /\ cmd[t] = "A3" => kind = held[job[t].valve]
    BY <1>7 DEF Appends
  <2>2. \A i \in Awaited(t)' : i = Len(air) + 1
    <3>1. Len(air) \in Nat
      BY LenProperties DEF Shapes
    <3>2. QED
      BY <1>3, <1>7, <3>1 DEF Appends, Awaited
  <2>3. air'[Len(air) + 1].cmd = cmd[t]
    BY <2>1 DEF AnswerTo
  <2>4. cmd[t] # "A1" => job[t].valve \in Valves /\ job[t].kind \in Kinds
    BY <1>1, WorksOnValve
  <2>5. cmd[t] = "A2" => IfHeldDone(t)'
    <3>1. SUFFICES ASSUME cmd[t] = "A2", held'[job[t].valve] = job[t].kind
                   PROVE  WasDone(t, job[t])'
      BY <1>2 DEF IfHeldDone
    <3>2. PICK reached \in BOOLEAN, back \in BOOLEAN :
            /\ Executes(t, reached)
            /\ held' = [held EXCEPT ![job[t].valve] =
                          IF reached /\ back THEN job[t].kind ELSE "null"]
      BY <1>7, <3>1 DEF Forwards
    <3>3. reached
      <4>1. "null" \notin Kinds
        BY DEF Kinds, CardKinds
      <4>2. QED
        BY <2>4, <3>1, <3>2, <4>1 DEF TypeOK
    <3>4. job[t].kind \in CardKinds => applied'[job[t].n] > 0
      <4>1. SUFFICES ASSUME job[t].kind \in CardKinds PROVE applied'[job[t].n] > 0
        OBVIOUS
      <4>2. job[t].n \in Requests
        BY <1>1, <4>1, OwnJobs
      <4>3. applied'[job[t].n] = applied[job[t].n] + 1 /\ applied[job[t].n] \in Nat
        BY <3>2, <3>3, <4>2 DEF Executes, TypeOK
      <4>4. QED
        BY <4>3
    <3>5. job[t].kind \in {"time", "config"} => job[t].valve \in did'[t]
      BY <3>2, <3>3 DEF Executes, Shapes
    <3>6. job[t].kind = "data" => job[t].valve \in gave'
      BY <3>2, <3>3 DEF Executes
    <3>7. QED
      BY <1>2, <3>4, <3>5, <3>6 DEF WasDone
  <2>6. cmd[t] = "A3" => IfHeldDone(t)'
    <3>1. SUFFICES ASSUME cmd[t] = "A3" PROVE held'[job[t].valve] = "null"
      BY <1>2, <2>4 DEF IfHeldDone, Kinds, CardKinds
    <3>2. QED
      BY <1>7, <2>4, <3>1 DEF Forwards, TypeOK
  <2>7. cmd[t] = "A3" => /\ air'[Len(air) + 1].valve = job[t].valve
                         /\ air'[Len(air) + 1].kind = job[t].kind => WasDone(t, job[t])'
    <3>1. SUFFICES ASSUME cmd[t] = "A3"
                   PROVE  /\ air'[Len(air) + 1].valve = job[t].valve
                          /\ air'[Len(air) + 1].kind = job[t].kind => WasDone(t, job[t])'
      OBVIOUS
    <3>2. air'[Len(air) + 1].valve = job[t].valve /\ air'[Len(air) + 1].kind = held[job[t].valve]
      BY <2>1, <3>1 DEF AnswerTo
    <3>3. IfHeldDone(t)
      BY <1>1, <3>1 DEF ExchangeIsTrue
    <3>4. QED
      BY <1>4, <3>2, <3>3 DEF IfHeldDone
  <2>8. AnswersAreTrue(t)'
    BY <1>2, <2>2, <2>3, <2>5, <2>7 DEF AnswersAreTrue
  <2>9. QED
    BY <1>1, <1>2, <1>4, <2>6, <2>8 DEF ExchangeIsTrue
<1>8. QED
  BY <1>5, <1>6, <1>7

(* An answer that was rightly taken is the one the thread waited for.      *)
LEMMA TakesOwn ==
  ASSUME TypeOK, Shapes, NEW t \in Threads, NEW k \in 1 .. Len(air), Takes(t, k), ~ misread',
         ExchangeIsTrue(t)
  PROVE  /\ k \in Awaited(t) /\ step[t] = "read" /\ air[k].cmd = cmd[t]
         /\ cmd[t] = "A2" => IfHeldDone(t)
         /\ cmd[t] = "A3" => /\ air[k].kind = job[t].kind /\ air[k].valve = job[t].valve
                             /\ WasDone(t, job[t])
         /\ Awaited(t)' = {}
<1>1. ~ (air[k].late \/ air[k].by # t \/ (air[k].cmd = "A3" /\ air[k].kind # job[t].kind))
  BY Zenon DEF Takes, Parse
<1>2. k \in Awaited(t)
  BY <1>1 DEF Awaited
<1>3. step[t] = "read" /\ air[k].cmd = cmd[t] /\ \A j \in Awaited(t) : k = j
  BY <1>2 DEF ExchangeIsTrue, AnswersAreTrue
<1>4. cmd[t] = "A2" => IfHeldDone(t)
  BY <1>2 DEF ExchangeIsTrue, AnswersAreTrue
<1>5. cmd[t] = "A3" => /\ air[k].kind = job[t].kind /\ air[k].valve = job[t].valve
                       /\ WasDone(t, job[t])
  BY <1>1, <1>2, <1>3 DEF ExchangeIsTrue, AnswersAreTrue
<1>6. Awaited(t)' = {}
  <2>1. Len(air) \in Nat /\ air \in Seq(Answers)
    BY LenProperties DEF Shapes
  <2>2. k \in 0 .. Len(air)
    BY <2>1
  <2>3. Len(air') = Len(air) - k /\ \A i \in 1 .. Len(air) - k : air'[i] = air[k + i]
    BY <2>1, <2>2, RestFacts DEF Takes, Rest
  <2>4. \A i \in 1 .. Len(air) - k : k + i \in 1 .. Len(air) /\ k + i # k
    BY <2>1
  <2>5. \A i \in Awaited(t)' : k + i \in Awaited(t)
    BY <2>1, <2>3, <2>4 DEF Awaited
  <2>6. \A i \in Awaited(t)' : i \in 1 .. Len(air) - k
    BY <2>3 DEF Awaited
  <2>7. QED
    BY <1>3, <2>4, <2>5, <2>6
<1>7. QED
  BY <1>2, <1>3, <1>4, <1>5, <1>6

LEMMA ReadIsTrue ==
  ASSUME TypeOK, Shapes, ControlInv, Next, NEW t \in Threads, ReadAnswer(t), ~ misread',
         ExchangeIsTrue(t)
  PROVE  ExchangeIsTrue(t)'
<1>1. /\ ExchangeTypes /\ InExchange(t) /\ step[t] = "read"
      /\ UNCHANGED <<held, applied, did, gave>>
  BY DEF TypeOK, ExchangeTypes, ControlInv, ReadAnswer
<1>2. Base(t)' = Base(t)
  BY <1>1, ExchangeControl DEF Exchanges
<1>3. WasDone(t, Base(t)) => WasDone(t, Base(t))'
  BY <1>1, <1>2 DEF WasDone
<1>4. PICK k \in 1 .. Len(air) :
        \/ Rejects(t, k)
        \/ Takes(t, k) /\ (GoesOn(t) \/ Succeeds(t) \/ SetsClock(t, k))
  BY ReadAnswerKinds
<1>5. CASE Rejects(t, k)
  <2>1. /\ step'[t] \in {"failed", "write"} /\ (cmd'[t] # "A3" \/ step'[t] = "failed")
        /\ outer' = outer
    BY <1>1, <1>5 DEF Rejects, NextAttempt, Set, ExchangeTypes
  <2>2. Awaited(t)' = {}
    <3>1. Rest(k) \in Seq(Answers)
      <4>1. air \in Seq(Answers) /\ Len(air) \in Nat
        BY LenProperties DEF Shapes
      <4>2. k \in 0 .. Len(air)
        BY <4>1
      <4>3. QED
        BY <4>1, <4>2, RestFacts DEF Rest
    <3>2. QED
      BY <1>5, <3>1, TooLateFacts DEF Rejects, Awaited
  <2>3. AnswersAreTrue(t)'
    BY <2>2 DEF AnswersAreTrue
  <2>4. QED
    BY <1>3, <2>1, <2>3 DEF ExchangeIsTrue
<1>6. CASE Takes(t, k) /\ (GoesOn(t) \/ Succeeds(t) \/ SetsClock(t, k))
  <2>1. /\ k \in Awaited(t) /\ step[t] = "read" /\ air[k].cmd = cmd[t]
        /\ cmd[t] = "A2" => IfHeldDone(t)
        /\ cmd[t] = "A3" => air[k].kind = job[t].kind /\ WasDone(t, job[t])
        /\ Awaited(t)' = {}
    BY <1>6, TakesOwn
  <2>2. AnswersAreTrue(t)'
    BY <2>1 DEF AnswersAreTrue
  <2>3. CASE GoesOn(t)
    <3>1. step'[t] = "write" /\ cmd'[t] = "A3" /\ cmd[t] = "A2" /\ UNCHANGED <<job, outer>>
      BY <1>1, <2>3 DEF GoesOn, Set, ExchangeTypes
    <3>2. IfHeldDone(t)'
      BY <1>1, <2>1, <3>1 DEF IfHeldDone, WasDone
    <3>3. QED
      BY <1>3, <2>2, <3>1, <3>2 DEF ExchangeIsTrue
  <2>4. CASE Succeeds(t)
    <3>1. step'[t] = "ok" /\ cmd[t] # "A2" /\ UNCHANGED <<job, outer>>
      BY <1>1, <2>4 DEF Succeeds, Set, ExchangeTypes
    <3>2. WasDone(t, Base(t))
      <4>1. CASE outer[t] # None
        BY <4>1 DEF ExchangeIsTrue
      <4>2. CASE outer[t] = None /\ cmd[t] = "A3"
        BY <2>1, <4>2 DEF Base
      <4>3. CASE outer[t] = None /\ cmd[t] = "A1"
        BY <1>1, <4>3 DEF Base, InExchange, WasDone, A1, CardKinds
      <4>4. QED
        BY <1>1, <3>1, <4>1, <4>2, <4>3 DEF ExchangeTypes
    <3>3. QED
      BY <1>3, <2>2, <3>1, <3>2 DEF ExchangeIsTrue
  <2>5. CASE SetsClock(t, k)
    <3>1. cmd[t] = "A3" /\ job[t].kind = "time" /\ outer[t] = None
      BY <2>1, <2>5 DEF SetsClock
    <3>2. outer'[t] = job[t]
      BY <1>1, <2>5 DEF SetsClock, Set, ExchangeTypes
    <3>3. step'[t] = "write" /\ cmd'[t] = "A2"
      BY <1>1, <2>5 DEF SetsClock, Begin, Set, ExchangeTypes
    <3>4. WasDone(t, Base(t))
      BY <2>1, <3>1 DEF Base
    <3>5. QED
      BY <1>3, <2>2, <3>1, <3>2, <3>3, <3>4 DEF ExchangeIsTrue
  <2>6. QED
    BY <1>6, <2>3, <2>4, <2>5
<1>7. QED
  BY <1>4, <1>5, <1>6

LEMMA TimeoutIsTrue ==
  ASSUME TypeOK, Shapes, ControlInv, Next, NEW t \in Threads, ReadTimeout(t), ExchangeIsTrue(t)
  PROVE  ExchangeIsTrue(t)'
<1>1. ExchangeTypes /\ InExchange(t) /\ step[t] = "read" /\ UNCHANGED <<held, applied, did, gave, outer>>
  BY DEF TypeOK, ExchangeTypes, ControlInv, ReadTimeout
<1>2. Base(t)' = Base(t)
  BY <1>1, ExchangeControl DEF Exchanges
<1>3. WasDone(t, Base(t)) => WasDone(t, Base(t))'
  BY <1>1, <1>2 DEF WasDone
<1>4. step'[t] \in {"failed", "write"} /\ (cmd'[t] # "A3" \/ step'[t] = "failed")
  BY <1>1 DEF ReadTimeout, NextAttempt, Set, ExchangeTypes
<1>5. Awaited(t)' = {}
  <2>1. air \in Seq(Answers) /\ \A i \in Awaited(t) : i \in 1 .. Len(air)
    BY DEF Shapes, Awaited
  <2>2. ASSUME NEW s \in Seq(Answers), air' = TooLate(t, s) PROVE Awaited(t)' = {}
    BY <2>2, TooLateFacts DEF Awaited
  <2>3. CASE air' = TooLate(t, air) \/ \E i \in Awaited(t) : air' = TooLate(t, RemoveAt(air, i))
    BY <2>1, <2>2, <2>3, RemoveFacts
  <2>4. CASE Awaited(t) = {}
    BY <1>1, <2>4, FewerAnswers, NoneLeft DEF Write
  <2>5. QED
    BY <2>3, <2>4 DEF ReadTimeout
<1>6. AnswersAreTrue(t)'
  BY <1>5 DEF AnswersAreTrue
<1>7. QED
  BY <1>1, <1>3, <1>4, <1>6 DEF ExchangeIsTrue

LEMMA ClockIsTrue ==
  ASSUME TypeOK, Shapes, ControlInv, Next, NEW t \in Threads, ClockSet(t), ExchangeIsTrue(t)
  PROVE  ExchangeIsTrue(t)'
<1>1. /\ ExchangeTypes /\ InExchange(t) /\ step[t] \in {"ok", "failed"} /\ outer[t] # None
      /\ UNCHANGED <<applied, did, gave>>
  BY DEF TypeOK, ExchangeTypes, ControlInv, ClockSet, line
<1>2. step'[t] = "ok" /\ outer'[t] = None /\ Base(t)' = Base(t)
  <2>1. Base(t)' = Base(t)
    BY <1>1, ExchangeControl DEF Exchanges
  <2>2. QED
    BY <1>1, <2>1 DEF ClockSet, Set, ExchangeTypes
<1>3. WasDone(t, Base(t))'
  BY <1>1, <1>2 DEF ExchangeIsTrue, WasDone
<1>4. Awaited(t)' = {}
  BY <1>1, FewerAnswers, NotReading, NoneLeft DEF Write
<1>5. AnswersAreTrue(t)'
  BY <1>4 DEF AnswersAreTrue
<1>6. QED
  BY <1>2, <1>3, <1>5 DEF ExchangeIsTrue

LEMMA ExchangeStep ==
  ASSUME TypeOK, Shapes, ControlInv, Next, NEW t \in Threads, ~ misread', ExchangeIsTrue(t)
  PROVE  ExchangeIsTrue(t)'
<1>1. CASE Exchanges(t)
  BY <1>1, WriteIsTrue, ReadIsTrue, TimeoutIsTrue, ClockIsTrue DEF Exchanges
<1>2. CASE Same(t) /\ ~ Write(t)
  BY <1>2, Undisturbed
<1>3. ASSUME step[t] # "read", ~ Write(t), step'[t] \in {"idle", "write"},
             cmd'[t] # "A3" \/ step'[t] = "idle", outer'[t] = None
      PROVE  ExchangeIsTrue(t)'
  <2>1. Awaited(t)' = {}
    BY <1>3, FewerAnswers, NotReading, NoneLeft
  <2>2. QED
    BY <1>3, <2>1, FreshIsTrue
<1>4. CASE Loops(t) /\ ~ Exchanges(t)
  <2>1. ExchangeTypes /\ InExchange(t)
    BY DEF TypeOK, ExchangeTypes, ControlInv
  <2>2. CASE ValveDone(t, LoopKind(t))
    BY <1>3, <1>4, <2>1, <2>2, EndsFacts DEF ValveDone, Finished, Exchanges
  <2>3. ASSUME NEW v \in todo[t], NextBegins(t, v), step[t] = "idle"
        PROVE  ExchangeIsTrue(t)'
    <3>1. outer[t] = None
      BY <2>1, <2>3, JobsAreApart DEF InExchange
    <3>2. LoopKind(t) # "A1"
      BY <1>4 DEF Loops, Looping, LoopKind
    <3>3. step'[t] = "write" /\ cmd'[t] = "A2" /\ outer'[t] = None
      BY <2>1, <2>3, <3>1, <3>2 DEF NextBegins, Begin, Set, ExchangeTypes
    <3>4. QED
      BY <1>3, <1>4, <2>3, <3>3 DEF Exchanges
  <2>4. ASSUME NEW v \in todo[t], NextSkipped(t, v) PROVE ExchangeIsTrue(t)'
    BY <1>2, <1>4, <2>4 DEF NextSkipped, Same, Exchanges
  <2>5. QED
    BY <1>4, <2>2, <2>3, <2>4, LoopKinds
<1>5. CASE (Pass \/ SentA1 \/ SendCardHostCommand \/ CardHostCommandDone) /\ ~ Write(t)
  <2>1. ExchangeTypes /\ InExchange("monitor") /\ "monitor" \in Threads
    BY DEF TypeOK, ExchangeTypes, ControlInv, Threads
  <2>2. \/ Ends("monitor") /\ Finished("monitor")
        \/ /\ step["monitor"] = "idle" /\ UNCHANGED outer
           /\ \E what \in Jobs \union {A1} : Begin("monitor", what)
        \/ UNCHANGED <<step, cmd, job, tries, outer>>
    <3>1. cmdBuf # <<>> => Head(cmdBuf) \in Jobs
      BY HeadTailProperties, JobsAreApart DEF Shapes
    <3>2. QED
      BY <1>5, <3>1 DEF Pass, SentA1, SendCardHostCommand, CardHostCommandDone, ControlInv,
         MonitorWorks, Looping
  <2>3. CASE t # "monitor"
    <3>1. Same(t)
      BY <2>1, <2>2, <2>3, EndsFacts, BeginFacts DEF Same
    <3>2. QED
      BY <1>2, <1>5, <3>1
  <2>4. CASE t = "monitor"
    <3>1. CASE Ends("monitor") /\ Finished("monitor")
      BY <1>3, <1>5, <2>1, <2>4, <3>1, EndsFacts DEF Finished
    <3>2. ASSUME step["monitor"] = "idle", UNCHANGED outer,
                 NEW what \in Jobs \union {A1}, Begin("monitor", what)
          PROVE  ExchangeIsTrue(t)'
      <4>1. outer["monitor"] = None
        BY <2>1, <3>2, JobsAreApart DEF InExchange
      <4>2. step'["monitor"] = "write" /\ cmd'["monitor"] # "A3" /\ outer'["monitor"] = None
        BY <2>1, <3>2, <4>1, BeginFacts
      <4>3. QED
        BY <1>3, <1>5, <2>4, <3>2, <4>2
    <3>3. CASE UNCHANGED <<step, cmd, job, tries, outer>>
      BY <1>2, <1>5, <3>3 DEF Same
    <3>4. QED
      BY <2>2, <3>1, <3>2, <3>3
  <2>5. QED
    BY <2>3, <2>4
<1>6. CASE Rests /\ ~ Write(t)
  <2>1. UNCHANGED <<step, cmd, job, outer, tries>>
    BY <1>6, CardHostKinds DEF Rests, GotIds, Round, SaveUsers, FillUsers, LockRound,
       GotData, GotTime, SendForwarderData, GetForwarderInfoTask, NotNoon, DayNoonTimerTask,
       GotRecords, ConfigValve, LockConfig, Configured, exchange
  <2>2. QED
    BY <1>2, <1>6, <2>1 DEF Same
<1>7. ASSUME NEW u \in Threads, u # t, Exchanges(u) \/ Loops(u), ~ Exchanges(t)
      PROVE  ExchangeIsTrue(t)'
  <2>1. Same(t)
    BY <1>7, ExchangeControl, LoopControl DEF ControlInv
  <2>2. QED
    BY <1>2, <1>7, <2>1 DEF Exchanges
<1>8. QED
  BY <1>1, <1>4, <1>5, <1>6, <1>7, StepKinds DEF Exchanges

(* Nobody's clock is set while a request of the card host is worked on.    *)
LEMMA ReplyHasNoClock ==
  ASSUME TypeOK, Shapes, ControlInv, phase = "reply", ExchangeIsTrue("monitor")
  PROVE  outer["monitor"] = None /\ OnRequest /\ job["monitor"].kind \in CardKinds
<1>1. cmdBuf # <<>> /\ Base("monitor") = Head(cmdBuf)
  BY DEF ControlInv, MonitorWorks
<1>2. Head(cmdBuf) \in CardJobs
  BY <1>1, HeadTailProperties DEF Shapes
<1>3. Base("monitor").kind \in CardKinds
  BY <1>1, <1>2 DEF CardJobs
<1>4. outer["monitor"] = None
  BY <1>3 DEF Base, ExchangeIsTrue, CardKinds
<1>5. QED
  BY <1>3, <1>4, ReplyIsOnRequest DEF Base

(* Whom a rightly taken answer is told to.                                 *)
Hears ==
  /\ OnRequest /\ ~ Answered /\ Answered'
  /\ Tell(job["monitor"].kind, job["monitor"].valve, "ok")
  /\ WasDone("monitor", job["monitor"])
  /\ UNCHANGED <<cmdBuf, asked, applied>>

LEMMA ReadTells ==
  ASSUME TypeOK, Shapes, ControlInv, Next, NEW t \in Threads, ReadAnswer(t), ~ misread',
         ExchangeIsTrue(t)
  PROVE  Hears \/ (UNCHANGED replied /\ (Answered' <=> Answered))
<1>1. /\ ExchangeTypes /\ InExchange(t) /\ step[t] = "read"
      /\ UNCHANGED <<phase, cmdBuf, asked, applied>>
      /\ \A u \in Threads \ {t} : Same(u)
  BY ExchangeControl DEF TypeOK, ExchangeTypes, ControlInv, ReadAnswer, card, Exchanges
<1>2. t # "monitor" => (Answered' <=> Answered)
  BY <1>1 DEF Answered, Same, Threads
<1>3. PICK k \in 1 .. Len(air) :
        \/ Rejects(t, k)
        \/ Takes(t, k) /\ (GoesOn(t) \/ Succeeds(t) \/ SetsClock(t, k))
  BY ReadAnswerKinds
<1>4. t = "monitor" => ~ Answered
  BY <1>1 DEF Answered
<1>5. CASE Rejects(t, k)
  <2>1. step'[t] # "ok" /\ UNCHANGED replied
    BY <1>1, <1>5 DEF Rejects, NextAttempt, Set, ExchangeTypes
  <2>2. t = "monitor" => ~ Answered'
    BY <2>1 DEF Answered
  <2>3. QED
    BY <1>2, <1>4, <2>1, <2>2
<1>6. CASE Takes(t, k) /\ (GoesOn(t) \/ Succeeds(t) \/ SetsClock(t, k))
  <2>1. /\ air[k].cmd = cmd[t]
        /\ cmd[t] = "A3" => /\ air[k].kind = job[t].kind /\ air[k].valve = job[t].valve
                            /\ WasDone(t, job[t])
    BY <1>6, TakesOwn
  <2>2. IF cmd[t] = "A3" /\ job[t].kind \in CardKinds
          THEN Tell(job[t].kind, job[t].valve, "ok") ELSE UNCHANGED replied
    BY <1>6, <2>1 DEF Takes, Parse
  <2>3. CASE cmd[t] = "A3" /\ job[t].kind \in CardKinds
    <3>1. t = "monitor" /\ phase = "reply"
      <4>1. t = "monitor"
        BY <1>1, <2>3, OwnJobs DEF Threads, CardKinds
      <4>2. phase = "reply"
        <5>1. job[t].kind # "set" /\ job[t].kind \notin Looping /\ job[t] # A1 /\ outer[t] = None
          BY <1>1, <2>3 DEF CardKinds, Looping, InExchange, A1
        <5>2. QED
          BY <1>1, <4>1, <5>1 DEF ControlInv, MonitorWorks, AtValve, Base
      <4>3. QED
        BY <4>1, <4>2
    <3>2. OnRequest
      BY <3>1, ReplyHasNoClock
    <3>3. step'[t] = "ok"
      <4>1. Succeeds(t)
        BY <1>6, <2>1, <2>3 DEF GoesOn, SetsClock, CardKinds
      <4>2. QED
        BY <1>1, <4>1 DEF Succeeds, Set, ExchangeTypes
    <3>4. Answered'
      BY <1>1, <3>1, <3>3 DEF Answered
    <3>5. QED
      BY <1>1, <1>4, <2>1, <2>2, <2>3, <3>1, <3>2, <3>4 DEF Hears
  <2>4. CASE ~ (cmd[t] = "A3" /\ job[t].kind \in CardKinds)
    <3>1. t = "monitor" => ~ Answered'
      <4>1. SUFFICES ASSUME t = "monitor", phase = "reply" PROVE step'[t] # "ok"
        BY <1>1 DEF Answered
      <4>2. cmd[t] # "A1" /\ job[t].kind \in CardKinds
        BY <4>1, ReplyHasNoClock DEF OnRequest
      <4>3. cmd[t] = "A2"
        BY <1>1, <2>4, <4>2 DEF ExchangeTypes
      <4>4. GoesOn(t)
        BY <1>6, <2>1, <4>3 DEF Succeeds, SetsClock
      <4>5. QED
        BY <1>1, <4>4 DEF GoesOn, Set, ExchangeTypes
    <3>2. QED
      BY <1>2, <1>4, <2>2, <2>4, <3>1
  <2>5. QED
    BY <2>3, <2>4
<1>7. QED
  BY <1>3, <1>5, <1>6

LEMMA AnsweredKinds ==
  ASSUME TypeOK, Shapes, ControlInv, Next, ~ misread', \A t \in Threads : ExchangeIsTrue(t)
  PROVE  \/ UNCHANGED <<replied, cmdBuf, asked>> /\ (Answered' <=> Answered)
         \/ CardHost \/ CardHostCommandDone \/ Hears
<1>1. /\ ExchangeTypes /\ \A t \in Threads : InExchange(t)
      /\ Threads = {"monitor", "portal"} /\ "monitor" \in Threads
  BY DEF TypeOK, ExchangeTypes, ControlInv, Threads
<1>2. ASSUME NEW t \in Threads, Exchanges(t), ~ ReadAnswer(t)
      PROVE  UNCHANGED <<replied, cmdBuf, asked>> /\ (Answered' <=> Answered)
  <2>1. /\ UNCHANGED <<replied, cmdBuf, asked, phase>> /\ \A u \in Threads \ {t} : Same(u)
    BY <1>1, <1>2, ExchangeControl DEF Exchanges, Write, ReadTimeout, ClockSet
  <2>2. CASE t # "monitor"
    BY <1>1, <2>1, <2>2 DEF Answered, Same
  <2>3. CASE t = "monitor" /\ phase = "reply"
    <3>1. outer[t] = None
      BY <1>1, <2>3, ReplyHasNoClock
    <3>2. CASE Write(t)
      BY <1>1, <2>1, <2>3, <3>2 DEF Write, Set, ExchangeTypes, Answered
    <3>3. CASE ReadTimeout(t)
      BY <1>1, <2>1, <2>3, <3>3 DEF ReadTimeout, NextAttempt, Set, ExchangeTypes, Answered
    <3>4. QED
      BY <1>2, <3>1, <3>2, <3>3 DEF Exchanges, ClockSet
  <2>4. CASE phase # "reply"
    BY <2>1, <2>4 DEF Answered
  <2>5. QED
    BY <2>1, <2>2, <2>3, <2>4
<1>3. ASSUME NEW t \in Threads, ReadAnswer(t)
      PROVE  Hears \/ (UNCHANGED <<replied, cmdBuf, asked>> /\ (Answered' <=> Answered))
  <2>1. UNCHANGED <<cmdBuf, asked>>
    BY <1>3 DEF ReadAnswer, card
  <2>2. QED
    BY <1>3, <2>1, ReadTells
<1>4. ASSUME NEW t \in Threads, Loops(t)
      PROVE  UNCHANGED <<replied, cmdBuf, asked>> /\ (Answered' <=> Answered)
  <2>1. UNCHANGED <<replied, cmdBuf, asked, phase>> /\ \A u \in Threads \ {t} : Same(u)
    BY <1>4, LoopKinds, LoopControl
  <2>2. t = "monitor" => phase # "reply"
    BY <1>4 DEF Loops, Looping
  <2>3. QED
    BY <1>1, <2>1, <2>2 DEF Answered, Same
<1>5. CASE Pass \/ SentA1 \/ SendCardHostCommand
  <2>1. UNCHANGED <<replied, cmdBuf, asked>> /\ ~ Answered
    BY <1>5 DEF Pass, SentA1, SendCardHostCommand, card, Answered
  <2>2. ~ Answered'
    <3>1. SUFFICES ASSUME phase' = "reply" PROVE step'["monitor"] # "ok"
      BY DEF Answered
    <3>2. SendCardHostCommand /\ \E what : Begin("monitor", what)
      BY <1>5, <3>1 DEF Pass, SentA1, SendCardHostCommand, Goes
    <3>3. QED
      BY <1>1, <3>2 DEF Begin, Set, ExchangeTypes
  <2>3. QED
    BY <2>1, <2>2
<1>6. CASE Rests /\ ~ CardHost
  <2>1. UNCHANGED <<replied, cmdBuf, asked, step>>
    BY <1>6 DEF Rests, GotIds, Round, SaveUsers, FillUsers, LockRound,
       GotData, GotTime, SendForwarderData, GetForwarderInfoTask, NotNoon, DayNoonTimerTask,
       GotRecords, ConfigValve, LockConfig, Configured, exchange, card
  <2>2. phase' = phase \/ (phase' # "reply" /\ phase # "reply")
    BY <1>6 DEF Rests, GotIds, Round, SaveUsers, FillUsers, LockRound,
       GotData, GotTime, SendForwarderData, GetForwarderInfoTask, NotNoon, DayNoonTimerTask,
       GotRecords, ConfigValve, LockConfig, Configured, Goes
  <2>3. QED
    BY <2>1, <2>2 DEF Answered
<1>7. QED
  BY <1>2, <1>3, <1>4, <1>5, <1>6, StepKinds

(* The request at the head is the least that is open for its user: the     *)
(* reader takes an answer about this user for the answer to it.            *)
LEMMA HeadIsTold ==
  ASSUME TypeOK, Shapes, RequestsInv, OpenInv, OnRequest, ~ Answered,
         NEW code, code # "nothing",
         Tell(job["monitor"].kind, job["monitor"].valve, code)
  PROVE  /\ cmdBuf[1].n \in Requests /\ replied'[cmdBuf[1].n] = code
         /\ \A n \in Requests : n # cmdBuf[1].n => replied'[n] = replied[n]
<1> DEFINE kind == job["monitor"].kind
           v == job["monitor"].valve
           head == cmdBuf[1].n
<1>1. /\ 1 \in 1 .. Len(cmdBuf) /\ job["monitor"] = cmdBuf[1]
      /\ cmdBuf \in Seq(CardJobs) /\ Len(cmdBuf) \in Nat /\ asked \in Seq(Asked)
      /\ Len(asked) \in Nat
  BY LenProperties DEF OnRequest, Shapes
<1>2. head \in 1 .. Len(asked) /\ asked[head] = [kind |-> kind, valve |-> v]
  BY <1>1 DEF RequestsInv, WaitingInv
<1>3. replied[head] = "nothing"
  BY <1>1 DEF OpenInv
<1>4. TellsOf(head, kind, v)
  BY <1>2, <1>3 DEF TellsOf
<1>5. ASSUME NEW m \in 1 .. Len(asked), replied[m] = "nothing"
      PROVE  head <= m
  <2>1. PICK i \in 1 .. Len(cmdBuf) : cmdBuf[i].n = m
    BY <1>5 DEF OpenInv
  <2>2. i = 1 \/ 1 < i
    BY <1>1
  <2>3. 1 < i => head < m
    BY <1>1, <2>1 DEF RequestsInv, WaitingInv
  <2>4. QED
    BY <1>1, <1>2, <1>5, <2>1, <2>2, <2>3
<1>6. \A m \in 1 .. Len(asked) : TellsOf(m, kind, v) => head <= m
  BY <1>5 DEF TellsOf
<1>7. head \in Requests
  <2>1. cmdBuf[1] \in CardJobs
    BY <1>1, ElementOfSeq
  <2>2. QED
    BY <2>1 DEF CardJobs, Requests
<1> HIDE DEF kind, v, head
<1>8. replied'[head] = code
  BY <1>4, <1>6, <1>7, TellFacts DEF kind, v
<1>9. ASSUME NEW n \in Requests, n # head PROVE replied'[n] = replied[n]
  <2>1. SUFFICES ASSUME TellsOf(n, kind, v),
                        \A m \in 1 .. Len(asked) : TellsOf(m, kind, v) => n <= m
                 PROVE  FALSE
    BY <1>9, TellFacts DEF kind, v
  <2>2. n <= head /\ head <= n
    BY <1>2, <1>4, <1>6, <2>1 DEF TellsOf
  <2>3. n \in Nat /\ head \in Nat
    BY <1>7 DEF Requests
  <2>4. QED
    BY <1>9, <2>2, <2>3
<1>10. QED
  BY <1>7, <1>8, <1>9 DEF head

LEMMA OpenStep ==
  ASSUME TypeOK, Shapes, ControlInv, RequestsInv, Next, ~ misread', TruthInv
  PROVE  OpenInv' /\ RepliesAreTrue'
<1>1. /\ cmdBuf \in Seq(CardJobs) /\ Len(cmdBuf) \in Nat /\ asked \in Seq(Asked)
      /\ Len(asked) \in Nat /\ Len(asked) <= MaxRequests /\ MaxRequests \in Nat
      /\ OpenInv /\ RepliesAreTrue /\ WaitingInv
      /\ \A t \in Threads : ExchangeIsTrue(t)
  <2>1. Len(asked) <= MaxRequests /\ MaxRequests \in Nat
    BY BoundsAssumption DEF TypeOK
  <2>2. Len(asked) \in Nat /\ Len(cmdBuf) \in Nat
    BY LenProperties DEF Shapes
  <2>3. QED
    BY <2>1, <2>2 DEF Shapes, TruthInv, RequestsInv
<1>2. \A n \in Requests : applied[n] > 0 => applied'[n] > 0
  <2>1. applied \in [Requests -> Nat]
    BY DEF TypeOK
  <2>2. \A n \in Requests : applied'[n] = applied[n] \/ applied'[n] = applied[n] + 1
    <3>1. \A n \in Requests : applied[n] \in Nat
      BY <2>1
    <3>2. QED
      BY <3>1, AppliedKinds
  <2>3. QED
    BY <2>1, <2>2
<1>3. \A n \in 1 .. Len(asked) : n \in Requests
  BY <1>1 DEF Requests
<1>4. \A i \in 1 .. Len(cmdBuf) : cmdBuf[i].n \in 1 .. Len(asked)
  BY <1>1 DEF WaitingInv
<1>5. CASE UNCHANGED <<replied, cmdBuf, asked>> /\ (Answered' <=> Answered)
  BY <1>1, <1>2, <1>5 DEF OpenInv, RepliesAreTrue
<1>6. CASE Hears
  <2>1. /\ OnRequest /\ ~ Answered /\ Answered' /\ UNCHANGED <<cmdBuf, asked>>
        /\ 1 \in 1 .. Len(cmdBuf) /\ job["monitor"] = cmdBuf[1]
    BY <1>6 DEF Hears, OnRequest
  <2>2. /\ cmdBuf[1].n \in Requests /\ replied'[cmdBuf[1].n] = "ok"
        /\ \A n \in Requests : n # cmdBuf[1].n => replied'[n] = replied[n]
    BY <1>1, <1>6, <2>1, HeadIsTold DEF Hears
  <2>3. applied[cmdBuf[1].n] > 0
    <3>1. cmdBuf[1] \in CardJobs
      BY <1>1, <2>1, ElementOfSeq
    <3>2. cmdBuf[1].kind \in CardKinds
      BY <3>1 DEF CardJobs
    <3>3. QED
      BY <1>6, <2>1, <3>2 DEF Hears, WasDone
  <2>4. RepliesAreTrue'
    BY <1>1, <1>2, <2>2, <2>3 DEF RepliesAreTrue
  <2>5. ASSUME NEW i \in 1 .. Len(cmdBuf), i # 1
        PROVE  cmdBuf[i].n # cmdBuf[1].n
    <3>1. 1 < i
      BY <1>1, <2>5
    <3>2. cmdBuf[1].n < cmdBuf[i].n
      BY <1>1, <2>1, <3>1 DEF WaitingInv
    <3>3. QED
      BY <1>4, <2>1, <3>2
  <2>6. ASSUME NEW n \in 1 .. Len(asked), replied'[n] = "nothing"
        PROVE  \E i \in 1 .. Len(cmdBuf) : cmdBuf[i].n = n
    BY <1>1, <1>3, <2>2, <2>6 DEF OpenInv
  <2>7. ASSUME NEW i \in 1 .. Len(cmdBuf)
        PROVE  replied'[cmdBuf[i].n] = "nothing" <=> i # 1
    BY <1>1, <1>3, <1>4, <2>1, <2>2, <2>5 DEF OpenInv
  <2>8. QED
    BY <2>1, <2>4, <2>6, <2>7 DEF OpenInv
<1>7. CASE CardHostCommandDone
  <2>1. /\ phase = "reply" /\ outer["monitor"] = None /\ cmdBuf' = Tail(cmdBuf)
        /\ UNCHANGED <<asked, applied>> /\ phase' # "reply"
        /\ step["monitor"] \in {"ok", "failed"}
    BY <1>7 DEF CardHostCommandDone, Finished, Goes, line
  <2>2. OnRequest /\ 1 \in 1 .. Len(cmdBuf)
    BY <2>1, ReplyIsOnRequest DEF OnRequest
  <2>3. /\ Len(cmdBuf') = Len(cmdBuf) - 1
        /\ \A i \in 1 .. Len(cmdBuf') : cmdBuf'[i] = cmdBuf[i + 1]
    BY <1>1, <2>1, <2>2, HeadTailProperties DEF OnRequest
  <2>4. \A i \in 1 .. Len(cmdBuf') : i + 1 \in 1 .. Len(cmdBuf) /\ i + 1 # 1 /\ 1 < i + 1
    BY <1>1, <2>3
  <2>5. \A i \in 1 .. Len(cmdBuf) : i # 1 => i - 1 \in 1 .. Len(cmdBuf') /\ (i - 1) + 1 = i
    BY <1>1, <2>3
  <2>6. /\ replied'[cmdBuf[1].n] # "nothing"
        /\ \A n \in Requests : n # cmdBuf[1].n => replied'[n] = replied[n]
        /\ replied'[cmdBuf[1].n] = "ok" => replied[cmdBuf[1].n] = "ok"
    <3>1. CASE step["monitor"] = "ok"
      <4>1. Answered /\ UNCHANGED replied
        BY <1>7, <2>1, <3>1 DEF Answered, CardHostCommandDone
      <4>2. QED
        BY <1>1, <2>2, <4>1 DEF OpenInv
    <3>2. CASE step["monitor"] = "failed"
      <4>1. ~ Answered
        BY <3>2 DEF Answered
      <4>2. PICK code \in {"failed", "nobody"} :
              Tell(job["monitor"].kind, job["monitor"].valve, code)
        BY <1>7, <3>2 DEF CardHostCommandDone
      <4>3. /\ replied'[cmdBuf[1].n] = code
            /\ \A n \in Requests : n # cmdBuf[1].n => replied'[n] = replied[n]
        BY <1>1, <2>2, <4>1, <4>2, HeadIsTold DEF RequestsInv
      <4>4. QED
        BY <4>3
    <3>3. QED
      BY <2>1, <3>1, <3>2
  <2>7. \A i \in 1 .. Len(cmdBuf) : 1 < i => cmdBuf[i].n # cmdBuf[1].n
    <3>1. ASSUME NEW i \in 1 .. Len(cmdBuf), 1 < i PROVE cmdBuf[i].n # cmdBuf[1].n
      <4>1. cmdBuf[1].n < cmdBuf[i].n
        BY <1>1, <2>2, <3>1 DEF WaitingInv
      <4>2. QED
        BY <1>4, <2>2, <4>1
    <3>2. QED
      BY <3>1
  <2>8. RepliesAreTrue'
    BY <1>1, <2>1, <2>6 DEF RepliesAreTrue
  <2>9. ASSUME NEW n \in 1 .. Len(asked), replied'[n] = "nothing"
        PROVE  \E i \in 1 .. Len(cmdBuf') : cmdBuf'[i].n = n
    <3>1. n # cmdBuf[1].n /\ replied[n] = "nothing"
      BY <1>3, <2>6, <2>9
    <3>2. PICK i \in 1 .. Len(cmdBuf) : cmdBuf[i].n = n
      BY <1>1, <3>1 DEF OpenInv
    <3>3. i - 1 \in 1 .. Len(cmdBuf') /\ (i - 1) + 1 = i
      BY <2>5, <3>1, <3>2
    <3>4. cmdBuf'[i - 1].n = n
      BY <2>3, <3>2, <3>3
    <3>5. QED
      BY <3>3, <3>4
  <2>10. ASSUME NEW i \in 1 .. Len(cmdBuf')
         PROVE  replied'[cmdBuf'[i].n] = "nothing"
    <3>1. cmdBuf'[i] = cmdBuf[i + 1] /\ i + 1 \in 1 .. Len(cmdBuf) /\ i + 1 # 1 /\ 1 < i + 1
      BY <2>3, <2>4
    <3>2. cmdBuf[i + 1].n # cmdBuf[1].n /\ cmdBuf[i + 1].n \in Requests
      BY <1>3, <1>4, <2>7, <3>1
    <3>3. replied[cmdBuf[i + 1].n] = "nothing"
      BY <1>1, <3>1 DEF OpenInv
    <3>4. QED
      BY <2>6, <3>1, <3>2, <3>3
  <2>11. ~ Answered'
    BY <2>1 DEF Answered
  <2>12. QED
    BY <2>1, <2>8, <2>9, <2>10, <2>11 DEF OpenInv
<1>8. CASE CardHost
  <2>1. PICK kind \in CardKinds, v \in Valves :
          Asks(kind, v) /\ (GetsCell(kind, v) \/ IsTurnedAway)
    BY <1>8, CardHostKinds
  <2>2. UNCHANGED <<phase, applied, step>>
    BY <1>8, CardHostKinds DEF line, exchange
  <2>3. Answered' <=> Answered
    BY <2>2 DEF Answered
  <2> DEFINE last == Len(asked) + 1
  <2>4. Len(asked') = last
    BY <1>8, AskedGrows
  <2>5. last \in Requests /\ last > Len(asked) /\ last \notin 1 .. Len(asked)
    <3>1. Len(asked) < MaxRequests
      BY <2>1 DEF Asks, TypeOK
    <3>2. last \in 1 .. MaxRequests /\ last > Len(asked) /\ last \notin 1 .. Len(asked)
      BY <1>1, <3>1
    <3>3. QED
      BY <3>2 DEF Requests
  <2>6. replied[last] = "nothing"
    BY <2>5 DEF RequestsInv, NotYetAsked
  <2>7. \A n \in 1 .. Len(asked') : n \in 1 .. Len(asked) \/ n = last
    BY <1>1, <2>4
  <2>8. CASE GetsCell(kind, v)
    <3> DEFINE new == [kind |-> kind, valve |-> v, n |-> last]
    <3>1. new \in CardJobs /\ new.n = last
      BY <2>5 DEF CardJobs, Requests
    <3>2. cmdBuf' = Append(cmdBuf, new) /\ UNCHANGED replied
      BY <2>8 DEF GetsCell
    <3> HIDE DEF new, last
    <3>3. /\ Len(cmdBuf') = Len(cmdBuf) + 1
          /\ \A i \in 1 .. Len(cmdBuf) : cmdBuf'[i] = cmdBuf[i]
          /\ cmdBuf'[Len(cmdBuf) + 1] = new
      BY <1>1, <3>1, <3>2, AppendProperties
    <3>4. /\ Len(cmdBuf) + 1 \in 1 .. Len(cmdBuf')
          /\ \A i \in 1 .. Len(cmdBuf) : i \in 1 .. Len(cmdBuf')
          /\ \A i \in 1 .. Len(cmdBuf') : i \in 1 .. Len(cmdBuf) \/ i = Len(cmdBuf) + 1
      BY <1>1, <3>3
    <3>5. RepliesAreTrue'
      BY <1>1, <2>2, <3>2 DEF RepliesAreTrue
    <3>6. ASSUME NEW n \in 1 .. Len(asked'), replied'[n] = "nothing"
          PROVE  \E i \in 1 .. Len(cmdBuf') : cmdBuf'[i].n = n
      <4>1. CASE n = last
        BY <3>1, <3>3, <3>4, <4>1
      <4>2. CASE n \in 1 .. Len(asked)
        BY <1>1, <3>2, <3>3, <3>4, <3>6, <4>2 DEF OpenInv
      <4>3. QED
        BY <2>7, <4>1, <4>2
    <3>7. ASSUME NEW i \in 1 .. Len(cmdBuf')
          PROVE  replied'[cmdBuf'[i].n] = "nothing" <=> ~ (i = 1 /\ Answered')
      <4>1. CASE i \in 1 .. Len(cmdBuf)
        BY <1>1, <2>3, <3>2, <3>3, <4>1 DEF OpenInv
      <4>2. CASE i = Len(cmdBuf) + 1
        <5>1. replied'[cmdBuf'[i].n] = "nothing"
          BY <2>6, <3>1, <3>2, <3>3, <4>2
        <5>2. i = 1 => ~ Answered
          <6>1. SUFFICES ASSUME i = 1, phase = "reply" PROVE FALSE
            BY DEF Answered
          <6>2. cmdBuf # <<>>
            BY <6>1 DEF ControlInv, MonitorWorks
          <6>3. Len(cmdBuf) # 0
            BY <1>1, <6>2, EmptySeq
          <6>4. QED
            BY <1>1, <4>2, <6>1, <6>3
        <5>3. QED
          BY <2>3, <5>1, <5>2
      <4>3. QED
        BY <3>4, <4>1, <4>2
    <3>8. QED
      BY <3>5, <3>6, <3>7 DEF OpenInv
  <2>9. CASE IsTurnedAway
    <3>1. PICK code \in {"dropped", "failed"} : replied' = [replied EXCEPT ![last] = code]
      BY <2>9 DEF IsTurnedAway
    <3>2. UNCHANGED cmdBuf /\ replied'[last] = code
          /\ \A n \in Requests : n # last => replied'[n] = replied[n]
      BY <2>5, <2>9, <3>1 DEF IsTurnedAway, TypeOK
    <3> HIDE DEF last
    <3>3. RepliesAreTrue'
      BY <1>1, <2>2, <3>1, <3>2 DEF RepliesAreTrue
    <3>4. ASSUME NEW n \in 1 .. Len(asked'), replied'[n] = "nothing"
          PROVE  \E i \in 1 .. Len(cmdBuf) : cmdBuf[i].n = n
      <4>1. n # last
        BY <3>1, <3>2, <3>4
      <4>2. n \in 1 .. Len(asked) /\ n \in Requests
        BY <1>3, <2>7, <4>1
      <4>3. QED
        BY <1>1, <3>2, <3>4, <4>1, <4>2 DEF OpenInv
    <3>5. ASSUME NEW i \in 1 .. Len(cmdBuf)
          PROVE  replied'[cmdBuf[i].n] = replied[cmdBuf[i].n]
      <4>1. cmdBuf[i].n \in 1 .. Len(asked)
        BY <1>4
      <4>2. QED
        BY <1>3, <2>5, <3>2, <4>1
    <3>6. QED
      BY <1>1, <2>3, <3>2, <3>3, <3>4, <3>5 DEF OpenInv
  <2>10. QED
    BY <2>1, <2>8, <2>9
<1>9. QED
  BY <1>1, <1>5, <1>6, <1>7, <1>8, AnsweredKinds

LEMMA A1IsThePass ==
  ASSUME TypeOK, Shapes, ControlInv, Next
  PROVE  UNCHANGED active \/ phase = "A1" \/ phase = "pass"
<1>1. UNCHANGED active \/ Pass \/ \E t \in Threads : ReadAnswer(t)
  BY StepChanges DEF WhoChanges
<1>2. ASSUME NEW t \in Threads, ReadAnswer(t), active' # active
      PROVE  phase = "A1"
  <2>1. PICK k \in 1 .. Len(air) : Takes(t, k)
    BY <1>2, ReadAnswerKinds DEF Rejects
  <2>2. cmd[t] = "A1" /\ step[t] # "idle"
    BY <1>2, <2>1 DEF Takes, Accepts, Parse, ReadAnswer
  <2>3. job[t] = A1 /\ outer[t] = None
    BY <2>2, JobsAreApart DEF ControlInv, InExchange
  <2>4. ~ \E kind : AtValve(t, kind)
    BY <2>3, JobsAreApart DEF AtValve, Base
  <2>5. ~ (phase = "reply" /\ t = "monitor")
    <3>1. phase = "reply" => cmdBuf # <<>> /\ Base("monitor") = Head(cmdBuf)
      BY DEF ControlInv, MonitorWorks
    <3>2. phase = "reply" => Base("monitor") \in Jobs
      BY <3>1, HeadTailProperties, JobsAreApart DEF Shapes
    <3>3. QED
      BY <2>3, <3>2, JobsAreApart DEF Base
  <2>6. t = "monitor"
    BY <2>2, <2>4 DEF ControlInv, PortalWorks, Threads
  <2>7. QED
    BY <2>2, <2>4, <2>5, <2>6 DEF ControlInv, MonitorWorks
<1>3. QED
  BY <1>1, <1>2 DEF Pass

(* The loop is done with a valve: what it knows of it then.                *)
LEMMA DoneWithValve ==
  ASSUME TypeOK, Shapes, ControlInv, NEW t \in Threads, Loops(t), ValveDone(t, LoopKind(t)),
         ExchangeIsTrue(t)
  PROVE  /\ job[t].valve \in todo[t] /\ job[t].valve \in Valves
         /\ \/ todo' = [todo EXCEPT ![t] = @ \ {job[t].valve}]
            \/ todo' = todo /\ LoopKind(t) = "record"
         /\ step[t] \in {"ok", "failed"}
         /\ step[t] = "ok" /\ LoopKind(t) \in {"time", "config"} => job[t].valve \in did[t]
         /\ step[t] = "ok" /\ t = "monitor" /\ phase = "data" => job[t].valve \in gave
<1>1. Finished(t)
  BY DEF ValveDone
<1>2. job[t] \in Jobs /\ job[t].kind = LoopKind(t) /\ job[t].valve \in todo[t]
  BY <1>1, LoopsAtValve
<1>3. step[t] = "ok" => WasDone(t, job[t])
  BY <1>1 DEF Finished, ExchangeIsTrue, Base
<1>4. QED
  BY <1>1, <1>2, <1>3 DEF ValveDone, Finished, Jobs, WasDone, LoopKind

(* From LockRound to SendForwarderData the pass keeps its valves.          *)
Reads == {"data", "time", "send"}

LEMMA PassGoesOn ==
  ASSUME TypeOK, Shapes, ControlInv, Next, phase' \in Reads
  PROVE  /\ LockRound \/ GotData \/ GotTime \/ (phase' = phase /\ phase \in Reads)
         /\ UNCHANGED <<ready, offline, active>>
         /\ ~ Pass /\ ~ SendForwarderData
<1>1. LockRound \/ GotData \/ GotTime \/ phase' = phase
  <2>1. CASE \E t \in Threads : Exchanges(t) \/ Loops(t)
    BY <2>1, LoopKinds, ExchangeControl DEF ControlInv
  <2>2. CASE Pass \/ SentA1 \/ SendCardHostCommand \/ CardHostCommandDone
    BY <2>2 DEF Pass, SentA1, SendCardHostCommand, CardHostCommandDone, Goes, Reads
  <2>3. CASE Rests
    BY <2>3, CardHostKinds DEF Rests, GotIds, Round, SaveUsers, FillUsers,
       SendForwarderData, GetForwarderInfoTask, NotNoon, DayNoonTimerTask,
       GotRecords, ConfigValve, LockConfig, Configured, Goes, Reads
  <2>4. QED
    BY <2>1, <2>2, <2>3, StepKinds
<1>2. UNCHANGED <<ready, offline>> \/ SentA1 \/ GetForwarderInfoTask
  BY StepChanges DEF WhoChanges
<1>3. ~ SentA1 /\ ~ GetForwarderInfoTask /\ ~ Pass /\ ~ SendForwarderData
  BY DEF SentA1, GetForwarderInfoTask, Pass, SendForwarderData, Goes, Reads
<1>4. phase \notin {"A1", "pass"}
  BY <1>1 DEF LockRound, GotData, GotTime, Reads
<1>5. QED
  BY <1>1, <1>2, <1>3, <1>4, A1IsThePass

LEMMA FreshStays ==
  ASSUME TypeOK, Shapes, ControlInv, Next, ~ Pass, ~ SendForwarderData
  PROVE  /\ did["monitor"] \subseteq did'["monitor"]
         /\ gave \subseteq gave' /\ unread \subseteq unread' /\ missing \subseteq missing'
<1>1. did \in [Threads -> SUBSET Valves] /\ Threads = {"monitor", "portal"}
  BY DEF Shapes, Threads
<1>2. unread \subseteq unread' /\ missing \subseteq missing'
  BY StepChanges DEF WhoChanges, Loops, Loop, NextValve, ValveDone, map
<1>3. CASE step["monitor"] # "idle"
  BY <1>1, <1>2, <1>3, GrowsStep DEF Grows
<1>4. CASE step["monitor"] = "idle"
  <2>1. UNCHANGED did \/ did' = Set(did, "portal", {}) \/ Write("portal")
    BY <1>1, <1>4, StepChanges DEF WhoChanges, Configured, Write
  <2>2. UNCHANGED gave \/ Write("portal")
    BY <1>1, <1>4, StepChanges DEF WhoChanges, Write
  <2>3. Write("portal") => did'["monitor"] = did["monitor"] /\ gave \subseteq gave'
    BY <1>1, WriteWorks DEF Executes
  <2>4. QED
    BY <1>1, <1>2, <2>1, <2>2, <2>3 DEF Set
<1>5. QED
  BY <1>3, <1>4

(* How the monitor gets done with an active valve while it reads.          *)
LEMMA MonitorIsDoneWith ==
  ASSUME TypeOK, Shapes, ControlInv, Next, ExchangeIsTrue("monitor"),
         phase' = phase, phase \in {"data", "time"}, ~ offline,
         NEW v \in active, v \in todo["monitor"], v \notin todo'["monitor"]
  PROVE  \/ phase = "data" /\ v \in gave \union unread'
         \/ phase = "time" /\ v \in did["monitor"] \union missing'
<1>1. todo \in [Threads -> SUBSET Valves] /\ Threads = {"monitor", "portal"}
  BY DEF TypeOK, Threads
<1>2. Loops("monitor")
  <2>1. UNCHANGED todo \/ (\E t \in Threads : Loops(t)) \/ LockConfig
    <3>1. ASSUME NEW t \in Threads, Exchanges(t) PROVE UNCHANGED todo
      BY <3>1 DEF Exchanges, Write, ReadAnswer, ReadTimeout, ClockSet
    <3>2. CASE Pass \/ SentA1 \/ SendCardHostCommand \/ CardHostCommandDone
      BY <3>2 DEF Pass, SentA1, SendCardHostCommand, CardHostCommandDone, Goes
    <3>3. CASE Rests
      BY <3>3, CardHostKinds DEF Rests,
         GotIds, Round, SaveUsers, FillUsers, LockRound, GotData, GotTime,
         SendForwarderData, GetForwarderInfoTask, NotNoon, DayNoonTimerTask, GotRecords,
         ConfigValve, Configured, Goes
    <3>4. QED
      BY <3>1, <3>2, <3>3, StepKinds
  <2>2. LockConfig => todo'["monitor"] = todo["monitor"]
    BY <1>1 DEF LockConfig, AllValves, Set
  <2>3. Loops("portal") => todo'["monitor"] = todo["monitor"]
    BY <1>1, LoopControl
  <2>4. QED
    BY <1>1, <2>1, <2>2, <2>3
<1>3. LoopKind("monitor") = phase
  BY DEF LoopKind
<1>4. CASE ValveDone("monitor", phase)
  <2>1. /\ todo' = [todo EXCEPT !["monitor"] = @ \ {job["monitor"].valve}]
        /\ step["monitor"] \in {"ok", "failed"}
        /\ step["monitor"] = "ok" /\ phase = "time" => job["monitor"].valve \in did["monitor"]
        /\ step["monitor"] = "ok" /\ phase = "data" => job["monitor"].valve \in gave
    BY <1>1, <1>2, <1>3, <1>4, DoneWithValve
  <2>2. v = job["monitor"].valve
    BY <1>1, <2>1
  <2>3. step["monitor"] = "failed" =>
          (phase = "time" => v \in missing') /\ (phase = "data" => v \in unread')
    BY <1>4, <2>2 DEF ValveDone
  <2>4. QED
    BY <2>1, <2>2, <2>3
<1>5. ASSUME NEW w \in todo["monitor"], NextSkipped("monitor", w)
      PROVE  phase = "time" /\ v \in missing'
  <2>1. v = w /\ missing' = missing
    BY <1>1, <1>5 DEF NextSkipped
  <2>2. QED
    BY <1>3, <1>5, <2>1 DEF NextSkipped, Serves
<1>6. QED
  BY <1>1, <1>2, <1>3, <1>4, <1>5, LoopKinds DEF NextBegins

LEMMA FreshStep ==
  ASSUME TypeOK, Shapes, ControlInv, Next, \A t \in Threads : ExchangeIsTrue(t), FreshInv
  PROVE  FreshInv'
<1> SUFFICES ASSUME ready', ~ offline', phase' \in Reads, NEW v \in active' \ missing'
             PROVE  DataIsFresh(v)' /\ TimeIsFresh(v)'
  BY DEF FreshInv, DataIsFresh, TimeIsFresh, Reads
<1>1. /\ UNCHANGED <<ready, offline, active>> /\ v \in active /\ v \in Valves
      /\ v \notin missing
      /\ did["monitor"] \subseteq did'["monitor"] /\ gave \union unread \subseteq gave' \union unread'
  BY PassGoesOn, FreshStays DEF TypeOK
<1>2. todo \in [Threads -> SUBSET Valves] /\ "monitor" \in Threads
  BY DEF TypeOK, Threads
<1>3. DataIsFresh(v) /\ TimeIsFresh(v)
  BY <1>1 DEF FreshInv
<1>4. CASE LockRound
  <2>1. todo'["monitor"] = Valves /\ phase' = "data"
    BY <1>1, <1>2, <1>4 DEF LockRound, ForEachIfReady, Goes, Set
  <2>2. QED
    BY <1>1, <2>1 DEF DataIsFresh, TimeIsFresh
<1>5. CASE GotData
  <2>1. todo'["monitor"] = Valves /\ phase' = "time" /\ phase = "data" /\ todo["monitor"] = {}
    BY <1>1, <1>2, <1>5 DEF GotData, LoopEnds, ForEachIfReady, Goes, Set
  <2>2. QED
    BY <1>1, <1>3, <2>1 DEF DataIsFresh, TimeIsFresh
<1>6. CASE GotTime
  <2>1. phase' = "send" /\ phase = "time" /\ todo["monitor"] = {}
    BY <1>6 DEF GotTime, LoopEnds, Goes
  <2>2. QED
    BY <1>1, <1>3, <2>1 DEF DataIsFresh, TimeIsFresh
<1>7. CASE phase' = phase /\ phase \in Reads
  <2>1. CASE phase \in {"data", "time"} /\ v \in todo["monitor"] /\ v \notin todo'["monitor"]
    <3>1. \/ phase = "data" /\ v \in gave \union unread'
          \/ phase = "time" /\ v \in did["monitor"]
      BY <1>1, <1>2, <1>7, <2>1, MonitorIsDoneWith
    <3>2. gave \subseteq gave'
      BY PassGoesOn, FreshStays
    <3>3. QED
      BY <1>1, <1>3, <1>7, <3>1, <3>2 DEF DataIsFresh, TimeIsFresh
  <2>2. CASE ~ (phase \in {"data", "time"} /\ v \in todo["monitor"] /\ v \notin todo'["monitor"])
    BY <1>1, <1>3, <1>7, <2>2 DEF DataIsFresh, TimeIsFresh
  <2>3. QED
    BY <2>1, <2>2
<1>8. QED
  BY <1>4, <1>5, <1>6, <1>7, PassGoesOn

LEMMA CountTruthStep ==
  ASSUME TypeOK, Shapes, ControlInv, Next, \A t \in Threads : ExchangeIsTrue(t), CountInv
  PROVE  CountInv'
<1>1. /\ todo \in [Threads -> SUBSET Valves] /\ did \in [Threads -> SUBSET Valves]
      /\ count \in 0 .. 255 /\ "portal" \in Threads
  BY DEF TypeOK, Shapes, Threads
<1> DEFINE done == did["portal"] \ todo["portal"]
<1>2. \A S \in SUBSET Valves : IsFiniteSet(S) /\ Cardinality(S) \in Nat
  BY ValvesAssumption, FS_Subset, FS_CardinalityType
<1>3. \A S, T \in SUBSET Valves : S \subseteq T => Cardinality(S) <= Cardinality(T)
  BY <1>2, FS_Subset
<1>4. did' \in [Threads -> SUBSET Valves] /\ todo' \in [Threads -> SUBSET Valves]
  BY LineTypes, ControlTypesStep DEF ControlTypes
<1>5. CASE /\ (call' = "config" <=> call = "config") /\ count' = count
           /\ did["portal"] \subseteq did'["portal"]
           /\ todo'["portal"] \subseteq todo["portal"]
           /\ call # "config" => did'["portal"] = did["portal"]
  <2>1. CASE call = "config"
    <3>1. done \subseteq did'["portal"] \ todo'["portal"]
      BY <1>5
    <3>2. Cardinality(done) <= Cardinality(did'["portal"] \ todo'["portal"])
      BY <1>1, <1>3, <1>4, <3>1
    <3>3. Cardinality(done) \in Nat /\ Cardinality(did'["portal"] \ todo'["portal"]) \in Nat
      BY <1>1, <1>2, <1>4
    <3>4. count <= Cardinality(done)
      BY <2>1 DEF CountInv
    <3>5. QED
      BY <1>1, <1>5, <2>1, <3>2, <3>3, <3>4 DEF CountInv
  <2>2. CASE call # "config"
    BY <1>5, <2>2 DEF CountInv
  <2>3. QED
    BY <2>1, <2>2
<1>6. CASE LockConfig
  <2>1. count' = 0 /\ (call' # "config" => did'["portal"] = {})
    BY <1>6 DEF LockConfig, CountInv, line
  <2>2. Cardinality(did'["portal"] \ todo'["portal"]) \in Nat
    BY <1>1, <1>2, <1>4
  <2>3. QED
    BY <2>1, <2>2 DEF CountInv
<1>7. CASE Configured
  BY <1>1, <1>7 DEF Configured, Set, CountInv
<1>8. CASE Loops("portal") /\ ValveDone("portal", "config")
  <2>1. LoopKind("portal") = "config" /\ call = "config"
    BY <1>8 DEF LoopKind, Loops
  <2> DEFINE v == job["portal"].valve
  <2>2. /\ v \in todo["portal"] /\ v \in Valves
        /\ todo' = [todo EXCEPT !["portal"] = @ \ {v}]
        /\ step["portal"] = "ok" => v \in did["portal"]
    BY <1>1, <1>8, <2>1, DoneWithValve
  <2> HIDE DEF v
  <2>3. /\ UNCHANGED <<call, did>>
        /\ \/ count' = count
           \/ count' = (count + 1) % 256 /\ step["portal"] = "ok"
    BY <1>8 DEF ValveDone, line
  <2>4. count <= Cardinality(done) /\ done \in SUBSET Valves
    BY <1>1, <2>1 DEF CountInv
  <2> DEFINE more == did["portal"] \ todo'["portal"]
  <2>5. more = IF v \in did["portal"] THEN done \union {v} ELSE done
    BY <1>1, <2>2
  <2>6. v \notin done
    BY <2>2
  <2>7. Cardinality(done \union {v}) = Cardinality(done) + 1
    BY <1>2, <2>4, <2>6, FS_AddElement
  <2>8. more \in SUBSET Valves /\ Cardinality(done) \in Nat
    BY <1>1, <1>2, <2>4
  <2>9. count' <= Cardinality(more)
    <3> HIDE DEF done, more
    <3>1. CASE count' = count
      BY <1>1, <2>4, <2>5, <2>7, <2>8, <3>1
    <3>2. CASE count' = (count + 1) % 256 /\ step["portal"] = "ok"
      <4>1. Cardinality(more) = Cardinality(done) + 1
        BY <2>2, <2>5, <2>7, <3>2
      <4>2. (count + 1) % 256 <= count + 1
        BY <1>1
      <4>3. (count + 1) % 256 \in Nat
        BY <1>1
      <4>4. QED
        BY <1>1, <2>4, <2>8, <3>2, <4>1, <4>2, <4>3
    <3>3. QED
      BY <2>3, <3>1, <3>2
  <2>10. QED
    BY <2>1, <2>3, <2>9 DEF CountInv
<1>9. ASSUME ~ LockConfig, ~ Configured, ~ (Loops("portal") /\ ValveDone("portal", "config"))
      PROVE  /\ (call' = "config" <=> call = "config") /\ count' = count
             /\ did["portal"] \subseteq did'["portal"]
             /\ todo'["portal"] \subseteq todo["portal"]
             /\ call # "config" => did'["portal"] = did["portal"]
  <2>1. ASSUME NEW t \in Threads, Exchanges(t)
        PROVE  UNCHANGED <<call, count, todo>>
    BY <2>1, ExchangeControl DEF ControlInv
  <2>2. ASSUME NEW t \in Threads, Loops(t)
        PROVE  UNCHANGED <<call, count, did>> /\ todo'["portal"] \subseteq todo["portal"]
    <3>1. UNCHANGED <<call, did>>
      BY <2>2, LoopKinds
    <3>2. CASE t = "monitor"
      <4>1. ValveDone(t, LoopKind(t)) => UNCHANGED count
        BY <2>2, <3>2 DEF ValveDone, LoopKind, Loops, Looping
      <4>2. UNCHANGED count
        BY <2>2, <4>1, LoopKinds DEF NextBegins, NextSkipped
      <4>3. todo'["portal"] = todo["portal"]
        BY <1>1, <2>2, <3>2, LoopControl
      <4>4. QED
        BY <3>1, <4>2, <4>3
    <3>3. CASE t = "portal"
      <4>1. \E v \in todo[t] : NextBegins(t, v) \/ NextSkipped(t, v)
        BY <1>9, <2>2, <3>3, LoopKinds DEF LoopKind
      <4>2. QED
        BY <1>1, <3>1, <3>3, <4>1 DEF NextBegins, NextSkipped
    <3>4. QED
      BY <3>2, <3>3 DEF Threads
  <2>3. CASE Pass \/ SentA1 \/ SendCardHostCommand \/ CardHostCommandDone
    BY <1>1, <2>3 DEF Pass, SentA1, SendCardHostCommand, CardHostCommandDone, AllValves, Set,
       portal, line
  <2>4. CASE Rests
    BY <1>1, <1>9, <2>4, CardHostKinds DEF Rests, GotIds, Round, SaveUsers, FillUsers, LockRound,
       GotData, GotTime, SendForwarderData, GetForwarderInfoTask, NotNoon, DayNoonTimerTask,
       GotRecords, ConfigValve, AllValves, ForEachIfReady, Set, portal, line
  <2>5. ASSUME NEW t \in Threads, Exchanges(t)
        PROVE  /\ did["portal"] \subseteq did'["portal"]
               /\ call # "config" => did'["portal"] = did["portal"]
    <3>1. UNCHANGED did \/ (Write(t) /\ cmd[t] = "A2")
      BY <2>5, WriteWorks DEF Exchanges, ReadAnswer, ReadTimeout, ClockSet, line
    <3>2. CASE Write(t) /\ cmd[t] = "A2"
      <4>1. did' = did \/ did' = [did EXCEPT ![t] = @ \union {job[t].valve}]
        BY <3>2, WriteWorks DEF Executes
      <4>2. t = "portal" => call = "config"
        BY <3>2 DEF Write, ControlInv, PortalWorks
      <4>3. QED
        BY <1>1, <4>1, <4>2
    <3>3. QED
      BY <3>1, <3>2
  <2>6. QED
    BY <2>1, <2>2, <2>3, <2>4, <2>5, StepKinds
<1>10. QED
  BY <1>5, <1>6, <1>7, <1>8, <1>9

------------------------------------------------------------------------------
(* The theorems                                                            *)

LEMMA InitInv ==
  ASSUME Init
  PROVE  ForwarderInv
<1>1. TypeOK
  <2>1. ExchangeTypes /\ ControlTypes
    BY DEF Init, ExchangeTypes, ControlTypes, Threads, MAX_A2_A3_RETRY_COUNT
  <2>2. Flags
    BY DEF Init, Flags
  <2>3. ValveSets
    <3>1. Records \in Nat
      BY BoundsAssumption
    <3>2. behind \in [Valves -> 0 .. Records]
      BY <3>1 DEF Init
    <3>3. QED
      BY <3>2 DEF Init, ValveSets
  <2>4. /\ faults \in 0 .. MaxFaults /\ configs \in 0 .. MaxConfigs /\ count \in 0 .. 255
        /\ Len(cmdBuf) <= CardCells /\ Len(asked) <= MaxRequests
        /\ \A i \in 1 .. Len(air) : air[i] \in Answers
    BY BoundsAssumption DEF Init
  <2>5. /\ held \in [Valves -> Kinds \union {"null"}] /\ applied \in [Requests -> Nat]
        /\ replied \in [Requests -> Codes]
    BY DEF Init, Codes
  <2>6. QED
    BY <2>1, <2>2, <2>3, <2>4, <2>5 DEF TypeOK, ExchangeTypes, ControlTypes, Flags, ValveSets, Codes
<1>2. Shapes
  BY EmptySeq DEF Init, Shapes, Threads
<1>3. ControlInv
  BY JobsAreApart
  DEF Init, ControlInv, InExchange, MonitorWorks, PortalWorks, LockInv, Looping, Threads
<1>4. RequestsInv
  BY EmptySeq
  DEF Init, RequestsInv, WaitingInv, NotYetAsked, AttemptsInv, MAX_A2_A3_RETRY_COUNT, Requests
<1>5. TruthInv
  <2>1. \A t \in Threads : ExchangeIsTrue(t)
    BY DEF Init, ExchangeIsTrue, AnswersAreTrue, Awaited, Threads
  <2>2. OpenInv /\ RepliesAreTrue /\ FreshInv /\ CountInv
    BY DEF Init, OpenInv, RepliesAreTrue, FreshInv, DataIsFresh, TimeIsFresh, CountInv, Threads
  <2>3. QED
    BY <2>1, <2>2 DEF TruthInv
<1>6. QED
  BY <1>1, <1>2, <1>3, <1>4, <1>5 DEF ForwarderInv

LEMMA StepInv ==
  ForwarderInv /\ [Next]_vars => ForwarderInv'
<1> SUFFICES ASSUME ForwarderInv, [Next]_vars PROVE ForwarderInv'
  OBVIOUS
<1>1. CASE UNCHANGED vars
  <2> USE <1>1 DEF vars, exchange, line, map, card, portal
  <2>1. TypeOK' /\ Shapes'
    BY DEF ForwarderInv, TypeOK, Shapes
  <2>2. ControlInv'
    BY DEF ForwarderInv, ControlInv, InExchange, MonitorWorks, PortalWorks, AtValve, Base,
       LockInv
  <2>3. RequestsInv'
    BY DEF ForwarderInv, RequestsInv, WaitingInv, NotYetAsked, AttemptsInv, Spent
  <2>4. ~ misread' => TruthInv'
    <3>1. \A t \in Threads : ExchangeIsTrue(t) => ExchangeIsTrue(t)'
      BY DEF ExchangeIsTrue, AnswersAreTrue, IfHeldDone, WasDone, Awaited, Base
    <3>2. OpenInv /\ RepliesAreTrue => OpenInv' /\ RepliesAreTrue'
      BY DEF OpenInv, Answered, RepliesAreTrue
    <3>3. FreshInv /\ CountInv => FreshInv' /\ CountInv'
      BY DEF FreshInv, DataIsFresh, TimeIsFresh, CountInv
    <3>4. QED
      BY <3>1, <3>2, <3>3 DEF ForwarderInv, TruthInv
  <2>5. QED
    BY <2>1, <2>2, <2>3, <2>4 DEF ForwarderInv
<1>2. CASE Next
  <2>1. TypeOK' /\ Shapes' /\ ControlInv' /\ RequestsInv'
    BY <1>2, TypesStep, ControlStep, RequestsStep DEF ForwarderInv
  <2>2. ASSUME ~ misread' PROVE TruthInv'
    <3>1. TruthInv
      BY <1>2, <2>2, MisreadStays DEF ForwarderInv
    <3>2. \A t \in Threads : ExchangeIsTrue(t)'
      BY <1>2, <2>2, <3>1, ExchangeStep DEF ForwarderInv, TruthInv
    <3>3. OpenInv' /\ RepliesAreTrue'
      BY <1>2, <2>2, <3>1, OpenStep DEF ForwarderInv
    <3>4. FreshInv' /\ CountInv'
      BY <1>2, <3>1, FreshStep, CountTruthStep DEF ForwarderInv, TruthInv
    <3>5. QED
      BY <3>2, <3>3, <3>4 DEF TruthInv
  <2>3. QED
    BY <2>1, <2>2 DEF ForwarderInv
<1>3. QED
  BY <1>1, <1>2

LEMMA InvHolds == Spec => []ForwarderInv
BY InitInv, StepInv, PTL DEF Spec

(* Each thread is where the code can be, with a command of its own section *)
(* of the lock, and the buffer and the counters are within their bounds,   *)
(* whatever is lost, late or taken for another answer.                     *)
THEOREM TypeCorrect == Spec => []TypeOK
<1>1. ForwarderInv => TypeOK
  BY DEF ForwarderInv
<1>2. QED
  BY <1>1, InvHolds, PTL

(* SendA2A3 and SendCardHostCommand: nobody is recharged more than twice   *)
(* for one request, whatever answers arrive; and whoever is told of        *)
(* success was recharged, unless an answer was taken for another one.      *)
THEOREM SuccessIsTrue == Spec => []SuccessWasApplied
<1>1. ForwarderInv => SuccessWasApplied
  <2>1. SUFFICES ASSUME ForwarderInv, NEW n \in 1 .. Len(asked)
                 PROVE  applied[n] <= 2 /\ (replied[n] = "ok" => applied[n] > 0 \/ misread)
    BY DEF SuccessWasApplied
  <2>2. n \in Requests
    <3>1. Len(asked) <= MaxRequests
      BY <2>1 DEF ForwarderInv, TypeOK
    <3>2. Len(asked) \in Nat
      BY <2>1, LenProperties DEF ForwarderInv, Shapes
    <3>3. QED
      BY <3>1, <3>2, BoundsAssumption DEF Requests
  <2>3. QED
    BY <2>1, <2>2 DEF ForwarderInv, RequestsInv, AttemptsInv, TruthInv, RepliesAreTrue,
       MAX_A2_A3_RETRY_COUNT
<1>2. QED
  BY <1>1, InvHolds, PTL

(* Who has not been answered is waiting in the requests' buffer.           *)
UnansweredWait ==
  \A n \in 1 .. Len(asked) :
    replied[n] = "nothing" => (\E i \in 1 .. Len(cmdBuf) : cmdBuf[i].n = n) \/ misread

(* SendCardHostCommand: no request that got a cell leaves it unanswered,   *)
(* whatever is lost, late or never carried out: each of them waits or was  *)
(* told something, unless an answer was taken for another one.             *)
THEOREM NoRequestIsForgotten == Spec => []UnansweredWait
<1>1. ForwarderInv => UnansweredWait
  BY DEF ForwarderInv, TruthInv, OpenInv, UnansweredWait
<1>2. QED
  BY <1>1, InvHolds, PTL

(* GetPunctualData, GetValveTime and SendForwarderData: a valve whose data *)
(* are handed to the portal has given its time in this pass, and its       *)
(* temperatures too, unless reading them failed, unless an answer was      *)
(* taken for another one.                                                  *)
THEOREM SentDataIsFresh == Spec => []SentIsFresh
<1>1. ForwarderInv => SentIsFresh
  BY DEF ForwarderInv, TruthInv, FreshInv, DataIsFresh, TimeIsFresh, SentIsFresh, Sent
<1>2. QED
  BY <1>1, InvHolds, PTL

(* ConfigValve: the count the server gets is of no more valves than did    *)
(* take the configuration.                                                 *)
THEOREM CountIsTrue == Spec => []ConfiguredValvesAreCounted
<1>1. ForwarderInv => ConfiguredValvesAreCounted
  <2>1. SUFFICES ASSUME ForwarderInv, call = "config", ~ misread
                 PROVE  count <= Cardinality(did["portal"])
    BY DEF ConfiguredValvesAreCounted
  <2>2. did["portal"] \in SUBSET Valves /\ count \in Nat
    BY <2>1 DEF ForwarderInv, TypeOK, Shapes, Threads
  <2>3. IsFiniteSet(did["portal"])
    BY <2>2, ValvesAssumption, FS_Subset
  <2>4. /\ Cardinality(did["portal"] \ todo["portal"]) <= Cardinality(did["portal"])
        /\ Cardinality(did["portal"] \ todo["portal"]) \in Nat
        /\ Cardinality(did["portal"]) \in Nat
    BY <2>3, FS_Subset, FS_CardinalityType
  <2>5. count <= Cardinality(did["portal"] \ todo["portal"])
    BY <2>1 DEF ForwarderInv, TruthInv, CountInv
  <2>6. QED
    BY <2>2, <2>4, <2>5
<1>2. QED
  BY <1>1, InvHolds, PTL

(* GetForwarderInfoTask and ConfigValve lose m_ForwarderLock where the     *)
(* data are not ready, and no other step leaves it held for good.          *)
THEOREM LockLostOnlyWhenNotReady == Spec => LostOnlyWhenNotReady
<1>1. ForwarderInv /\ [Next]_vars => [Leaked' /\ ~ Leaked => ~ ready]_vars
  <2>1. SUFFICES ASSUME ForwarderInv, Next, Leaked', ~ Leaked, ready PROVE FALSE
    OBVIOUS
  <2>2. /\ lock' = lock /\ (call' = "config" <=> call = "config")
           /\ (phase' \in {"data", "time", "record"} <=> phase \in {"data", "time", "record"})
        \/ LockRound \/ GotTime \/ GetForwarderInfoTask \/ DayNoonTimerTask \/ GotRecords
        \/ LockConfig \/ Configured
    <3>1. ASSUME NEW t \in Threads, Exchanges(t) \/ Loops(t)
          PROVE  UNCHANGED <<lock, call, phase>>
      BY <2>1, <3>1, ExchangeControl, LoopKinds DEF ForwarderInv, ControlInv
    <3>2. CASE Pass \/ SentA1 \/ SendCardHostCommand \/ CardHostCommandDone
      BY <3>2 DEF Pass, SentA1, SendCardHostCommand, CardHostCommandDone, Goes, portal
    <3>3. CASE Rests
      BY <3>3, CardHostKinds DEF Rests, GotIds, Round, SaveUsers, FillUsers, GotData,
         SendForwarderData, NotNoon, ConfigValve, Goes, portal
    <3>4. QED
      BY <2>1, <3>1, <3>2, <3>3, StepKinds
  <2>3. QED
    BY <2>1, <2>2 DEF Leaked, LockRound, GotTime, GetForwarderInfoTask, DayNoonTimerTask,
       GotRecords, LockConfig, Configured, Goes
<1>2. QED
  BY <1>1, InvHolds, PTL DEF Spec, LostOnlyWhenNotReady
==============================================================================
