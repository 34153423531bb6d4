---------------------------- MODULE PortalProofs -----------------------------
(***************************************************************************)
(* What Portal promises, for any queues, any range of the serial index,    *)
(* any number of retries, records, commands and faults.  Of the uplink,    *)
(* over a network whose datagrams live for fewer exchanges than the serial *)
(* index has values: no record is lost, they arrive in order, and each     *)
(* queue with the server implements the reliable line of Uplink.  Of the   *)
(* downlink: a command is executed again only after a fault, and none      *)
(* leaves m_ReceivePacketMap unexecuted but by a restart.                  *)
(***************************************************************************)
EXTENDS Portal, SequenceTheorems, TLAPS

------------------------------------------------------------------------------
(* The inductive invariant of the uplink                                   *)

(* The packet of the running exchange: a registration, a heartbeat or the  *)
(* front of the queue that Run has locked.                                 *)
ExchangeInv ==
  phase # "none" =>
    /\ tx \in Packets /\ tx.serial = serial
    /\ stage \in {"register", "beat", "queue"}
    /\ phase = "receive" => attempt < Retries
    /\ stage = "register" => tx.fun = "register" /\ tx.n = 0
    /\ stage = "beat" => tx.fun = "heartbeat"
    /\ stage = "queue" => /\ draining /\ q <= Len(QueueOrder)
                          /\ queue[Current] # <<>>
                          /\ tx.fun = Current /\ tx.n = Head(queue[Current])

(* A datagram's serial index and its age tell the current serial index, so *)
(* that one that bears it belongs to the running exchange.                 *)
Stamped(d) ==
  d.packet.fun \in Funs =>
    /\ d.packet.serial + d.age \in {serial, serial + MaxSerial + 1}
    /\ d.age = 0 => phase # "none" /\ d.packet = tx
    /\ d.packet.fun = "register" => d.packet.n = 0

StampedInv == \A d \in up \union down : Stamped(d)

(* What is answered was received.                                          *)
AnsweredInv ==
  \A d \in down :
    /\ d.packet.fun \in Kinds => <<d.packet.fun, d.packet.n>> \in received
    /\ d.packet.fun = "register" /\ d.age = 0 => <<"register", 0>> \in received

Left(k) == inserted[k] - Len(queue[k])

(* The queue holds the last records inserted; the server has all those     *)
(* that have left it, and of the others at most the first.                 *)
QueueInv(k) ==
  /\ Left(k) >= 0
  /\ \A i \in 1 .. Len(queue[k]) : queue[k][i] = Left(k) + i
  /\ \A n \in 1 .. Left(k) : <<k, n>> \in received
  /\ \A n \in 1 .. MaxRecords : <<k, n>> \in received => n <= Left(k) + 1
  /\ \A d \in up : d.packet.fun = k =>
       d.packet.n <= Left(k) + 1 /\ d.packet.n <= inserted[k]

PortalInv ==
  /\ TypeOK
  /\ stage = "reply" => c <= Len(FunList)
  /\ ExchangeInv /\ StampedInv /\ AnsweredInv
  /\ \A k \in Kinds : QueueInv(k)
  /\ RegisteredAtServer

------------------------------------------------------------------------------
(* Names and numbers *)

LEMMA NamesAreApart ==
  /\ Len(FunList) = 3 /\ Commands = {"switch", "heattime", "config"}
  /\ Funs \cap Commands = {}
  /\ "register" \notin Kinds /\ "heartbeat" \notin Kinds
<1>1. FunList = <<"switch", "heattime", "config">> /\ DOMAIN FunList = 1 .. 3
  BY DEF FunList
<1>2. Len(FunList) = 3 /\ Commands = {FunList[1], FunList[2], FunList[3]}
  BY <1>1 DEF Commands
<1>3. QED
  BY <1>1, <1>2, OrderAssumption DEF Funs

LEMMA QueuesAreKinds ==
  /\ Len(QueueOrder) \in Nat
  /\ \A i \in 1 .. Len(QueueOrder) : QueueOrder[i] \in Kinds
<1>1. QueueOrder \in Seq(STRING)
  BY OrderAssumption
<1>2. Len(QueueOrder) \in Nat /\ DOMAIN QueueOrder = 1 .. Len(QueueOrder)
  BY <1>1, LenProperties
<1>3. QED
  BY <1>2 DEF Kinds

(* The packet built for a registration, a heartbeat or a record.           *)
LEMMA PacketIsPacket ==
  ASSUME NEW fun \in Funs, NEW n \in 0 .. MaxRecords, NEW s \in 0 .. MaxSerial
  PROVE  [fun |-> fun, n |-> n, serial |-> s] \in Packets
BY DEF Packets

(* Where the running exchange can be.                                      *)
LEMMA ExchangeStages ==
  ASSUME PortalInv
  PROVE  /\ stage \notin {"register", "beat", "queue"} => phase = "none"
         /\ stage = "queue" /\ q > Len(QueueOrder) => phase = "none"
BY QueuesAreKinds DEF PortalInv, ExchangeInv, TypeOK

------------------------------------------------------------------------------
(* The exchange *)

(* A sending failed, or a wait for an answer: the exchange goes on.        *)
Retry == SendFails \/ ReadTimesOut \/ \E d \in down : ReadUnwanted(d)

LEMMA RetryKeepsExchange ==
  ASSUME PortalInv, Retry
  PROVE  /\ phase # "none" /\ phase' \in {"send", "receive"}
         /\ phase' = "receive" => phase = "receive" /\ attempt' = attempt
         /\ attempt' \in 0 .. Retries /\ reads' \in 0 .. Retries
         /\ UNCHANGED <<tx, serial, stage, draining, q, queue, connected, registered, c, up,
                        inserted, received, commanded, executed>>
         /\ down' \subseteq down
<1>1. /\ attempt \in 0 .. Retries /\ reads \in 0 .. Retries /\ Retries \in Nat /\ Retries > 0
      /\ phase = "receive" => attempt < Retries
  BY NumbersAssumption DEF PortalInv, TypeOK, ExchangeInv
<1>2. CASE SendFails
  <2>1. /\ phase = "send" /\ attempt < Retries /\ NextAttempt
        /\ UNCHANGED <<link, control, queue, network, inserted, server, executed>>
    BY <1>2 DEF SendFails
  <2>2. QED
    BY <1>1, <2>1 DEF NextAttempt, link, control, network, server
<1>3. CASE ReadTimesOut
  <2>1. /\ phase = "receive" /\ NextRead(reads + 1)
        /\ UNCHANGED <<link, control, queue, network, inserted, server, executed>>
    BY <1>3 DEF ReadTimesOut
  <2>2. QED
    BY <1>1, <2>1 DEF NextRead, NextAttempt, link, control, network, server
<1>4. CASE \E d \in down : ReadUnwanted(d)
  <2>1. /\ phase = "receive" /\ (NextRead(1) \/ NextRead(reads + 1))
        /\ down' \subseteq down
        /\ UNCHANGED <<link, control, queue, up, inserted, server, executed>>
    BY <1>4 DEF ReadUnwanted, Take
  <2>2. QED
    BY <1>1, <2>1 DEF NextRead, NextAttempt, link, control, network, server
<1>5. QED
  BY <1>2, <1>3, <1>4 DEF Retry

(* A step of Run outside an exchange, which begins none.                   *)
Between ==
  \/ Connect \/ SkipRegister \/ SkipHeartBeat
  \/ \E d \in down : Receive(d)
  \/ ReceiveNothing \/ Execute \/ Reply \/ ExecuteDone
  \/ EnterQueue \/ SkipQueue \/ LeaveQueue \/ InfoTask

LEMMA BetweenKeeps ==
  ASSUME PortalInv, Between
  PROVE  /\ phase = "none"
         /\ UNCHANGED <<phase, tx, attempt, reads, serial, queue, up, inserted, commanded>>
         /\ down' \subseteq down
<1>1. phase = "none"
  BY ExchangeStages
     DEF Between, Connect, SkipRegister, SkipHeartBeat, Receive, ReceiveNothing, Execute, Reply,
         ExecuteDone, EnterQueue, SkipQueue, LeaveQueue, InfoTask, AtQueue
<1>2. CASE \E d \in down : Receive(d)
  BY <1>1, <1>2 DEF Receive, Take, link, exchange, server
<1>3. CASE ~ \E d \in down : Receive(d)
  BY <1>1, <1>3
     DEF Between, Connect, SkipRegister, SkipHeartBeat, ReceiveNothing, Execute, Reply,
         ExecuteDone, EnterQueue, SkipQueue, LeaveQueue, InfoTask, AtQueue, link, exchange,
         network, server
<1>4. QED
  BY <1>2, <1>3

(* An exchange begins.                                                     *)
Begin == Register \/ HeartBeat \/ SendFront

LEMMA BeginKeeps ==
  ASSUME PortalInv, Begin
  PROVE  /\ phase = "none" /\ phase' = "send" /\ attempt' = 0 /\ reads' = 0
         /\ UNCHANGED <<connected, registered, serial, stage, q, draining, c, queue, stash, up,
                        down, inserted, received, commanded, executed, faults>>
BY DEF Begin, Register, HeartBeat, SendFront, AtQueue, BeginExchange, link, control, network,
       server

(* An exchange ends, with an answer or without one.                        *)
End == ExchangeFails \/ \E d \in down : ReadAnswer(d)

LEMMA EndKeeps ==
  ASSUME PortalInv, End
  PROVE  /\ phase # "none" /\ phase' = "none"
         /\ serial' = IF serial + 1 > MaxSerial THEN 0 ELSE serial + 1
         /\ up' = Older(up) /\ down' \subseteq Older(down)
         /\ UNCHANGED <<tx, attempt, reads, c, stash, inserted, received, commanded, executed>>
<1>1. CASE ExchangeFails
  BY <1>1 DEF ExchangeFails, EndExchange, server
<1>2. CASE \E d \in down : ReadAnswer(d)
  <2>1. PICK d \in down : ReadAnswer(d)
    BY <1>2
  <2>2. down' = Older(down \ {d}) \/ down' = Older(down)
    BY <2>1 DEF ReadAnswer
  <2>3. Older(down \ {d}) \subseteq Older(down)
    BY DEF Older
  <2>4. QED
    BY <2>1, <2>2, <2>3 DEF ReadAnswer, EndExchange, server
<1>3. QED
  BY <1>1, <1>2 DEF End

(* The steps, grouped by what they do to the exchange.                     *)
Others ==
  \/ \E k \in Kinds : Insert(k)
  \/ \E d \in up : ServerReceives(d)
  \/ \E f \in Commands : ServerCommands(f)
  \/ Lose

LEMMA OthersKeep ==
  ASSUME Others
  PROVE  UNCHANGED <<connected, registered, serial, stage, q, draining, c, phase, tx, attempt,
                     reads, stash, executed>>
BY DEF Others, Insert, ServerReceives, ServerCommands, Lose, link, control, exchange

LEMMA NextIsOneOf ==
  Next => Retry \/ Between \/ Begin \/ End \/ SendPacket \/ Others \/ Restart
BY DEF Next, Exchange, RunStep, Retry, Between, Begin, End, Others

LEMMA ExchangeStep == PortalInv /\ [Next]_vars => ExchangeInv'
<1> SUFFICES ASSUME PortalInv, [Next]_vars PROVE ExchangeInv'
  OBVIOUS
<1>1. TypeOK /\ ExchangeInv
  BY DEF PortalInv
<1>2. CASE Retry
  <2>1. UNCHANGED <<tx, serial, stage, draining, q, queue>>
    BY <1>2, RetryKeepsExchange
  <2>2. phase # "none" /\ (phase' = "receive" => phase = "receive" /\ attempt' = attempt)
    BY <1>2, RetryKeepsExchange
  <2>3. QED
    BY <1>1, <2>1, <2>2 DEF ExchangeInv, Current
<1>3. CASE Between \/ End \/ Restart
  <2>1. phase' = "none"
    BY <1>3, BetweenKeeps, EndKeeps DEF Restart
  <2>2. QED
    BY <2>1 DEF ExchangeInv
<1>4. CASE Register
  <2>1. /\ stage = "register" /\ tx' = [fun |-> "register", n |-> 0, serial |-> serial]
        /\ UNCHANGED <<stage, serial>> /\ phase' = "send"
    BY <1>4, BeginKeeps DEF Register, BeginExchange, Begin
  <2>2. "register" \in Funs /\ 0 \in 0 .. MaxRecords /\ serial \in 0 .. MaxSerial
    BY <1>1, NumbersAssumption DEF TypeOK, Funs
  <2>3. tx' \in Packets
    BY <2>1, <2>2, PacketIsPacket
  <2>4. QED
    BY <2>1, <2>3 DEF ExchangeInv
<1>5. CASE HeartBeat
  <2>1. /\ stage = "beat" /\ tx' = [fun |-> "heartbeat", n |-> 0, serial |-> serial]
        /\ UNCHANGED <<stage, serial>> /\ phase' = "send"
    BY <1>5, BeginKeeps DEF HeartBeat, BeginExchange, Begin
  <2>2. "heartbeat" \in Funs /\ 0 \in 0 .. MaxRecords /\ serial \in 0 .. MaxSerial
    BY <1>1, NumbersAssumption DEF TypeOK, Funs
  <2>3. tx' \in Packets
    BY <2>1, <2>2, PacketIsPacket
  <2>4. QED
    BY <2>1, <2>3 DEF ExchangeInv
<1>6. CASE SendFront
  <2>1. /\ stage = "queue" /\ draining /\ q <= Len(QueueOrder) /\ queue[Current] # <<>>
        /\ tx' = [fun |-> Current, n |-> Head(queue[Current]), serial |-> serial]
        /\ UNCHANGED <<stage, serial, draining, q, queue>> /\ phase' = "send"
    BY <1>6, BeginKeeps DEF SendFront, AtQueue, BeginExchange, Begin
  <2>2. Current \in Kinds
    BY <1>1, <2>1, QueuesAreKinds DEF TypeOK, Current
  <2>3. queue[Current] \in Seq(1 .. MaxRecords)
    BY <1>1, <2>2 DEF TypeOK
  <2>4. Head(queue[Current]) \in 1 .. MaxRecords
    BY <2>1, <2>3, HeadTailProperties
  <2>5. Head(queue[Current]) \in 0 .. MaxRecords /\ serial \in 0 .. MaxSerial /\ Current \in Funs
    BY <1>1, <2>2, <2>4, NumbersAssumption DEF TypeOK, Funs
  <2>6. tx' \in Packets
    BY <2>1, <2>5, PacketIsPacket
  <2>7. Current' = Current /\ queue'[Current] = queue[Current]
    BY <2>1 DEF Current
  <2>8. QED
    BY <2>1, <2>6, <2>7 DEF ExchangeInv
<1>7. CASE SendPacket
  <2>1. /\ phase = "send" /\ phase' = "receive" /\ attempt < Retries
        /\ UNCHANGED <<stage, serial, draining, q, queue, tx, attempt>>
    BY <1>7 DEF SendPacket, link, control
  <2>2. QED
    BY <1>1, <2>1 DEF ExchangeInv, Current
<1>8. CASE Others
  <2>1. UNCHANGED <<stage, serial, draining, q, phase, tx, attempt>>
    BY <1>8, OthersKeep
  <2>2. ASSUME phase # "none", stage = "queue" PROVE queue'[Current] = queue[Current]
    <3>1. draining /\ Current \in Kinds
      BY <1>1, <2>2, QueuesAreKinds DEF ExchangeInv, TypeOK, Current
    <3>2. CASE \E k \in Kinds : Insert(k)
      BY <1>1, <3>1, <3>2 DEF Insert, TypeOK
    <3>3. CASE queue' = queue
      BY <3>3
    <3>4. QED
      BY <1>8, <3>2, <3>3 DEF Others, ServerReceives, ServerCommands, Lose
  <2>3. QED
    BY <1>1, <2>1, <2>2 DEF ExchangeInv, Current
<1>9. CASE UNCHANGED vars
  BY <1>1, <1>9 DEF ExchangeInv, Current, vars, link, control, exchange
<1>10. QED
  BY <1>2, <1>3, <1>4, <1>5, <1>6, <1>7, <1>8, <1>9, NextIsOneOf DEF Begin

------------------------------------------------------------------------------
(* The network *)

LEMMA NetworkTypes ==
  ASSUME TypeOK
  PROVE  /\ \A d \in up : d.packet \in Packets /\ d.age \in 0 .. Lifetime
         /\ \A d \in down : d.packet \in Packets \union CommandPackets /\ d.age \in 0 .. Lifetime
         /\ \A d \in down : d.packet.fun \in Funs => d.packet \in Packets
         /\ \A d \in down : d.packet.fun \in Commands => d.packet.n \in 1 .. MaxCommands
<1>1. up \subseteq Aged(Packets) /\ down \subseteq Aged(Packets \union CommandPackets)
  BY DEF TypeOK
<1>2. /\ \A d \in up : d.packet \in Packets /\ d.age \in 0 .. Lifetime
      /\ \A d \in down : d.packet \in Packets \union CommandPackets /\ d.age \in 0 .. Lifetime
  BY <1>1 DEF Aged
<1>3. \A p \in CommandPackets : p.fun \notin Funs /\ p.n \in 1 .. MaxCommands
  BY NamesAreApart DEF CommandPackets
<1>4. \A p \in Packets : p.fun \notin Commands
  BY NamesAreApart DEF Packets
<1>5. QED
  BY <1>2, <1>3, <1>4

(* Growing older keeps the types, and takes nothing into the network.      *)
LEMMA OlderIsAged ==
  ASSUME NEW P, NEW net \in SUBSET Aged(P)
  PROVE  /\ Older(net) \in SUBSET Aged(P)
         /\ \A e \in Older(net) : \E d \in net : e = [packet |-> d.packet, age |-> d.age + 1]
<1>1. ASSUME NEW e \in Older(net)
      PROVE  /\ e \in Aged(P)
             /\ \E d \in net : e = [packet |-> d.packet, age |-> d.age + 1]
  <2>1. PICK d \in net : d.age < Lifetime /\ e = [packet |-> d.packet, age |-> d.age + 1]
    BY <1>1 DEF Older
  <2>2. d.packet \in P /\ d.age \in 0 .. Lifetime
    BY DEF Aged
  <2>3. d.age + 1 \in 0 .. Lifetime
    BY <2>1, <2>2, NumbersAssumption
  <2>4. e \in Aged(P)
    BY <2>1, <2>2, <2>3 DEF Aged
  <2>5. QED
    BY <2>1, <2>4
<1>2. QED
  BY <1>1

LEMMA NetworkStep ==
  PortalInv /\ [Next]_vars =>
    up' \subseteq Aged(Packets) /\ down' \subseteq Aged(Packets \union CommandPackets)
<1> SUFFICES ASSUME PortalInv, [Next]_vars
             PROVE  up' \subseteq Aged(Packets) /\ down' \subseteq Aged(Packets \union CommandPackets)
  OBVIOUS
<1>1. up \subseteq Aged(Packets) /\ down \subseteq Aged(Packets \union CommandPackets)
  BY DEF PortalInv, TypeOK
<1>2. CASE up' \subseteq up /\ down' \subseteq down
  BY <1>1, <1>2
<1>3. CASE End
  BY <1>1, <1>3, EndKeeps, OlderIsAged
<1>4. CASE SendPacket
  <2>1. up' = up \union {[packet |-> tx, age |-> 0]} /\ down' = down /\ tx \in Packets
    BY <1>4 DEF SendPacket, PortalInv, ExchangeInv
  <2>2. [packet |-> tx, age |-> 0] \in Aged(Packets)
    BY <2>1, NumbersAssumption DEF Aged
  <2>3. QED
    BY <1>1, <2>1, <2>2
<1>5. CASE \E d \in up : ServerReceives(d)
  <2>1. PICK d \in up : down' = down \union {d} /\ up' \subseteq up
    BY <1>5 DEF ServerReceives, Take
  <2>2. d \in Aged(Packets \union CommandPackets)
    BY <1>1 DEF Aged
  <2>3. QED
    BY <1>1, <2>1, <2>2
<1>6. CASE \E f \in Commands : ServerCommands(f)
  <2>1. PICK f \in Commands : ServerCommands(f)
    BY <1>6
  <2>2. commanded + 1 \in 1 .. MaxCommands
    BY <2>1, NumbersAssumption DEF ServerCommands, PortalInv, TypeOK
  <2>3. [fun |-> f, n |-> commanded + 1, serial |-> 0] \in CommandPackets
    BY <2>2 DEF CommandPackets
  <2>4. [packet |-> [fun |-> f, n |-> commanded + 1, serial |-> 0], age |-> 0]
          \in Aged(Packets \union CommandPackets)
    BY <2>3, NumbersAssumption DEF Aged
  <2>5. QED
    BY <1>1, <2>1, <2>4 DEF ServerCommands
<1>7. CASE Lose \/ Restart \/ \E k \in Kinds : Insert(k)
  BY <1>1, <1>7 DEF Lose, Restart, Insert, network
<1>8. QED
  <2>1. Retry \/ Between \/ Begin \/ UNCHANGED vars => up' \subseteq up /\ down' \subseteq down
    BY RetryKeepsExchange, BetweenKeeps, BeginKeeps DEF vars, network
  <2>2. QED
    BY <1>2, <1>3, <1>4, <1>5, <1>6, <1>7, <2>1, NextIsOneOf DEF Others

(* An answer to the running exchange was sent in it.                       *)
LEMMA AnswersAreFresh ==
  ASSUME PortalInv, phase # "none", NEW d \in down, Answers(d.packet)
  PROVE  d.age = 0 /\ d.packet = tx /\ tx \in Packets
<1>1. tx \in Packets /\ tx.serial = serial /\ d.packet.fun = tx.fun /\ d.packet.serial = serial
  BY DEF PortalInv, ExchangeInv, Answers
<1>2. d.packet.fun \in Funs
  BY <1>1 DEF Packets
<1>3. /\ d.packet.serial + d.age \in {serial, serial + MaxSerial + 1}
      /\ d.age = 0 => d.packet = tx
  BY <1>2 DEF PortalInv, StampedInv, Stamped
<1>4. d.age \in 0 .. Lifetime /\ serial \in 0 .. MaxSerial
  BY NetworkTypes DEF PortalInv, TypeOK
<1>5. d.age = 0
  BY <1>1, <1>3, <1>4, NumbersAssumption, LifetimeAssumption
<1>6. QED
  BY <1>1, <1>3, <1>5

LEMMA StampedStep == PortalInv /\ [Next]_vars => StampedInv'
<1> SUFFICES ASSUME PortalInv, [Next]_vars PROVE StampedInv'
  OBVIOUS
<1>1. TypeOK /\ \A d \in up \union down : Stamped(d)
  BY DEF PortalInv, StampedInv
<1>2. ASSUME NEW d \in up \union down, serial' = serial,
             phase = "none" \/ (phase' # "none" /\ tx' = tx)
      PROVE  Stamped(d)'
  BY <1>1, <1>2 DEF Stamped
<1>3. CASE Retry \/ Between \/ Begin
  <2>1. /\ up' \subseteq up /\ down' \subseteq down /\ serial' = serial
        /\ phase = "none" \/ (phase' # "none" /\ tx' = tx)
    BY <1>3, RetryKeepsExchange, BetweenKeeps, BeginKeeps
  <2>2. QED
    BY <1>2, <2>1 DEF StampedInv
<1>4. CASE SendPacket
  <2>1. /\ up' = up \union {[packet |-> tx, age |-> 0]} /\ down' = down
        /\ phase = "send" /\ phase' = "receive"
        /\ UNCHANGED <<tx, serial>>
    BY <1>4 DEF SendPacket, link
  <2>2. /\ tx \in Packets /\ tx.serial = serial /\ serial \in Nat
        /\ tx.fun = "register" => tx.n = 0
    <3>1. tx \in Packets /\ tx.serial = serial /\ serial \in Nat
      BY <1>1, <2>1 DEF PortalInv, ExchangeInv, TypeOK
    <3>2. tx.fun = "register" => stage = "register"
      <4>1. stage = "queue" => tx.fun \in Kinds
        <5>1. stage = "queue" => q \in 1 .. Len(QueueOrder) /\ tx.fun = QueueOrder[q]
          BY <1>1, <2>1, QueuesAreKinds DEF PortalInv, ExchangeInv, TypeOK, Current
        <5>2. QED
          BY <5>1, QueuesAreKinds
      <4>2. QED
        BY <2>1, <4>1, NamesAreApart DEF PortalInv, ExchangeInv
    <3>3. QED
      BY <2>1, <3>1, <3>2 DEF PortalInv, ExchangeInv
  <2>3. Stamped([packet |-> tx, age |-> 0])'
    BY <2>1, <2>2 DEF Stamped
  <2>4. \A d \in up \union down : Stamped(d)'
    BY <1>2, <2>1
  <2>5. \A d \in up' \union down' : Stamped(d)'
    BY <2>1, <2>3, <2>4
  <2>6. QED
    BY <2>5 DEF StampedInv
<1>5. CASE End
  <2>1. /\ serial' = IF serial + 1 > MaxSerial THEN 0 ELSE serial + 1
        /\ up' \union down' \subseteq Older(up) \union Older(down)
    BY <1>5, EndKeeps
  <2>2. ASSUME NEW e \in up' \union down' PROVE Stamped(e)'
    <3>1. /\ up \in SUBSET Aged(Packets)
          /\ down \in SUBSET Aged(Packets \union CommandPackets)
      BY <1>1 DEF TypeOK
    <3>2. PICK d \in up \union down : e = [packet |-> d.packet, age |-> d.age + 1]
      BY <2>1, <3>1, OlderIsAged
    <3>3. d.age \in 0 .. Lifetime /\ (d.packet.fun \in Funs => d.packet.serial \in 0 .. MaxSerial)
      BY <1>1, NetworkTypes DEF Packets
    <3>4. serial \in 0 .. MaxSerial
      BY <1>1 DEF TypeOK
    <3>5. ASSUME e.packet.fun \in Funs
          PROVE  /\ e.packet.serial + e.age \in {serial', serial' + MaxSerial + 1}
                 /\ e.age # 0
                 /\ e.packet.fun = "register" => e.packet.n = 0
      <4>1. /\ d.packet.serial + d.age \in {serial, serial + MaxSerial + 1}
            /\ d.packet.fun = "register" => d.packet.n = 0
        BY <1>1, <3>2, <3>5 DEF Stamped
      <4>2. /\ e.packet.serial = d.packet.serial /\ e.age = d.age + 1
            /\ e.packet.fun = d.packet.fun /\ e.packet.n = d.packet.n
        BY <3>2
      <4>3. d.packet.serial \in 0 .. MaxSerial
        BY <3>3, <3>5, <4>2
      <4>4. d.packet.serial + d.age + 1 \in {serial', serial' + MaxSerial + 1}
        BY <2>1, <3>3, <3>4, <4>1, <4>3, NumbersAssumption, LifetimeAssumption
      <4>5. e.packet.serial + e.age \in {serial', serial' + MaxSerial + 1}
        BY <3>3, <4>2, <4>3, <4>4
      <4>6. e.age # 0
        BY <3>3, <4>2
      <4>7. QED
        BY <4>1, <4>2, <4>5, <4>6
    <3>6. QED
      BY <3>5 DEF Stamped
  <2>3. QED
    BY <2>2 DEF StampedInv
<1>6. CASE Others
  <2>1. /\ serial' = serial
        /\ phase = "none" \/ (phase' # "none" /\ tx' = tx)
    BY <1>6, OthersKeep
  <2>2. CASE \E f \in Commands : ServerCommands(f)
    <3>1. PICK f \in Commands :
             /\ up' = up
             /\ down' = down \union
                  {[packet |-> [fun |-> f, n |-> commanded + 1, serial |-> 0], age |-> 0]}
      BY <2>2 DEF ServerCommands
    <3>2. Stamped([packet |-> [fun |-> f, n |-> commanded + 1, serial |-> 0], age |-> 0])'
      BY NamesAreApart DEF Stamped
    <3>3. \A d \in up \union down : Stamped(d)'
      BY <1>2, <2>1
    <3>4. \A d \in up' \union down' : Stamped(d)'
      <4>1. ASSUME NEW d \in up' \union down' PROVE Stamped(d)'
        <5>1. \/ d \in up \union down
              \/ d = [packet |-> [fun |-> f, n |-> commanded + 1, serial |-> 0], age |-> 0]
          BY <3>1
        <5>2. d.packet.fun \in Funs => d \in up \union down
          BY <5>1, NamesAreApart
        <5>3. QED
          BY <3>3, <5>2 DEF Stamped
      <4>2. QED
        BY <4>1
    <3>5. QED
      BY <3>4 DEF StampedInv
  <2>3. CASE ~ \E f \in Commands : ServerCommands(f)
    <3>1. up' \union down' \subseteq up \union down
      BY <1>6, <2>3 DEF Others, Insert, ServerReceives, Take, Lose, network
    <3>2. QED
      BY <1>2, <2>1, <3>1 DEF StampedInv
  <2>4. QED
    BY <2>2, <2>3
<1>7. CASE Restart
  <2>1. up' = {} /\ down' = {}
    BY <1>7 DEF Restart
  <2>2. QED
    BY <2>1 DEF StampedInv
<1>8. CASE UNCHANGED vars
  BY <1>1, <1>8 DEF StampedInv, Stamped, vars, link, exchange, network
<1>9. QED
  BY <1>3, <1>4, <1>5, <1>6, <1>7, <1>8, NextIsOneOf

------------------------------------------------------------------------------
(* The server and the registration *)

(* What a datagram in `down' was before the exchange ended.                *)
LEMMA OlderDown ==
  ASSUME TypeOK, NEW e \in Older(down)
  PROVE  e.age # 0 /\ \E d \in down : e.packet = d.packet
<1>1. down \in SUBSET Aged(Packets \union CommandPackets)
  BY DEF TypeOK
<1>2. PICK d \in down : e = [packet |-> d.packet, age |-> d.age + 1]
  BY <1>1, OlderIsAged
<1>3. d.age \in 0 .. Lifetime
  BY NetworkTypes
<1>4. QED
  BY <1>2, <1>3

LEMMA OlderUp ==
  ASSUME TypeOK, NEW e \in Older(up)
  PROVE  \E d \in up : e.packet = d.packet
<1>1. up \in SUBSET Aged(Packets)
  BY DEF TypeOK
<1>2. QED
  BY <1>1, OlderIsAged

LEMMA AnsweredStep == PortalInv /\ [Next]_vars => AnsweredInv'
<1> SUFFICES ASSUME PortalInv, [Next]_vars PROVE AnsweredInv'
  OBVIOUS
<1>1. /\ TypeOK
      /\ \A d \in down : /\ d.packet.fun \in Kinds => <<d.packet.fun, d.packet.n>> \in received
                         /\ d.packet.fun = "register" /\ d.age = 0 => <<"register", 0>> \in received
  BY DEF PortalInv, AnsweredInv
<1>2. CASE received \subseteq received' /\ down' \subseteq down
  BY <1>1, <1>2 DEF AnsweredInv
<1>3. CASE Connect
  <2>1. received' \in {received, received \ {<<"register", 0>>}} /\ down' = down /\ phase = "none"
    BY <1>3, BetweenKeeps DEF Connect, network, server, Between
  <2>2. \A d \in down : d.packet.fun = "register" => d.age # 0
    BY <2>1 DEF PortalInv, StampedInv, Stamped, Funs
  <2>3. \A d \in down : d.packet.fun \in Kinds => <<d.packet.fun, d.packet.n>> \in received'
    BY <1>1, <2>1, NamesAreApart
  <2>4. QED
    BY <2>1, <2>2, <2>3 DEF AnsweredInv
<1>4. CASE End
  <2>1. down' \subseteq Older(down) /\ received' = received
    BY <1>4, EndKeeps
  <2>2. \A e \in down' : e.age # 0 /\ \E d \in down : e.packet = d.packet
    BY <1>1, <2>1, OlderDown
  <2>3. QED
    BY <1>1, <2>1, <2>2 DEF AnsweredInv
<1>5. CASE \E d \in up : ServerReceives(d)
  <2>1. PICK d \in up : /\ received' = received \union {<<d.packet.fun, d.packet.n>>}
                        /\ down' = down \union {d}
    BY <1>5 DEF ServerReceives
  <2>2. d.packet.fun = "register" => d.packet.n = 0
    BY DEF PortalInv, StampedInv, Stamped, Funs
  <2>3. ASSUME NEW e \in down'
        PROVE  /\ e.packet.fun \in Kinds => <<e.packet.fun, e.packet.n>> \in received'
               /\ e.packet.fun = "register" /\ e.age = 0 => <<"register", 0>> \in received'
    <3>1. CASE e = d
      <4>1. <<d.packet.fun, d.packet.n>> \in received'
        BY <2>1
      <4>2. d.packet.fun = "register" => <<"register", 0>> \in received'
        BY <2>2, <4>1
      <4>3. QED
        BY <3>1, <4>1, <4>2
    <3>2. CASE e \in down
      BY <1>1, <2>1, <3>2
    <3>3. QED
      BY <2>1, <3>1, <3>2
  <2>4. QED
    BY <2>3 DEF AnsweredInv
<1>6. CASE \E f \in Commands : ServerCommands(f)
  <2>1. PICK f \in Commands :
           /\ received' = received
           /\ down' = down \union
                {[packet |-> [fun |-> f, n |-> commanded + 1, serial |-> 0], age |-> 0]}
    BY <1>6 DEF ServerCommands
  <2>2. f \notin Kinds /\ f # "register"
    BY NamesAreApart DEF Funs
  <2>3. \A e \in down' : e \in down \/ (e.packet.fun \notin Kinds /\ e.packet.fun # "register")
    BY <2>1, <2>2
  <2>4. QED
    BY <1>1, <2>1, <2>3 DEF AnsweredInv
<1>7. CASE Restart
  BY <1>7 DEF Restart, AnsweredInv
<1>8. CASE Between /\ ~ Connect
  <2>1. down' \subseteq down
    BY <1>8, BetweenKeeps
  <2>2. received' = received
    BY <1>8
       DEF Between, SkipRegister, SkipHeartBeat, Receive, ReceiveNothing, Execute, Reply,
           ExecuteDone, EnterQueue, SkipQueue, LeaveQueue, InfoTask, server
  <2>3. QED
    BY <1>2, <2>1, <2>2
<1>9. CASE Retry \/ Begin
  BY <1>2, <1>9, RetryKeepsExchange, BeginKeeps
<1>10. CASE SendPacket \/ Lose \/ (\E k \in Kinds : Insert(k)) \/ UNCHANGED vars
  BY <1>2, <1>10 DEF SendPacket, Lose, Insert, vars, network, server
<1>11. QED
  BY <1>3, <1>4, <1>5, <1>6, <1>7, <1>8, <1>9, <1>10, NextIsOneOf DEF Others

(* What the caller of GPRS_Send does with its result.                      *)
LEMMA ReturnDoes ==
  ASSUME PortalInv, phase # "none", NEW ok \in BOOLEAN, Return(ok)
  PROVE  /\ stage = "register" =>
              registered' = ok /\ stage' \in {"beat", "queue"} /\ UNCHANGED <<q, draining, queue>>
         /\ stage = "beat" => stage' = "receive" /\ UNCHANGED <<q, draining, queue, registered>>
         /\ stage = "queue" =>
              /\ queue' = [queue EXCEPT ![Current] = IF ok THEN Tail(@) ELSE @]
              /\ draining' = ok /\ q' \in {q, q + 1}
              /\ UNCHANGED <<stage, registered>>
         /\ stage \in {"register", "beat", "queue"}
<1>1. stage \in {"register", "beat", "queue"}
  BY DEF PortalInv, ExchangeInv
<1>2. QED
  BY <1>1 DEF Return

LEMMA RegisteredStep == PortalInv /\ [Next]_vars => RegisteredAtServer'
<1> SUFFICES ASSUME PortalInv, [Next]_vars PROVE RegisteredAtServer'
  OBVIOUS
<1>1. registered => <<"register", 0>> \in received
  BY DEF PortalInv, RegisteredAtServer
<1>2. CASE registered' = registered /\ received \subseteq received'
  BY <1>1, <1>2 DEF RegisteredAtServer
<1>3. CASE Connect
  BY <1>1, <1>3 DEF Connect, RegisteredAtServer, server
<1>4. CASE ExchangeFails
  <2>1. phase # "none" /\ Return(FALSE) /\ received' = received
    BY <1>4 DEF ExchangeFails, server
  <2>2. registered' = FALSE \/ registered' = registered
    BY <2>1, ReturnDoes
  <2>3. QED
    BY <1>1, <2>1, <2>2 DEF RegisteredAtServer
<1>5. CASE \E d \in down : ReadAnswer(d)
  <2>1. PICK d \in down : ReadAnswer(d)
    BY <1>5
  <2>2. phase # "none" /\ Answers(d.packet) /\ Return(TRUE) /\ received' = received
    BY <2>1 DEF ReadAnswer, server
  <2>3. CASE stage = "register"
    <3>1. d.age = 0 /\ d.packet.fun = "register"
      BY <2>2, <2>3, AnswersAreFresh DEF PortalInv, ExchangeInv
    <3>2. QED
      BY <2>2, <3>1 DEF PortalInv, AnsweredInv, RegisteredAtServer
  <2>4. CASE stage # "register"
    <3>1. registered' = registered
      BY <2>2, <2>4, ReturnDoes
    <3>2. QED
      BY <1>2, <2>2, <3>1
  <2>5. QED
    BY <2>3, <2>4
<1>6. CASE Restart
  BY <1>6 DEF Restart, RegisteredAtServer
<1>7. CASE Between /\ ~ Connect
  <2>1. registered' = registered /\ received' = received
    BY <1>7
       DEF Between, SkipRegister, SkipHeartBeat, Receive, ReceiveNothing, Execute, Reply,
           ExecuteDone, EnterQueue, SkipQueue, LeaveQueue, InfoTask, link, server
  <2>2. QED
    BY <1>2, <2>1
<1>8. CASE Retry \/ Begin
  BY <1>2, <1>8, RetryKeepsExchange, BeginKeeps
<1>9. CASE Others
  <2>1. registered' = registered
    BY <1>9, OthersKeep
  <2>2. received \subseteq received'
    BY <1>9 DEF Others, Insert, ServerReceives, ServerCommands, Lose, server
  <2>3. QED
    BY <1>2, <2>1, <2>2
<1>10. CASE SendPacket \/ UNCHANGED vars
  BY <1>2, <1>10 DEF SendPacket, vars, link, server
<1>11. QED
  BY <1>3, <1>4, <1>5, <1>6, <1>7, <1>8, <1>9, <1>10, NextIsOneOf DEF End

------------------------------------------------------------------------------
(* The queues *)

LEMMA QueueTypes ==
  ASSUME TypeOK, NEW k \in Kinds
  PROVE  /\ queue[k] \in Seq(1 .. MaxRecords) /\ Len(queue[k]) \in Nat
         /\ inserted[k] \in 0 .. MaxRecords /\ inserted[k] \in Nat /\ Left(k) \in Int
<1>1. queue[k] \in Seq(1 .. MaxRecords) /\ inserted[k] \in 0 .. MaxRecords
  BY DEF TypeOK
<1>2. QED
  BY <1>1, LenProperties, NumbersAssumption DEF Left

(* A step that leaves a queue alone, adds no new packet to the network and *)
(* lets the server receive no record.                                      *)
LEMMA QueueUnmoved ==
  ASSUME NEW k \in Kinds, QueueInv(k), queue'[k] = queue[k], inserted'[k] = inserted[k],
         \A n : <<k, n>> \in received' <=> <<k, n>> \in received,
         \A e \in up' : e.packet.fun = k => \E d \in up : e.packet = d.packet
  PROVE  QueueInv(k)'
<1>1. Left(k)' = Left(k)
  BY DEF Left
<1>2. QED
  BY <1>1 DEF QueueInv

(* The front of a queue is the record after those that have left it.       *)
LEMMA FrontIsNext ==
  ASSUME TypeOK, NEW k \in Kinds, QueueInv(k), queue[k] # <<>>
  PROVE  Len(queue[k]) > 0 /\ Head(queue[k]) = Left(k) + 1
<1>1. Len(queue[k]) > 0 /\ Head(queue[k]) = queue[k][1]
  BY QueueTypes, EmptySeq
<1>2. Len(queue[k]) \in Nat
  BY QueueTypes
<1>3. QED
  BY <1>1, <1>2 DEF QueueInv

LEMMA InsertKeepsQueue ==
  ASSUME PortalInv, NEW k \in Kinds, Insert(k)
  PROVE  QueueInv(k)'
<1>1. /\ TypeOK /\ QueueInv(k)
      /\ queue' = [queue EXCEPT ![k] = Append(@, inserted[k] + 1)]
      /\ inserted' = [inserted EXCEPT ![k] = @ + 1]
      /\ UNCHANGED <<up, received>> /\ inserted[k] < MaxRecords
  BY DEF PortalInv, Insert, network, server
<1>2. /\ queue[k] \in Seq(1 .. MaxRecords) /\ Len(queue[k]) \in Nat /\ inserted[k] \in Nat
      /\ inserted[k] + 1 \in 1 .. MaxRecords
  BY <1>1, QueueTypes, NumbersAssumption
<1>3. /\ queue'[k] = Append(queue[k], inserted[k] + 1) /\ inserted'[k] = inserted[k] + 1
  BY <1>1 DEF TypeOK
<1>4. /\ Len(queue'[k]) = Len(queue[k]) + 1
      /\ \A i \in 1 .. Len(queue[k]) : queue'[k][i] = queue[k][i]
      /\ queue'[k][Len(queue[k]) + 1] = inserted[k] + 1
  BY <1>2, <1>3, AppendProperties
<1>5. Left(k)' = Left(k)
  <2>1. Left(k)' = inserted'[k] - Len(queue'[k])
    BY DEF Left
  <2>2. inserted'[k] = inserted[k] + 1 /\ Len(queue'[k]) = Len(queue[k]) + 1
    BY <1>3, <1>4
  <2>3. inserted[k] \in Nat /\ Len(queue[k]) \in Nat
    BY <1>2
  <2>4. QED
    BY <2>1, <2>2, <2>3 DEF Left
<1>6. \A i \in 1 .. Len(queue'[k]) : queue'[k][i] = Left(k) + i
  <2>1. \A i \in 1 .. Len(queue[k]) : queue'[k][i] = Left(k) + i
    BY <1>1, <1>4 DEF QueueInv
  <2>2. queue'[k][Len(queue[k]) + 1] = Left(k) + Len(queue[k]) + 1
    BY <1>2, <1>4 DEF Left
  <2>3. Left(k) \in Int
    BY <1>2 DEF Left
  <2>4. ASSUME NEW i \in 1 .. Len(queue'[k]) PROVE queue'[k][i] = Left(k) + i
    <3>1. Len(queue[k]) \in Nat /\ Len(queue'[k]) = Len(queue[k]) + 1
      BY <1>2, <1>4
    <3>2. CASE i = Len(queue[k]) + 1
      BY <2>2, <2>3, <3>1, <3>2
    <3>3. CASE i \in 1 .. Len(queue[k])
      BY <2>1, <3>3
    <3>4. QED
      BY <3>1, <3>2, <3>3
  <2>5. QED
    BY <2>4
<1>7. \A d \in up : d.packet.fun = k => d.packet.n <= inserted'[k]
  <2>1. \A d \in up : d.packet.n \in Nat
    BY <1>1, NetworkTypes, NumbersAssumption DEF Packets
  <2>2. QED
    BY <1>1, <1>2, <1>3, <2>1 DEF QueueInv
<1>8. QED
  BY <1>1, <1>5, <1>6, <1>7 DEF QueueInv

(* The record answered is the front, which the server has.                 *)
LEMMA AnswerKeepsQueue ==
  ASSUME PortalInv, NEW d \in down, ReadAnswer(d), NEW k \in Kinds
  PROVE  QueueInv(k)'
<1>1. TypeOK /\ QueueInv(k)
  BY DEF PortalInv
<1>2. /\ phase # "none" /\ Answers(d.packet) /\ Return(TRUE)
      /\ UNCHANGED <<received, inserted>> /\ up' = Older(up)
  BY DEF ReadAnswer, server
<1>3. \A e \in up' : \E b \in up : e.packet = b.packet
  BY <1>1, <1>2, OlderUp
<1>4. CASE stage = "queue" /\ k = Current
  <2>1. d.packet = tx /\ tx.fun = k /\ tx.n = Head(queue[k]) /\ queue[k] # <<>>
    BY <1>2, <1>4, AnswersAreFresh DEF PortalInv, ExchangeInv
  <2>2. <<k, Head(queue[k])>> \in received
    BY <2>1 DEF PortalInv, AnsweredInv
  <2>3. Len(queue[k]) > 0 /\ Head(queue[k]) = Left(k) + 1
    BY <1>1, <2>1, FrontIsNext
  <2>4. /\ queue[k] \in Seq(1 .. MaxRecords) /\ Len(queue[k]) \in Nat /\ inserted[k] \in Nat
        /\ Left(k) \in Int
    BY <1>1, QueueTypes
  <2>5. queue'[k] = Tail(queue[k])
    BY <1>1, <1>2, <1>4, ReturnDoes DEF TypeOK
  <2>6. /\ Len(queue'[k]) = Len(queue[k]) - 1
        /\ \A i \in 1 .. Len(queue'[k]) : queue'[k][i] = queue[k][i + 1]
    BY <2>1, <2>4, <2>5, HeadTailProperties
  <2>7. Left(k)' = Left(k) + 1
    BY <1>2, <2>4, <2>6 DEF Left
  <2>8. \A i \in 1 .. Len(queue'[k]) : queue'[k][i] = Left(k) + 1 + i
    BY <1>1, <2>4, <2>6 DEF QueueInv
  <2>9. \A n \in 1 .. Left(k) + 1 : <<k, n>> \in received
    <3>1. \A n \in 1 .. Left(k) : <<k, n>> \in received
      BY <1>1 DEF QueueInv
    <3>2. QED
      BY <2>2, <2>3, <2>4, <3>1
  <2>10. \A e \in up' : e.packet.fun = k =>
            e.packet.n <= Left(k) + 1 + 1 /\ e.packet.n <= inserted[k]
    <3>1. \A e \in up' : e.packet.fun = k =>
            /\ e.packet.n <= Left(k) + 1 /\ e.packet.n <= inserted[k]
            /\ e.packet.n \in Nat
      <4>1. \A b \in up : b.packet.n \in Nat
        BY <1>1, NetworkTypes, NumbersAssumption DEF Packets
      <4>2. QED
        BY <1>1, <1>3, <4>1 DEF QueueInv
    <3>2. QED
      BY <2>4, <3>1
  <2>11. \A n \in 1 .. MaxRecords : <<k, n>> \in received => n <= Left(k) + 1 + 1
    BY <1>1, <2>4, NumbersAssumption DEF QueueInv
  <2>12. Left(k) + 1 >= 0
    BY <1>1, <2>4 DEF QueueInv
  <2>13. QED
    BY <1>2, <2>7, <2>8, <2>9, <2>10, <2>11, <2>12 DEF QueueInv
<1>5. CASE ~ (stage = "queue" /\ k = Current)
  <2>1. queue'[k] = queue[k]
    BY <1>1, <1>2, <1>5, ReturnDoes DEF TypeOK
  <2>2. QED
    BY <1>1, <1>2, <1>3, <2>1, QueueUnmoved
<1>6. QED
  BY <1>4, <1>5

LEMMA SendKeepsQueue ==
  ASSUME PortalInv, SendPacket, NEW k \in Kinds
  PROVE  QueueInv(k)'
<1>1. /\ TypeOK /\ QueueInv(k)
      /\ UNCHANGED <<queue, inserted, received>>
      /\ up' = up \union {[packet |-> tx, age |-> 0]} /\ phase = "send"
  BY DEF PortalInv, SendPacket, server
<1>2. tx.fun = k => tx.n <= Left(k) + 1 /\ tx.n <= inserted[k]
  <2>1. ASSUME tx.fun = k PROVE stage = "queue" /\ k = Current
    BY <1>1, <2>1, NamesAreApart DEF PortalInv, ExchangeInv
  <2>2. ASSUME tx.fun = k PROVE tx.n = Left(k) + 1 /\ Len(queue[k]) > 0
    BY <1>1, <2>1, <2>2, FrontIsNext DEF PortalInv, ExchangeInv
  <2>3. Left(k) \in Int /\ inserted[k] \in Nat /\ Len(queue[k]) \in Nat
    BY <1>1, QueueTypes
  <2>4. QED
    BY <2>2, <2>3 DEF Left
<1>3. \A e \in up' : e.packet.fun = k => e.packet.n <= Left(k) + 1 /\ e.packet.n <= inserted[k]
  BY <1>1, <1>2 DEF QueueInv
<1>4. Left(k)' = Left(k)
  BY <1>1 DEF Left
<1>5. QED
  BY <1>1, <1>3, <1>4 DEF QueueInv

LEMMA ServerKeepsQueue ==
  ASSUME PortalInv, NEW d \in up, ServerReceives(d), NEW k \in Kinds
  PROVE  QueueInv(k)'
<1>1. /\ TypeOK /\ QueueInv(k)
      /\ UNCHANGED <<queue, inserted>> /\ up' \subseteq up
      /\ received' = received \union {<<d.packet.fun, d.packet.n>>}
  BY DEF PortalInv, ServerReceives, Take
<1>2. \A n \in 1 .. MaxRecords : <<k, n>> \in received' => n <= Left(k) + 1
  BY <1>1 DEF QueueInv
<1>3. Left(k)' = Left(k)
  BY <1>1 DEF Left
<1>4. QED
  BY <1>1, <1>2, <1>3 DEF QueueInv

(* A step that moves no record: the queues and the server keep theirs.     *)
Unmoved ==
  /\ UNCHANGED <<queue, inserted>>
  /\ received' \in {received, received \ {<<"register", 0>>}}
  /\ \A e \in up' : \E d \in up : e.packet = d.packet

LEMMA StepsOfQueues ==
  ASSUME PortalInv, [Next]_vars
  PROVE  \/ Unmoved \/ SendPacket
         \/ \E k \in Kinds : Insert(k)
         \/ \E d \in up : ServerReceives(d)
         \/ \E d \in down : ReadAnswer(d)
<1>1. CASE ExchangeFails
  <2>1. /\ phase # "none" /\ Return(FALSE) /\ UNCHANGED <<received, inserted>>
        /\ up' = Older(up) /\ TypeOK
    BY <1>1 DEF ExchangeFails, server, PortalInv
  <2>2. queue' = queue
    BY <2>1, ReturnDoes DEF TypeOK
  <2>3. QED
    BY <2>1, <2>2, OlderUp DEF Unmoved
<1>2. CASE Between
  <2>1. UNCHANGED <<queue, inserted, up>>
    BY <1>2, BetweenKeeps
  <2>2. received' \in {received, received \ {<<"register", 0>>}}
    BY <1>2
       DEF Between, Connect, SkipRegister, SkipHeartBeat, Receive, ReceiveNothing, Execute,
           Reply, ExecuteDone, EnterQueue, SkipQueue, LeaveQueue, InfoTask, server
  <2>3. QED
    BY <2>1, <2>2 DEF Unmoved
<1>3. CASE Retry \/ Begin
  <2>1. UNCHANGED <<queue, inserted, up, received>>
    BY <1>3, RetryKeepsExchange, BeginKeeps DEF Begin, Register, HeartBeat, SendFront
  <2>2. QED
    BY <2>1 DEF Unmoved
<1>4. CASE Restart
  BY <1>4 DEF Restart, Unmoved
<1>5. CASE Lose \/ (\E f \in Commands : ServerCommands(f)) \/ UNCHANGED vars
  <2>1. UNCHANGED <<queue, inserted, received>> /\ up' \subseteq up
    BY <1>5 DEF Lose, ServerCommands, vars, network, server
  <2>2. QED
    BY <2>1 DEF Unmoved
<1>6. QED
  BY <1>1, <1>2, <1>3, <1>4, <1>5, NextIsOneOf DEF End, Others

LEMMA QueuesStep == PortalInv /\ [Next]_vars => \A k \in Kinds : QueueInv(k)'
<1> SUFFICES ASSUME PortalInv, [Next]_vars, NEW k \in Kinds PROVE QueueInv(k)'
  OBVIOUS
<1>1. TypeOK /\ QueueInv(k)
  BY DEF PortalInv
<1>2. CASE Unmoved
  <2>1. \A n : <<k, n>> \in received' <=> <<k, n>> \in received
    BY <1>2, NamesAreApart DEF Unmoved
  <2>2. QED
    BY <1>1, <1>2, <2>1, QueueUnmoved DEF Unmoved
<1>3. CASE \E j \in Kinds : Insert(j)
  <2>1. PICK j \in Kinds : Insert(j)
    BY <1>3
  <2>2. CASE j = k
    BY <2>1, <2>2, InsertKeepsQueue
  <2>3. CASE j # k
    <3>1. queue'[k] = queue[k] /\ inserted'[k] = inserted[k] /\ received' = received /\ up' = up
      BY <1>1, <2>1, <2>3 DEF Insert, TypeOK, network, server
    <3>2. QED
      BY <1>1, <3>1, QueueUnmoved
  <2>4. QED
    BY <2>2, <2>3
<1>4. QED
  BY <1>2, <1>3, StepsOfQueues, AnswerKeepsQueue, SendKeepsQueue, ServerKeepsQueue

------------------------------------------------------------------------------
(* Types *)

LEMMA InitEstablishesInv == Init => PortalInv
<1> SUFFICES ASSUME Init PROVE PortalInv
  OBVIOUS
<1>1. \A k \in Kinds : queue[k] = <<>> /\ Len(queue[k]) = 0 /\ inserted[k] = 0 /\ Left(k) = 0
  BY EmptySeq DEF Init, Left
<1>2. /\ serial \in 0 .. MaxSerial /\ attempt \in 0 .. Retries /\ reads \in 0 .. Retries
      /\ commanded \in 0 .. MaxCommands /\ faults \in 0 .. MaxFaults
      /\ q \in 1 .. Len(QueueOrder) + 1 /\ c \in 1 .. Len(FunList) + 2
  BY NumbersAssumption, QueuesAreKinds, NamesAreApart DEF Init
<1>3. /\ stage = "connect" /\ phase = "none" /\ tx = NoPacket /\ up = {} /\ down = {}
      /\ received = {} /\ registered = FALSE
  BY DEF Init
<1>4. /\ queue \in [Kinds -> Seq(1 .. MaxRecords)] /\ inserted \in [Kinds -> 0 .. MaxRecords]
  BY EmptySeq, NumbersAssumption DEF Init
<1>5. stash \in [Commands -> 0 .. MaxCommands] /\ executed \in [1 .. MaxCommands -> Nat]
  BY NumbersAssumption DEF Init
<1>6. connected \in BOOLEAN /\ registered \in BOOLEAN /\ draining \in BOOLEAN
  BY Zenon DEF Init
<1>7. TypeOK
  BY <1>2, <1>3, <1>4, <1>5, <1>6 DEF TypeOK
<1>8. ExchangeInv /\ StampedInv /\ AnsweredInv /\ RegisteredAtServer
  BY <1>3 DEF ExchangeInv, StampedInv, AnsweredInv, RegisteredAtServer
<1>9. \A k \in Kinds : QueueInv(k)
  BY <1>1, <1>3 DEF QueueInv
<1>10. QED
  BY <1>3, <1>7, <1>8, <1>9 DEF PortalInv

(* Where Run is.                                                           *)
LEMMA RunTypes ==
  PortalInv /\ [Next]_vars =>
    /\ stage' \in {"connect", "register", "beat", "receive", "execute", "reply", "queue"}
    /\ q' \in 1 .. Len(QueueOrder) + 1
    /\ c' \in 1 .. Len(FunList) + 2
    /\ stage' = "reply" => c' <= Len(FunList)
<1> SUFFICES ASSUME PortalInv, [Next]_vars
             PROVE  /\ stage' \in {"connect", "register", "beat", "receive", "execute", "reply",
                                   "queue"}
                    /\ q' \in 1 .. Len(QueueOrder) + 1
                    /\ c' \in 1 .. Len(FunList) + 2
                    /\ stage' = "reply" => c' <= Len(FunList)
  OBVIOUS
<1>1. /\ stage \in {"connect", "register", "beat", "receive", "execute", "reply", "queue"}
      /\ q \in 1 .. Len(QueueOrder) + 1
      /\ c \in 1 .. Len(FunList) + 2
      /\ stage = "reply" => c <= Len(FunList)
  BY DEF PortalInv, TypeOK
<1>2. Len(FunList) = 3 /\ Len(QueueOrder) \in Nat
  BY NamesAreApart, QueuesAreKinds
<1>3. CASE UNCHANGED <<stage, q, c>>
  BY <1>1, <1>3
<1>4. CASE End
  <2>1. phase # "none" /\ (Return(TRUE) \/ Return(FALSE)) /\ c' = c
    BY <1>4, EndKeeps DEF End, ExchangeFails, ReadAnswer
  <2>2. stage' \in {"beat", "queue", "receive"}
    BY <2>1, ReturnDoes
  <2>3. q' = q \/ (stage = "queue" /\ q' = q + 1)
    BY <2>1, ReturnDoes
  <2>4. stage = "queue" => q <= Len(QueueOrder)
    BY <2>1 DEF PortalInv, ExchangeInv
  <2>5. q' \in 1 .. Len(QueueOrder) + 1
    BY <1>1, <1>2, <2>3, <2>4
  <2>6. QED
    BY <1>1, <2>1, <2>2, <2>5
<1>5. CASE Between
  <2>1. /\ stage' \in {"connect", "register", "beat", "receive", "execute", "reply", "queue"}
        /\ q' \in {q, 1} \/ (AtQueue /\ q' = q + 1)
        /\ c' \in {c, 1} \/ (c' = c + 2 /\ (stage = "reply" \/ c <= Len(FunList)))
        /\ stage' = "reply" => c' = c /\ c <= Len(FunList)
    BY <1>1, <1>5
       DEF Between, Connect, SkipRegister, SkipHeartBeat, Receive, ReceiveNothing, Execute,
           Reply, ExecuteDone, EnterQueue, SkipQueue, LeaveQueue, InfoTask
  <2>2. q' \in 1 .. Len(QueueOrder) + 1
    BY <1>1, <1>2, <2>1 DEF AtQueue
  <2>3. c' \in 1 .. Len(FunList) + 2
    BY <1>1, <1>2, <2>1
  <2>4. QED
    BY <2>1, <2>2, <2>3
<1>6. CASE Restart
  BY <1>2, <1>6 DEF Restart
<1>7. CASE Retry \/ Begin \/ SendPacket \/ Others \/ UNCHANGED vars
  <2>1. UNCHANGED <<stage, q, c>>
    BY <1>7, RetryKeepsExchange, BeginKeeps, OthersKeep DEF SendPacket, control, vars
  <2>2. QED
    BY <1>3, <2>1
<1>8. QED
  BY <1>4, <1>5, <1>6, <1>7, NextIsOneOf

LEMMA FlagTypes ==
  PortalInv /\ [Next]_vars =>
    connected' \in BOOLEAN /\ registered' \in BOOLEAN /\ draining' \in BOOLEAN
<1> SUFFICES ASSUME PortalInv, [Next]_vars
             PROVE  connected' \in BOOLEAN /\ registered' \in BOOLEAN /\ draining' \in BOOLEAN
  OBVIOUS
<1>1. connected \in BOOLEAN /\ registered \in BOOLEAN /\ draining \in BOOLEAN
  BY Zenon DEF PortalInv, TypeOK
<1>2. CASE End
  <2>1. phase # "none" /\ (Return(TRUE) \/ Return(FALSE)) /\ connected' \in {connected, FALSE}
    BY <1>2, EndKeeps DEF End, ExchangeFails, ReadAnswer
  <2>2. registered' \in {registered, TRUE, FALSE} /\ draining' \in {draining, TRUE, FALSE}
    BY <2>1, ReturnDoes
  <2>3. QED
    BY <1>1, <2>1, <2>2, Zenon
<1>3. CASE Between
  <2>1. /\ connected' \in {connected, TRUE, FALSE} \/ connected' = (connected /\ registered)
        /\ registered' \in {registered, FALSE}
        /\ draining' \in {draining, TRUE, FALSE}
    BY <1>3
       DEF Between, Connect, SkipRegister, SkipHeartBeat, Receive, ReceiveNothing, Execute,
           Reply, ExecuteDone, EnterQueue, SkipQueue, LeaveQueue, InfoTask, link
  <2>2. QED
    BY <1>1, <2>1, Zenon
<1>4. CASE Restart
  BY <1>4, Zenon DEF Restart
<1>5. CASE Retry \/ Begin \/ SendPacket \/ Others \/ UNCHANGED vars
  <2>1. UNCHANGED <<connected, registered, draining>>
    BY <1>5, RetryKeepsExchange, BeginKeeps, OthersKeep DEF SendPacket, link, control, vars
  <2>2. QED
    BY <1>1, <2>1, Zenon
<1>6. QED
  BY <1>2, <1>3, <1>4, <1>5, NextIsOneOf

(* The exchange, and the serial index, which wraps.                        *)
LEMMA ExchangeTypes ==
  PortalInv /\ [Next]_vars =>
    /\ serial' \in 0 .. MaxSerial
    /\ phase' \in {"none", "send", "receive"}
    /\ tx' \in Packets \union {NoPacket}
    /\ attempt' \in 0 .. Retries /\ reads' \in 0 .. Retries
<1> SUFFICES ASSUME PortalInv, [Next]_vars
             PROVE  /\ serial' \in 0 .. MaxSerial
                    /\ phase' \in {"none", "send", "receive"}
                    /\ tx' \in Packets \union {NoPacket}
                    /\ attempt' \in 0 .. Retries /\ reads' \in 0 .. Retries
  OBVIOUS
<1>1. /\ serial \in 0 .. MaxSerial
      /\ phase \in {"none", "send", "receive"}
      /\ tx \in Packets \union {NoPacket}
      /\ attempt \in 0 .. Retries /\ reads \in 0 .. Retries
      /\ Retries \in Nat /\ MaxSerial \in Nat
  BY NumbersAssumption DEF PortalInv, TypeOK
<1>2. CASE Retry
  <2>1. /\ phase' \in {"send", "receive"} /\ UNCHANGED <<serial, tx>>
        /\ attempt' \in 0 .. Retries /\ reads' \in 0 .. Retries
    BY <1>2, RetryKeepsExchange
  <2>2. QED
    BY <1>1, <2>1
<1>3. CASE Begin
  <2>1. phase' = "send" /\ serial' = serial /\ attempt' = 0 /\ reads' = 0
    BY <1>3, BeginKeeps
  <2>2. tx' \in Packets
    BY <2>1, ExchangeStep DEF ExchangeInv
  <2>3. QED
    BY <1>1, <2>1, <2>2
<1>4. CASE End
  <2>1. /\ phase' = "none" /\ UNCHANGED <<tx, attempt, reads>>
        /\ serial' = IF serial + 1 > MaxSerial THEN 0 ELSE serial + 1
    BY <1>4, EndKeeps
  <2>2. serial' \in 0 .. MaxSerial
    BY <1>1, <2>1
  <2>3. QED
    BY <1>1, <2>1, <2>2
<1>5. CASE SendPacket
  BY <1>1, <1>5 DEF SendPacket, link
<1>6. CASE Restart
  BY <1>1, <1>6 DEF Restart
<1>7. CASE Between \/ Others \/ UNCHANGED vars
  <2>1. UNCHANGED <<serial, phase, tx, attempt, reads>>
    BY <1>7, BetweenKeeps, OthersKeep DEF vars, link, exchange
  <2>2. QED
    BY <1>1, <2>1
<1>8. QED
  BY <1>2, <1>3, <1>4, <1>5, <1>6, <1>7, NextIsOneOf

LEMMA RecordTypes ==
  PortalInv /\ [Next]_vars =>
    /\ queue' \in [Kinds -> Seq(1 .. MaxRecords)]
    /\ inserted' \in [Kinds -> 0 .. MaxRecords]
    /\ received' \subseteq Funs \X (0 .. MaxRecords)
<1> SUFFICES ASSUME PortalInv, [Next]_vars
             PROVE  /\ queue' \in [Kinds -> Seq(1 .. MaxRecords)]
                    /\ inserted' \in [Kinds -> 0 .. MaxRecords]
                    /\ received' \subseteq Funs \X (0 .. MaxRecords)
  OBVIOUS
<1>1. TypeOK
  BY DEF PortalInv
<1>2. /\ queue \in [Kinds -> Seq(1 .. MaxRecords)]
      /\ inserted \in [Kinds -> 0 .. MaxRecords]
      /\ received \subseteq Funs \X (0 .. MaxRecords)
  BY <1>1 DEF TypeOK
<1>3. CASE UNCHANGED <<queue, inserted>> /\ received' \subseteq received
  BY <1>2, <1>3
<1>4. CASE \E k \in Kinds : Insert(k)
  <2>1. PICK k \in Kinds : Insert(k)
    BY <1>4
  <2>2. inserted[k] + 1 \in 1 .. MaxRecords /\ inserted[k] + 1 \in 0 .. MaxRecords
    BY <1>2, <2>1, NumbersAssumption DEF Insert
  <2>3. Append(queue[k], inserted[k] + 1) \in Seq(1 .. MaxRecords)
    BY <1>2, <2>2, AppendProperties
  <2>4. /\ queue' = [queue EXCEPT ![k] = Append(queue[k], inserted[k] + 1)]
        /\ inserted' = [inserted EXCEPT ![k] = inserted[k] + 1]
        /\ received' = received
    BY <2>1 DEF Insert, server
  <2>5. QED
    BY <1>2, <2>2, <2>3, <2>4
<1>5. CASE \E d \in up : ServerReceives(d)
  <2>1. PICK d \in up : ServerReceives(d)
    BY <1>5
  <2>2. d.packet.fun \in Funs /\ d.packet.n \in 0 .. MaxRecords
    BY <1>1, NetworkTypes DEF Packets
  <2>3. UNCHANGED <<queue, inserted>>
        /\ received' = received \union {<<d.packet.fun, d.packet.n>>}
    BY <2>1 DEF ServerReceives
  <2>4. QED
    BY <1>2, <2>2, <2>3
<1>6. CASE End
  <2>1. /\ phase # "none" /\ (Return(TRUE) \/ Return(FALSE))
        /\ UNCHANGED <<inserted, received>>
    BY <1>6, EndKeeps DEF End, ExchangeFails, ReadAnswer
  <2>2. CASE queue' = queue
    BY <1>2, <2>1, <2>2
  <2>3. CASE queue' # queue
    <3>1. queue' = [queue EXCEPT ![Current] = Tail(@)] /\ stage = "queue"
      <4>1. stage = "queue"
        BY <2>1, <2>3, ReturnDoes
      <4>2. \/ queue' = [queue EXCEPT ![Current] = Tail(@)]
            \/ queue' = [queue EXCEPT ![Current] = @]
        BY <2>1, <4>1, ReturnDoes
      <4>3. queue = [queue EXCEPT ![Current] = @]
        BY <1>2
      <4>4. QED
        BY <2>3, <4>1, <4>2, <4>3
    <3>2. Current \in Kinds /\ queue[Current] # <<>>
      <4>1. q \in 1 .. Len(QueueOrder) /\ queue[Current] # <<>>
        BY <1>1, <2>1, <3>1, QueuesAreKinds DEF PortalInv, ExchangeInv, TypeOK
      <4>2. QED
        BY <4>1, QueuesAreKinds DEF Current
    <3>3. queue[Current] \in Seq(1 .. MaxRecords)
      BY <1>2, <3>2
    <3>4. Tail(queue[Current]) \in Seq(1 .. MaxRecords)
      BY <3>2, <3>3, HeadTailProperties
    <3>5. queue' \in [Kinds -> Seq(1 .. MaxRecords)]
      BY <1>2, <3>1, <3>4
    <3>6. QED
      BY <1>2, <2>1, <3>5
  <2>4. QED
    BY <2>2, <2>3
<1>7. CASE Between
  <2>1. UNCHANGED <<queue, inserted>>
    BY <1>7, BetweenKeeps
  <2>2. received' \subseteq received
    BY <1>7
       DEF Between, Connect, SkipRegister, SkipHeartBeat, Receive, ReceiveNothing, Execute,
           Reply, ExecuteDone, EnterQueue, SkipQueue, LeaveQueue, InfoTask, server
  <2>3. QED
    BY <1>3, <2>1, <2>2
<1>8. CASE Restart \/ SendPacket \/ Lose \/ (\E f \in Commands : ServerCommands(f)) \/ UNCHANGED vars
  BY <1>3, <1>8 DEF Restart, SendPacket, Lose, ServerCommands, vars, server
<1>9. CASE Retry \/ Begin
  BY <1>3, <1>9, RetryKeepsExchange, BeginKeeps DEF Begin, Register, HeartBeat, SendFront
<1>10. QED
  BY <1>4, <1>5, <1>6, <1>7, <1>8, <1>9, NextIsOneOf DEF Others

(* The commands kept, and the faults.                                      *)
LEMMA CommandTypes ==
  PortalInv /\ [Next]_vars =>
    /\ stash' \in [Commands -> 0 .. MaxCommands]
    /\ commanded' \in 0 .. MaxCommands
    /\ executed' \in [1 .. MaxCommands -> Nat]
    /\ faults' \in 0 .. MaxFaults
<1> SUFFICES ASSUME PortalInv, [Next]_vars
             PROVE  /\ stash' \in [Commands -> 0 .. MaxCommands]
                    /\ commanded' \in 0 .. MaxCommands
                    /\ executed' \in [1 .. MaxCommands -> Nat]
                    /\ faults' \in 0 .. MaxFaults
  OBVIOUS
<1>1. TypeOK /\ commanded \in 0 .. MaxCommands /\ faults \in 0 .. MaxFaults
  BY DEF PortalInv, TypeOK
<1>2. stash \in [Commands -> 0 .. MaxCommands] /\ executed \in [1 .. MaxCommands -> Nat]
  BY <1>1 DEF TypeOK
<1>3. faults' = faults \/ Fault
  <2>1. CASE Exchange \/ RunStep
    BY <2>1
       DEF Exchange, SendPacket, SendFails, ReadTimesOut, ReadUnwanted, ReadAnswer, ExchangeFails,
           Take, RunStep, Connect, Register, SkipRegister, HeartBeat, SkipHeartBeat, Receive,
           ReceiveNothing, Execute, Reply, ExecuteDone, EnterQueue, SkipQueue, SendFront,
           LeaveQueue, InfoTask
  <2>2. QED
    BY <2>1 DEF Next, Insert, ServerReceives, Take, ServerCommands, Lose, Restart, vars
<1>4. faults' \in 0 .. MaxFaults
  BY <1>1, <1>3, NumbersAssumption DEF Fault
<1>5. commanded' = commanded \/ (commanded' = commanded + 1 /\ commanded < MaxCommands)
  <2>1. CASE Exchange \/ RunStep
    BY <2>1
       DEF Exchange, SendPacket, SendFails, ReadTimesOut, ReadUnwanted, ReadAnswer, ExchangeFails,
           RunStep, Connect, Register, SkipRegister, HeartBeat, SkipHeartBeat, Receive,
           ReceiveNothing, Execute, Reply, ExecuteDone, EnterQueue, SkipQueue, SendFront,
           LeaveQueue, InfoTask, server
  <2>2. QED
    BY <2>1 DEF Next, Insert, ServerReceives, ServerCommands, Lose, Restart, vars, server
<1>6. commanded' \in 0 .. MaxCommands
  BY <1>1, <1>5, NumbersAssumption
<1>7. executed' = executed \/ \E n : executed' = [executed EXCEPT ![n] = @ + 1]
  <2>1. CASE Exchange \/ RunStep
    BY <2>1
       DEF Exchange, SendPacket, SendFails, ReadTimesOut, ReadUnwanted, ReadAnswer, ExchangeFails,
           RunStep, Connect, Register, SkipRegister, HeartBeat, SkipHeartBeat, Receive,
           ReceiveNothing, Execute, Reply, ExecuteDone, EnterQueue, SkipQueue, SendFront,
           LeaveQueue, InfoTask
  <2>2. QED
    BY <2>1 DEF Next, Insert, ServerReceives, ServerCommands, Lose, Restart, vars
<1>8. executed' \in [1 .. MaxCommands -> Nat]
  BY <1>2, <1>7
<1>9. \A d \in down : Stashed(d.packet) \in [Commands -> 0 .. MaxCommands]
  <2>1. \A d \in down : d.packet.fun \in Commands => d.packet.n \in 0 .. MaxCommands
    BY <1>1, NetworkTypes, NumbersAssumption
  <2>2. QED
    BY <1>2, <2>1 DEF Stashed
<1>10. \/ stash' = stash
       \/ stash' = [f \in Commands |-> 0]
       \/ \E f : stash' = [stash EXCEPT ![f] = 0]
       \/ \E d \in down : stash' = Stashed(d.packet)
  <2>1. CASE Exchange \/ RunStep
    BY <2>1
       DEF Exchange, SendPacket, SendFails, ReadTimesOut, ReadUnwanted, ReadAnswer, ExchangeFails,
           RunStep, Connect, Register, SkipRegister, HeartBeat, SkipHeartBeat, Receive,
           ReceiveNothing, Execute, Reply, ExecuteDone, EnterQueue, SkipQueue, SendFront,
           LeaveQueue, InfoTask
  <2>2. QED
    BY <2>1 DEF Next, Insert, ServerReceives, ServerCommands, Lose, Restart, vars
<1>11. stash' \in [Commands -> 0 .. MaxCommands]
  BY <1>2, <1>9, <1>10, NumbersAssumption
<1>12. QED
  BY <1>4, <1>6, <1>8, <1>11

LEMMA InvHolds == Spec => []PortalInv
<1>1. Init => PortalInv
  BY InitEstablishesInv
<1>2. PortalInv /\ [Next]_vars => PortalInv'
  <2> SUFFICES ASSUME PortalInv, [Next]_vars PROVE PortalInv'
    OBVIOUS
  <2>1. TypeOK'
    BY RunTypes, FlagTypes, ExchangeTypes, RecordTypes, CommandTypes, NetworkStep, Zenon DEF TypeOK
  <2>2. stage' = "reply" => c' <= Len(FunList)
    BY RunTypes
  <2>3. ExchangeInv' /\ StampedInv' /\ AnsweredInv' /\ RegisteredAtServer'
    BY ExchangeStep, StampedStep, AnsweredStep, RegisteredStep
  <2>4. \A k \in Kinds : QueueInv(k)'
    BY QueuesStep
  <2>5. Len(FunList)' = Len(FunList)
    BY DEF FunList
  <2>6. QED
    BY <2>1, <2>2, <2>3, <2>4, <2>5, Zenon DEF PortalInv
<1>3. QED
  BY <1>1, <1>2, PTL DEF Spec

------------------------------------------------------------------------------
(* Theorems *)

(* The variables of CPortal stay in their types: the serial index, which   *)
(* GPRS_Send resets at MAX_SERIAL_INDEX, the loop counters of GPRS_Send    *)
(* and GPRS_Receive, and what is on the network.                           *)
THEOREM TypeCorrect == Spec => []TypeOK
<1>1. PortalInv => TypeOK
  BY DEF PortalInv
<1>2. QED
  BY <1>1, InvHolds, PTL

(* A record that the loops of CPortal::Send*Data have taken off its queue  *)
(* is at the server, whatever datagrams were lost, late, repeated or       *)
(* reordered and whenever the concentrator restarted: the function code    *)
(* and the serial index are enough to tell its answer.                     *)
THEOREM NoRecordIsLost == Spec => []NothingLost
<1>1. PortalInv => NothingLost
  <2> SUFFICES ASSUME PortalInv, NEW k \in Kinds, NEW n \in 1 .. inserted[k]
               PROVE  <<k, n>> \in received \/ \E i \in DOMAIN queue[k] : queue[k][i] = n
    BY DEF NothingLost
  <2>1. TypeOK /\ QueueInv(k)
    BY DEF PortalInv
  <2>2. /\ queue[k] \in Seq(1 .. MaxRecords) /\ Len(queue[k]) \in Nat
        /\ inserted[k] \in Nat /\ Left(k) \in Int
    BY <2>1, QueueTypes
  <2>3. CASE n <= Left(k)
    BY <2>1, <2>2, <2>3 DEF QueueInv
  <2>4. CASE n > Left(k)
    <3>1. n - Left(k) \in 1 .. Len(queue[k])
      BY <2>2, <2>4 DEF Left
    <3>2. queue[k][n - Left(k)] = n
      BY <2>1, <2>2, <3>1 DEF QueueInv
    <3>3. DOMAIN queue[k] = 1 .. Len(queue[k])
      BY <2>2, LenProperties
    <3>4. QED
      BY <3>1, <3>2, <3>3
  <2>5. QED
    BY <2>2, <2>3, <2>4
<1>2. QED
  BY <1>1, InvHolds, PTL

(* The server first gets the records of a queue in the order in which      *)
(* CPortal::Insert*Data put them there: no exchange is begun for a record  *)
(* before the one in front of it has left the queue.                       *)
THEOREM OrderIsKept == Spec => []DeliveredInOrder
<1>1. PortalInv => DeliveredInOrder
  <2> SUFFICES ASSUME PortalInv, NEW k \in Kinds, NEW n \in 2 .. MaxRecords,
                      <<k, n>> \in received
               PROVE  <<k, n - 1>> \in received
    BY DEF DeliveredInOrder
  <2>1. TypeOK /\ QueueInv(k)
    BY DEF PortalInv
  <2>2. Left(k) \in Int
    BY <2>1, QueueTypes
  <2>3. n \in 1 .. MaxRecords
    BY NumbersAssumption
  <2>4. n <= Left(k) + 1
    BY <2>1, <2>3 DEF QueueInv
  <2>5. n - 1 \in 1 .. Left(k)
    BY <2>2, <2>4, NumbersAssumption
  <2>6. QED
    BY <2>1, <2>5 DEF QueueInv
<1>2. QED
  BY <1>1, InvHolds, PTL

(* The reliable line: its variables, and what each step does to them.      *)
LEMMA LineTypes ==
  ASSUME TypeOK
  PROVE  /\ \A k \in Kinds : Freed[k] = Left(k)
         /\ \A k \in Kinds : Got[k] = {n \in 1 .. MaxRecords : <<k, n>> \in received}
         /\ Freed = [k \in Kinds |-> Freed[k]] /\ Got = [k \in Kinds |-> Got[k]]
         /\ inserted = [k \in Kinds |-> inserted[k]]
BY DEF Freed, Got, Left, TypeOK

LEMMA InitRefinesLine == Init => Line!Init
<1> SUFFICES ASSUME Init PROVE Line!Init
  OBVIOUS
<1>1. \A k \in Kinds : inserted[k] - Len(queue[k]) = 0
  BY EmptySeq DEF Init
<1>2. Freed = [k \in Kinds |-> 0]
  BY <1>1 DEF Freed
<1>3. Got = [k \in Kinds |-> {}]
  BY DEF Got, Init
<1>4. QED
  BY <1>2, <1>3 DEF Init, Line!Init

(* A step that moves no record leaves the line as it is.                   *)
LEMMA UnmovedStutters ==
  ASSUME UNCHANGED <<queue, inserted>>,
         \A k \in Kinds, n \in 1 .. MaxRecords : <<k, n>> \in received' <=> <<k, n>> \in received
  PROVE  UNCHANGED Line!vars
<1>1. Freed' = Freed
  BY DEF Freed
<1>2. \A k \in Kinds : {n \in 1 .. MaxRecords : <<k, n>> \in received'}
                        = {n \in 1 .. MaxRecords : <<k, n>> \in received}
  OBVIOUS
<1>3. Got' = Got
  BY <1>2 DEF Got
<1>4. QED
  BY <1>1, <1>3 DEF Line!vars

LEMMA InsertIsOffer ==
  ASSUME PortalInv, NEW k \in Kinds, Insert(k)
  PROVE  Line!Offer(k)
<1>1. /\ TypeOK /\ UNCHANGED received /\ inserted[k] < MaxRecords
      /\ queue' = [queue EXCEPT ![k] = Append(@, inserted[k] + 1)]
      /\ inserted' = [inserted EXCEPT ![k] = @ + 1]
  BY DEF PortalInv, Insert, server
<1>2. Len(queue'[k]) = Len(queue[k]) + 1 /\ inserted'[k] = inserted[k] + 1
  <2>1. queue[k] \in Seq(1 .. MaxRecords) /\ inserted[k] + 1 \in 1 .. MaxRecords
    BY <1>1, QueueTypes, NumbersAssumption
  <2>2. queue'[k] = Append(queue[k], inserted[k] + 1) /\ inserted'[k] = inserted[k] + 1
    BY <1>1 DEF TypeOK
  <2>3. QED
    BY <2>1, <2>2, AppendProperties
<1>3. \A j \in Kinds : inserted'[j] - Len(queue'[j]) = inserted[j] - Len(queue[j])
  <2>1. ASSUME NEW j \in Kinds, j # k
        PROVE  inserted'[j] = inserted[j] /\ queue'[j] = queue[j]
    BY <1>1, <2>1 DEF TypeOK
  <2>2. inserted[k] \in Nat /\ Len(queue[k]) \in Nat
    BY <1>1, QueueTypes
  <2>3. QED
    BY <1>2, <2>1, <2>2
<1>4. Freed' = Freed
  BY <1>3 DEF Freed
<1>5. Got' = Got
  BY <1>1 DEF Got
<1>6. QED
  BY <1>1, <1>4, <1>5 DEF Line!Offer

(* What the server gets of a queue is a record that it has or the next.    *)
LEMMA ServerStepsRefine ==
  ASSUME PortalInv, NEW d \in up, ServerReceives(d)
  PROVE  [Line!Next]_(Line!vars)
<1>1. /\ TypeOK /\ UNCHANGED <<queue, inserted>>
      /\ received' = received \union {<<d.packet.fun, d.packet.n>>}
  BY DEF PortalInv, ServerReceives
<1> DEFINE k == d.packet.fun
           n == d.packet.n
<1>2. CASE k \in Kinds /\ n \in 1 .. MaxRecords /\ n \notin Got[k]
  <2>1. /\ QueueInv(k) /\ Left(k) \in Int /\ inserted[k] \in Nat
        /\ Freed[k] = Left(k)
    BY <1>1, <1>2, QueueTypes, LineTypes DEF PortalInv
  <2>2. n <= Left(k) + 1 /\ n <= inserted[k]
    BY <1>2, <2>1 DEF QueueInv
  <2>3. <<k, n>> \notin received
    BY <1>1, <1>2, LineTypes
  <2>4. ~ (n <= Left(k))
    BY <1>2, <2>1, <2>3 DEF QueueInv
  <2>5. n = Freed[k] + 1 /\ Freed[k] < inserted[k]
    BY <1>2, <2>1, <2>2, <2>4
  <2>6. Got' = [Got EXCEPT ![k] = @ \union {Freed[k] + 1}]
    <3>1. ASSUME NEW j \in Kinds
          PROVE  {m \in 1 .. MaxRecords : <<j, m>> \in received'}
                 = IF j = k THEN Got[k] \union {n} ELSE Got[j]
      BY <1>1, <1>2, LineTypes
    <3>2. Got' = [j \in Kinds |-> IF j = k THEN Got[k] \union {n} ELSE Got[j]]
      BY <3>1 DEF Got
    <3>3. QED
      BY <1>1, <2>5, <3>2, LineTypes
  <2>7. Freed' = Freed
    BY <1>1 DEF Freed
  <2>8. QED
    BY <1>1, <1>2, <2>5, <2>6, <2>7 DEF Line!Next, Line!Deliver
<1>3. CASE ~ (k \in Kinds /\ n \in 1 .. MaxRecords /\ n \notin Got[k])
  <2>1. \A j \in Kinds, m \in 1 .. MaxRecords :
          <<j, m>> \in received' <=> <<j, m>> \in received
    <3>1. ASSUME NEW j \in Kinds, NEW m \in 1 .. MaxRecords, <<j, m>> = <<k, n>>
          PROVE  <<j, m>> \in received
      BY <1>1, <1>3, <3>1, LineTypes
    <3>2. QED
      BY <1>1, <3>1
  <2>2. QED
    BY <1>1, <2>1, UnmovedStutters
<1>4. QED
  BY <1>2, <1>3

(* An answer to a record frees it; one to anything else changes no queue.  *)
LEMMA AnswerStepsRefine ==
  ASSUME PortalInv, NEW d \in down, ReadAnswer(d)
  PROVE  [Line!Next]_(Line!vars)
<1>1. /\ phase # "none" /\ Answers(d.packet) /\ Return(TRUE) /\ TypeOK
      /\ UNCHANGED <<received, inserted>>
  BY DEF ReadAnswer, server, PortalInv
<1>2. CASE stage = "queue"
  <2> DEFINE k == Current
  <2>1. /\ k \in Kinds /\ QueueInv(k)
        /\ d.packet = tx /\ tx.fun = k /\ tx.n = Head(queue[k]) /\ queue[k] # <<>>
    <3>1. /\ q <= Len(QueueOrder) /\ tx.fun = k /\ tx.n = Head(queue[k])
          /\ queue[k] # <<>>
      BY <1>1, <1>2 DEF PortalInv, ExchangeInv
    <3>2. q \in 1 .. Len(QueueOrder)
      BY <1>1, <3>1, QueuesAreKinds DEF TypeOK
    <3>3. k \in Kinds
      BY <3>2, QueuesAreKinds DEF Current
    <3>4. d.packet = tx
      BY <1>1, AnswersAreFresh
    <3>5. QED
      BY <3>1, <3>3, <3>4 DEF PortalInv
  <2>2. <<k, Head(queue[k])>> \in received
    BY <2>1 DEF PortalInv, AnsweredInv
  <2>3. Len(queue[k]) > 0 /\ Head(queue[k]) = Left(k) + 1 /\ Freed[k] = Left(k)
    BY <1>1, <2>1, FrontIsNext, LineTypes
  <2>4. /\ queue[k] \in Seq(1 .. MaxRecords) /\ Len(queue[k]) \in Nat
        /\ inserted[k] \in 0 .. MaxRecords /\ inserted[k] \in Nat
        /\ Left(k) \in Int /\ Left(k) >= 0
    BY <1>1, <2>1, QueueTypes DEF QueueInv
  <2>5. Freed[k] + 1 \in Got[k]
    <3>1. Left(k) + 1 \in 1 .. MaxRecords
      BY <2>3, <2>4, NumbersAssumption DEF Left
    <3>2. QED
      BY <1>1, <2>1, <2>2, <2>3, <3>1, LineTypes
  <2>6. queue' = [queue EXCEPT ![k] = Tail(@)]
    BY <1>1, <1>2, ReturnDoes
  <2>7. Len(queue'[k]) = Len(queue[k]) - 1
    <3>1. queue'[k] = Tail(queue[k])
      BY <1>1, <2>1, <2>6 DEF TypeOK
    <3>2. QED
      BY <2>1, <2>4, <3>1, HeadTailProperties
  <2>8. Freed' = [Freed EXCEPT ![k] = @ + 1]
    <3>1. ASSUME NEW j \in Kinds
          PROVE  inserted'[j] - Len(queue'[j]) = IF j = k THEN Freed[k] + 1 ELSE Freed[j]
      <4>1. CASE j = k
        BY <1>1, <2>3, <2>4, <2>7, <4>1 DEF Left
      <4>2. CASE j # k
        BY <1>1, <2>6, <4>2 DEF Freed, TypeOK
      <4>3. QED
        BY <4>1, <4>2
    <3>2. Freed' = [j \in Kinds |-> IF j = k THEN Freed[k] + 1 ELSE Freed[j]]
      BY <3>1 DEF Freed
    <3>3. QED
      BY <1>1, <3>2, LineTypes
  <2>9. Got' = Got
    BY <1>1 DEF Got
  <2>10. QED
    BY <1>1, <2>1, <2>5, <2>8, <2>9 DEF Line!Next, Line!Free
<1>3. CASE stage # "queue"
  BY <1>1, <1>3, ReturnDoes, UnmovedStutters
<1>4. QED
  BY <1>2, <1>3

LEMMA StepRefinesLine == PortalInv /\ [Next]_vars => [Line!Next]_(Line!vars)
<1> SUFFICES ASSUME PortalInv, [Next]_vars PROVE [Line!Next]_(Line!vars)
  OBVIOUS
<1>1. CASE Unmoved
  <2>1. \A k \in Kinds, n \in 1 .. MaxRecords : <<k, n>> \in received' <=> <<k, n>> \in received
    BY <1>1, NamesAreApart DEF Unmoved
  <2>2. QED
    BY <1>1, <2>1, UnmovedStutters DEF Unmoved
<1>2. CASE SendPacket
  BY <1>2, UnmovedStutters DEF SendPacket, server
<1>3. CASE \E k \in Kinds : Insert(k)
  BY <1>3, InsertIsOffer DEF Line!Next
<1>4. QED
  BY <1>1, <1>2, <1>3, StepsOfQueues, ServerStepsRefine, AnswerStepsRefine

(* Each queue with the server behaves like a reliable line, which has no   *)
(* network, no retry and no restart: Insert*Data offers, the first copy of *)
(* a record to arrive delivers, and the answer that GPRS_Send accepts      *)
(* frees; nothing else that CPortal or the network does is seen.           *)
THEOREM PortalIsReliable == Spec => ImplementsUplink
<1>1. PortalInv /\ [Next]_vars => [Line!Next]_(Line!vars)
  BY StepRefinesLine
<1>2. QED
  BY <1>1, InitRefinesLine, InvHolds, PTL DEF Spec, ImplementsUplink, Line!Spec

(* Each queue as the abstract queue that the files of LogQueue implement.  *)
Log(k) == INSTANCE DurableFifo WITH Values <- 1 .. MaxRecords, queue <- queue[k]

LEMMA StepUsesLog ==
  ASSUME NEW k \in Kinds, PortalInv, [Next]_vars
  PROVE  Log(k)!Next \/ UNCHANGED queue[k]
<1>1. TypeOK
  BY DEF PortalInv
<1>2. CASE Unmoved \/ SendPacket
  BY <1>2 DEF Unmoved, SendPacket
<1>3. CASE \E j \in Kinds : Insert(j)
  <2>1. PICK j \in Kinds : Insert(j)
    BY <1>3
  <2>2. /\ queue' = [queue EXCEPT ![j] = Append(@, inserted[j] + 1)]
        /\ inserted[j] \in 0 .. MaxRecords /\ inserted[j] < MaxRecords
    BY <1>1, <2>1 DEF Insert, TypeOK
  <2>3. inserted[j] + 1 \in 1 .. MaxRecords
    BY <2>2, NumbersAssumption
  <2>4. CASE j = k
    <3>1. queue'[k] = Append(queue[k], inserted[j] + 1)
      BY <1>1, <2>2, <2>4 DEF TypeOK
    <3>2. Log(k)!Enqueue(inserted[j] + 1)
      BY <3>1 DEF Log!Enqueue
    <3>3. QED
      BY <2>3, <3>2 DEF Log!Next
  <2>5. CASE j # k
    BY <1>1, <2>2, <2>5 DEF TypeOK
  <2>6. QED
    BY <2>4, <2>5
<1>4. CASE \E d \in up : ServerReceives(d)
  BY <1>4 DEF ServerReceives
<1>5. CASE \E d \in down : ReadAnswer(d)
  <2>1. PICK d \in down : ReadAnswer(d)
    BY <1>5
  <2>2. phase # "none" /\ Return(TRUE)
    BY <2>1 DEF ReadAnswer
  <2>3. CASE stage = "queue" /\ k = Current
    <3>1. queue[k] # <<>>
      BY <2>2, <2>3 DEF PortalInv, ExchangeInv
    <3>2. queue'[k] = Tail(queue[k])
      BY <1>1, <2>2, <2>3, ReturnDoes DEF TypeOK
    <3>3. QED
      BY <3>1, <3>2 DEF Log!Next, Log!Dequeue
  <2>4. CASE ~ (stage = "queue" /\ k = Current)
    BY <1>1, <2>2, <2>4, ReturnDoes DEF TypeOK
  <2>5. QED
    BY <2>3, <2>4
<1>6. QED
  BY <1>2, <1>3, <1>4, <1>5, StepsOfQueues

(* Portal does with a queue only what an abstract durable queue offers:    *)
(* records are added at the back, only the front leaves, a restart changes *)
(* nothing.  LogQueueProofs shows that the files implement that queue, so  *)
(* that what is shown here with sequences holds with the files.            *)
THEOREM QueuesAreDurable ==
  ASSUME NEW k \in Kinds PROVE Spec => Log(k)!Spec
<1>1. Init => Log(k)!Init
  BY DEF Init, Log!Init
<1>2. PortalInv /\ [Next]_vars => [Log(k)!Next]_(queue[k])
  BY StepUsesLog
<1>3. QED
  BY <1>1, <1>2, InvHolds, PTL DEF Spec, Log!Spec

(* m_IsRegistered is true only if the server got a registration since the  *)
(* last Connect: the answer to an earlier one is of an earlier exchange.   *)
THEOREM RegistrationIsTrue == Spec => []RegisteredAtServer
<1>1. PortalInv => RegisteredAtServer
  BY DEF PortalInv
<1>2. QED
  BY <1>1, InvHolds, PTL

------------------------------------------------------------------------------
(* The inductive invariant of the downlink                                 *)

One(condition) == IF condition THEN 1 ELSE 0

(* The commands on their way.                                              *)
Sent == {d \in down : d.packet.fun \in Commands}

OnItsWay(n) == \E d \in Sent : d.packet.n = n

(* GPRS_Receive is between the execution of the command and its reply.     *)
InHand(n) == stage = "reply" /\ stash[FunList[c]] = n

Waits(n) == (\E f \in Commands : stash[f] = n) /\ ~ InHand(n)

(* A number names one command, and one that was sent.                      *)
NumbersInv ==
  /\ \A f, g \in Commands : stash[f] # 0 /\ stash[f] = stash[g] => f = g
  /\ \A d \in Sent, f \in Commands : stash[f] = d.packet.n => f = d.packet.fun
  /\ \A d, e \in Sent : d.packet.n = e.packet.n => d = e
  /\ \A f \in Commands : stash[f] <= commanded
  /\ \A d \in Sent : d.packet.n \in 1 .. commanded
  /\ \A n \in 1 .. MaxCommands : n > commanded => executed[n] = 0

InHandInv ==
  stage = "reply" => stash[FunList[c]] # 0 /\ executed[stash[FunList[c]]] > 0

(* What was done and what is still to be done was sent once, or a fault    *)
(* has doubled it.                                                         *)
Budget(n) == executed[n] + One(OnItsWay(n)) + One(Waits(n)) <= 1 + faults

CommandInv ==
  /\ NumbersInv /\ InHandInv
  /\ \A n \in 1 .. MaxCommands : Budget(n)

------------------------------------------------------------------------------
(* The steps *)

LEMMA CountersAreNat ==
  ASSUME TypeOK
  PROVE  /\ \A n \in 1 .. MaxCommands : executed[n] \in Nat
         /\ \A f \in Commands : stash[f] \in 0 .. MaxCommands /\ stash[f] \in Nat
         /\ faults \in Nat /\ commanded \in Nat /\ MaxCommands \in Nat
BY NumbersAssumption DEF TypeOK

LEMMA CodeIsCommand ==
  ASSUME TypeOK, c <= Len(FunList)
  PROVE  FunList[c] \in Commands
<1>1. c \in 1 .. 3
  BY NamesAreApart DEF TypeOK
<1>2. QED
  BY <1>1 DEF Commands, FunList

(* A command that gains nothing stays within its budget.                   *)
LEMMA BudgetKept ==
  ASSUME NEW n \in 1 .. MaxCommands, TypeOK, Budget(n),
         executed'[n] = executed[n], faults' \in Nat, faults <= faults',
         OnItsWay(n)' => OnItsWay(n), Waits(n)' => Waits(n)
  PROVE  Budget(n)'
<1>1. executed[n] \in Nat /\ faults \in Nat
  BY CountersAreNat
<1>2. /\ One(OnItsWay(n)') \in {0, 1} /\ One(OnItsWay(n)) \in {0, 1}
      /\ One(Waits(n)') \in {0, 1} /\ One(Waits(n)) \in {0, 1}
      /\ One(OnItsWay(n)') <= One(OnItsWay(n)) /\ One(Waits(n)') <= One(Waits(n))
  BY DEF One
<1>3. Budget(n)' <=> executed'[n] + One(OnItsWay(n)') + One(Waits(n)') <= 1 + faults'
  BY DEF Budget, One
<1>4. executed[n] + One(OnItsWay(n)) + One(Waits(n)) <= 1 + faults
  BY DEF Budget
<1>5. QED
  BY <1>1, <1>2, <1>3, <1>4

(* Nothing is kept, executed, answered or sent.                            *)
LEMMA QuietKeeps ==
  ASSUME TypeOK, CommandInv, UNCHANGED <<stash, executed, commanded>>,
         \A d \in Sent' : \E e \in Sent : d.packet = e.packet,
         \A d, e \in Sent' : d.packet = e.packet => d = e,
         faults' \in Nat, faults <= faults',
         stage' = "reply" <=> stage = "reply", stage = "reply" => c' = c
  PROVE  CommandInv'
<1>1. NumbersInv /\ InHandInv /\ \A n \in 1 .. MaxCommands : Budget(n)
  BY DEF CommandInv
<1>2. NumbersInv'
  <2>1. \A d \in Sent', f \in Commands : stash'[f] = d.packet.n => f = d.packet.fun
    BY <1>1 DEF NumbersInv
  <2>2. \A d, e \in Sent' : d.packet.n = e.packet.n => d = e
    <3>1. \A d, e \in Sent' : d.packet.n = e.packet.n => d.packet = e.packet
      BY <1>1 DEF NumbersInv
    <3>2. QED
      BY <3>1
  <2>3. \A d \in Sent' : d.packet.n \in 1 .. commanded'
    BY <1>1 DEF NumbersInv
  <2>4. QED
    BY <1>1, <2>1, <2>2, <2>3 DEF NumbersInv
<1>3. FunList' = FunList
  BY DEF FunList
<1>4. InHandInv'
  BY <1>1, <1>3 DEF InHandInv
<1>5. ASSUME NEW n \in 1 .. MaxCommands PROVE Budget(n)'
  <2>1. OnItsWay(n)' => OnItsWay(n)
    BY DEF OnItsWay
  <2>2. Waits(n)' => Waits(n)
    BY <1>3 DEF Waits, InHand
  <2>3. QED
    BY <1>1, <2>1, <2>2, BudgetKept
<1>6. QED
  BY <1>2, <1>4, <1>5 DEF CommandInv

(* The same, for a step that leaves the network alone or takes from it.    *)
LEMMA QuietTaking ==
  ASSUME TypeOK, CommandInv, UNCHANGED <<stash, executed, commanded>>,
         down' \subseteq down \union up,
         faults' \in Nat, faults <= faults',
         stage' = "reply" <=> stage = "reply", stage = "reply" => c' = c
  PROVE  CommandInv'
<1>1. Sent' \subseteq Sent
  <2>1. \A d \in up : d.packet.fun \notin Commands
    BY NetworkTypes, NamesAreApart DEF Packets
  <2>2. Commands' = Commands
    BY DEF Commands, FunList
  <2>3. QED
    BY <2>1, <2>2 DEF Sent
<1>2. \A d, e \in Sent' : d.packet = e.packet => d = e
  BY <1>1 DEF CommandInv, NumbersInv
<1>3. QED
  BY <1>1, <1>2, QuietKeeps

LEMMA FaultsGrow ==
  PortalInv /\ [Next]_vars => faults' \in Nat /\ faults <= faults'
<1> SUFFICES ASSUME PortalInv, [Next]_vars PROVE faults' \in Nat /\ faults <= faults'
  OBVIOUS
<1>1. faults' = faults \/ Fault
  <2>1. CASE Exchange \/ RunStep
    BY <2>1
       DEF Exchange, SendPacket, SendFails, ReadTimesOut, ReadUnwanted, ReadAnswer, ExchangeFails,
           Take, RunStep, Connect, Register, SkipRegister, HeartBeat, SkipHeartBeat, Receive,
           ReceiveNothing, Execute, Reply, ExecuteDone, EnterQueue, SkipQueue, SendFront,
           LeaveQueue, InfoTask
  <2>2. QED
    BY <2>1 DEF Next, Insert, ServerReceives, Take, ServerCommands, Lose, Restart, vars
<1>2. faults \in Nat
  BY CountersAreNat DEF PortalInv
<1>3. QED
  BY <1>1, <1>2 DEF Fault

(* A datagram is read into m_ReceivePacketMap.                             *)
LEMMA ReadingKeeps ==
  ASSUME TypeOK, CommandInv, NEW d \in down, Take(down, d), stash' = Stashed(d.packet),
         UNCHANGED <<executed, commanded>>, stage # "reply", stage' # "reply"
  PROVE  CommandInv'
<1> DEFINE f == d.packet.fun
           n == d.packet.n
<1>1. NumbersInv /\ InHandInv /\ \A m \in 1 .. MaxCommands : Budget(m)
  BY DEF CommandInv
<1>2. /\ faults \in Nat /\ MaxCommands \in Nat
      /\ \A m \in 1 .. MaxCommands : executed[m] \in Nat
  BY CountersAreNat
<1>3. \/ down' = down \ {d} /\ faults' = faults
      \/ down' = down /\ faults' = faults + 1
  BY DEF Take, Fault
<1>4. faults' \in Nat /\ faults <= faults' /\ down' \subseteq down
  BY <1>2, <1>3
<1>5. CASE stash' = stash
  <2>1. down' \subseteq down \union up
    BY <1>4
  <2>2. QED
    BY <1>4, <1>5, <2>1, QuietTaking
<1>6. CASE stash' # stash
  <2>1. /\ f \in Commands /\ stash[f] = 0 /\ stash' = [stash EXCEPT ![f] = n]
    BY <1>6 DEF Stashed
  <2>2. /\ d \in Sent /\ n \in 1 .. commanded /\ n \in 1 .. MaxCommands
        /\ stash \in [Commands -> 0 .. MaxCommands]
    BY <1>1, <2>1, NetworkTypes DEF Sent, NumbersInv, TypeOK
  <2> HIDE DEF f, n
  <2>3. stash'[f] = n /\ \A g \in Commands : g # f => stash'[g] = stash[g]
    BY <2>1, <2>2
  <2>4. Sent' \subseteq Sent
    <3>1. Commands' = Commands
      BY DEF Commands, FunList
    <3>2. QED
      BY <1>4, <3>1 DEF Sent
  <2>5. \A g \in Commands : stash[g] # n
    <3>1. \A g \in Commands : stash[g] = n => g = f
      BY <1>1, <2>2 DEF NumbersInv, f, n
    <3>2. QED
      BY <2>1, <2>2, <3>1
  <2>6. NumbersInv'
    <3>1. \A g, h \in Commands : stash'[g] # 0 /\ stash'[g] = stash'[h] => g = h
      BY <1>1, <2>3, <2>5 DEF NumbersInv
    <3>2. \A e \in Sent', g \in Commands : stash'[g] = e.packet.n => g = e.packet.fun
      <4>1. \A e \in Sent : e.packet.n = n => e = d
        BY <1>1, <2>2 DEF NumbersInv, n
      <4>2. QED
        BY <1>1, <2>3, <2>4, <4>1 DEF NumbersInv, f
    <3>3. \A g \in Commands : stash'[g] <= commanded'
      BY <1>1, <2>2, <2>3 DEF NumbersInv
    <3>4. QED
      BY <1>1, <2>4, <3>1, <3>2, <3>3 DEF NumbersInv
  <2>7. InHandInv'
    BY DEF InHandInv
  <2>8. ASSUME NEW m \in 1 .. MaxCommands, m # n PROVE Budget(m)'
    <3>1. OnItsWay(m)' => OnItsWay(m)
      BY <2>4 DEF OnItsWay
    <3>2. Waits(m)' => Waits(m)
      BY <2>3, <2>8 DEF Waits, InHand
    <3>3. QED
      BY <1>1, <1>4, <3>1, <3>2, BudgetKept
  <2>9. Budget(n)'
    <3>1. executed[n] + 1 + 0 <= 1 + faults
      <4>1. OnItsWay(n) /\ ~ Waits(n)
        BY <2>2, <2>5 DEF OnItsWay, Waits, n
      <4>2. QED
        BY <1>1, <2>2, <4>1 DEF Budget, One
    <3>2. CASE down' = down \ {d} /\ faults' = faults
      <4>1. ~ OnItsWay(n)'
        BY <1>1, <2>2, <2>4, <3>2 DEF OnItsWay, NumbersInv, Sent, n
      <4>2. One(OnItsWay(n)') = 0 /\ One(Waits(n)') \in {0, 1}
        BY <4>1 DEF One
      <4>3. executed'[n] + One(OnItsWay(n)') + One(Waits(n)') <= 1 + faults'
        BY <1>2, <2>2, <3>1, <3>2, <4>2
      <4>4. QED
        BY <4>3 DEF Budget, One
    <3>3. CASE faults' = faults + 1
      <4>1. One(OnItsWay(n)') \in {0, 1} /\ One(Waits(n)') \in {0, 1}
        BY DEF One
      <4>2. executed'[n] + One(OnItsWay(n)') + One(Waits(n)') <= 1 + faults'
        BY <1>2, <2>2, <3>1, <3>3, <4>1
      <4>3. QED
        BY <4>2 DEF Budget, One
    <3>4. QED
      BY <1>3, <3>2, <3>3
  <2>10. \A m \in 1 .. MaxCommands : Budget(m)'
    <3>1. n' = n
      BY DEF n
    <3>2. QED
      BY <2>8, <2>9, <3>1
  <2>11. QED
    BY <2>6, <2>7, <2>10 DEF CommandInv
<1>7. QED
  BY <1>5, <1>6

LEMMA ExecuteKeeps ==
  ASSUME TypeOK, CommandInv, Execute
  PROVE  CommandInv'
<1>1. NumbersInv /\ InHandInv /\ \A m \in 1 .. MaxCommands : Budget(m)
  BY DEF CommandInv
<1>2. /\ faults \in Nat /\ MaxCommands \in Nat /\ commanded \in Nat
      /\ \A m \in 1 .. MaxCommands : executed[m] \in Nat
  BY CountersAreNat
<1>3. /\ stage = "execute" /\ c <= Len(FunList)
      /\ UNCHANGED <<stash, down, faults, commanded>>
  BY DEF Execute, network, server
<1>4. CASE stash[FunList[c]] = 0
  <2>1. UNCHANGED <<executed, stage>>
    BY <1>4 DEF Execute
  <2>2. down' \subseteq down \union up /\ faults' \in Nat /\ faults <= faults'
    BY <1>2, <1>3
  <2>3. QED
    BY <1>3, <2>1, <2>2, QuietTaking
<1>5. CASE stash[FunList[c]] # 0
  <2> DEFINE n == stash[FunList[c]]
  <2>1. /\ executed' = [executed EXCEPT ![n] = @ + 1] /\ stage' = "reply" /\ c' = c
    BY <1>5 DEF Execute
  <2>2. FunList[c] \in Commands
    BY <1>3, CodeIsCommand
  <2>3. n \in 1 .. MaxCommands /\ n <= commanded
    BY <1>1, <1>5, <2>2, CountersAreNat DEF NumbersInv
  <2>4. FunList' = FunList /\ Commands' = Commands
    BY DEF FunList, Commands
  <2> HIDE DEF n
  <2>5. /\ executed'[n] = executed[n] + 1
        /\ \A m \in 1 .. MaxCommands : m # n => executed'[m] = executed[m]
    BY <2>1, <2>3 DEF TypeOK
  <2>6. Sent' = Sent
    BY <1>3, <2>4 DEF Sent
  <2>7. NumbersInv'
    BY <1>1, <1>2, <1>3, <2>3, <2>5, <2>6 DEF NumbersInv
  <2>8. InHandInv'
    <3>1. stash'[FunList[c]] = n /\ executed'[n] > 0 /\ n # 0
      BY <1>2, <1>3, <2>3, <2>5 DEF n
    <3>2. QED
      BY <2>1, <2>4, <3>1 DEF InHandInv
  <2>9. ASSUME NEW m \in 1 .. MaxCommands, m # n PROVE Budget(m)'
    <3>1. OnItsWay(m)' => OnItsWay(m)
      BY <2>6 DEF OnItsWay
    <3>2. Waits(m)' => Waits(m)
      BY <1>3, <2>4 DEF Waits, InHand
    <3>3. faults' \in Nat /\ faults <= faults'
      BY <1>2, <1>3
    <3>4. QED
      BY <1>1, <2>5, <2>9, <3>1, <3>2, <3>3, BudgetKept
  <2>10. Budget(n)'
    <3>1. Waits(n)
      BY <1>3, <2>2 DEF Waits, InHand, n
    <3>2. executed[n] + One(OnItsWay(n)) + 1 <= 1 + faults
      BY <1>1, <2>3, <3>1 DEF Budget, One
    <3>3. n' = n
      BY <1>3, <2>1, <2>4 DEF n
    <3>4. InHand(n)'
      BY <2>1, <3>3 DEF InHand, n
    <3>5. One(Waits(n)') = 0 /\ One(OnItsWay(n)') = One(OnItsWay(n)) /\ One(OnItsWay(n)) \in {0, 1}
      BY <2>6, <3>3, <3>4 DEF Waits, OnItsWay, One
    <3>6. executed'[n'] + One(OnItsWay(n)') + One(Waits(n)') <= 1 + faults'
      BY <1>2, <1>3, <2>3, <2>5, <3>2, <3>3, <3>5
    <3>7. QED
      BY <3>6 DEF Budget, One
  <2>11. \A m \in 1 .. MaxCommands : Budget(m)'
    <3>1. n' = n
      BY <1>3, <2>1, <2>4 DEF n
    <3>2. QED
      BY <2>9, <2>10, <3>1
  <2>12. QED
    BY <2>7, <2>8, <2>11 DEF CommandInv
<1>6. QED
  BY <1>4, <1>5

(* The reply erases the command, or fails, and then it waits again.        *)
LEMMA ReplyKeeps ==
  ASSUME PortalInv, CommandInv, Reply
  PROVE  CommandInv'
<1> DEFINE f == FunList[c]
           n == stash[FunList[c]]
<1>1. /\ TypeOK /\ NumbersInv /\ InHandInv
      /\ \A m \in 1 .. MaxCommands : Budget(m)
  BY DEF PortalInv, CommandInv
<1>2. /\ faults \in Nat /\ MaxCommands \in Nat /\ commanded \in Nat
      /\ \A m \in 1 .. MaxCommands : executed[m] \in Nat
  BY <1>1, CountersAreNat
<1>3. /\ stage = "reply" /\ stage' = "execute"
      /\ UNCHANGED <<down, commanded, executed>>
      /\ \/ stash' = [stash EXCEPT ![f] = 0] /\ faults' = faults
         \/ stash' = stash /\ faults' = faults + 1
  BY DEF Reply, Fault, network, server
<1>4. f \in Commands /\ n # 0 /\ n \in 1 .. MaxCommands
  BY <1>1, <1>3, CodeIsCommand, CountersAreNat DEF PortalInv, InHandInv
<1> HIDE DEF f
<1>5. Sent' = Sent
  <2>1. Commands' = Commands
    BY DEF Commands, FunList
  <2>2. QED
    BY <1>3, <2>1 DEF Sent
<1>6. \A g \in Commands : stash'[g] = stash[g] \/ stash'[g] = 0
  BY <1>1, <1>3 DEF TypeOK
<1>7. NumbersInv'
  <2>1. \A d \in Sent : d.packet.n # 0
    BY <1>1, <1>2 DEF NumbersInv
  <2>2. \A g \in Commands : stash'[g] <= commanded'
    BY <1>1, <1>2, <1>3, <1>6 DEF NumbersInv
  <2>3. \A g, h \in Commands : stash'[g] # 0 /\ stash'[g] = stash'[h] => g = h
    BY <1>1, <1>6 DEF NumbersInv
  <2>4. \A d \in Sent, g \in Commands : stash'[g] = d.packet.n => g = d.packet.fun
    BY <1>1, <1>6, <2>1 DEF NumbersInv
  <2>5. QED
    BY <1>1, <1>3, <1>5, <2>2, <2>3, <2>4 DEF NumbersInv
<1>8. InHandInv'
  BY <1>3 DEF InHandInv
<1>9. ASSUME NEW m \in 1 .. MaxCommands PROVE Budget(m)'
  <2>1. OnItsWay(m)' <=> OnItsWay(m)
    BY <1>5 DEF OnItsWay
  <2>2. faults' \in Nat /\ faults <= faults'
    BY <1>2, <1>3
  <2>3. CASE m # n
    <3>1. Waits(m)' => Waits(m)
      <4>1. \A g \in Commands : stash'[g] = m => stash[g] = m
        BY <1>2, <1>6
      <4>2. QED
        BY <2>3, <4>1 DEF Waits, InHand
    <3>2. QED
      BY <1>1, <1>3, <2>1, <2>2, <3>1, BudgetKept
  <2>4. CASE m = n /\ stash' = [stash EXCEPT ![f] = 0]
    <3>1. ~ Waits(m)'
      <4>1. \A g \in Commands : stash[g] = m => g = f
        BY <1>1, <1>4, <2>4 DEF NumbersInv, f
      <4>2. stash'[f] = 0
        BY <1>1, <1>4, <2>4 DEF TypeOK
      <4>3. \A g \in Commands : stash'[g] # m
        BY <1>2, <1>6, <4>1, <4>2
      <4>4. QED
        BY <4>3 DEF Waits
    <3>2. QED
      BY <1>1, <1>3, <2>1, <2>2, <3>1, BudgetKept
  <2>5. CASE m = n /\ faults' = faults + 1
    <3>1. ~ Waits(m)
      BY <1>3, <2>5 DEF Waits, InHand
    <3>2. executed[m] + One(OnItsWay(m)) + 0 <= 1 + faults
      BY <1>1, <3>1 DEF Budget, One
    <3>3. One(OnItsWay(m)) \in {0, 1} /\ One(Waits(m)') \in {0, 1}
          /\ One(OnItsWay(m)') = One(OnItsWay(m))
      BY <2>1 DEF One
    <3>4. executed'[m] + One(OnItsWay(m)') + One(Waits(m)') <= 1 + faults'
      BY <1>2, <1>3, <2>5, <3>2, <3>3
    <3>5. QED
      BY <3>4 DEF Budget, One
  <2>6. QED
    BY <1>3, <2>3, <2>4, <2>5
<1>10. QED
  BY <1>7, <1>8, <1>9 DEF CommandInv

(* The server sends one more command, under a new number.                  *)
LEMMA CommandingKeeps ==
  ASSUME TypeOK, CommandInv, NEW f \in Commands, ServerCommands(f)
  PROVE  CommandInv'
<1> DEFINE n == commanded + 1
           new == [packet |-> [fun |-> f, n |-> n, serial |-> 0], age |-> 0]
<1>1. NumbersInv /\ InHandInv /\ \A m \in 1 .. MaxCommands : Budget(m)
  BY DEF CommandInv
<1>2. /\ faults \in Nat /\ MaxCommands \in Nat /\ commanded \in Nat
      /\ \A m \in 1 .. MaxCommands : executed[m] \in Nat
      /\ \A g \in Commands : stash[g] \in Nat
  BY CountersAreNat
<1>3. /\ commanded < MaxCommands /\ commanded' = n /\ down' = down \union {new}
      /\ UNCHANGED <<stash, stage, c, executed, faults>>
  BY DEF ServerCommands, control
<1>4. FunList' = FunList /\ Commands' = Commands
  BY DEF Commands, FunList
<1>5. new.packet.n = n /\ new.packet.fun = f
  OBVIOUS
<1> HIDE DEF new
<1>6. Sent' = Sent \union {new}
  BY <1>3, <1>4, <1>5 DEF Sent
<1>7. n \in 1 .. MaxCommands
  BY <1>2, <1>3
<1>8. (\A d \in Sent : d.packet.n # n) /\ (\A g \in Commands : stash[g] # n)
  BY <1>1, <1>2 DEF NumbersInv
<1> HIDE DEF n
<1>9. NumbersInv'
  <2>1. \A g, h \in Commands : stash'[g] # 0 /\ stash'[g] = stash'[h] => g = h
    BY <1>1, <1>3 DEF NumbersInv
  <2>2. \A d \in Sent', g \in Commands : stash'[g] = d.packet.n => g = d.packet.fun
    BY <1>1, <1>3, <1>5, <1>6, <1>8 DEF NumbersInv
  <2>3. \A d, e \in Sent' : d.packet.n = e.packet.n => d = e
    BY <1>1, <1>5, <1>6, <1>8 DEF NumbersInv
  <2>4. \A g \in Commands : stash'[g] <= commanded'
    BY <1>1, <1>2, <1>3 DEF NumbersInv, n
  <2>5. \A d \in Sent' : d.packet.n \in 1 .. commanded'
    <3>1. \A d \in Sent : d.packet.n \in 1 .. n
      BY <1>1, <1>2 DEF NumbersInv, n
    <3>2. n \in 1 .. n
      BY <1>7, <1>2
    <3>3. QED
      BY <1>3, <1>5, <1>6, <3>1, <3>2
  <2>6. \A m \in 1 .. MaxCommands : m > commanded' => executed'[m] = 0
    BY <1>1, <1>2, <1>3 DEF NumbersInv, n
  <2>7. QED
    BY <1>4, <2>1, <2>2, <2>3, <2>4, <2>5, <2>6 DEF NumbersInv
<1>10. InHandInv'
  BY <1>1, <1>3, <1>4 DEF InHandInv
<1>11. \A m \in 1 .. MaxCommands : Waits(m)' <=> Waits(m)
  BY <1>3, <1>4 DEF Waits, InHand
<1>12. ASSUME NEW m \in 1 .. MaxCommands, m # n PROVE Budget(m)'
  <2>1. OnItsWay(m)' => OnItsWay(m)
    BY <1>5, <1>6, <1>12 DEF OnItsWay
  <2>2. faults' \in Nat /\ faults <= faults'
    BY <1>2, <1>3
  <2>3. QED
    BY <1>1, <1>3, <1>11, <2>1, <2>2, BudgetKept
<1>13. ASSUME NEW m \in 1 .. MaxCommands, m = n PROVE Budget(m)'
  <2>1. executed[m] = 0
    BY <1>1, <1>2, <1>13 DEF NumbersInv, n
  <2>2. ~ Waits(m)'
    BY <1>8, <1>11, <1>13 DEF Waits
  <2>3. One(OnItsWay(m)') \in {0, 1} /\ One(Waits(m)') = 0
    BY <2>2 DEF One
  <2>4. executed'[m] + One(OnItsWay(m)') + One(Waits(m)') <= 1 + faults'
    BY <1>2, <1>3, <2>1, <2>3
  <2>5. QED
    BY <2>4 DEF Budget, One
<1>14. QED
  BY <1>9, <1>10, <1>12, <1>13 DEF CommandInv

(* At the end of an exchange the datagrams on their way grow older.        *)
LEMMA EndKeepsCommands ==
  ASSUME PortalInv, CommandInv, [Next]_vars, End
  PROVE  CommandInv'
<1>1. /\ UNCHANGED <<stash, executed, commanded>>
      /\ down' \subseteq Older(down)
      /\ stage' # "reply" /\ stage # "reply"
  <2>1. UNCHANGED <<stash, executed, commanded>> /\ down' \subseteq Older(down)
    BY EndKeeps
  <2>2. stage \in {"register", "beat", "queue"}
    BY DEF End, ExchangeFails, ReadAnswer, PortalInv, ExchangeInv
  <2>3. stage' # "reply"
    <3>1. Return(TRUE) \/ Return(FALSE)
      BY DEF End, ExchangeFails, ReadAnswer
    <3>2. QED
      BY <2>2, <3>1 DEF Return
  <2>4. QED
    BY <2>1, <2>2, <2>3
<1>2. faults' \in Nat /\ faults <= faults'
  BY FaultsGrow
<1>3. Commands' = Commands
  BY DEF Commands, FunList
<1>4. \A d \in Sent' : \E e \in Sent : d = [packet |-> e.packet, age |-> e.age + 1]
  BY <1>1, <1>3 DEF Sent, Older
<1>5. \A d \in Sent' : \E e \in Sent : d.packet = e.packet
  BY <1>4
<1>6. \A d, e \in Sent' : d.packet = e.packet => d = e
  <2>1. TAKE d, e \in Sent'
  <2>2. PICK x \in Sent : d = [packet |-> x.packet, age |-> x.age + 1]
    BY <1>4
  <2>3. PICK y \in Sent : e = [packet |-> y.packet, age |-> y.age + 1]
    BY <1>4
  <2>4. x.packet = y.packet => x = y
    BY DEF CommandInv, NumbersInv
  <2>5. QED
    BY <2>2, <2>3, <2>4
<1>7. QED
  BY <1>1, <1>2, <1>5, <1>6, QuietKeeps DEF PortalInv

(* A restart forgets every command kept or on its way.                     *)
LEMMA RestartKeeps ==
  ASSUME PortalInv, CommandInv, [Next]_vars, Restart
  PROVE  CommandInv'
<1>1. /\ stash' = [f \in Commands |-> 0] /\ down' = {} /\ stage' # "reply"
      /\ UNCHANGED <<commanded, executed>>
  BY DEF Restart
<1>2. TypeOK /\ NumbersInv /\ \A m \in 1 .. MaxCommands : Budget(m)
  BY DEF CommandInv, PortalInv
<1>3. Commands' = Commands
  BY DEF Commands, FunList
<1>4. Sent' = {} /\ \A f \in Commands : stash'[f] = 0
  BY <1>1, <1>3 DEF Sent
<1>5. commanded \in Nat
  BY <1>2, CountersAreNat
<1>6. NumbersInv'
  BY <1>1, <1>2, <1>3, <1>4, <1>5 DEF NumbersInv
<1>7. InHandInv'
  BY <1>1 DEF InHandInv
<1>8. ASSUME NEW n \in 1 .. MaxCommands PROVE Budget(n)'
  <2>1. ~ OnItsWay(n)' /\ ~ Waits(n)'
    BY <1>3, <1>4 DEF OnItsWay, Waits
  <2>2. faults' \in Nat /\ faults <= faults'
    BY FaultsGrow
  <2>3. QED
    BY <1>1, <1>2, <2>1, <2>2, BudgetKept
<1>9. QED
  BY <1>6, <1>7, <1>8 DEF CommandInv

(* Every other step but those that read leaves the commands as they are.   *)
LEMMA StepKeepsCommands ==
  ASSUME PortalInv, CommandInv, [Next]_vars
  PROVE  CommandInv'
<1>1. TypeOK /\ faults' \in Nat /\ faults <= faults'
  BY FaultsGrow DEF PortalInv
<1>2. phase # "none" => stage \in {"register", "beat", "queue"}
  BY DEF PortalInv, ExchangeInv
<1> DEFINE Quiet == /\ UNCHANGED <<stash, executed, commanded>>
                    /\ down' \subseteq down \union up
                    /\ stage' = "reply" <=> stage = "reply"
                    /\ stage = "reply" => c' = c
<1>3. Quiet => CommandInv'
  BY <1>1, QuietTaking
<1>4. CASE SendPacket \/ SendFails \/ ReadTimesOut
  <2>1. Quiet
    BY <1>4 DEF SendPacket, SendFails, ReadTimesOut, control, network, server
  <2>2. QED
    BY <1>3, <2>1
<1>5. ASSUME NEW d \in down, ReadUnwanted(d) PROVE CommandInv'
  <2>1. /\ Take(down, d) /\ UNCHANGED <<executed, commanded, stage>>
        /\ stage # "reply"
        /\ stash' = stash \/ stash' = Stashed(d.packet)
    BY <1>2, <1>5 DEF ReadUnwanted, control, server
  <2>2. CASE stash' = stash
    <3>1. down' \subseteq down
      BY <2>1 DEF Take
    <3>2. Quiet
      BY <2>1, <2>2, <3>1
    <3>3. QED
      BY <1>3, <3>2
  <2>3. CASE stash' = Stashed(d.packet)
    BY <1>1, <2>1, <2>3, ReadingKeeps
  <2>4. QED
    BY <2>1, <2>2, <2>3
<1>6. CASE End
  BY <1>6, EndKeepsCommands
<1>7. CASE Connect \/ Register \/ SkipRegister \/ HeartBeat \/ SkipHeartBeat
           \/ ReceiveNothing \/ ExecuteDone
  <2>1. Quiet
    BY <1>7 DEF Connect, Register, SkipRegister, HeartBeat, SkipHeartBeat, ReceiveNothing,
                ExecuteDone, control, network, server
  <2>2. QED
    BY <1>3, <2>1
<1>8. CASE EnterQueue \/ SkipQueue \/ SendFront \/ LeaveQueue \/ InfoTask
  <2>1. Quiet
    BY <1>8 DEF EnterQueue, SkipQueue, SendFront, LeaveQueue, InfoTask, AtQueue,
                control, network, server
  <2>2. QED
    BY <1>3, <2>1
<1>9. ASSUME NEW d \in down, Receive(d) PROVE CommandInv'
  <2>1. /\ Take(down, d) /\ stash' = Stashed(d.packet) /\ UNCHANGED <<executed, commanded>>
        /\ stage # "reply" /\ stage' # "reply"
    BY <1>9 DEF Receive, server
  <2>2. QED
    BY <1>1, <2>1, ReadingKeeps
<1>10. CASE Execute
  BY <1>1, <1>10, ExecuteKeeps
<1>11. CASE Reply
  BY <1>11, ReplyKeeps
<1>12. ASSUME NEW k \in Kinds, Insert(k) PROVE CommandInv'
  <2>1. Quiet
    BY <1>12 DEF Insert, control, network, server
  <2>2. QED
    BY <1>3, <2>1
<1>13. ASSUME NEW d \in up, ServerReceives(d) PROVE CommandInv'
  <2>1. Quiet
    BY <1>13 DEF ServerReceives, control
  <2>2. QED
    BY <1>3, <2>1
<1>14. ASSUME NEW f \in Commands, ServerCommands(f) PROVE CommandInv'
  BY <1>1, <1>14, CommandingKeeps
<1>15. CASE Lose
  <2>1. Quiet
    BY <1>15 DEF Lose, control, server
  <2>2. QED
    BY <1>3, <2>1
<1>16. CASE Restart
  BY <1>16, RestartKeeps
<1>17. CASE UNCHANGED vars
  <2>1. Quiet
    BY <1>17 DEF vars, control, network, server
  <2>2. QED
    BY <1>3, <2>1
<1> HIDE DEF Quiet
<1>18. QED
  BY <1>4, <1>5, <1>6, <1>7, <1>8, <1>9, <1>10, <1>11, <1>12, <1>13, <1>14, <1>15, <1>16, <1>17
     DEF Next, Exchange, RunStep, End

LEMMA InitEstablishesCommandInv == Init => CommandInv
<1> SUFFICES ASSUME Init PROVE CommandInv
  OBVIOUS
<1>1. Sent = {} /\ \A f \in Commands : stash[f] = 0
  BY DEF Init, Sent
<1>2. /\ \A n \in 1 .. MaxCommands : executed[n] = 0
      /\ faults = 0 /\ commanded = 0 /\ stage # "reply"
  BY DEF Init
<1>3. NumbersInv
  BY <1>1, <1>2 DEF NumbersInv
<1>4. ASSUME NEW n \in 1 .. MaxCommands PROVE Budget(n)
  <2>1. ~ OnItsWay(n) /\ ~ Waits(n)
    BY <1>1 DEF OnItsWay, Waits
  <2>2. QED
    BY <1>2, <2>1 DEF Budget, One
<1>5. QED
  BY <1>2, <1>3, <1>4 DEF CommandInv, InHandInv

LEMMA CommandInvHolds == Spec => [](PortalInv /\ CommandInv)
<1>1. Init => CommandInv
  BY InitEstablishesCommandInv
<1>2. PortalInv /\ CommandInv /\ [Next]_vars => CommandInv'
  BY StepKeepsCommands
<1>3. QED
  BY <1>1, <1>2, InvHolds, PTL DEF Spec

------------------------------------------------------------------------------
(* The theorems *)

(* RepeatsNeedFaults, for any number of commands and faults: GPRS_Receive  *)
(* gives a command to the valves again only when its reply could not be    *)
(* sent or its datagram came twice.                                        *)
THEOREM RepeatsArePaidFor == Spec => []RepeatsNeedFaults
<1>1. PortalInv /\ CommandInv => RepeatsNeedFaults
  <2> SUFFICES ASSUME PortalInv, CommandInv, NEW n \in 1 .. MaxCommands
               PROVE  executed[n] <= 1 + faults
    BY DEF RepeatsNeedFaults
  <2>1. executed[n] \in Nat /\ faults \in Nat
    BY CountersAreNat DEF PortalInv
  <2>2. executed[n] + One(OnItsWay(n)) + One(Waits(n)) <= 1 + faults
    BY DEF CommandInv, Budget
  <2>3. One(OnItsWay(n)) \in {0, 1} /\ One(Waits(n)) \in {0, 1}
    BY DEF One
  <2>4. QED
    BY <2>1, <2>2, <2>3
<1>2. QED
  BY <1>1, CommandInvHolds, PTL

(* StashedIsExecuted: whatever datagrams GPRS_Send and GPRS_Receive read   *)
(* in between, m_ReceivePacketMap loses a command only after it was        *)
(* executed, or by a restart.                                              *)
THEOREM CommandsAreExecuted == Spec => StashedIsExecuted
<1> DEFINE Kept == \/ Restart
                   \/ \A f \in Commands :
                        stash[f] # 0 /\ stash'[f] # stash[f] => executed[stash[f]] > 0
<1>1. PortalInv /\ CommandInv /\ [Next]_vars => [Kept]_vars
  <2> SUFFICES ASSUME PortalInv, CommandInv, [Next]_vars, ~ Restart,
                      NEW f \in Commands, stash[f] # 0, stash'[f] # stash[f]
               PROVE  executed[stash[f]] > 0
    OBVIOUS
  <2>1. /\ ~ UNCHANGED stash
        /\ \A p : stash' # Stashed(p)
    BY DEF PortalInv, TypeOK, Stashed
  <2>2. Reply
    <3>1. ~ Exchange
      BY <2>1 DEF Exchange, SendPacket, SendFails, ReadTimesOut, ReadUnwanted, ReadAnswer,
                  ExchangeFails
    <3>2. RunStep => Reply
      BY <2>1 DEF RunStep, Connect, Register, SkipRegister, HeartBeat, SkipHeartBeat, Receive,
           ReceiveNothing, Execute, ExecuteDone, EnterQueue, SkipQueue, SendFront,
           LeaveQueue, InfoTask
    <3>3. QED
      BY <2>1, <3>1, <3>2 DEF Next, Insert, ServerReceives, ServerCommands, Lose, vars
  <2>3. stage = "reply" /\ stash' = [stash EXCEPT ![FunList[c]] = 0]
    BY <2>1, <2>2 DEF Reply
  <2>4. f = FunList[c]
    BY <2>3 DEF PortalInv, TypeOK
  <2>5. QED
    BY <2>3, <2>4 DEF CommandInv, InHandInv
<1>2. Spec => [][Kept]_vars
  BY <1>1, CommandInvHolds, PTL DEF Spec
<1>3. QED
  BY <1>2 DEF StashedIsExecuted
==============================================================================
