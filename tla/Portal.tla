------------------------------- MODULE Portal --------------------------------
(***************************************************************************)
(* CPortal: the thread that uploads the queued readings to the portal      *)
(* server over UDP, registers, beats, and executes the server's commands.  *)
(*                                                                         *)
(* GPRS_Send is a stop-and-wait exchange: the packet is sent up to         *)
(* MAX_GPRS_RETRY_COUNT times, after each sending up to as many datagrams  *)
(* are read, and only one with the packet's function code + 1 and its      *)
(* serial index ends the exchange.  The serial index wraps and is not      *)
(* kept over a restart.  A record is taken off its queue once its exchange *)
(* has succeeded; the queue's mutex is held for the whole sending loop.    *)
(*                                                                         *)
(* Datagrams are lost, delayed, duplicated and reordered.  "age" counts    *)
(* the exchanges ended since a datagram's own: none outlives Lifetime of   *)
(* them, nor a restart of the concentrator (Connect alone sleeps for       *)
(* tens of seconds).  The server (external) answers every packet it gets.  *)
(* Every use of a misbehaving network, modem or power supply is a fault,   *)
(* and there are at most MaxFaults.                                        *)
(***************************************************************************)
EXTENDS Naturals, Sequences

CONSTANTS
  QueueOrder,   (* the queues, in the order Run empties them             *)
  Timed,        (* those emptied only when m_FixHourTimer is done        *)
  MaxSerial,    (* MAX_SERIAL_INDEX                                      *)
  Retries,      (* MAX_GPRS_RETRY_COUNT                                  *)
  Lifetime,     (* exchanges a datagram may survive                      *)
  MaxRecords,   (* bound: records inserted into each queue               *)
  MaxCommands,  (* bound: commands the server sends                      *)
  MaxFaults     (* bound: faults                                         *)

Kinds == {QueueOrder[i] : i \in DOMAIN QueueOrder}

(* The codes GPRS_Receive looks for; the loop that looks skips every other *)
(* one (i += 2).                                                           *)
FunList == <<"switch", "heattime", "config">>
Commands == {FunList[i] : i \in DOMAIN FunList}

ASSUME OrderAssumption ==
  /\ QueueOrder \in Seq(STRING)
  /\ \A i, j \in DOMAIN QueueOrder : QueueOrder[i] = QueueOrder[j] => i = j
  /\ Kinds \cap ({"register", "heartbeat"} \union Commands) = {}
  /\ Timed \subseteq Kinds
ASSUME NumbersAssumption ==
  /\ MaxSerial \in Nat /\ Retries \in Nat \ {0} /\ Lifetime \in Nat
  /\ MaxRecords \in Nat /\ MaxCommands \in Nat /\ MaxFaults \in Nat
ASSUME LifetimeAssumption == Lifetime <= MaxSerial

VARIABLES
  connected, registered, serial,   (* CGprs.m_IsConnected and CPortal's  *)
  stage,       (* where Run is                                           *)
  q,           (* queue Run is at                                        *)
  draining,    (* Run is inside that queue's sending loop, with its lock *)
  phase,       (* where GPRS_Send is                                     *)
  tx,          (* the packet it sends                                    *)
  attempt,     (* its loop counter i                                     *)
  reads,       (* its loop counter j                                     *)
  queue,       (* the log queues                                         *)
  stash,       (* m_ReceivePacketMap: the command kept for each code     *)
  c,           (* loop counter of GPRS_Receive                           *)
  up, down,    (* datagrams on their way                                 *)
  inserted,    (* history: number of records inserted                    *)
  received,    (* history: packets the server got, as <<fun, n>>;        *)
               (* registrations only since the last Connect              *)
  commanded,   (* history: number of commands sent                       *)
  executed,    (* history: how often each command reached the valves     *)
  faults

link == <<connected, registered, serial>>
control == <<stage, q, draining, c>>
exchange == <<phase, tx, attempt, reads>>
network == <<up, down>>
server == <<received, commanded>>
vars == <<link, control, exchange, queue, stash, network, inserted, server,
          executed, faults>>

Funs == Kinds \union {"register", "heartbeat"}

NoPacket == [fun |-> "none", n |-> 0, serial |-> 0]
Packets == [fun : Funs, n : 0 .. MaxRecords, serial : 0 .. MaxSerial]
Aged(P) == {[packet |-> p, age |-> a] : p \in P, a \in 0 .. Lifetime}
CommandPackets == [fun : Commands, n : 1 .. MaxCommands, serial : {0}]

Init ==
  /\ connected = FALSE /\ registered = FALSE /\ serial = 0
  /\ stage = "connect" /\ q = 1 /\ draining = FALSE /\ c = 1
  /\ phase = "none" /\ tx = NoPacket /\ attempt = 0 /\ reads = 0
  /\ queue = [k \in Kinds |-> <<>>]
  /\ stash = [f \in Commands |-> 0]
  /\ up = {} /\ down = {}
  /\ inserted = [k \in Kinds |-> 0]
  /\ received = {} /\ commanded = 0
  /\ executed = [n \in 1 .. MaxCommands |-> 0]
  /\ faults = 0

Fault ==
  /\ faults < MaxFaults
  /\ faults' = faults + 1

------------------------------------------------------------------------------
(* GPRS_Send *)

(* The packet is built with the current serial index and the call begins.  *)
BeginExchange(fun, n) ==
  /\ phase' = "send"
  /\ tx' = [fun |-> fun, n |-> n, serial |-> serial]
  /\ attempt' = 0
  /\ reads' = 0

NextAttempt ==
  /\ attempt' = attempt + 1
  /\ reads' = 0
  /\ phase' = "send"
  /\ UNCHANGED tx

SendPacket ==
  /\ phase = "send" /\ attempt < Retries
  /\ connected
  /\ up' = up \union {[packet |-> tx, age |-> 0]}
  /\ phase' = "receive"
  /\ reads' = 0
  /\ UNCHANGED <<link, control, tx, attempt, queue, stash, down, inserted,
                 server, executed, faults>>

(* SendData fails: there is no connection, or the line or the switch back  *)
(* to data mode gives out.                                                 *)
SendFails ==
  /\ phase = "send" /\ attempt < Retries
  /\ IF connected THEN Fault ELSE UNCHANGED faults
  /\ NextAttempt
  /\ UNCHANGED <<link, control, queue, stash, network, inserted, server,
                 executed>>

(* The datagram leaves the network, unless the network delivers it twice.  *)
Take(net, d) ==
  \/ net' = net \ {d} /\ UNCHANGED faults
  \/ UNCHANGED net /\ Fault

NextRead_NeverGivesUp(j) == reads' = j % Retries /\ UNCHANGED <<phase, tx, attempt>>

NextRead(j) ==
  IF j < Retries
    THEN reads' = j /\ UNCHANGED <<phase, tx, attempt>>
    ELSE NextAttempt

Awaited == \E d \in up : d.packet = tx

(* Nothing comes within GPRS_TIMEOUT.                                      *)
ReadTimesOut ==
  /\ phase = "receive"
  /\ IF Awaited \/ down # {} THEN Fault ELSE UNCHANGED faults
  /\ NextRead(reads + 1)
  /\ UNCHANGED <<link, control, queue, stash, network, inserted, server,
                 executed>>

Answers_AnySerial(p) == p.fun = tx.fun
Answers(p) == p.fun = tx.fun /\ p.serial = tx.serial

Stashed_Overwrite(p) ==
  IF p.fun \in Commands THEN [stash EXCEPT ![p.fun] = p.n] ELSE stash

(* m_ReceivePacketMap.insert: an entry that is there stays as it is.       *)
(* Answers are put in the map too; nothing ever looks them up.             *)
Stashed(p) ==
  IF p.fun \in Commands /\ stash[p.fun] = 0
    THEN [stash EXCEPT ![p.fun] = p.n]
    ELSE stash

(* Another function code is kept for GPRS_Receive and j starts over (at 1: *)
(* "j=0; continue;"); the right code with another serial index is dropped. *)
ReadUnwanted(d) ==
  /\ phase = "receive"
  /\ d \in down
  /\ ~ Answers(d.packet)
  /\ Take(down, d)
  /\ IF d.packet.fun # tx.fun
       THEN stash' = Stashed(d.packet) /\ NextRead(1)
       ELSE UNCHANGED stash /\ NextRead(reads + 1)
  /\ UNCHANGED <<link, control, queue, up, inserted, server, executed>>

(* Every datagram on its way has grown older by one exchange.              *)
Older(net) ==
  {[packet |-> d.packet, age |-> d.age + 1] :
     d \in {e \in net : e.age < Lifetime}}

EndExchange_NoWrap ==
  /\ serial' = serial + 1
  /\ phase' = "none"
  /\ UNCHANGED <<tx, attempt, reads>>

(* IncSerialIndex; the exchange is over.                                   *)
EndExchange ==
  /\ serial' = IF serial + 1 > MaxSerial THEN 0 ELSE serial + 1
  /\ phase' = "none"
  /\ UNCHANGED <<tx, attempt, reads>>

Current == QueueOrder[q]

(* What the caller does with the result of GPRS_Send: IsRegistered keeps   *)
(* it and Run disconnects when it is false, HeartBeat ignores it, and the  *)
(* sending loops take the record off the queue or give up.                 *)
Return_DequeueAlways(ok) ==
  CASE stage = "register" ->
         /\ registered' = ok
         /\ stage' = IF ok THEN "beat" ELSE "queue"
         /\ UNCHANGED <<q, draining, queue>>
    [] stage = "beat" ->
         /\ stage' = "receive"
         /\ UNCHANGED <<q, draining, queue, registered>>
    [] stage = "queue" ->
         /\ queue' = [queue EXCEPT ![Current] = Tail(@)]
         /\ draining' = ok
         /\ q' = IF ok THEN q ELSE q + 1
         /\ UNCHANGED <<stage, registered>>

Return(ok) ==
  CASE stage = "register" ->
         /\ registered' = ok
         /\ stage' = IF ok THEN "beat" ELSE "queue"
         /\ UNCHANGED <<q, draining, queue>>
    [] stage = "beat" ->
         /\ stage' = "receive"
         /\ UNCHANGED <<q, draining, queue, registered>>
    [] stage = "queue" ->
         /\ queue' = [queue EXCEPT ![Current] = IF ok THEN Tail(@) ELSE @]
         /\ draining' = ok
         /\ q' = IF ok THEN q ELSE q + 1
         /\ UNCHANGED <<stage, registered>>

ReadAnswer(d) ==
  /\ phase = "receive"
  /\ d \in down
  /\ Answers(d.packet)
  /\ \/ UNCHANGED faults /\ down' = Older(down \ {d})
     \/ Fault /\ down' = Older(down)
  /\ up' = Older(up)
  /\ EndExchange
  /\ Return(TRUE)
  /\ UNCHANGED <<connected, c, stash, inserted, server, executed>>

(* Every attempt used up: the connection is given up too.                  *)
ExchangeFails ==
  /\ phase = "send" /\ attempt = Retries
  /\ connected' = FALSE
  /\ up' = Older(up) /\ down' = Older(down)
  /\ EndExchange
  /\ Return(FALSE)
  /\ UNCHANGED <<c, stash, inserted, server, executed, faults>>

------------------------------------------------------------------------------
(* Run *)

Connect ==
  /\ stage = "connect"
  /\ stage' = "register"
  /\ q' = 1
  /\ IF connected
       THEN UNCHANGED <<connected, registered, received, faults>>
       ELSE /\ registered' = FALSE
            /\ received' = received \ {<<"register", 0>>}
            /\ \/ connected' = TRUE /\ UNCHANGED faults
               \/ connected' = FALSE /\ Fault
  /\ UNCHANGED <<serial, draining, c, exchange, queue, stash, network,
                 inserted, commanded, executed>>

(* IsRegistered, up to the call of GPRS_Send.                              *)
Register ==
  /\ stage = "register" /\ phase = "none"
  /\ connected /\ ~ registered
  /\ BeginExchange("register", 0)
  /\ UNCHANGED <<link, control, queue, stash, network, inserted, server,
                 executed, faults>>

SkipRegister ==
  /\ stage = "register" /\ phase = "none"
  /\ ~ (connected /\ ~ registered)
  /\ stage' = IF registered THEN "beat" ELSE "queue"
  /\ connected' = (connected /\ registered)
  /\ UNCHANGED <<registered, serial, q, draining, c, exchange, queue, stash,
                 network, inserted, server, executed, faults>>

(* m_HeartBeatTimer is done, or it is not.                                 *)
HeartBeat ==
  /\ stage = "beat" /\ phase = "none"
  /\ BeginExchange("heartbeat", 0)
  /\ UNCHANGED <<link, control, queue, stash, network, inserted, server,
                 executed, faults>>

SkipHeartBeat ==
  /\ stage = "beat" /\ phase = "none"
  /\ stage' = "receive"
  /\ UNCHANGED <<link, q, draining, c, exchange, queue, stash, network,
                 inserted, server, executed, faults>>

(* GPRS_Receive reads a datagram, whatever it is, into the map ...         *)
Receive(d) ==
  /\ stage = "receive"
  /\ connected
  /\ d \in down
  /\ Take(down, d)
  /\ stash' = Stashed(d.packet)
  /\ stage' = "execute"
  /\ c' = 1
  /\ UNCHANGED <<link, q, draining, exchange, queue, up, inserted, server,
                 executed>>

ReceiveNothing ==
  /\ stage = "receive"
  /\ IF connected /\ down # {} THEN Fault ELSE UNCHANGED faults
  /\ stage' = "queue"
  /\ UNCHANGED <<link, q, draining, c, exchange, queue, stash, network,
                 inserted, server, executed>>

(* ... and then goes through the map for commands: ConfigValve ...         *)
Execute ==
  /\ stage = "execute"
  /\ c <= Len(FunList)
  /\ IF stash[FunList[c]] # 0
       THEN /\ executed' = [executed EXCEPT ![stash[FunList[c]]] = @ + 1]
            /\ stage' = "reply"
            /\ UNCHANGED c
       ELSE /\ c' = c + 2
            /\ UNCHANGED <<executed, stage>>
  /\ UNCHANGED <<link, q, draining, exchange, queue, stash, network, inserted,
                 server, faults>>

Reply_NoErase ==
  /\ stage = "reply"
  /\ connected
  /\ UNCHANGED <<stash, faults>>
  /\ c' = c + 2
  /\ stage' = "execute"
  /\ UNCHANGED <<link, q, draining, exchange, queue, network, inserted, server,
                 executed>>

(* ... and the reply, whose sending erases the command.                    *)
Reply ==
  /\ stage = "reply"
  /\ \/ stash' = [stash EXCEPT ![FunList[c]] = 0] /\ UNCHANGED faults
     \/ UNCHANGED stash /\ Fault
  /\ c' = c + 2
  /\ stage' = "execute"
  /\ UNCHANGED <<link, q, draining, exchange, queue, network, inserted, server,
                 executed>>

ExecuteDone ==
  /\ stage = "execute"
  /\ c > Len(FunList)
  /\ stage' = "queue"
  /\ UNCHANGED <<link, q, draining, c, exchange, queue, stash, network,
                 inserted, server, executed, faults>>

------------------------------------------------------------------------------
(* The sending loops *)

AtQueue == stage = "queue" /\ phase = "none" /\ q <= Len(QueueOrder)

EnterQueue ==
  /\ AtQueue /\ ~ draining
  /\ draining' = TRUE
  /\ UNCHANGED <<link, stage, q, c, exchange, queue, stash, network, inserted,
                 server, executed, faults>>

(* m_FixHourTimer is not done.                                             *)
SkipQueue ==
  /\ AtQueue /\ ~ draining
  /\ Current \in Timed
  /\ q' = q + 1
  /\ UNCHANGED <<link, stage, draining, c, exchange, queue, stash, network,
                 inserted, server, executed, faults>>

SendFront ==
  /\ AtQueue /\ draining
  /\ queue[Current] # <<>> /\ registered
  /\ BeginExchange(Current, Head(queue[Current]))
  /\ UNCHANGED <<link, control, queue, stash, network, inserted, server,
                 executed, faults>>

(* The queue is empty, or GPRS_Send returns false at once: not registered. *)
LeaveQueue ==
  /\ AtQueue /\ draining
  /\ queue[Current] = <<>> \/ ~ registered
  /\ draining' = FALSE
  /\ q' = q + 1
  /\ UNCHANGED <<link, stage, c, exchange, queue, stash, network, inserted,
                 server, executed, faults>>

(* GetGPRSInfoTask: reading the signal strength leaves data mode and may   *)
(* not get back, which counts as a lost connection.                        *)
InfoTask ==
  /\ stage = "queue" /\ q > Len(QueueOrder)
  /\ stage' = "connect"
  /\ \/ UNCHANGED <<connected, faults>>
     \/ connected /\ connected' = FALSE /\ Fault
  /\ UNCHANGED <<registered, serial, q, draining, c, exchange, queue, stash,
                 network, inserted, server, executed>>

------------------------------------------------------------------------------
(* Everyone else *)

(* InsertChargeData and its siblings wait for the queue's mutex.           *)
Insert(k) ==
  /\ inserted[k] < MaxRecords
  /\ ~ (draining /\ k = Current)
  /\ inserted' = [inserted EXCEPT ![k] = @ + 1]
  /\ queue' = [queue EXCEPT ![k] = Append(@, inserted[k] + 1)]
  /\ UNCHANGED <<link, control, exchange, stash, network, server, executed,
                 faults>>

ServerReceives(d) ==
  /\ d \in up
  /\ Take(up, d)
  /\ received' = received \union {<<d.packet.fun, d.packet.n>>}
  /\ down' = down \union {d}
  /\ UNCHANGED <<link, control, exchange, queue, stash, inserted, commanded,
                 executed>>

ServerCommands(f) ==
  /\ commanded < MaxCommands
  /\ commanded' = commanded + 1
  /\ down' = down \union
       {[packet |-> [fun |-> f, n |-> commanded + 1, serial |-> 0], age |-> 0]}
  /\ UNCHANGED <<link, control, exchange, queue, stash, up, inserted,
                 received, executed, faults>>

Lose ==
  /\ \/ \E d \in up : up' = up \ {d} /\ UNCHANGED down
     \/ \E d \in down : down' = down \ {d} /\ UNCHANGED up
  /\ Fault
  /\ UNCHANGED <<link, control, exchange, queue, stash, inserted, server,
                 executed>>

(* A restart keeps the queues' files and nothing else.                     *)
Restart ==
  /\ Fault
  /\ connected' = FALSE /\ registered' = FALSE /\ serial' = 0
  /\ stage' = "connect" /\ q' = 1 /\ draining' = FALSE /\ c' = 1
  /\ phase' = "none" /\ tx' = NoPacket /\ attempt' = 0 /\ reads' = 0
  /\ stash' = [f \in Commands |-> 0]
  /\ up' = {} /\ down' = {}
  /\ received' = received \ {<<"register", 0>>}
  /\ UNCHANGED <<queue, inserted, commanded, executed>>

Exchange ==
  \/ SendPacket \/ SendFails \/ ReadTimesOut
  \/ \E d \in down : ReadUnwanted(d) \/ ReadAnswer(d)
  \/ ExchangeFails

RunStep ==
  \/ Connect \/ Register \/ SkipRegister \/ HeartBeat \/ SkipHeartBeat
  \/ \E d \in down : Receive(d)
  \/ ReceiveNothing \/ Execute \/ Reply \/ ExecuteDone
  \/ EnterQueue \/ SkipQueue \/ SendFront \/ LeaveQueue \/ InfoTask

Next ==
  \/ Exchange
  \/ RunStep
  \/ \E k \in Kinds : Insert(k)
  \/ \E d \in up : ServerReceives(d)
  \/ \E f \in Commands : ServerCommands(f)
  \/ Lose
  \/ Restart

(* The thread never stops, m_FixHourTimer is done again and again, and     *)
(* the server answers what reaches it.                                     *)
Fairness ==
  /\ WF_vars(Exchange \/ RunStep)
  /\ WF_vars(\E d \in up : ServerReceives(d))
  /\ \A k \in Timed : SF_vars(EnterQueue /\ Current = k)

Spec == Init /\ [][Next]_vars /\ Fairness

------------------------------------------------------------------------------
(* Properties *)

(* The variables stay in their types; the serial index stays in its range, *)
(* which GPRS_Send resets at MAX_SERIAL_INDEX.                             *)
TypeOK ==
  /\ connected \in BOOLEAN /\ registered \in BOOLEAN
  /\ serial \in 0 .. MaxSerial
  /\ stage \in {"connect", "register", "beat", "receive", "execute", "reply",
                "queue"}
  /\ q \in 1 .. Len(QueueOrder) + 1
  /\ draining \in BOOLEAN
  /\ phase \in {"none", "send", "receive"}
  /\ tx \in Packets \union {NoPacket}
  /\ attempt \in 0 .. Retries
  /\ reads \in 0 .. Retries
  /\ queue \in [Kinds -> Seq(1 .. MaxRecords)]
  /\ stash \in [Commands -> 0 .. MaxCommands]
  /\ c \in 1 .. Len(FunList) + 2
  /\ up \subseteq Aged(Packets)
  /\ down \subseteq Aged(Packets \union CommandPackets)
  /\ inserted \in [Kinds -> 0 .. MaxRecords]
  /\ received \subseteq Funs \X (0 .. MaxRecords)
  /\ commanded \in 0 .. MaxCommands
  /\ executed \in [1 .. MaxCommands -> Nat]
  /\ faults \in 0 .. MaxFaults

(* No record is ever lost: it waits in its queue until the server has it,  *)
(* whatever datagrams arrive late or twice and whenever a restart comes.   *)
NothingLost ==
  \A k \in Kinds : \A n \in 1 .. inserted[k] :
    \/ <<k, n>> \in received
    \/ \E i \in DOMAIN queue[k] : queue[k][i] = n

(* The server first gets the records of a queue in the order in which they *)
(* were inserted.                                                          *)
DeliveredInOrder ==
  \A k \in Kinds : \A n \in 2 .. MaxRecords :
    <<k, n>> \in received => <<k, n - 1>> \in received

(* Of each queue, the records that the server has, and how many have left. *)
Got == [k \in Kinds |-> {n \in 1 .. MaxRecords : <<k, n>> \in received}]
Freed == [k \in Kinds |-> inserted[k] - Len(queue[k])]

Line == INSTANCE Uplink WITH
          Queues <- Kinds, offered <- inserted, got <- Got, freed <- Freed

(* Each queue with the server is a reliable line: whatever the network     *)
(* repeats and wherever a restart comes, the server gets the records one   *)
(* after the other, and only what it has leaves the queue.                 *)
ImplementsUplink == Line!Spec

(* m_IsRegistered says that the server has got a registration since the    *)
(* connection was last set up: a late answer to an earlier one never       *)
(* stands in for it.                                                       *)
RegisteredAtServer == registered => <<"register", 0>> \in received

(* A command reaches the valves a second time only after a fault: a reply  *)
(* that could not be sent, or a datagram that came twice.                  *)
RepeatsNeedFaults == \A n \in 1 .. MaxCommands : executed[n] <= 1 + faults

(* A command in the map leaves it by being executed, or by a restart.      *)
StashedIsExecuted ==
  [][\/ Restart
     \/ \A f \in Commands :
          stash[f] # 0 /\ stash'[f] # stash[f] => executed[stash[f]] > 0]_vars

(* Once the faults end every queue is emptied again and again; with        *)
(* NothingLost, every record then reaches the server.                      *)
EventuallyDequeued ==
  \A k \in Kinds : []<>(queue[k] = <<>>)

(* The case for FUNCTION_CODE_VALVE_SET_HEAT_TIME_DOWN in GPRS_Receive     *)
(* says that such a command is executed once it is in the map and a        *)
(* further datagram makes GPRS_Receive go through the map.                 *)
HeatTimeIsExecuted ==
  [][stage = "execute" /\ stage' = "queue" /\ stash["heattime"] # 0 =>
       executed[stash["heattime"]] > 0]_vars
==============================================================================
