------------------------------- MODULE CBuffer -------------------------------
(***************************************************************************)
(* cbuffer.c: the circular buffer between the threads that want a packet   *)
(* sent and the thread that owns the serial line.  cbuffer_write hands out *)
(* the next free cell, the caller fills it in place and cbuffer_write_done *)
(* publishes it; cbuffer_read hands out the oldest cell, the owner sends   *)
(* it in place and cbuffer_read_done gives it back.                        *)
(*                                                                         *)
(* Most producers hold the buffer's mutex from cbuffer_write to            *)
(* cbuffer_write_done (txlock, htxlock).  Some do not: the owner of the    *)
(* line in ParseBroadcast (tx, CValveMonitor.cpp:619) and in Run (htx,     *)
(* :231), and nobody who writes to cmdbuf (CCardHost.cpp:334, :405, :474). *)
(* `met' says that two producers were in the buffer at once.               *)
(*                                                                         *)
(* The owner has two buffers to send from, htx and tx; this is one of      *)
(* them, and of the other it is enough to know whether it holds a packet.  *)
(* A write to the line may be short, and the rest of a packet is taken     *)
(* from the buffer that is first by then (Run, CValveMonitor.cpp:438).     *)
(*                                                                         *)
(* The two counters are 32-bit and wrap; Wrap stands for 2^32.             *)
(***************************************************************************)
EXTENDS Naturals, Sequences

CONSTANTS
  Size,        (* mask + 1: number of cells                              *)
  Wrap,        (* modulus of the counters                                *)
  Packets,     (* contents a cell can have once it is filled             *)
  Producers,   (* threads that write to the buffer                       *)
  Owner,       (* the one that owns the line and sends from the buffer   *)
  Unlocked,    (* those that also write without the mutex                *)
  Blank,       (* a cell that is empty, partly written, or a mixture     *)
  Foreign      (* a first part that came from the other buffer           *)

ASSUME SizeAssumption == Size \in Nat \ {0}

(* 2 << (bitsize - 1) cells: a proper divisor of the counters' modulus.    *)
ASSUME WrapAssumption == Wrap \in Nat /\ Wrap > Size /\ Wrap % Size = 0

ASSUME NamesAssumption ==
  Blank \notin Packets /\ Foreign \notin Packets /\ Blank # Foreign

ASSUME ThreadsAssumption == Owner \in Producers /\ Unlocked \subseteq Producers

VARIABLES
  w, r,        (* write and read counters, the fields of struct _cbuffer *)
  cells,       (* the memory behind "start"                              *)
  lock,        (* producers that hold the buffer's mutex                 *)
  pc,          (* what each producer is doing                            *)
  slot,        (* the cell cbuffer_write gave each producer              *)
  packet,      (* the packet each producer brings                        *)
  seen,        (* the w that each producer's w ++ has read               *)
  urgent,      (* this is htx, which goes before tx                      *)
  other,       (* the other buffer holds a packet                        *)
  line,        (* EPOLLOUT is armed, or rc # wc: an answer is awaited    *)
  wrote,       (* whose first part is on the line, the rest not yet      *)
  head,        (* that first part                                        *)
  out,         (* last packet taken from this buffer: first, second part *)
  met          (* history: two producers were in the buffer at once      *)

memory == <<w, r, cells>>
producerVars == <<lock, pc, slot, packet, seen, met>>
lineVars == <<other, line, wrote, head, out>>
vars == <<memory, producerVars, urgent, lineVars>>

(* cbuffer_count: unsigned subtraction of the counters.                    *)
Count == (w + Wrap - r) % Wrap

(* counter & mask                                                          *)
Cell(counter) == counter % Size

(* The value w ++ and r ++ store in an unsigned int.                       *)
Inc_NoWrap(counter) == counter + 1
Inc(counter) == (counter + 1) % Wrap

(* cbuffer_write returns NULL.                                             *)
Full_OffByOne == Count = Size + 1
Full == Count = Size

(* cbuffer_read returns NULL.                                              *)
Empty == r = w

Init ==
  /\ w = 0
  /\ r = 0
  /\ cells = [c \in 0 .. Size - 1 |-> Blank]
  /\ lock = {}
  /\ pc = [p \in Producers |-> "idle"]
  /\ slot = [p \in Producers |-> 0]
  /\ packet = [p \in Producers |-> Blank]
  /\ seen = [p \in Producers |-> 0]
  /\ urgent \in BOOLEAN
  /\ other = FALSE
  /\ line = "free"
  /\ wrote = "nothing"
  /\ head = Blank
  /\ out = <<Blank, Blank>>
  /\ met = FALSE

------------------------------------------------------------------------------
(* Producers *)

(* Between cbuffer_write and the end of cbuffer_write_done.                *)
Working(p) == pc[p] \in {"writing", "filled", "loaded"}

Goes(p, to) == pc' = [pc EXCEPT ![p] = to]

Lock_Skipped(p) ==
  /\ pc[p] = "idle"
  /\ lock' = lock \union {p}
  /\ Goes(p, "locked")
  /\ UNCHANGED <<memory, slot, packet, seen, met, urgent, lineVars>>

Lock(p) ==
  /\ pc[p] = "idle"
  /\ lock = {}
  /\ lock' = {p}
  /\ Goes(p, "locked")
  /\ UNCHANGED <<memory, slot, packet, seen, met, urgent, lineVars>>

(* buf == NULL: the packet is dropped and the mutex released, but for htx, *)
(* whose mutex then stays locked (CardRecharge and Threads have that).     *)
WriteFull(p) ==
  /\ pc[p] = "locked"
  /\ Full
  /\ lock' = lock \ {p}
  /\ Goes(p, "idle")
  /\ UNCHANGED <<memory, slot, packet, seen, met, urgent, lineVars>>

(* cbuffer_write, with the mutex or without, and the first bytes of the    *)
(* packet.                                                                 *)
WriteSlot(p, x) ==
  /\ pc[p] = "locked" \/ (pc[p] = "idle" /\ p \in Unlocked)
  /\ ~ Full
  /\ slot' = [slot EXCEPT ![p] = Cell(w)]
  /\ packet' = [packet EXCEPT ![p] = x]
  /\ cells' = [cells EXCEPT ![Cell(w)] = Blank]
  /\ met' = (met \/ \E q \in Producers \ {p} : Working(q))
  /\ Goes(p, "writing")
  /\ UNCHANGED <<w, r, lock, seen, urgent, lineVars>>

(* The rest of the packet.  Two producers in one cell leave the packet of  *)
(* either, or a mixture.                                                   *)
Fill(p) ==
  /\ pc[p] = "writing"
  /\ \E x \in {packet[p]} \union
              {Blank : q \in {q \in Producers \ {p} : Working(q) /\ slot[q] = slot[p]}} :
       cells' = [cells EXCEPT ![slot[p]] = x]
  /\ Goes(p, "filled")
  /\ UNCHANGED <<w, r, lock, slot, packet, seen, met, urgent, lineVars>>

(* cbuffer_write_done is w ++, a load ...                                  *)
Load_BeforeFill(p) ==
  /\ pc[p] \in {"writing", "filled"}
  /\ seen' = [seen EXCEPT ![p] = w]
  /\ Goes(p, "loaded")
  /\ UNCHANGED <<memory, lock, slot, packet, met, urgent, lineVars>>

Load(p) ==
  /\ pc[p] = "filled"
  /\ seen' = [seen EXCEPT ![p] = w]
  /\ Goes(p, "loaded")
  /\ UNCHANGED <<memory, lock, slot, packet, met, urgent, lineVars>>

(* ... and a store; then UnLock.                                           *)
WriteDone(p) ==
  /\ pc[p] = "loaded"
  /\ w' = Inc(seen[p])
  /\ lock' = lock \ {p}
  /\ Goes(p, "idle")
  /\ slot' = [slot EXCEPT ![p] = 0]
  /\ packet' = [packet EXCEPT ![p] = Blank]
  /\ seen' = [seen EXCEPT ![p] = 0]
  /\ UNCHANGED <<r, cells, met, urgent, lineVars>>

Produce(p) ==
  \/ Lock(p)
  \/ WriteFull(p)
  \/ \E x \in Packets : WriteSlot(p, x)
  \/ Fill(p)
  \/ Load(p)
  \/ WriteDone(p)

------------------------------------------------------------------------------
(* The owner of the line: the packet is written from inside its cell, and  *)
(* other threads run between its first part and its last.  The owner       *)
(* sends, or writes a packet of its own, one after the other.              *)

Sends == pc[Owner] = "idle"

(* Which buffer a write takes its bytes from.                              *)
FromThis == ~ Empty /\ (urgent \/ ~ other)
FromOther == other /\ (~ urgent \/ Empty)

(* There is a packet, and rc == wc.                                        *)
Arm ==
  /\ Sends /\ line = "free"
  /\ ~ Empty \/ other
  /\ line' = "armed"
  /\ UNCHANGED <<memory, producerVars, urgent, other, wrote, head, out>>

(* A short write: the first part of a packet of this buffer, or of the     *)
(* other.                                                                  *)
BeginSend ==
  /\ Sends /\ line = "armed" /\ wrote = "nothing"
  /\ FromThis
  /\ wrote' = "this"
  /\ head' = cells[Cell(r)]
  /\ UNCHANGED <<memory, producerVars, urgent, other, line, out>>

BeginOther ==
  /\ Sends /\ line = "armed" /\ wrote = "nothing"
  /\ FromOther
  /\ wrote' = "other"
  /\ head' = Foreign
  /\ UNCHANGED <<memory, producerVars, urgent, other, line, out>>

(* The rest of a packet of this buffer, whosever its first part was, then  *)
(* cbuffer_read_done.                                                      *)
EndSend ==
  /\ Sends /\ wrote # "nothing"
  /\ FromThis
  /\ wrote' = "nothing"
  /\ line' = "awaiting"
  /\ out' = <<head, cells[Cell(r)]>>
  /\ r' = Inc(r)
  /\ head' = Blank
  /\ UNCHANGED <<w, cells, producerVars, urgent, other>>

(* The rest of a packet of the other buffer, which may hold more.  A       *)
(* packet of this one whose first part was sent stays where it is.         *)
EndOther ==
  /\ Sends /\ wrote # "nothing"
  /\ FromOther
  /\ wrote' = "nothing"
  /\ line' = "awaiting"
  /\ other' \in BOOLEAN
  /\ head' = Blank
  /\ UNCHANGED <<memory, producerVars, urgent, out>>

(* The answer is there, or epoll_wait has timed out often enough.          *)
Answered ==
  /\ Sends /\ line = "awaiting"
  /\ line' = "free"
  /\ UNCHANGED <<memory, producerVars, urgent, other, wrote, head, out>>

(* A packet for the other buffer.                                          *)
OtherWritten ==
  /\ ~ other
  /\ other' = TRUE
  /\ UNCHANGED <<memory, producerVars, urgent, line, wrote, head, out>>

Consume ==
  Arm \/ BeginSend \/ BeginOther \/ EndSend \/ EndOther \/ Answered \/ OtherWritten

Next == Consume \/ \E p \in Producers : Produce(p)

Spec == Init /\ [][Next]_vars

------------------------------------------------------------------------------
(* Properties *)

(* The counters stay below Wrap, and cells and threads hold what they may.  *)
TypeOK ==
  /\ w \in 0 .. Wrap - 1
  /\ r \in 0 .. Wrap - 1
  /\ cells \in [0 .. Size - 1 -> Packets \union {Blank}]
  /\ lock \subseteq Producers
  /\ pc \in [Producers -> {"idle", "locked", "writing", "filled", "loaded"}]
  /\ slot \in [Producers -> 0 .. Size - 1]
  /\ packet \in [Producers -> Packets \union {Blank}]
  /\ seen \in [Producers -> 0 .. Wrap - 1]
  /\ {urgent, other, met} \subseteq BOOLEAN
  /\ line \in {"free", "armed", "awaiting"}
  /\ wrote \in {"nothing", "this", "other"}
  /\ head \in Packets \union {Blank, Foreign}
  /\ out \in (Packets \union {Blank, Foreign}) \X (Packets \union {Blank})

(* Two producers are in the buffer at once only where one of them does not *)
(* take the mutex (CValveMonitor.cpp:231, :619, CCardHost.cpp:405); and as *)
(* long as that has not happened no producer touches the cell the owner is *)
(* sending from, although the owner takes no lock.                         *)
NoCellShared ==
  \A p \in Producers : Working(p) =>
    /\ \A q \in Producers \ {p} :
         Working(q) => met /\ \E x \in {p, q} : x \in Unlocked \ lock
    /\ wrote = "this" /\ ~ met => slot[p] # Cell(r)

(* Until two producers meet, what a buffer gives to the line is a packet,  *)
(* never a cell that was being filled, and its first part is of the same   *)
(* packet; only htx may end what tx began (CValveMonitor.cpp:438-444).     *)
WholePacketsOnly ==
  out = <<Blank, Blank>> \/ met \/
    /\ out[2] \in Packets
    /\ out[1] = out[2] \/ (out[1] = Foreign /\ urgent)

(* Why these hold: the inductive invariant, part by part.  The mutex has   *)
(* one holder, and who works without it may.  Before two producers meet,   *)
(* one works at a time; the cell being filled is the first one behind the  *)
(* published ones; published cells hold packets; and the cell being sent   *)
(* is the oldest published one, unchanged since it was opened.             *)
MutexInv ==
  /\ \A p, q \in lock : p = q
  /\ \A p \in Producers :
       /\ pc[p] = "locked" => p \in lock
       /\ pc[p] = "idle" => p \notin lock
       /\ pc[p] # "idle" => p \in lock \union Unlocked

AloneInv == \A p, q \in Producers : Working(p) /\ Working(q) => p = q

ProducerInv ==
  \A p \in Producers :
    /\ Working(p) => slot[p] = Cell(w) /\ Count < Size /\ packet[p] \in Packets
    /\ pc[p] \in {"filled", "loaded"} => cells[slot[p]] = packet[p]
    /\ pc[p] = "loaded" => seen[p] = w

PublishedInv ==
  /\ Count <= Size
  /\ \A i \in 0 .. Count - 1 : cells[Cell((r + i) % Wrap)] \in Packets

SendingInv ==
  /\ wrote = "this" => Count > 0 /\ head = cells[Cell(r)]
  /\ wrote = "other" => head = Foreign /\ (urgent \/ other)

DisciplineInv == AloneInv /\ ProducerInv /\ PublishedInv /\ SendingInv

CBufferInv ==
  /\ TypeOK /\ MutexInv
  /\ ~ met => DisciplineInv
  /\ WholePacketsOnly

(* The published packets, oldest first.                                    *)
Contents == [i \in 1 .. Count |-> cells[Cell((r + i - 1) % Wrap)]]

Fifo == INSTANCE BoundedFifo WITH
          Capacity <- Size, queue <- Contents, out <- out[2], broken <- met

(* The buffer is a bounded first-in first-out queue, across any number of  *)
(* wrap-arounds of the counters and whatever the other buffer does, until  *)
(* two producers meet in it.                                               *)
ImplementsFifo == Fifo!Spec
==============================================================================
