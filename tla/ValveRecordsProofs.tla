------------------------- MODULE ValveRecordsProofs --------------------------
(***************************************************************************)
(* What ValveRecords promises for any valves, any sizes of their memories, *)
(* of a packet and of the pointer, and any number of records and faults:   *)
(* a load of the log finds the last save, and as long as no answer of a    *)
(* valve was mistaken for another and none of its records overwritten or   *)
(* skipped, the portal has all that the pointer of the valve has passed.   *)
(***************************************************************************)
EXTENDS ValveRecords, SequenceTheorems, WellFoundedInduction, TLAPS

------------------------------------------------------------------------------
(* The inductive invariant                                                 *)

PointerValues == 0 .. Cells - 1 \union Overrun .. Overrun + Cells - 1

Record == [last : PointerValues, sent : 0 .. Cells - 1, at : Nat]

ReportedPointers == {p + 1 : p \in PointerValues}

Requests == [from : Users, kind : {"pointers", "records"}, off : Nat, n : Nat]

Packet ==
  [req : Requests,
   whole : BOOLEAN, pointer : ReportedPointers, numbers : SUBSET Nat]

(* The log, and its save while one is under way.                           *)
LogTypes ==
  /\ step \in Steps /\ (phase # "save" => step = "closed")
  /\ idx \in Seq([of : Keys, data : Record])
  /\ unput \subseteq Keys /\ unput \subseteq DOMAIN saved
  /\ step = "index" => unput # {}
  /\ step # "closed" => saved = records

LineTypes ==
  /\ line \in Seq(Packet)
  /\ \A k \in 1 .. Len(line) : line[k].req.kind = "pointers" => line[k].numbers = {}

FetchTypes ==
  /\ phase \in {"idle", "save", "next", "ask", "wait", "spin"}
  /\ todo \subseteq Users /\ asked \subseteq Users
  /\ delta \in Int /\ i \in Nat
  /\ phase \in {"ask", "wait"} => todo # {} /\ Current \in DOMAIN records
  /\ phase = "wait" => req.from = Current /\ req.n \in 1 .. Payload

Types ==
  /\ LogTypes /\ LineTypes /\ FetchTypes
  /\ DOMAIN records \subseteq Keys
  /\ records \in [DOMAIN records -> Record]
  /\ written \in [Users -> Nat] /\ got \in [Users -> SUBSET Nat]

(* The log holds one entry of each key that the save has put, its own.     *)
LogInv ==
  ~ failed =>
    /\ \A a, b \in 1 .. Len(idx) : idx[a].of = idx[b].of => a = b
    /\ {idx[a].of : a \in 1 .. Len(idx)} = DOMAIN saved \ unput
    /\ \A a \in 1 .. Len(idx) : idx[a].data = saved[idx[a].of]

(* The records of v that the portal has or will have.                      *)
Handed(v) == got[v] \union OnLine(v)

(* A record, in memory or in the log, of a valve that reported b records   *)
(* the last time: its fields are those of two record numbers, and what is  *)
(* up to the first was handed over.                                        *)
Fits(rec, b, handed) ==
  /\ rec.sent = rec.at % Cells
  /\ \E m \in rec.at .. b : rec.last % Overrun = m % Cells
  /\ 1 .. rec.at \subseteq handed

(* A packet on the line from such a valve.  While it is there nothing is   *)
(* reported, so the pointer cannot go round the ring and meet it again.    *)
Brings(packet, b) ==
  IF packet.req.kind = "pointers"
    THEN (packet.pointer - 1) % Overrun = b % Cells
    ELSE \E a \in 0 .. b :
           /\ b < a + Cells /\ packet.req.off = (a % Cells) + 1
           /\ a + 1 .. a + packet.req.n \subseteq packet.numbers

(* The fetch of v: one packet, whose records end with a reported number.   *)
Fetching(v, b) ==
  phase \in {"ask", "wait"} /\ Current = v =>
    /\ delta \in 1 .. Payload
    /\ i = 0 => /\ records[v].at + delta <= b
                /\ records[v].last % Overrun = (records[v].at + delta) % Cells
    /\ phase = "wait" =>
         /\ i = 0
         /\ req = [from |-> v, kind |-> "records", off |-> records[v].sent + 1, n |-> delta]

Knows(v, b) ==
  /\ Fits(Of(records, v), b, Handed(v))
  /\ \A a \in 1 .. Len(idx) : idx[a].of = v => Fits(idx[a].data, b, Handed(v))
  /\ \A k \in 1 .. Len(line) :
       line[k].whole /\ line[k].req.from = v => Brings(line[k], b)
  /\ written[v] < Of(records, v).at + Cells
  /\ Fetching(v, b)

FetchInv == \A v \in Users : Regular(v) => \E b \in 0 .. written[v] : Knows(v, b)

RecordsInv == Types /\ LogInv /\ FetchInv

------------------------------------------------------------------------------
(* Numbers and their cells                                                 *)

LEMMA NoMultiple ==
  ASSUME NEW m \in Nat \ {0}, NEW k \in Int, -m < m * k, m * k < m
  PROVE  k = 0
<1>1. CASE k >= 1
  <2>1. m * k >= m
    BY <1>1
  <2>2. QED
    BY <2>1
<1>2. CASE k <= -1
  <2>1. m * k <= -m
    BY <1>2
  <2>2. QED
    BY <2>1
<1>3. QED
  BY <1>1, <1>2

LEMMA Division ==
  ASSUME NEW m \in Nat \ {0}, NEW x \in Nat
  PROVE  \E q \in Nat, r \in 0 .. m - 1 : x % m = r /\ x = m * q + r
<1>1. x = m * (x \div m) + (x % m) /\ x \div m \in Nat /\ x % m \in 0 .. m - 1
  OBVIOUS
<1>2. QED
  BY <1>1

(* The remainder is the only one.                                          *)
LEMMA Remainder ==
  ASSUME NEW m \in Nat \ {0}, NEW x \in Nat, NEW q \in Int, NEW r \in 0 .. m - 1,
         x = m * q + r
  PROVE  x % m = r
<1>1. PICK p \in Nat, s \in 0 .. m - 1 : x % m = s /\ x = m * p + s
  BY Division
<1>2. m * (p - q) = r - s
  BY <1>1
<1>3. p - q = 0
  <2>1. p - q \in Int /\ -m < m * (p - q) /\ m * (p - q) < m
    BY <1>2
  <2>2. QED
    BY <2>1, NoMultiple
<1>4. QED
  BY <1>1, <1>2, <1>3

(* Numbers less than a ring apart are in different cells.                  *)
LEMMA SameCell ==
  ASSUME NEW m \in Nat \ {0}, NEW a \in Nat, NEW b \in Nat,
         a % m = b % m, a < b + m, b < a + m
  PROVE  a = b
<1>1. PICK p \in Nat, r \in 0 .. m - 1 : a % m = r /\ a = m * p + r
  BY Division
<1>2. PICK q \in Nat, s \in 0 .. m - 1 : b % m = s /\ b = m * q + s
  BY Division
<1>3. m * (p - q) = a - b
  BY <1>1, <1>2
<1>4. p - q = 0
  <2>1. p - q \in Int /\ -m < m * (p - q) /\ m * (p - q) < m
    BY <1>3
  <2>2. QED
    BY <2>1, NoMultiple
<1>5. QED
  BY <1>3, <1>4

(* Moving in the ring.                                                     *)
LEMMA MovedCell ==
  ASSUME NEW m \in Nat \ {0}, NEW a \in Nat, NEW n \in Nat
  PROVE  ((a % m) + n) % m = (a + n) % m
<1>1. PICK p \in Nat, r \in 0 .. m - 1 : a % m = r /\ a = m * p + r
  BY Division
<1>2. PICK q \in Nat, s \in 0 .. m - 1 : (r + n) % m = s /\ r + n = m * q + s
  <2>1. r + n \in Nat
    OBVIOUS
  <2>2. QED
    BY <2>1, Division
<1>3. a + n = m * (p + q) + s
  BY <1>1, <1>2
<1>4. (a + n) % m = s
  <2>1. a + n \in Nat /\ p + q \in Int
    OBVIOUS
  <2>2. QED
    BY <1>3, <2>1, Remainder
<1>5. QED
  BY <1>1, <1>2, <1>4

LEMMA WholeRings ==
  ASSUME NEW m \in Nat \ {0}, NEW a \in Nat
  PROVE  /\ a - (a % m) \in Nat /\ (a - (a % m)) % m = 0
         /\ a % m \in 0 .. m - 1
<1>1. PICK p \in Nat, r \in 0 .. m - 1 : a % m = r /\ a = m * p + r
  BY Division
<1>2. a - r = m * p + 0 /\ m * p \in Nat
  BY <1>1
<1>3. (a - r) % m = 0
  <2>1. a - r \in Nat /\ p \in Int /\ 0 \in 0 .. m - 1
    BY <1>2
  <2>2. QED
    BY <1>2, <2>1, Remainder
<1>4. QED
  BY <1>1, <1>2, <1>3

(* The noon loop's delta is the number of records between the pointers.    *)
LEMMA DeltaIsDistance ==
  ASSUME NEW m \in Nat \ {0}, NEW a \in Nat, NEW b \in Nat, a <= b, b < a + m
  PROVE  (b % m) - (a % m) + (IF b % m < a % m THEN m ELSE 0) = b - a
<1>1. PICK p \in Nat, r \in 0 .. m - 1 : a % m = r /\ a = m * p + r
  BY Division
<1>2. PICK q \in Nat, s \in 0 .. m - 1 : b % m = s /\ b = m * q + s
  BY Division
<1>3. CASE s < r
  <2>1. m * (q - p - 1) = (b - a) - (s - r + m)
    BY <1>1, <1>2
  <2>2. q - p - 1 = 0
    <3>1. /\ q - p - 1 \in Int
          /\ -m < m * (q - p - 1) /\ m * (q - p - 1) < m
      BY <1>3, <2>1
    <3>2. QED
      BY <3>1, NoMultiple
  <2>3. QED
    BY <1>1, <1>2, <1>3, <2>1, <2>2
<1>4. CASE ~ s < r
  <2>1. m * (q - p) = (b - a) - (s - r)
    BY <1>1, <1>2
  <2>2. q - p = 0
    <3>1. q - p \in Int /\ -m < m * (q - p) /\ m * (q - p) < m
      BY <1>4, <2>1
    <3>2. QED
      BY <3>1, NoMultiple
  <2>3. QED
    BY <1>1, <1>2, <1>4, <2>1, <2>2
<1>5. QED
  BY <1>3, <1>4

(* The cells from the pointer on hold the records from the pointer on, as  *)
(* long as less than a ring of them is left.                               *)
LEMMA StoredFromPointer ==
  ASSUME NEW v \in Users, written[v] \in Nat, NEW a \in Nat, NEW n \in Nat,
         a + n <= written[v], written[v] < a + Cells
  PROVE  a + 1 .. a + n \subseteq Stored(v, (a % Cells) + 1, n)
<1>1. SUFFICES ASSUME NEW x \in a + 1 .. a + n
               PROVE  x \in Stored(v, (a % Cells) + 1, n)
  OBVIOUS
<1>2. /\ a - (a % Cells) \in Nat /\ (a - (a % Cells)) % Cells = 0
      /\ a % Cells \in 0 .. Cells - 1
  BY WholeRings, SizesAssumption
<1>3. PICK c \in Int : c = (a % Cells) + (x - a)
  BY <1>2
<1>4. c \in (a % Cells) + 1 .. (a % Cells) + 1 + n - 1
  BY <1>2, <1>3
<1>5. x - c = a - (a % Cells)
  BY <1>2, <1>3
<1>6. x \in 1 .. written[v] /\ x > written[v] - Cells
  BY SizesAssumption
<1>7. x \in InCell(v, c)
  BY <1>2, <1>5, <1>6 DEF InCell
<1>8. QED
  BY <1>4, <1>7 DEF Stored

------------------------------------------------------------------------------
(* The log                                                                 *)

LEMMA SmallestIsThere ==
  ASSUME NEW S, S \subseteq Nat, S # {}
  PROVE  Smallest(S) \in S /\ \A l \in S : Smallest(S) <= l
<1>1. PICK x \in S : \A y \in S : ~ (<<y, x>> \in OpToRel(<, Nat))
  BY NatLessThanWellFounded, WFMin
<1>2. ASSUME NEW y \in S PROVE x <= y
  <2>1. ~ (y < x)
    BY <1>1 DEF OpToRel
  <2>2. QED
    BY <2>1
<1>3. QED
  BY <1>1, <1>2 DEF Smallest

LEMMA SmallestKey ==
  ASSUME NEW S, S \subseteq Keys, S # {}
  PROVE  Smallest(S) \in S
BY SmallestIsThere, KeysAssumption

(* What a load finds of a key is an entry of it.                           *)
LEMMA LoadedIsEntry ==
  ASSUME Len(idx) \in Nat
  PROVE  /\ DOMAIN Loaded = {idx[a].of : a \in 1 .. Len(idx)}
         /\ \A k \in DOMAIN Loaded :
              \E a \in 1 .. Len(idx) : idx[a].of = k /\ Loaded[k] = idx[a].data
<1> DEFINE oldest(k) == CHOOSE a \in 1 .. Len(idx) :
                          /\ idx[a].of = k
                          /\ \A b \in 1 .. Len(idx) : idx[b].of = k => a <= b
<1>1. Loaded = [k \in {idx[a].of : a \in 1 .. Len(idx)} |-> idx[oldest(k)].data]
  BY DEF Loaded
<1>2. ASSUME NEW k \in {idx[a].of : a \in 1 .. Len(idx)}
      PROVE  oldest(k) \in 1 .. Len(idx) /\ idx[oldest(k)].of = k
  <2> DEFINE S == {a \in 1 .. Len(idx) : idx[a].of = k}
  <2>1. S \subseteq Nat /\ S # {}
    BY <1>2
  <2>2. Smallest(S) \in S /\ \A l \in S : Smallest(S) <= l
    BY <2>1, SmallestIsThere
  <2>3. QED
    BY <2>2
<1> HIDE DEF oldest
<1>3. QED
  BY <1>1, <1>2

------------------------------------------------------------------------------
(* Types                                                                   *)

LEMMA SizesAreNumbers ==
  /\ Cells \in Nat \ {0} /\ Payload \in Nat \ {0} /\ Overrun \in Nat \ {0}
  /\ 0 \in PointerValues /\ PointerValues \subseteq Nat
  /\ NoRecord \in Record
BY SizesAssumption DEF PointerValues, NoRecord, Record

LEMMA OfIsRecord ==
  ASSUME NEW map, map \in [DOMAIN map -> Record], NEW k
  PROVE  Of(map, k) \in Record
BY SizesAreNumbers DEF Of

LEMMA CurrentIsUser ==
  ASSUME Types, todo # {}
  PROVE  Current \in todo /\ Current \in Users /\ Current \in Keys
BY SmallestKey, RecordsAssumption DEF Types, FetchTypes, Current

LEMMA LogTypesKept ==
  ASSUME LogTypes, UNCHANGED logVars, step = "closed"
  PROVE  LogTypes'
BY DEF LogTypes, logVars, Steps

LEMMA LineTypesKept ==
  ASSUME LineTypes, UNCHANGED line
  PROVE  LineTypes'
BY DEF LineTypes

(* A packet more at the end, one less at the front.                        *)
LEMMA LineTypesAppend ==
  ASSUME LineTypes, NEW p \in Packet, p.req.kind = "pointers" => p.numbers = {},
         line' = Append(line, p)
  PROVE  LineTypes'
<1>1. /\ line' \in Seq(Packet) /\ Len(line') = Len(line) + 1 /\ Len(line) \in Nat
      /\ \A k \in 1 .. Len(line) : line'[k] = line[k]
      /\ line'[Len(line) + 1] = p
  BY AppendProperties, LenProperties DEF LineTypes
<1>2. ASSUME NEW k \in 1 .. Len(line'), line'[k].req.kind = "pointers"
      PROVE  line'[k].numbers = {}
  BY <1>1, <1>2 DEF LineTypes
<1>3. QED
  BY <1>1, <1>2 DEF LineTypes

LEMMA LineTypesTail ==
  ASSUME LineTypes, line # <<>>, line' = Tail(line)
  PROVE  LineTypes'
<1>1. /\ line' \in Seq(Packet) /\ Len(line') = Len(line) - 1 /\ Len(line) \in Nat
      /\ \A k \in 1 .. Len(line') : line'[k] = line[k + 1]
  BY HeadTailProperties, LenProperties DEF LineTypes
<1>2. ASSUME NEW k \in 1 .. Len(line'), line'[k].req.kind = "pointers"
      PROVE  line'[k].numbers = {}
  BY <1>1, <1>2 DEF LineTypes
<1>3. QED
  BY <1>1, <1>2 DEF LineTypes

LEMMA HeadIsPacket ==
  ASSUME LineTypes, line # <<>>
  PROVE  /\ 1 \in 1 .. Len(line) /\ Len(line) \in Nat
         /\ Head(line) = line[1] /\ line[1] \in Packet
         /\ line[1].req.kind = "pointers" => line[1].numbers = {}
<1>1. Len(line) \in Nat \ {0}
  BY EmptySeq, LenProperties DEF LineTypes
<1>2. line[1] \in Packet
  BY <1>1, ElementOfSeq DEF LineTypes
<1>3. QED
  BY <1>1, <1>2 DEF LineTypes

(* What parsing makes of a map of records, and of what was handed over.    *)
LEMMA ParseTypes ==
  ASSUME NEW map, map \in [DOMAIN map -> Record], DOMAIN map \subseteq Keys,
         NEW p \in Packet, ParseAck(map, p), got \in [Users -> SUBSET Nat]
  PROVE  /\ records' \in [DOMAIN records' -> Record] /\ DOMAIN records' \subseteq Keys
         /\ DOMAIN map \subseteq DOMAIN records'
         /\ got' \in [Users -> SUBSET Nat]
<1>1. p.req.from \in Users /\ p.req.from \in Keys /\ p.numbers \subseteq Nat
      /\ p.pointer - 1 \in PointerValues
  BY RecordsAssumption, SizesAreNumbers DEF Packet, Requests, ReportedPointers
<1>2. CASE p.whole /\ p.req.kind = "pointers"
  <2>1. records' = WithPointer(map, p.req.from, p.pointer) /\ got' = got
    BY <1>2 DEF ParseAck, ParsePunctualData
  <2>2. Of(map, p.req.from) \in Record
    BY OfIsRecord
  <2>3. [Of(map, p.req.from) EXCEPT !.last = p.pointer - 1] \in Record
    BY <1>1, <2>2 DEF Record
  <2>4. QED
    BY <1>1, <2>1, <2>3 DEF WithPointer
<1>3. CASE ~ (p.whole /\ p.req.kind = "pointers")
  <2>1. records' = map
    BY <1>3 DEF ParseAck
  <2>2. got' \in [Users -> SUBSET Nat]
    BY <1>1, <1>3 DEF ParseAck, ParseRechargeData
  <2>3. QED
    BY <2>1, <2>2
<1>4. QED
  BY <1>2, <1>3

LEMMA MovedTypes ==
  ASSUME Types, NEW v \in DOMAIN records, NEW n \in Nat
  PROVE  /\ Moved(v, n) \in [DOMAIN records -> Record]
         /\ DOMAIN Moved(v, n) = DOMAIN records
         /\ \A k \in DOMAIN records \ {v} : Moved(v, n)[k] = records[k]
         /\ Moved(v, n)[v] = [last |-> records[v].last,
                              sent |-> (records[v].sent + n) % Cells,
                              at |-> records[v].at + n]
<1>1. records[v] \in Record
  BY DEF Types
<1>2. (records[v].sent + n) % Cells \in 0 .. Cells - 1
  <2>1. records[v].sent + n \in Nat
    BY <1>1, SizesAreNumbers DEF Record
  <2>2. QED
    BY <2>1, SizesAreNumbers, WholeRings
<1>3. [last |-> records[v].last, sent |-> (records[v].sent + n) % Cells,
       at |-> records[v].at + n] \in Record
  BY <1>1, <1>2 DEF Record
<1>4. Moved(v, n)[v] = [last |-> records[v].last,
                        sent |-> (records[v].sent + n) % Cells,
                        at |-> records[v].at + n]
  BY <1>1 DEF Moved, Record, Types
<1>5. DOMAIN Moved(v, n) = DOMAIN records
  BY DEF Moved
<1>6. \A k \in DOMAIN records \ {v} : Moved(v, n)[k] = records[k]
  BY DEF Moved
<1>7. Moved(v, n) \in [DOMAIN records -> Record]
  <2>1. Moved(v, n) = [k \in DOMAIN records |-> Moved(v, n)[k]]
    BY DEF Moved
  <2>2. \A k \in DOMAIN records : Moved(v, n)[k] \in Record
    BY <1>3, <1>4, <1>6 DEF Types
  <2>3. QED
    BY <2>1, <2>2
<1>8. QED
  BY <1>4, <1>5, <1>6, <1>7

LEMMA InitTypes == Init => Types
<1>1. SUFFICES ASSUME Init PROVE Types
  OBVIOUS
<1>2. records \in [DOMAIN records -> Record] /\ DOMAIN records \subseteq Keys
  BY <1>1, SizesAreNumbers DEF Init
<1>3. LogTypes
  <2>1. idx = <<>> /\ step = "closed" /\ unput = {}
    BY <1>1 DEF Init, LogInit
  <2>2. idx \in Seq([of : Keys, data : Record])
    BY <2>1, EmptySeq
  <2>3. QED
    BY <2>1, <2>2 DEF LogTypes, Steps
<1>4. LineTypes
  <2>1. line = <<>> /\ Len(line) = 0
    BY <1>1, EmptySeq DEF Init
  <2>2. line \in Seq(Packet)
    BY <2>1, EmptySeq
  <2>3. QED
    BY <2>1, <2>2 DEF LineTypes
<1>5. FetchTypes
  BY <1>1 DEF Init, FetchTypes
<1>6. written \in [Users -> Nat] /\ got \in [Users -> SUBSET Nat]
  BY <1>1 DEF Init
<1>7. QED
  BY <1>2, <1>3, <1>4, <1>5, <1>6 DEF Types

(* The pointers a valve reports, and the packet that brings them.          *)
Report0(v, pointer) ==
  [req |-> [from |-> v, kind |-> "pointers", off |-> 0, n |-> 0],
   whole |-> TRUE, pointer |-> pointer, numbers |-> {}]

LEMMA PointersAre ==
  ASSUME Types, NEW v \in Users, NEW pointer \in Pointers(v)
  PROVE  /\ pointer - 1 \in PointerValues
         /\ (pointer - 1) % Overrun = written[v] % Cells
         /\ Report0(v, pointer) \in Packet
<1>1. written[v] \in Nat
  BY DEF Types
<1>2. PICK c \in 0 .. Cells - 1 : c = written[v] % Cells
  BY <1>1, SizesAreNumbers, WholeRings
<1>3. PICK full \in {0, Overrun} : pointer = 1 + c + full
  BY <1>2 DEF Pointers
<1>4. pointer - 1 = c + full /\ c + full \in PointerValues
  BY <1>3, SizesAreNumbers DEF PointerValues
<1>5. (c + full) % Overrun = c
  <2>1. /\ c + full \in Nat /\ c \in 0 .. Overrun - 1
        /\ c + full = Overrun * (IF full = 0 THEN 0 ELSE 1) + c
    BY <1>3, SizesAssumption, SizesAreNumbers
  <2>2. QED
    BY <2>1, SizesAreNumbers, Remainder
<1>6. pointer \in ReportedPointers
  <2>1. pointer = (pointer - 1) + 1
    BY <1>3, SizesAreNumbers
  <2>2. QED
    BY <1>4, <2>1 DEF ReportedPointers
<1>7. Report0(v, pointer) \in Packet
  BY <1>6 DEF Report0, Packet, Requests
<1>8. QED
  BY <1>2, <1>4, <1>5, <1>7

LEMMA RequestIs ==
  ASSUME Types, phase = "ask", i * Payload < delta
  PROVE  /\ Request.from = Current /\ Current \in Users /\ Request.kind = "records"
         /\ Request.off \in Nat /\ Request.n \in 1 .. Payload
         /\ Request = [from |-> Current, kind |-> "records",
                       off |-> Request.off, n |-> Request.n]
<1>1. todo # {} /\ Current \in DOMAIN records /\ delta \in Int /\ i \in Nat
  BY DEF Types, FetchTypes
<1>2. records[Current] \in Record
  BY <1>1 DEF Types
<1>3. i * Payload \in Nat
  BY <1>1, SizesAreNumbers
<1>4. records[Current].sent + i * Payload + 1 \in Nat
  BY <1>2, <1>3, SizesAreNumbers DEF Record
<1>5. Least(Payload, delta - i * Payload) \in 1 .. Payload
  BY <1>1, <1>3, SizesAreNumbers DEF Least
<1>6. QED
  BY <1>1, <1>4, <1>5, CurrentIsUser DEF Request

LEMMA AnswerIsPacket ==
  ASSUME Types, phase = "ask", i * Payload < delta, NEW whole \in BOOLEAN
  PROVE  Answer(whole) \in Packet
<1>1. Stored(Current, Request.off, Request.n) \subseteq Nat
  BY CurrentIsUser DEF Stored, InCell
<1>2. 1 \in ReportedPointers
  BY SizesAreNumbers DEF ReportedPointers
<1>3. Request \in Requests
  BY RequestIs, SizesAreNumbers DEF Requests
<1>4. QED
  BY <1>1, <1>2, <1>3 DEF Answer, Packet

------------------------------------------------------------------------------
(* The steps keep the types                                                *)

LEMMA RechargedTypes ==
  ASSUME Types, NEW v \in Users, Recharged(v)
  PROVE  Types'
<1>1. UNCHANGED <<logVars, phase, records, sync, fetch, asked, line, got>>
  BY DEF Recharged
<1>2. LogTypes'
  BY <1>1, LogTypesKept DEF Types, LogTypes, Recharged
<1>3. LineTypes'
  BY <1>1, LineTypesKept DEF Types
<1>4. FetchTypes'
  BY <1>1 DEF Types, FetchTypes, fetch, Current
<1>5. written' \in [Users -> Nat]
  BY DEF Recharged, Types
<1>6. QED
  BY <1>1, <1>2, <1>3, <1>4, <1>5 DEF Types

LEMMA ReportTypes ==
  ASSUME Types, NEW v \in Users, Report(v)
  PROVE  Types'
<1>1. UNCHANGED <<logVars, phase, records, sync, fetch, written, histories>>
  BY DEF Report
<1>2. LogTypes'
  BY <1>1, LogTypesKept DEF Types, LogTypes, Report
<1>3. LineTypes'
  <2>1. CASE UNCHANGED line
    BY <2>1, LineTypesKept DEF Types
  <2>2. CASE \E pointer \in Pointers(v) : line' = <<Report0(v, pointer)>>
    <3>1. PICK pointer \in Pointers(v) : line' = <<Report0(v, pointer)>>
      BY <2>2
    <3>2. Report0(v, pointer) \in Packet /\ Report0(v, pointer).numbers = {}
      BY PointersAre DEF Report0
    <3>3. line' = Append(line, Report0(v, pointer))
      BY <3>1 DEF Report
    <3>4. QED
      BY <3>2, <3>3, LineTypesAppend DEF Types
  <2>3. QED
    BY <2>1, <2>2 DEF Report, Report0
<1>4. FetchTypes'
  BY <1>1 DEF Types, FetchTypes, fetch, Current, Report
<1>5. QED
  BY <1>1, <1>2, <1>3, <1>4 DEF Types, histories

LEMMA ReadPacketTypes ==
  ASSUME Types, ReadPacket
  PROVE  Types'
<1>1. /\ UNCHANGED <<logVars, phase, fetch, asked, written>>
      /\ phase = "idle" /\ line # <<>> /\ line' = Tail(line)
      /\ ParseAck(records, Head(line))
  BY DEF ReadPacket
<1>2. LogTypes'
  BY <1>1, LogTypesKept DEF Types, LogTypes
<1>3. LineTypes'
  BY <1>1, LineTypesTail DEF Types
<1>4. FetchTypes'
  BY <1>1 DEF Types, FetchTypes, fetch
<1>5. /\ records' \in [DOMAIN records' -> Record] /\ DOMAIN records' \subseteq Keys
      /\ got' \in [Users -> SUBSET Nat]
  BY <1>1, HeadIsPacket, ParseTypes DEF Types
<1>6. QED
  BY <1>1, <1>2, <1>3, <1>4, <1>5 DEF Types

LEMMA WaitCmdAckTypes ==
  ASSUME Types, WaitCmdAck
  PROVE  Types'
<1>1. /\ UNCHANGED <<logVars, todo, delta, asked, written>>
      /\ phase = "wait" /\ line # <<>> /\ line' = Tail(line)
      /\ ParseAck(Moved(Current, req.n), Head(line))
      /\ i' = i + 1 /\ phase' = "ask"
  BY DEF WaitCmdAck, Goes
<1>2. LogTypes'
  BY <1>1, LogTypesKept DEF Types, LogTypes
<1>3. LineTypes'
  BY <1>1, LineTypesTail DEF Types
<1>4. req.n \in Nat /\ Current \in DOMAIN records
  BY <1>1, SizesAreNumbers DEF Types, FetchTypes
<1>5. /\ Moved(Current, req.n) \in [DOMAIN Moved(Current, req.n) -> Record]
      /\ DOMAIN Moved(Current, req.n) = DOMAIN records
  BY <1>4, MovedTypes
<1>6. /\ records' \in [DOMAIN records' -> Record] /\ DOMAIN records' \subseteq Keys
      /\ DOMAIN records \subseteq DOMAIN records'
      /\ got' \in [Users -> SUBSET Nat]
  <2> DEFINE map == Moved(Current, req.n)
  <2> HIDE DEF map
  <2>1. map \in [DOMAIN map -> Record] /\ DOMAIN map \subseteq Keys
    BY <1>5 DEF map, Types
  <2>2. ParseAck(map, Head(line)) /\ Head(line) \in Packet
    BY <1>1, HeadIsPacket DEF map, Types
  <2>3. /\ records' \in [DOMAIN records' -> Record] /\ DOMAIN records' \subseteq Keys
        /\ DOMAIN map \subseteq DOMAIN records' /\ got' \in [Users -> SUBSET Nat]
    BY <2>1, <2>2, ParseTypes DEF Types
  <2>4. QED
    BY <1>5, <2>3 DEF map
<1>7. FetchTypes'
  BY <1>1, <1>4, <1>6 DEF Types, FetchTypes, Current
<1>8. QED
  BY <1>1, <1>2, <1>3, <1>6, <1>7 DEF Types

LEMMA SaveTypes ==
  ASSUME Types, Save
  PROVE  Types'
<1>1. /\ UNCHANGED <<records, fetch, asked, line, written, histories>>
      /\ phase = "save"
  BY DEF Save
<1>2. phase' \in {"save", "idle"}
  BY <1>1 DEF Save, Goes
<1>3. LineTypes' /\ FetchTypes'
  BY <1>1, <1>2, LineTypesKept DEF Types, FetchTypes, fetch, Current
<1>4. LogTypes'
  <2>1. ASSUME NEW ok \in BOOLEAN, OpenNew(records, ok), phase' = "save"
        PROVE  LogTypes'
    <3>1. idx' \in Seq([of : Keys, data : Record])
      BY <2>1, EmptySeq DEF OpenNew, Types, LogTypes
    <3>2. /\ step' = "data" /\ unput' = DOMAIN records /\ saved' = records
          /\ records' = records
      BY <1>1, <2>1 DEF OpenNew
    <3>3. QED
      BY <2>1, <3>1, <3>2 DEF LogTypes, Steps, Types
  <2>2. ASSUME NEW ok \in BOOLEAN, PutData(ok), phase' = "save"
        PROVE  LogTypes'
    BY <1>1, <2>2 DEF PutData, LogTypes, Steps, Types
  <2>3. ASSUME NEW ok \in BOOLEAN, PutIndex(records, ok), phase' = "save"
        PROVE  LogTypes'
    <3>1. /\ step = "index" /\ unput # {} /\ unput \subseteq Keys
          /\ unput \subseteq DOMAIN records
          /\ idx \in Seq([of : Keys, data : Record])
      BY <2>3 DEF PutIndex, Types, LogTypes
    <3>2. PICK k \in unput : k = Smallest(unput)
      BY <3>1, SmallestKey
    <3>3. [of |-> k, data |-> records[k]] \in [of : Keys, data : Record]
      BY <3>1, <3>2 DEF Types
    <3>4. idx' \in Seq([of : Keys, data : Record])
      BY <2>3, <3>1, <3>2, <3>3, AppendProperties DEF PutIndex
    <3>5. step' = "data" /\ unput' \subseteq unput /\ UNCHANGED saved
      BY <2>3 DEF PutIndex
    <3>6. QED
      BY <1>1, <2>3, <3>1, <3>4, <3>5 DEF LogTypes, Steps, Types
  <2>4. ASSUME Close PROVE LogTypes'
    BY <1>1, <2>4 DEF Close, LogTypes, Steps, Types
  <2>5. ASSUME step = "closed", UNCHANGED logVars PROVE LogTypes'
    BY <2>5, LogTypesKept DEF Types
  <2>6. QED
    BY <1>1, <2>1, <2>2, <2>3, <2>4, <2>5 DEF Save
<1>5. QED
  BY <1>1, <1>3, <1>4 DEF Types, histories

(* PunctualRound, Noon and NoonDone touch nothing but the thread's place.  *)
LEMMA RoundTypes ==
  ASSUME Types, PunctualRound \/ Noon \/ NoonDone
  PROVE  Types'
<1>1. /\ UNCHANGED <<logVars, records, line, written, got, delta, i, req>>
      /\ phase # "save"
  BY DEF PunctualRound, Noon, NoonDone, fetch, histories
<1>2. LogTypes'
  BY <1>1, LogTypesKept DEF Types, LogTypes
<1>3. LineTypes'
  BY <1>1, LineTypesKept DEF Types
<1>4. FetchTypes'
  BY <1>1 DEF Types, FetchTypes, PunctualRound, Noon, NoonDone, Goes, fetch
<1>5. QED
  BY <1>1, <1>2, <1>3, <1>4 DEF Types

LEMMA WhileTypes ==
  ASSUME Types, While
  PROVE  Types'
<1>1. /\ UNCHANGED <<logVars, sync, asked, line, written, got>>
      /\ phase = "next" /\ todo # {} /\ todo' \subseteq todo
      /\ records' = [k \in DOMAIN records \union {Current} |-> Of(records, k)]
      /\ phase' \in {"next", "spin", "ask"}
      /\ phase' = "ask" => todo' = todo
  BY DEF While, NextUser, Goes
<1>2. LogTypes'
  BY <1>1, LogTypesKept DEF Types, LogTypes
<1>3. LineTypes'
  BY <1>1, LineTypesKept DEF Types
<1>4. /\ records' \in [DOMAIN records' -> Record] /\ DOMAIN records' \subseteq Keys
      /\ DOMAIN records' = DOMAIN records \union {Current}
  <2>1. \A k : Of(records, k) \in Record
    BY OfIsRecord DEF Types
  <2>2. QED
    BY <1>1, <2>1, CurrentIsUser DEF Types
<1>5. delta' \in Int /\ i' \in Nat
  <2>1. PICK rec \in Record : rec = Of(records, Current)
    BY OfIsRecord DEF Types
  <2>2. rec.last \in Nat /\ rec.sent \in Int
    <3>1. rec.last \in PointerValues /\ rec.sent \in 0 .. Cells - 1
      BY DEF Record
    <3>2. rec.last \in Nat
      BY <3>1, SizesAreNumbers
    <3>3. rec.sent \in Int
      BY <3>1, SizesAreNumbers
    <3>4. QED
      BY <3>2, <3>3
  <2>3. rec.last % Overrun \in Int
    BY <2>2, SizesAreNumbers, WholeRings
  <2>4. QED
    BY <2>1, <2>2, <2>3, SizesAreNumbers DEF While, NextUser
<1>6. FetchTypes'
  BY <1>1, <1>4, <1>5 DEF Types, FetchTypes, Current
<1>7. QED
  BY <1>1, <1>2, <1>3, <1>4, <1>6 DEF Types

LEMMA SendCommandTypes ==
  ASSUME Types, SendCommand
  PROVE  Types'
<1>1. /\ UNCHANGED <<logVars, records, sync, asked, written, histories>>
      /\ phase = "ask" /\ i * Payload < delta
  BY DEF SendCommand
<1>2. LogTypes'
  BY <1>1, LogTypesKept DEF Types, LogTypes
<1>3. LineTypes'
  <2>1. CASE UNCHANGED line
    BY <2>1, LineTypesKept DEF Types
  <2>2. CASE \E whole \in BOOLEAN : line' = Append(line, Answer(whole))
    <3>1. PICK whole \in BOOLEAN : line' = Append(line, Answer(whole))
      BY <2>2
    <3>2. Answer(whole) \in Packet /\ Answer(whole).req.kind = "records"
      BY <1>1, AnswerIsPacket DEF Answer, Request
    <3>3. QED
      BY <3>1, <3>2, LineTypesAppend DEF Types
  <2>3. QED
    BY <2>1, <2>2 DEF SendCommand
<1>4. FetchTypes'
  <2>1. CASE req' = Request /\ Goes("wait") /\ UNCHANGED <<todo, delta, i>>
    <3>1. Current' = Current /\ Request.from = Current /\ Request.n \in 1 .. Payload
      BY <1>1, <2>1, RequestIs DEF Current
    <3>2. QED
      BY <1>1, <2>1, <3>1 DEF Types, FetchTypes, Goes
  <2>2. CASE NextUser
    BY <1>1, <2>2 DEF Types, FetchTypes, NextUser, Goes
  <2>3. QED
    BY <2>1, <2>2 DEF SendCommand
<1>5. QED
  BY <1>1, <1>2, <1>3, <1>4 DEF Types, histories

LEMMA GarbledIsPacket ==
  ASSUME NEW p \in Packet
  PROVE  /\ [p EXCEPT !.whole = FALSE] \in Packet
         /\ [p EXCEPT !.whole = FALSE].req = p.req
         /\ [p EXCEPT !.whole = FALSE].numbers = p.numbers
BY DEF Packet

LEMMA WaitTimeoutTypes ==
  ASSUME Types, WaitTimeout
  PROVE  Types'
<1>1. /\ UNCHANGED <<logVars, records, sync, asked, written, got>>
      /\ phase = "wait" /\ NextUser
  BY DEF WaitTimeout
<1>2. LogTypes'
  BY <1>1, LogTypesKept DEF Types, LogTypes
<1>3. LineTypes'
  <2>1. CASE UNCHANGED line
    BY <2>1, LineTypesKept DEF Types
  <2>2. CASE line # <<>> /\ line' = [line EXCEPT ![1].whole = FALSE]
    <3>1. /\ line[1] \in Packet /\ 1 \in 1 .. Len(line) /\ line \in Seq(Packet)
          /\ line[1].req.kind = "pointers" => line[1].numbers = {}
      BY <2>2, HeadIsPacket DEF Types, LineTypes
    <3>2. PICK p \in Packet : /\ p = [line[1] EXCEPT !.whole = FALSE]
                              /\ p.req = line[1].req /\ p.numbers = line[1].numbers
      BY <3>1, GarbledIsPacket
    <3>3. line' = [line EXCEPT ![1] = p]
      BY <2>2, <3>1, <3>2
    <3>4. /\ line' \in Seq(Packet) /\ Len(line') = Len(line)
          /\ \A k \in 1 .. Len(line) : line'[k] = IF k = 1 THEN p ELSE line[k]
      BY <3>1, <3>3, ExceptSeq
    <3>5. QED
      BY <3>1, <3>2, <3>4 DEF LineTypes, Types
  <2>3. QED
    BY <2>1, <2>2 DEF WaitTimeout
<1>4. FetchTypes'
  BY <1>1 DEF Types, FetchTypes, NextUser, Goes
<1>5. QED
  BY <1>1, <1>2, <1>3, <1>4 DEF Types

LEMMA FetchedTypes ==
  ASSUME Types, Fetched
  PROVE  Types'
<1>1. /\ UNCHANGED <<logVars, records, todo, req, asked, line, written, histories>>
      /\ phase = "ask" /\ phase' = "next" /\ delta' = 0 /\ i' = 0
  BY DEF Fetched, Goes
<1>2. LogTypes'
  BY <1>1, LogTypesKept DEF Types, LogTypes
<1>3. LineTypes'
  BY <1>1, LineTypesKept DEF Types
<1>4. FetchTypes'
  BY <1>1 DEF Types, FetchTypes
<1>5. QED
  BY <1>1, <1>2, <1>3, <1>4 DEF Types, histories

LEMMA CrashTypes ==
  ASSUME Types, Crash
  PROVE  Types'
<1>1. /\ UNCHANGED <<idx, unput, saved, written, got>>
      /\ step' = "closed" /\ phase' = "idle" /\ records' = Loaded
      /\ todo' = {} /\ delta' = 0 /\ i' = 0 /\ asked' = {}
      /\ line' \in {line, <<>>}
  BY DEF Crash, LogCrash, Goes
<1>2. LogTypes'
  BY <1>1 DEF Types, LogTypes, Steps
<1>3. LineTypes'
  <2>1. CASE line' = line
    BY <2>1, LineTypesKept DEF Types
  <2>2. CASE line' = <<>>
    <3>1. line' \in Seq(Packet) /\ Len(line') = 0
      BY <2>2, EmptySeq
    <3>2. QED
      BY <3>1 DEF LineTypes
  <2>3. QED
    BY <1>1, <2>1, <2>2
<1>4. FetchTypes'
  BY <1>1 DEF FetchTypes
<1>5. records' \in [DOMAIN records' -> Record] /\ DOMAIN records' \subseteq Keys
  <2>1. Len(idx) \in Nat /\ \A a \in 1 .. Len(idx) : idx[a] \in [of : Keys, data : Record]
    BY ElementOfSeq, LenProperties DEF Types, LogTypes
  <2>2. \A k \in DOMAIN Loaded : Loaded[k] \in Record
    BY <2>1, LoadedIsEntry
  <2>3. DOMAIN Loaded \subseteq Keys
    BY <2>1, LoadedIsEntry
  <2>4. Loaded = [k \in DOMAIN Loaded |-> Loaded[k]]
    BY DEF Loaded
  <2>5. QED
    BY <1>1, <2>2, <2>3, <2>4
<1>6. QED
  BY <1>1, <1>2, <1>3, <1>4, <1>5 DEF Types

LEMMA TypesStep ==
  ASSUME Types, [Next]_vars
  PROVE  Types'
<1>1. CASE Run
  BY <1>1, RoundTypes, ReadPacketTypes, SaveTypes, WhileTypes, SendCommandTypes,
     WaitCmdAckTypes, WaitTimeoutTypes, FetchedTypes DEF Run
<1>2. CASE Crash
  BY <1>2, CrashTypes
<1>3. ASSUME NEW v \in Users, Recharged(v) \/ Report(v)
      PROVE  Types'
  BY <1>3, RechargedTypes, ReportTypes
<1>4. CASE UNCHANGED vars
  <2>1. UNCHANGED <<logVars, phase, records, line, written, got, asked, todo, delta, i, req>>
    BY <1>4 DEF vars, fetch, histories
  <2>2. LogTypes'
    BY <2>1 DEF Types, LogTypes, logVars
  <2>3. LineTypes'
    BY <2>1, LineTypesKept DEF Types
  <2>4. FetchTypes'
    BY <2>1 DEF Types, FetchTypes, Current
  <2>5. QED
    BY <2>1, <2>2, <2>3, <2>4 DEF Types
<1>5. QED
  BY <1>1, <1>2, <1>3, <1>4 DEF Next

LEMMA TypesInduct == Spec => []Types
<1>1. QED
  BY InitTypes, TypesStep, PTL DEF Spec

(* The pointers stay in their ranges: what is parsed and what is loaded is *)
(* in them, and GetRechargeData moves its own within the ring.             *)
THEOREM TypeCorrect == Spec => []TypeOK
<1>1. Types => TypeOK
  BY DEF Types, LogTypes, FetchTypes, TypeOK, Record, PointerValues
<1>2. QED
  BY <1>1, TypesInduct, PTL

------------------------------------------------------------------------------
(* A load finds the last save                                              *)

LEMMA LogKept ==
  ASSUME LogInv, UNCHANGED <<idx, unput, saved, failed>>
  PROVE  LogInv'
BY DEF LogInv

LEMMA PutIndexLog ==
  ASSUME Types, LogInv, PutIndex(records, TRUE), ~ failed'
  PROVE  LogInv'
<1>1. /\ step = "index" /\ unput # {} /\ unput \subseteq Keys /\ unput \subseteq DOMAIN saved
      /\ saved = records /\ idx \in Seq([of : Keys, data : Record])
      /\ ~ failed /\ UNCHANGED saved
  BY DEF PutIndex, Types, LogTypes
<1>2. PICK k \in unput : k = Smallest(unput)
  BY <1>1, SmallestKey
<1>3. PICK e \in [of : Keys, data : Record] :
        /\ e.of = k /\ e.data = saved[k]
        /\ idx' = Append(idx, e) /\ unput' = unput \ {k}
  <2>1. [of |-> k, data |-> records[k]] \in [of : Keys, data : Record]
    BY <1>1 DEF Types
  <2>2. /\ [of |-> k, data |-> records[k]].of = k
        /\ [of |-> k, data |-> records[k]].data = saved[k]
    BY <1>1
  <2>3. /\ idx' = Append(idx, [of |-> k, data |-> records[k]])
        /\ unput' = unput \ {k}
    BY <1>2 DEF PutIndex
  <2>4. QED
    BY <2>1, <2>2, <2>3
<1>4. /\ Len(idx) \in Nat /\ Len(idx') = Len(idx) + 1
      /\ \A a \in 1 .. Len(idx) : idx'[a] = idx[a]
      /\ idx'[Len(idx) + 1] = e
  BY <1>1, <1>3, AppendProperties, LenProperties
<1>5. /\ \A a, b \in 1 .. Len(idx) : idx[a].of = idx[b].of => a = b
      /\ {idx[a].of : a \in 1 .. Len(idx)} = DOMAIN saved \ unput
      /\ \A a \in 1 .. Len(idx) : idx[a].data = saved[idx[a].of]
  BY <1>1 DEF LogInv
<1>6. \A a \in 1 .. Len(idx) : idx[a].of # k
  BY <1>2, <1>5
<1>7. \A a \in 1 .. Len(idx') : a \in 1 .. Len(idx) \/ a = Len(idx) + 1
  BY <1>4
<1>8. \A a, b \in 1 .. Len(idx') : idx'[a].of = idx'[b].of => a = b
  BY <1>3, <1>4, <1>5, <1>6, <1>7
<1>9. \A a \in 1 .. Len(idx') : idx'[a].data = saved'[idx'[a].of]
  BY <1>1, <1>3, <1>4, <1>5, <1>7
<1>10. {idx'[a].of : a \in 1 .. Len(idx')} = DOMAIN saved' \ unput'
  <2>1. {idx'[a].of : a \in 1 .. Len(idx')} = {idx[a].of : a \in 1 .. Len(idx)} \union {k}
    <3>1. Len(idx) + 1 \in 1 .. Len(idx') /\ \A a \in 1 .. Len(idx) : a \in 1 .. Len(idx')
      BY <1>4
    <3>2. ASSUME NEW x \in {idx'[a].of : a \in 1 .. Len(idx')}
          PROVE  x \in {idx[a].of : a \in 1 .. Len(idx)} \union {k}
      BY <1>3, <1>4, <1>7
    <3>3. ASSUME NEW x \in {idx[a].of : a \in 1 .. Len(idx)} \union {k}
          PROVE  x \in {idx'[a].of : a \in 1 .. Len(idx')}
      BY <1>3, <1>4, <3>1
    <3>4. QED
      BY <3>2, <3>3
  <2>2. QED
    BY <1>1, <1>3, <1>5, <2>1
<1>11. QED
  BY <1>8, <1>9, <1>10 DEF LogInv

LEMMA SaveLog ==
  ASSUME Types, LogInv, Save
  PROVE  LogInv'
<1>1. ASSUME NEW ok \in BOOLEAN, OpenNew(records, ok) PROVE LogInv'
  <2>1. CASE ok
    <3>1. idx' = <<>> /\ Len(idx') = 0 /\ unput' = DOMAIN saved'
      BY <1>1, <2>1, EmptySeq DEF OpenNew
    <3>2. QED
      BY <3>1 DEF LogInv
  <2>2. CASE ~ ok
    BY <1>1, <2>2 DEF OpenNew, LogInv
  <2>3. QED
    BY <2>1, <2>2
<1>2. ASSUME NEW ok \in BOOLEAN, PutData(ok) PROVE LogInv'
  BY <1>2 DEF PutData, LogInv
<1>3. ASSUME NEW ok \in BOOLEAN, PutIndex(records, ok) PROVE LogInv'
  <2>1. CASE ok /\ ~ failed'
    BY <1>3, <2>1, PutIndexLog
  <2>2. CASE ~ (ok /\ ~ failed')
    BY <1>3, <2>2 DEF PutIndex, LogInv
  <2>3. QED
    BY <2>1, <2>2
<1>4. CASE UNCHANGED <<idx, unput, saved, failed>>
  BY <1>4, LogKept
<1>5. QED
  BY <1>1, <1>2, <1>3, <1>4 DEF Save, Close, logVars

LEMMA LogStep ==
  ASSUME Types, LogInv, [Next]_vars
  PROVE  LogInv'
<1>1. CASE Save
  BY <1>1, SaveLog
<1>2. CASE ~ Save
  <2>1. UNCHANGED <<idx, unput, saved, failed>>
    BY <1>2 DEF Next, Run, vars, logVars, PunctualRound, ReadPacket, Noon, NoonDone, While,
       SendCommand, WaitCmdAck, WaitTimeout, Fetched, Crash, LogCrash, Recharged, Report
  <2>2. QED
    BY <2>1, LogKept
<1>3. QED
  BY <1>1, <1>2

LEMMA LogInduct == Spec => []LogInv
<1>1. Init => LogInv
  <2>1. SUFFICES ASSUME Init PROVE LogInv
    OBVIOUS
  <2>2. idx = <<>> /\ Len(idx) = 0 /\ saved = <<>> /\ unput = {}
    BY <2>1, EmptySeq DEF Init, LogInit
  <2>3. DOMAIN saved = {}
    BY <2>2
  <2>4. QED
    BY <2>2, <2>3 DEF LogInv
<1>2. Types /\ LogInv /\ [Next]_vars => LogInv'
  BY LogStep
<1>3. QED
  BY <1>1, <1>2, TypesInduct, PTL DEF Spec

(* SaveRecords turns the log to a new generation before it puts the first  *)
(* entry: LoadRecords finds what the last save has put and nothing older,  *)
(* wherever the save was interrupted, as long as no write failed.          *)
THEOREM LoadFindsLastSave == Spec => []LoadedIsLastSave
<1>1. ASSUME Types, LogInv PROVE LoadedIsLastSave
  <2>1. SUFFICES ASSUME ~ failed
                 PROVE  Loaded = [k \in DOMAIN saved \ unput |-> saved[k]]
    BY DEF LoadedIsLastSave
  <2>2. Len(idx) \in Nat
    BY <1>1, LenProperties DEF Types, LogTypes
  <2>3. DOMAIN Loaded = DOMAIN saved \ unput
    BY <1>1, <2>1, <2>2, LoadedIsEntry DEF LogInv
  <2>4. ASSUME NEW k \in DOMAIN Loaded PROVE Loaded[k] = saved[k]
    BY <1>1, <2>1, <2>2, LoadedIsEntry DEF LogInv
  <2>5. Loaded = [k \in DOMAIN Loaded |-> Loaded[k]]
    BY DEF Loaded
  <2>6. QED
    BY <2>3, <2>4, <2>5
<1>2. QED
  BY <1>1, TypesInduct, LogInduct, PTL

------------------------------------------------------------------------------
(* What was handed over stays so                                           *)

LEMMA OnLineIs ==
  ASSUME NEW v, NEW x
  PROVE  x \in OnLine(v) <=>
           \E k \in 1 .. Len(line) :
             line[k].whole /\ line[k].req.from = v /\ x \in line[k].numbers
BY DEF OnLine

LEMMA HandedSame ==
  ASSUME UNCHANGED <<line, got>>, NEW v
  PROVE  Handed(v)' = Handed(v)
BY DEF Handed, OnLine

LEMMA HandedAppend ==
  ASSUME LineTypes, NEW p \in Packet, line' = Append(line, p), UNCHANGED got, NEW v
  PROVE  Handed(v) \subseteq Handed(v)'
<1>1. /\ Len(line) \in Nat /\ Len(line') = Len(line) + 1
      /\ \A k \in 1 .. Len(line) : line'[k] = line[k]
  BY AppendProperties, LenProperties DEF LineTypes
<1>2. ASSUME NEW x \in OnLine(v) PROVE x \in OnLine(v)'
  <2>1. PICK k \in 1 .. Len(line) :
          line[k].whole /\ line[k].req.from = v /\ x \in line[k].numbers
    BY <1>2, OnLineIs
  <2>2. k \in 1 .. Len(line') /\ line'[k] = line[k]
    BY <1>1
  <2>3. QED
    BY <2>1, <2>2 DEF OnLine
<1>3. QED
  BY <1>2 DEF Handed

(* A packet that is parsed leaves the line, and its records are handed     *)
(* over.                                                                   *)
LEMMA HandedParsed ==
  ASSUME LineTypes, line # <<>>, line' = Tail(line), NEW map,
         ParseAck(map, Head(line)), got \in [Users -> SUBSET Nat], NEW v \in Users
  PROVE  Handed(v) \subseteq Handed(v)'
<1>1. /\ Len(line) \in Nat /\ Len(line') = Len(line) - 1
      /\ \A k \in 1 .. Len(line') : line'[k] = line[k + 1]
  BY HeadTailProperties, LenProperties DEF LineTypes
<1>2. /\ Head(line) = line[1] /\ line[1] \in Packet
      /\ line[1].req.kind = "pointers" => line[1].numbers = {}
  BY HeadIsPacket
<1>3. got[v] \subseteq got'[v]
  BY <1>2 DEF ParseAck, ParseRechargeData, Packet, Requests
<1>4. ASSUME NEW x \in OnLine(v) PROVE x \in Handed(v)'
  <2>1. PICK k \in 1 .. Len(line) :
          line[k].whole /\ line[k].req.from = v /\ x \in line[k].numbers
    BY <1>4, OnLineIs
  <2>2. CASE k = 1
    <3>1. got' = [got EXCEPT ![v] = @ \union line[1].numbers]
      BY <1>2, <2>1, <2>2 DEF ParseAck, ParseRechargeData
    <3>2. x \in got'[v]
      BY <2>1, <2>2, <3>1
    <3>3. QED
      BY <3>2 DEF Handed
  <2>3. CASE k # 1
    <3>1. k - 1 \in 1 .. Len(line') /\ line'[k - 1] = line[k]
      BY <1>1, <2>3
    <3>2. x \in OnLine(v)'
      BY <2>1, <3>1 DEF OnLine
    <3>3. QED
      BY <3>2 DEF Handed
  <2>4. QED
    BY <2>2, <2>3
<1>5. QED
  BY <1>3, <1>4 DEF Handed

LEMMA HandedGarbled ==
  ASSUME LineTypes, line # <<>>, line' = [line EXCEPT ![1].whole = FALSE],
         UNCHANGED got, NEW v, v # line[1].req.from
  PROVE  Handed(v) \subseteq Handed(v)'
<1>1. 1 \in 1 .. Len(line) /\ line[1] \in Packet /\ line \in Seq(Packet)
  BY HeadIsPacket DEF LineTypes
<1>2. PICK p \in Packet : p = [line[1] EXCEPT !.whole = FALSE]
  BY <1>1, GarbledIsPacket
<1>3. line' = [line EXCEPT ![1] = p]
  BY <1>1, <1>2
<1>4. /\ Len(line') = Len(line)
      /\ \A k \in 1 .. Len(line) : k # 1 => line'[k] = line[k]
  BY <1>1, <1>3, ExceptSeq
<1>5. ASSUME NEW x \in OnLine(v) PROVE x \in OnLine(v)'
  <2>1. PICK k \in 1 .. Len(line) :
          line[k].whole /\ line[k].req.from = v /\ x \in line[k].numbers
    BY <1>5, OnLineIs
  <2>2. k \in 1 .. Len(line') /\ line'[k] = line[k]
    BY <1>4, <2>1
  <2>3. QED
    BY <2>1, <2>2 DEF OnLine
<1>6. QED
  BY <1>5 DEF Handed

LEMMA HandedLost ==
  ASSUME line' = <<>>, UNCHANGED got,
         NEW v, v \notin {line[k].req.from : k \in 1 .. Len(line)}
  PROVE  Handed(v) \subseteq Handed(v)'
<1>1. ASSUME NEW x \in OnLine(v) PROVE FALSE
  BY <1>1, OnLineIs
<1>2. QED
  BY <1>1 DEF Handed

------------------------------------------------------------------------------
(* What is known of a valve stays true                                     *)

LEMMA FitsMore ==
  ASSUME NEW rec \in Record, NEW b \in Nat, NEW c \in Nat, b <= c,
         NEW handed, NEW more, handed \subseteq more, Fits(rec, b, handed)
  PROVE  Fits(rec, c, more)
<1>1. rec.at \in Nat
  BY DEF Record
<1>2. PICK m \in rec.at .. b : rec.last % Overrun = m % Cells
  BY DEF Fits
<1>3. m \in rec.at .. c
  BY <1>1
<1>4. QED
  BY <1>2, <1>3 DEF Fits

LEMMA FitsBound ==
  ASSUME NEW rec \in Record, NEW b \in Nat, NEW handed, Fits(rec, b, handed)
  PROVE  rec.at \in Nat /\ rec.at <= b
BY DEF Fits, Record

(* The log's part, while the log is as it was.                             *)
KnowsLog(v, b) ==
  \A a \in 1 .. Len(idx) : idx[a].of = v => Fits(idx[a].data, b, Handed(v))

KnowsLine(v, b) ==
  \A k \in 1 .. Len(line) :
    line[k].whole /\ line[k].req.from = v => Brings(line[k], b)

LEMMA KnowsIs ==
  \A v, b : Knows(v, b) <=>
    /\ Fits(Of(records, v), b, Handed(v)) /\ KnowsLog(v, b) /\ KnowsLine(v, b)
    /\ written[v] < Of(records, v).at + Cells /\ Fetching(v, b)
BY DEF Knows, KnowsLog, KnowsLine

LEMMA IdxEntry ==
  ASSUME Types
  PROVE  Len(idx) \in Nat /\ \A a \in 1 .. Len(idx) : idx[a].data \in Record
<1>1. Len(idx) \in Nat /\ \A a \in 1 .. Len(idx) : idx[a] \in [of : Keys, data : Record]
  BY ElementOfSeq, LenProperties DEF Types, LogTypes
<1>2. QED
  BY <1>1

LEMMA KnowsLogKept ==
  ASSUME Types, NEW v, NEW b \in Nat, NEW c \in Nat, b <= c,
         KnowsLog(v, b), UNCHANGED idx, Handed(v) \subseteq Handed(v)'
  PROVE  KnowsLog(v, c)'
<1>1. ASSUME NEW a \in 1 .. Len(idx), idx[a].of = v
      PROVE  Fits(idx[a].data, c, Handed(v)')
  <2>1. Fits(idx[a].data, b, Handed(v)) /\ idx[a].data \in Record
    BY <1>1, IdxEntry DEF KnowsLog
  <2>2. QED
    BY <2>1, FitsMore
<1>2. QED
  BY <1>1 DEF KnowsLog

LEMMA KnowsLineTail ==
  ASSUME LineTypes, line # <<>>, line' = Tail(line), NEW v, NEW b, KnowsLine(v, b)
  PROVE  KnowsLine(v, b)'
<1>1. /\ Len(line) \in Nat /\ Len(line') = Len(line) - 1
      /\ \A k \in 1 .. Len(line') : line'[k] = line[k + 1]
  BY HeadTailProperties, LenProperties DEF LineTypes
<1>2. ASSUME NEW k \in 1 .. Len(line'), line'[k].whole, line'[k].req.from = v
      PROVE  Brings(line'[k], b)
  <2>1. k + 1 \in 1 .. Len(line) /\ line'[k] = line[k + 1]
    BY <1>1
  <2>2. Brings(line[k + 1], b)
    BY <1>2, <2>1 DEF KnowsLine
  <2>3. QED
    BY <2>1, <2>2
<1>3. QED
  BY <1>2 DEF KnowsLine

LEMMA KnowsLineAppend ==
  ASSUME LineTypes, NEW p \in Packet, line' = Append(line, p), NEW v, NEW b,
         KnowsLine(v, b), p.whole /\ p.req.from = v => Brings(p, b)
  PROVE  KnowsLine(v, b)'
<1>1. /\ Len(line) \in Nat /\ Len(line') = Len(line) + 1
      /\ \A k \in 1 .. Len(line) : line'[k] = line[k]
      /\ line'[Len(line) + 1] = p
  BY AppendProperties, LenProperties DEF LineTypes
<1>2. ASSUME NEW k \in 1 .. Len(line'), line'[k].whole, line'[k].req.from = v
      PROVE  Brings(line'[k], b)
  <2>1. CASE k = Len(line) + 1
    BY <1>1, <1>2, <2>1
  <2>2. CASE k # Len(line) + 1
    <3>1. k \in 1 .. Len(line) /\ line'[k] = line[k]
      BY <1>1, <2>2
    <3>2. Brings(line[k], b)
      BY <1>2, <3>1 DEF KnowsLine
    <3>3. QED
      BY <3>1, <3>2
  <2>3. QED
    BY <2>1, <2>2
<1>3. QED
  BY <1>2 DEF KnowsLine

(* Nothing but the thread's place changes.                                 *)
LEMMA KnowsKept ==
  ASSUME Types, NEW v \in Users, NEW b \in Nat, Knows(v, b),
         UNCHANGED <<idx, line, written, got>>,
         Of(records', v) = Of(records, v), Fetching(v, b)'
  PROVE  Knows(v, b)'
<1>1. Handed(v)' = Handed(v)
  BY HandedSame
<1>2. /\ Fits(Of(records, v), b, Handed(v)) /\ KnowsLog(v, b) /\ KnowsLine(v, b)
      /\ written[v] < Of(records, v).at + Cells
  BY KnowsIs
<1>3. Fits(Of(records', v), b, Handed(v)')
  BY <1>1, <1>2
<1>4. KnowsLog(v, b)'
  BY <1>1, <1>2, KnowsLogKept
<1>5. KnowsLine(v, b)'
  BY <1>2 DEF KnowsLine
<1>6. written'[v] < Of(records', v).at + Cells
  BY <1>2
<1>7. QED
  BY <1>3, <1>4, <1>5, <1>6 DEF Knows, KnowsLog, KnowsLine

LEMMA NotFetching ==
  ASSUME NEW v, NEW b, phase' \notin {"ask", "wait"}
  PROVE  Fetching(v, b)'
BY DEF Fetching

LEMMA RoundKnows ==
  ASSUME Types, NEW v \in Users, NEW b \in Nat, Knows(v, b),
         PunctualRound \/ Noon \/ NoonDone \/ Fetched
  PROVE  Knows(v, b)'
<1>1. /\ UNCHANGED <<idx, line, written, got, records>>
      /\ phase' \notin {"ask", "wait"}
  BY DEF PunctualRound, Noon, NoonDone, Fetched, Goes, logVars, histories
<1>2. QED
  BY <1>1, KnowsKept, NotFetching

LEMMA RechargedKnows ==
  ASSUME Types, NEW v \in Users, NEW b \in Nat, Knows(v, b),
         NEW u \in Users, Recharged(u), Regular(v)'
  PROVE  Knows(v, b)'
<1>1. /\ UNCHANGED <<idx, line, got, records, phase, todo, delta, i, req>>
      /\ phase \in {"idle", "ask"}
      /\ written' = [written EXCEPT ![u] = @ + 1]
  BY DEF Recharged, logVars, fetch
<1>2. Handed(v)' = Handed(v)
  BY <1>1, HandedSame
<1>3. /\ Fits(Of(records, v), b, Handed(v)) /\ KnowsLog(v, b) /\ KnowsLine(v, b)
      /\ written[v] < Of(records, v).at + Cells /\ Fetching(v, b)
  BY KnowsIs
<1>4. Of(records, v).at \in Nat /\ written[v] \in Nat
  BY OfIsRecord DEF Types, Record
<1>5. written'[v] < Of(records', v).at + Cells
  <2>1. CASE u = v
    <3>1. written'[v] = written[v] + 1
      BY <1>1, <2>1 DEF Types
    <3>2. ~ (written[v] + 1 - Of(records, v).at >= Cells)
      BY <2>1 DEF Recharged, Regular
    <3>3. QED
      BY <1>1, <1>4, <3>1, <3>2, SizesAreNumbers
  <2>2. CASE u # v
    BY <1>1, <1>3, <2>2 DEF Types
  <2>3. QED
    BY <2>1, <2>2
<1>6. KnowsLog(v, b)'
  BY <1>1, <1>2, <1>3, KnowsLogKept
<1>7. KnowsLine(v, b)'
  BY <1>1, <1>3 DEF KnowsLine
<1>8. Fetching(v, b)'
  BY <1>1, <1>3 DEF Fetching, Current
<1>9. Fits(Of(records', v), b, Handed(v)')
  BY <1>1, <1>2, <1>3
<1>10. QED
  BY <1>5, <1>6, <1>7, <1>8, <1>9 DEF Knows, KnowsLog, KnowsLine

(* The valve reports all the records it has made.                          *)
LEMMA ReportKnows ==
  ASSUME Types, NEW v \in Users, NEW b \in 0 .. written[v], Knows(v, b),
         NEW u \in Users, Report(u)
  PROVE  \E c \in 0 .. written'[v] : Knows(v, c)'
<1>1. /\ UNCHANGED <<idx, got, records, written>>
      /\ phase = "idle" /\ phase' = "idle" /\ line = <<>>
  BY DEF Report, logVars, histories
<1>2. PICK c \in 0 .. written[v] : c = IF u = v THEN written[v] ELSE b
  BY DEF Types
<1>3. /\ Fits(Of(records, v), b, Handed(v)) /\ KnowsLog(v, b) /\ KnowsLine(v, b)
      /\ written[v] < Of(records, v).at + Cells
      /\ written[v] \in Nat /\ b <= c /\ b \in Nat /\ c \in Nat
  BY <1>2, KnowsIs DEF Types
<1>4. KnowsLine(v, c)
  <2>1. Len(line) = 0
    BY <1>1, EmptySeq
  <2>2. QED
    BY <2>1 DEF KnowsLine
<1>5. Handed(v) \subseteq Handed(v)' /\ KnowsLine(v, c)'
  <2>1. CASE UNCHANGED line
    BY <1>1, <1>4, <2>1, HandedSame DEF KnowsLine
  <2>2. CASE \E pointer \in Pointers(u) : line' = <<Report0(u, pointer)>>
    <3>1. PICK pointer \in Pointers(u) : line' = <<Report0(u, pointer)>>
      BY <2>2
    <3>2. PICK p \in Packet : p = Report0(u, pointer)
      BY PointersAre
    <3>3. line' = Append(line, p)
      BY <1>1, <3>1, <3>2
    <3>4. p.whole /\ p.req.from = v => Brings(p, c)
      BY <1>2, <3>2, PointersAre DEF Report0, Brings
    <3>5. QED
      BY <1>1, <1>4, <3>3, <3>4, HandedAppend, KnowsLineAppend DEF Types
  <2>3. QED
    BY <2>1, <2>2 DEF Report, Report0
<1>6. KnowsLog(v, c)'
  BY <1>1, <1>3, <1>5, KnowsLogKept
<1>7. Fits(Of(records', v), c, Handed(v)')
  <2>1. PICK rec \in Record : rec = Of(records, v)
    BY OfIsRecord DEF Types
  <2>2. Fits(rec, c, Handed(v)')
    BY <1>3, <1>5, <2>1, FitsMore
  <2>3. QED
    BY <1>1, <2>1, <2>2
<1>8. Fetching(v, c)'
  BY <1>1, NotFetching
<1>9. Knows(v, c)'
  BY <1>1, <1>3, <1>5, <1>6, <1>7, <1>8 DEF Knows, KnowsLog, KnowsLine
<1>10. QED
  BY <1>1, <1>2, <1>9

(* A packet is parsed: of v's record only the pointer may change, to the   *)
(* number that v reported.                                                 *)
LEMMA ParseOf ==
  ASSUME NEW map, NEW p, ParseAck(map, p), NEW v
  PROVE  IF p.whole /\ p.req.kind = "pointers" /\ p.req.from = v
           THEN Of(records', v) = [Of(map, v) EXCEPT !.last = p.pointer - 1]
           ELSE Of(records', v) = Of(map, v)
BY DEF ParseAck, ParsePunctualData, WithPointer, Of

LEMMA ParsedFits ==
  ASSUME Types, line # <<>>, line' = Tail(line),
         NEW map, map \in [DOMAIN map -> Record], ParseAck(map, Head(line)),
         NEW v \in Users, NEW b \in Nat, KnowsLine(v, b), Fits(Of(map, v), b, Handed(v))
  PROVE  /\ Fits(Of(records', v), b, Handed(v)')
         /\ Of(records', v).at = Of(map, v).at
<1>1. PICK p \in Packet : /\ p = line[1] /\ p = Head(line) /\ 1 \in 1 .. Len(line)
                          /\ p.whole /\ p.req.from = v => Brings(p, b)
  BY HeadIsPacket DEF Types, KnowsLine
<1>2. Handed(v) \subseteq Handed(v)'
  BY HandedParsed DEF Types
<1>3. PICK rec \in Record : rec = Of(map, v)
  BY OfIsRecord
<1>4. Fits(rec, b, Handed(v)') /\ rec.at \in Nat /\ rec.at <= b
  BY <1>2, <1>3, FitsMore, FitsBound
<1>5. CASE p.whole /\ p.req.kind = "pointers" /\ p.req.from = v
  <2>1. Of(records', v) = [rec EXCEPT !.last = p.pointer - 1]
    BY <1>1, <1>3, <1>5, ParseOf
  <2>2. /\ Of(records', v).last = p.pointer - 1
        /\ Of(records', v).sent = rec.sent /\ Of(records', v).at = rec.at
    BY <2>1 DEF Record
  <2>3. (p.pointer - 1) % Overrun = b % Cells
    BY <1>1, <1>5 DEF Brings
  <2>4. b \in rec.at .. b
    BY <1>4
  <2>5. QED
    BY <1>3, <1>4, <2>2, <2>3, <2>4 DEF Fits
<1>6. CASE ~ (p.whole /\ p.req.kind = "pointers" /\ p.req.from = v)
  BY <1>1, <1>3, <1>4, <1>6, ParseOf
<1>7. QED
  BY <1>5, <1>6

LEMMA ReadPacketKnows ==
  ASSUME Types, NEW v \in Users, NEW b \in Nat, Knows(v, b), ReadPacket
  PROVE  Knows(v, b)'
<1>1. /\ UNCHANGED <<idx, written>> /\ phase' = "idle"
      /\ line # <<>> /\ line' = Tail(line) /\ ParseAck(records, Head(line))
  BY DEF ReadPacket, logVars
<1>2. /\ Fits(Of(records, v), b, Handed(v)) /\ KnowsLog(v, b) /\ KnowsLine(v, b)
      /\ written[v] < Of(records, v).at + Cells
  BY KnowsIs
<1>3. /\ Fits(Of(records', v), b, Handed(v)')
      /\ Of(records', v).at = Of(records, v).at
  BY <1>1, <1>2, ParsedFits DEF Types
<1>4. Handed(v) \subseteq Handed(v)'
  BY <1>1, HandedParsed DEF Types
<1>5. KnowsLog(v, b)' /\ KnowsLine(v, b)'
  BY <1>1, <1>2, <1>4, KnowsLogKept, KnowsLineTail DEF Types
<1>6. Fetching(v, b)'
  BY <1>1, NotFetching
<1>7. QED
  BY <1>1, <1>2, <1>3, <1>5, <1>6 DEF Knows, KnowsLog, KnowsLine

(* The awaited answer is on the line: it brings the records between the    *)
(* pointer and where it will be.                                           *)
LEMMA AnswerBrings ==
  ASSUME Types, NEW v \in Users, NEW b \in 0 .. written[v], Knows(v, b),
         phase = "wait", Current = v,
         NEW k \in 1 .. Len(line), line[k].whole, line[k].req = req
  PROVE  (Of(records, v).at + 1) .. (Of(records, v).at + delta) \subseteq Handed(v)
<1>1. /\ Fits(Of(records, v), b, Handed(v)) /\ KnowsLine(v, b)
      /\ written[v] < Of(records, v).at + Cells /\ Fetching(v, b)
  BY KnowsIs
<1>2. PICK rec \in Record : rec = Of(records, v) /\ rec = records[v]
  <2>1. v \in DOMAIN records
    BY DEF Types, FetchTypes
  <2>2. QED
    BY <2>1, OfIsRecord DEF Types, Of
<1>3. written[v] \in Nat /\ b \in Nat /\ b <= written[v]
  BY DEF Types
<1>4. rec.at \in Nat /\ rec.at <= b /\ rec.sent = rec.at % Cells
  BY <1>1, <1>2, <1>3, FitsBound DEF Fits
<1>5. /\ req = [from |-> v, kind |-> "records", off |-> rec.sent + 1, n |-> delta]
      /\ req.from = v /\ req.kind = "records" /\ req.off = rec.sent + 1 /\ req.n = delta
  BY <1>1, <1>2 DEF Fetching
<1>6. PICK a \in 0 .. b :
        /\ b < a + Cells /\ req.off = (a % Cells) + 1
        /\ a + 1 .. a + req.n \subseteq line[k].numbers
  <2>1. Brings(line[k], b)
    BY <1>1, <1>5 DEF KnowsLine
  <2>2. QED
    BY <1>5, <2>1 DEF Brings
<1>7. a % Cells = rec.at % Cells
  <2>1. a \in Nat /\ rec.at \in Nat /\ Cells \in Nat \ {0}
    BY <1>3, <1>4, SizesAreNumbers
  <2>2. a % Cells \in 0 .. Cells - 1 /\ rec.at % Cells \in 0 .. Cells - 1
    BY <2>1, WholeRings
  <2>3. (a % Cells) + 1 = rec.sent + 1
    BY <1>5, <1>6
  <2>4. (a % Cells) + 1 = (rec.at % Cells) + 1
    BY <1>4, <2>3
  <2>5. QED
    BY <2>1, <2>2, <2>4
<1>8. a = rec.at
  <2>1. a \in Nat /\ a < rec.at + Cells /\ rec.at < a + Cells
    <3>1. /\ a \in Nat /\ a <= b /\ Cells \in Nat /\ rec.at \in Nat
          /\ written[v] < rec.at + Cells /\ b < a + Cells
      BY <1>1, <1>2, <1>3, <1>4, <1>6, SizesAreNumbers
    <3>2. QED
      BY <1>3, <1>4, <3>1
  <2>2. rec.at \in Nat /\ Cells \in Nat \ {0}
    BY <1>4, SizesAreNumbers
  <2>3. QED
    BY <1>7, <2>1, <2>2, SameCell
<1>9. line[k].numbers \subseteq Handed(v)
  BY <1>5 DEF Handed, OnLine
<1>10. QED
  BY <1>2, <1>5, <1>6, <1>8, <1>9

LEMMA WaitCmdAckKnows ==
  ASSUME Types, NEW v \in Users, NEW b \in 0 .. written[v], Knows(v, b),
         WaitCmdAck, Regular(v)'
  PROVE  Knows(v, b)'
<1> DEFINE map == Moved(Current, req.n)
<1>1. /\ UNCHANGED <<idx, written, delta, todo>>
      /\ phase = "wait" /\ phase' = "ask" /\ i' = i + 1
      /\ line # <<>> /\ line' = Tail(line) /\ ParseAck(map, Head(line))
  BY DEF WaitCmdAck, Goes, logVars
<1>2. /\ Fits(Of(records, v), b, Handed(v)) /\ KnowsLog(v, b) /\ KnowsLine(v, b)
      /\ written[v] < Of(records, v).at + Cells /\ Fetching(v, b)
      /\ written[v] \in Nat /\ b \in Nat
  BY KnowsIs DEF Types
<1>3. /\ Current \in DOMAIN records /\ req.n \in Nat /\ Current' = Current
      /\ i \in Nat
  BY <1>1, SizesAreNumbers DEF Types, FetchTypes, Current
<1>4. /\ map \in [DOMAIN map -> Record] /\ DOMAIN map = DOMAIN records
      /\ \A k \in DOMAIN records \ {Current} : map[k] = records[k]
      /\ map[Current] = [last |-> records[Current].last,
                         sent |-> (records[Current].sent + req.n) % Cells,
                         at |-> records[Current].at + req.n]
  BY <1>3, MovedTypes
<1> HIDE DEF map
<1>5. PICK rec \in Record : rec = Of(records, v)
  BY OfIsRecord DEF Types
<1>6. rec.at \in Nat
  BY DEF Record
<1>7. /\ Fits(Of(map, v), b, Handed(v))
      /\ Of(map, v).at \in Nat /\ Of(map, v).at >= rec.at
  <2>1. CASE v # Current
    <3>1. Of(map, v) = rec
      BY <1>4, <1>5, <2>1 DEF Of
    <3>2. QED
      BY <1>2, <1>5, <1>6, <3>1
  <2>2. CASE v = Current
    <3>1. records[v] = rec /\ Of(map, v) = map[Current]
      BY <1>3, <1>4, <1>5, <2>2 DEF Of
    <3>2. /\ delta \in 1 .. Payload /\ i = 0 /\ delta \in Nat
          /\ rec.at + delta <= b
          /\ rec.last % Overrun = (rec.at + delta) % Cells
          /\ req.n = delta
      BY <1>1, <1>2, <2>2, <3>1, SizesAreNumbers DEF Fetching
    <3>3. /\ Of(map, v).last = rec.last
          /\ Of(map, v).sent = (rec.sent + delta) % Cells
          /\ Of(map, v).at = rec.at + delta
      BY <1>4, <2>2, <3>1, <3>2
    <3>4. Of(map, v).sent = Of(map, v).at % Cells
      <4>1. rec.sent = rec.at % Cells
        BY <1>2, <1>5 DEF Fits
      <4>2. Cells \in Nat \ {0} /\ rec.at \in Nat /\ delta \in Nat
        BY <1>6, <3>2, SizesAreNumbers
      <4>3. ((rec.at % Cells) + delta) % Cells = (rec.at + delta) % Cells
        BY <4>2, MovedCell
      <4>4. QED
        BY <3>3, <4>1, <4>3
    <3>5. PICK k \in 1 .. Len(line) : line[k].whole /\ line[k].req = req
      BY <2>2 DEF WaitCmdAck, Regular
    <3>6. rec.at + 1 .. rec.at + delta \subseteq Handed(v)
      BY <1>1, <1>5, <2>2, <3>5, AnswerBrings
    <3>7. 1 .. rec.at \subseteq Handed(v)
      BY <1>2, <1>5 DEF Fits
    <3>8. 1 .. rec.at + delta \subseteq Handed(v)
      BY <1>6, <3>2, <3>6, <3>7
    <3>9. rec.at + delta \in rec.at + delta .. b
      BY <1>2, <1>6, <3>2
    <3>10. QED
      BY <1>6, <3>2, <3>3, <3>4, <3>8, <3>9 DEF Fits
  <2>3. QED
    BY <2>1, <2>2
<1>8. /\ Fits(Of(records', v), b, Handed(v)')
      /\ Of(records', v).at = Of(map, v).at
  BY <1>1, <1>2, <1>4, <1>7, ParsedFits
<1>9. Handed(v) \subseteq Handed(v)'
  BY <1>1, HandedParsed DEF Types
<1>10. KnowsLog(v, b)' /\ KnowsLine(v, b)'
  BY <1>1, <1>2, <1>9, KnowsLogKept, KnowsLineTail DEF Types
<1>11. written'[v] < Of(records', v).at + Cells
  BY <1>1, <1>2, <1>5, <1>6, <1>7, <1>8, SizesAreNumbers
<1>12. Fetching(v, b)'
  BY <1>1, <1>2, <1>3 DEF Fetching
<1>13. QED
  BY <1>8, <1>10, <1>11, <1>12 DEF Knows, KnowsLog, KnowsLine

LEMMA WaitTimeoutKnows ==
  ASSUME Types, NEW v \in Users, NEW b \in Nat, Knows(v, b), WaitTimeout, Regular(v)'
  PROVE  Knows(v, b)'
<1>1. /\ UNCHANGED <<idx, written, records, got>>
      /\ phase' = "next"
  BY DEF WaitTimeout, NextUser, Goes, logVars
<1>2. /\ Fits(Of(records, v), b, Handed(v)) /\ KnowsLog(v, b) /\ KnowsLine(v, b)
      /\ written[v] < Of(records, v).at + Cells
  BY KnowsIs
<1>3. Handed(v) \subseteq Handed(v)' /\ KnowsLine(v, b)'
  <2>1. CASE UNCHANGED line
    BY <1>1, <1>2, <2>1, HandedSame DEF KnowsLine
  <2>2. CASE /\ line # <<>> /\ line' = [line EXCEPT ![1].whole = FALSE]
             /\ mistaken' = mistaken \union {Head(line).req.from}
    <3>1. /\ v # line[1].req.from /\ 1 \in 1 .. Len(line)
          /\ line[1] \in Packet /\ line \in Seq(Packet)
      BY <2>2, HeadIsPacket DEF Types, LineTypes, Regular
    <3>2. Handed(v) \subseteq Handed(v)'
      BY <1>1, <2>2, <3>1, HandedGarbled DEF Types
    <3>3. PICK p \in Packet : p = [line[1] EXCEPT !.whole = FALSE] /\ p.req = line[1].req
      BY <3>1, GarbledIsPacket
    <3>4. line' = [line EXCEPT ![1] = p]
      BY <2>2, <3>1, <3>3
    <3>5. /\ Len(line') = Len(line)
          /\ \A k \in 1 .. Len(line) : line'[k] = IF k = 1 THEN p ELSE line[k]
      BY <3>1, <3>4, ExceptSeq
    <3>6. KnowsLine(v, b)'
      BY <1>2, <3>1, <3>3, <3>5 DEF KnowsLine
    <3>7. QED
      BY <3>2, <3>6
  <2>3. QED
    BY <2>1, <2>2 DEF WaitTimeout
<1>4. Fits(Of(records', v), b, Handed(v)')
  <2>1. PICK rec \in Record : rec = Of(records, v)
    BY OfIsRecord DEF Types
  <2>2. Fits(rec, b, Handed(v)')
    BY <1>2, <1>3, <2>1, FitsMore
  <2>3. QED
    BY <1>1, <2>1, <2>2
<1>5. KnowsLog(v, b)'
  BY <1>1, <1>2, <1>3, KnowsLogKept
<1>6. Fetching(v, b)'
  BY <1>1, NotFetching
<1>7. QED
  BY <1>1, <1>2, <1>3, <1>4, <1>5, <1>6 DEF Knows, KnowsLog, KnowsLine

(* The first request of a fetch is the only one, and asks for the records  *)
(* from the pointer on.                                                    *)
LEMMA FirstRequest ==
  ASSUME Types, NEW v \in Users, NEW b \in 0 .. written[v], Knows(v, b),
         phase = "ask", i * Payload < delta, Current = v
  PROVE  /\ i = 0 /\ delta \in 1 .. Payload
         /\ Of(records, v) = records[v]
         /\ records[v].at + delta <= b
         /\ records[v].sent = records[v].at % Cells
         /\ Request = [from |-> v, kind |-> "records",
                       off |-> records[v].sent + 1, n |-> delta]
<1>1. /\ Fits(Of(records, v), b, Handed(v)) /\ Fetching(v, b)
  BY KnowsIs
<1>2. Of(records, v) = records[v] /\ records[v] \in Record /\ i \in Nat
  BY DEF Types, FetchTypes, Of
<1>3. delta \in 1 .. Payload /\ Payload \in Nat \ {0}
  BY <1>1, SizesAreNumbers DEF Fetching
<1>4. i = 0
  <2>1. CASE i >= 1
    <3>1. i * Payload >= Payload
      BY <1>2, <1>3, <2>1
    <3>2. QED
      BY <1>2, <1>3, <3>1
  <2>2. QED
    BY <1>2, <2>1
<1>5. records[v].at + delta <= b /\ records[v].sent = records[v].at % Cells
  BY <1>1, <1>2, <1>4 DEF Fetching, Fits
<1>6. i * Payload = 0 /\ delta - i * Payload = delta
  BY <1>3, <1>4
<1>7. records[v].sent + i * Payload + 1 = records[v].sent + 1
  <2>1. records[v].sent \in Int
    BY <1>2, SizesAreNumbers DEF Record
  <2>2. QED
    BY <1>6, <2>1
<1>8. Least(Payload, delta - i * Payload) = delta
  BY <1>3, <1>6 DEF Least
<1>9. QED
  BY <1>2, <1>3, <1>4, <1>5, <1>7, <1>8 DEF Request

LEMMA AnswerIsRight ==
  ASSUME Types, NEW v \in Users, NEW b \in 0 .. written[v], Knows(v, b),
         phase = "ask", i * Payload < delta, Current = v, NEW whole \in BOOLEAN
  PROVE  Brings(Answer(whole), b)
<1>1. /\ i = 0 /\ delta \in 1 .. Payload
      /\ Of(records, v) = records[v]
      /\ records[v].at + delta <= b
      /\ records[v].sent = records[v].at % Cells
      /\ Request = [from |-> v, kind |-> "records",
                    off |-> records[v].sent + 1, n |-> delta]
  BY FirstRequest
<1>2. PICK a \in Nat : a = records[v].at
  BY OfIsRecord, <1>1 DEF Types, Record
<1>3. written[v] \in Nat /\ b \in Nat /\ b <= written[v] /\ delta \in Nat /\ Cells \in Nat
  BY <1>1, SizesAreNumbers DEF Types
<1>4. written[v] < a + Cells /\ a + delta <= written[v] /\ a <= b /\ b < a + Cells
  <2>1. written[v] < a + Cells
    BY <1>1, <1>2, KnowsIs
  <2>2. QED
    BY <1>1, <1>2, <1>3, <2>1
<1>5. a + 1 .. a + delta \subseteq Stored(v, (a % Cells) + 1, delta)
  BY <1>2, <1>3, <1>4, StoredFromPointer
<1>6. /\ Answer(whole).req.kind = "records" /\ Answer(whole).req.off = (a % Cells) + 1
      /\ Answer(whole).req.n = delta
      /\ Answer(whole).numbers = Stored(v, (a % Cells) + 1, delta)
  BY <1>1, <1>2 DEF Answer
<1>7. a \in 0 .. b
  BY <1>3, <1>4
<1>8. QED
  BY <1>4, <1>5, <1>6, <1>7 DEF Brings

LEMMA SendCommandKnows ==
  ASSUME Types, NEW v \in Users, NEW b \in 0 .. written[v], Knows(v, b), SendCommand
  PROVE  Knows(v, b)'
<1>1. /\ UNCHANGED <<idx, records, written, got>>
      /\ phase = "ask" /\ i * Payload < delta
  BY DEF SendCommand, logVars, histories
<1>2. /\ Fits(Of(records, v), b, Handed(v)) /\ KnowsLog(v, b) /\ KnowsLine(v, b)
      /\ written[v] < Of(records, v).at + Cells /\ Fetching(v, b)
      /\ b \in Nat
  BY KnowsIs DEF Types
<1>3. Handed(v) \subseteq Handed(v)' /\ KnowsLine(v, b)'
  <2>1. CASE UNCHANGED line
    BY <1>1, <1>2, <2>1, HandedSame DEF KnowsLine
  <2>2. CASE \E whole \in BOOLEAN : line' = Append(line, Answer(whole))
    <3>1. PICK whole \in BOOLEAN : line' = Append(line, Answer(whole))
      BY <2>2
    <3>2. PICK p \in Packet : p = Answer(whole)
      BY <1>1, AnswerIsPacket
    <3>3. p.req.from = Current
      BY <3>2 DEF Answer, Request
    <3>4. p.whole /\ p.req.from = v => Brings(p, b)
      BY <1>1, <3>2, <3>3, AnswerIsRight
    <3>5. QED
      BY <1>1, <1>2, <3>1, <3>2, <3>4, HandedAppend, KnowsLineAppend DEF Types
  <2>3. QED
    BY <2>1, <2>2 DEF SendCommand
<1>4. Fits(Of(records', v), b, Handed(v)')
  <2>1. PICK rec \in Record : rec = Of(records, v)
    BY OfIsRecord DEF Types
  <2>2. Fits(rec, b, Handed(v)')
    BY <1>2, <1>3, <2>1, FitsMore
  <2>3. QED
    BY <1>1, <2>1, <2>2
<1>5. KnowsLog(v, b)'
  BY <1>1, <1>2, <1>3, KnowsLogKept
<1>6. Fetching(v, b)'
  <2>1. CASE req' = Request /\ UNCHANGED <<todo, delta, i>>
    <3>1. Current' = Current
      BY <2>1 DEF Current
    <3>2. CASE Current = v
      BY <1>1, <1>2, <2>1, <3>1, <3>2, FirstRequest DEF Fetching
    <3>3. CASE Current # v
      BY <3>1, <3>3 DEF Fetching
    <3>4. QED
      BY <3>2, <3>3
  <2>2. CASE NextUser
    <3>1. phase' = "next"
      BY <2>2 DEF NextUser, Goes
    <3>2. QED
      BY <3>1, NotFetching
  <2>3. QED
    BY <2>1, <2>2 DEF SendCommand
<1>7. QED
  BY <1>1, <1>2, <1>3, <1>4, <1>5, <1>6 DEF Knows, KnowsLog, KnowsLine

(* The noon loop comes to a valve: its delta is the number of records      *)
(* between two record numbers, of which the second was reported.           *)
LEMMA WhileKnows ==
  ASSUME Types, NEW v \in Users, NEW b \in 0 .. written[v], Knows(v, b),
         While, Regular(v)'
  PROVE  Knows(v, b)'
<1>1. /\ UNCHANGED <<idx, line, written, got>>
      /\ phase = "next" /\ todo # {}
      /\ records' = [k \in DOMAIN records \union {Current} |-> Of(records, k)]
      /\ \/ phase' = "next" \/ phase' = "spin"
         \/ phase' = "ask" /\ todo' = todo
  BY DEF While, NextUser, Goes, logVars
<1>2. Of(records', v) = Of(records, v) /\ b \in Nat /\ written[v] \in Nat
  BY <1>1 DEF Of, Types
<1>3. CASE phase' = "ask" /\ Current = v
  <2>1. PICK rec \in Record : rec = Of(records, v)
    BY OfIsRecord DEF Types
  <2>2. Fits(rec, b, Handed(v)) /\ written[v] < rec.at + Cells /\ Current' = v
    BY <1>1, <1>3, <2>1, KnowsIs DEF Current
  <2>3. PICK m \in rec.at .. b : rec.last % Overrun = m % Cells
    BY <2>2 DEF Fits
  <2>4. /\ rec.at \in Nat /\ rec.sent = rec.at % Cells
        /\ m \in Nat /\ m < rec.at + Cells /\ rec.at <= m
    <3>1. rec.at \in Nat /\ rec.sent = rec.at % Cells
      BY <2>2 DEF Fits, Record
    <3>2. QED
      BY <1>2, <2>2, <2>3, <3>1, SizesAreNumbers
  <2>5. /\ delta' = (rec.last % Overrun) - rec.sent
                      + IF rec.last % Overrun < rec.sent THEN Cells ELSE 0
        /\ i' = 0 /\ delta' # 0
        /\ skipped' = IF delta' > Payload THEN skipped \union {v} ELSE skipped
    BY <1>3, <2>1 DEF While, NextUser, Goes
  <2>6. delta' = m - rec.at
    <3>1. (m % Cells) - (rec.at % Cells) + (IF m % Cells < rec.at % Cells THEN Cells ELSE 0)
            = m - rec.at
      BY <2>4, SizesAreNumbers, DeltaIsDistance
    <3>2. QED
      BY <2>3, <2>4, <2>5, <3>1
  <2>7. ~ (delta' > Payload)
    BY <2>5 DEF Regular
  <2>8. delta' \in 1 .. Payload /\ rec.at + delta' = m /\ rec.at + delta' <= b
    BY <1>2, <2>3, <2>4, <2>5, <2>6, <2>7, SizesAreNumbers
  <2>9. records'[v] = rec
    BY <1>1, <1>3, <2>1
  <2>10. Fetching(v, b)'
    BY <1>3, <2>3, <2>5, <2>8, <2>9 DEF Fetching
  <2>11. QED
    BY <1>1, <1>2, <2>10, KnowsKept
<1>4. CASE ~ (phase' = "ask" /\ Current = v)
  <2>1. Fetching(v, b)'
    BY <1>1, <1>4 DEF Fetching, Current
  <2>2. QED
    BY <1>1, <1>2, <2>1, KnowsKept
<1>5. QED
  BY <1>3, <1>4

(* What a load would find of v now fits as well; nothing fits always.      *)
LEMMA LoadedFits ==
  ASSUME Types, NEW v \in Users, NEW b \in Nat, KnowsLog(v, b)
  PROVE  Fits(Of(Loaded, v), b, Handed(v))
<1>1. /\ \A k \in DOMAIN Loaded :
           \E a \in 1 .. Len(idx) : idx[a].of = k /\ Loaded[k] = idx[a].data
  BY LoadedIsEntry, IdxEntry
<1>2. CASE v \in DOMAIN Loaded
  BY <1>1, <1>2 DEF Of, KnowsLog
<1>3. CASE v \notin DOMAIN Loaded
  <2>1. 0 % Cells = 0 /\ 0 % Overrun = 0
    <3>1. /\ 0 \in Nat /\ 0 \in Int /\ 0 \in 0 .. Cells - 1 /\ 0 \in 0 .. Overrun - 1
          /\ Cells \in Nat \ {0} /\ Overrun \in Nat \ {0}
          /\ 0 = Cells * 0 + 0 /\ 0 = Overrun * 0 + 0
      BY SizesAreNumbers
    <3>2. 0 % Cells = 0
      BY <3>1, Remainder
    <3>3. 0 % Overrun = 0
      BY <3>1, Remainder
    <3>4. QED
      BY <3>2, <3>3
  <2>2. Of(Loaded, v) = NoRecord
    BY <1>3 DEF Of
  <2>3. 0 \in 0 .. b /\ 1 .. 0 \subseteq Handed(v)
    OBVIOUS
  <2>4. NoRecord.sent = 0 /\ NoRecord.last = 0 /\ NoRecord.at = 0
    BY DEF NoRecord
  <2>5. QED
    BY <2>1, <2>2, <2>3, <2>4 DEF Fits
<1>4. QED
  BY <1>2, <1>3

LEMMA CrashKnows ==
  ASSUME Types, NEW v \in Users, NEW b \in 0 .. written[v], Knows(v, b),
         Crash, Regular(v)'
  PROVE  Knows(v, b)'
<1>1. /\ UNCHANGED <<idx, written, got>>
      /\ phase' = "idle" /\ records' = Loaded
      /\ line' \in {line, <<>>}
      /\ mistaken' = IF line' = line THEN mistaken
                     ELSE mistaken \union {line[k].req.from : k \in 1 .. Len(line)}
      /\ overrun' = overrun \union {u \in Users : written[u] - Of(records', u).at >= Cells}
  BY DEF Crash, LogCrash, Goes
<1>2. KnowsLog(v, b) /\ KnowsLine(v, b) /\ b \in Nat /\ written[v] \in Nat
  BY KnowsIs DEF Types
<1>3. Handed(v) \subseteq Handed(v)' /\ KnowsLine(v, b)'
  <2>1. CASE line' = line
    BY <1>1, <1>2, <2>1, HandedSame DEF KnowsLine
  <2>2. CASE line' # line
    <3>1. v \notin {line[k].req.from : k \in 1 .. Len(line)} /\ line' = <<>>
      BY <1>1, <2>2 DEF Regular
    <3>2. Len(line') = 0
      BY <3>1, EmptySeq
    <3>3. QED
      BY <1>1, <3>1, <3>2, HandedLost DEF KnowsLine
  <2>3. QED
    BY <2>1, <2>2
<1>4. KnowsLog(v, b)'
  BY <1>1, <1>2, <1>3, KnowsLogKept
<1>5. PICK rec \in Record : rec = Of(Loaded, v)
  <2>1. \A k \in DOMAIN Loaded : Loaded[k] \in Record
    BY LoadedIsEntry, IdxEntry
  <2>2. QED
    BY <2>1, SizesAreNumbers DEF Of
<1>6. Fits(Of(records', v), b, Handed(v)')
  BY <1>1, <1>2, <1>3, <1>5, LoadedFits, FitsMore
<1>7. written'[v] < Of(records', v).at + Cells
  <2>1. ~ (written[v] - rec.at >= Cells)
    BY <1>1, <1>5 DEF Regular
  <2>2. rec.at \in Nat
    BY DEF Record
  <2>3. QED
    BY <1>1, <1>2, <1>5, <2>1, <2>2, SizesAreNumbers
<1>8. Fetching(v, b)'
  BY <1>1, NotFetching
<1>9. QED
  BY <1>3, <1>4, <1>6, <1>7, <1>8 DEF Knows, KnowsLog, KnowsLine

LEMMA SaveKnows ==
  ASSUME Types, NEW v \in Users, NEW b \in Nat, Knows(v, b), Save
  PROVE  Knows(v, b)'
<1>1. /\ UNCHANGED <<records, line, written, got>>
      /\ phase' \notin {"ask", "wait"}
  BY DEF Save, fetch, histories, Goes
<1>2. /\ Fits(Of(records, v), b, Handed(v)) /\ KnowsLog(v, b) /\ KnowsLine(v, b)
      /\ written[v] < Of(records, v).at + Cells
  BY KnowsIs
<1>3. Handed(v)' = Handed(v)
  BY <1>1, HandedSame
<1>4. KnowsLog(v, b)'
  <2>1. CASE UNCHANGED idx
    BY <1>2, <1>3, <2>1, KnowsLogKept
  <2>2. CASE idx' = <<>>
    <3>1. Len(idx') = 0
      BY <2>2, EmptySeq
    <3>2. QED
      BY <3>1 DEF KnowsLog
  <2>3. CASE \E ok \in BOOLEAN : PutIndex(records, ok) /\ ok
    <3> DEFINE k == Smallest(unput)
    <3>1. idx' = Append(idx, [of |-> k, data |-> records[k]]) /\ step = "index"
      BY <2>3 DEF PutIndex
    <3>2. k \in DOMAIN records
      BY <3>1, SmallestKey DEF Types, LogTypes
    <3>3. k = v => Fits(records[k], b, Handed(v))
      BY <1>2, <3>2 DEF Of
    <3> HIDE DEF k
    <3>4. PICK entry : entry = [of |-> k, data |-> records[k]]
      OBVIOUS
    <3>5. /\ Len(idx) \in Nat /\ Len(idx') = Len(idx) + 1
          /\ \A a \in 1 .. Len(idx) : idx'[a] = idx[a]
          /\ idx'[Len(idx) + 1] = entry
      <4>1. idx \in Seq([of : Keys, data : Record]) /\ k \in Keys /\ records[k] \in Record
        BY <3>2 DEF Types, LogTypes
      <4>2. entry \in [of : Keys, data : Record]
        BY <3>4, <4>1
      <4>3. QED
        BY <3>1, <3>4, <4>1, <4>2, AppendProperties, LenProperties
    <3>6. ASSUME NEW a \in 1 .. Len(idx'), idx'[a].of = v
          PROVE  Fits(idx'[a].data, b, Handed(v))
      <4>1. CASE a = Len(idx) + 1
        <5>1. k = v /\ idx'[a].data = records[k]
          BY <3>4, <3>5, <3>6, <4>1
        <5>2. QED
          BY <3>3, <5>1
      <4>2. CASE a # Len(idx) + 1
        <5>1. a \in 1 .. Len(idx) /\ idx'[a] = idx[a]
          BY <3>5, <4>2
        <5>2. Fits(idx[a].data, b, Handed(v))
          BY <1>2, <3>6, <5>1 DEF KnowsLog
        <5>3. QED
          BY <5>1, <5>2
      <4>3. QED
        BY <4>1, <4>2
    <3>7. QED
      BY <1>3, <3>6 DEF KnowsLog
  <2>4. QED
    BY <2>1, <2>2, <2>3 DEF Save, OpenNew, PutData, PutIndex, Close, logVars
<1>5. Fetching(v, b)'
  BY <1>1, NotFetching
<1>6. QED
  BY <1>1, <1>2, <1>3, <1>4, <1>5 DEF Knows, KnowsLog, KnowsLine

(* What once happened to a valve's records is not forgotten.               *)
LEMMA RegularBefore ==
  ASSUME [Next]_vars, NEW v \in Users, Regular(v)'
  PROVE  Regular(v)
<1>1. skipped \subseteq skipped' /\ mistaken \subseteq mistaken' /\ overrun \subseteq overrun'
  <2>1. CASE UNCHANGED histories
    BY <2>1 DEF histories
  <2>2. CASE ReadPacket \/ While \/ WaitCmdAck \/ WaitTimeout
    BY <2>2 DEF ReadPacket, While, WaitCmdAck, WaitTimeout
  <2>3. CASE Crash
    BY <2>3 DEF Crash
  <2>4. CASE \E u \in Users : Recharged(u)
    BY <2>4 DEF Recharged
  <2>5. QED
    BY <2>1, <2>2, <2>3, <2>4 DEF Next, Run, vars, PunctualRound, Report, Save, Noon,
       NoonDone, SendCommand, Fetched
<1>2. QED
  BY <1>1 DEF Regular

LEMMA InitFetch == Init => FetchInv
<1> SUFFICES ASSUME Init, NEW v \in Users
             PROVE  \E b \in 0 .. written[v] : Knows(v, b)
  BY DEF FetchInv
<1>1. /\ written[v] = 0 /\ idx = <<>> /\ line = <<>> /\ phase = "idle"
      /\ Of(records, v) = NoRecord
  BY DEF Init, LogInit, Of
<1>2. Types
  BY InitTypes
<1>3. Len(idx) = 0 /\ Len(line) = 0
  BY <1>1, EmptySeq
<1>4. KnowsLog(v, 0) /\ KnowsLine(v, 0)
  BY <1>3 DEF KnowsLog, KnowsLine
<1>5. Fits(NoRecord, 0, Handed(v))
  <2>1. Of(Loaded, v) = NoRecord
    <3>1. DOMAIN Loaded = {}
      BY <1>3, LoadedIsEntry
    <3>2. QED
      BY <3>1 DEF Of
  <2>2. QED
    BY <1>2, <1>4, <2>1, LoadedFits
<1>6. Knows(v, 0)
  <2>1. written[v] < NoRecord.at + Cells
    BY <1>1, SizesAreNumbers DEF NoRecord
  <2>2. Fetching(v, 0)
    BY <1>1 DEF Fetching
  <2>3. QED
    BY <1>1, <1>4, <1>5, <2>1, <2>2, KnowsIs
<1>7. QED
  BY <1>1, <1>6

LEMMA FetchStep ==
  ASSUME Types, FetchInv, [Next]_vars
  PROVE  FetchInv'
<1> SUFFICES ASSUME NEW v \in Users, Regular(v)'
             PROVE  \E c \in 0 .. written'[v] : Knows(v, c)'
  BY DEF FetchInv
<1>1. PICK b \in 0 .. written[v] : Knows(v, b)
  BY RegularBefore DEF FetchInv
<1>2. b \in Nat /\ written[v] \in Nat
  BY DEF Types
<1>3. CASE Run \/ Crash
  <2>1. Knows(v, b)'
    BY <1>1, <1>2, <1>3, RoundKnows, ReadPacketKnows, SaveKnows, WhileKnows,
       SendCommandKnows, WaitCmdAckKnows, WaitTimeoutKnows, CrashKnows DEF Run
  <2>2. written' = written
    BY <1>3 DEF Run, PunctualRound, ReadPacket, Save, Noon, NoonDone, While, SendCommand,
       WaitCmdAck, WaitTimeout, Fetched, Crash
  <2>3. QED
    BY <2>1, <2>2
<1>4. CASE \E u \in Users : Recharged(u)
  <2>1. Knows(v, b)'
    BY <1>1, <1>2, <1>4, RechargedKnows
  <2>2. b \in 0 .. written'[v]
    BY <1>2, <1>4 DEF Recharged, Types
  <2>3. QED
    BY <2>1, <2>2
<1>5. CASE \E u \in Users : Report(u)
  BY <1>1, <1>2, <1>5, ReportKnows
<1>6. CASE UNCHANGED vars
  <2>1. UNCHANGED <<logVars, phase, records, line, written, got, todo, delta, i, req>>
    BY <1>6 DEF vars, fetch, histories
  <2>2. Fetching(v, b)'
    BY <1>1, <2>1, KnowsIs DEF Fetching, Current
  <2>3. Knows(v, b)'
    BY <1>1, <1>2, <2>1, <2>2, KnowsKept DEF logVars
  <2>4. QED
    BY <2>1, <2>3
<1>7. QED
  BY <1>3, <1>4, <1>5, <1>6 DEF Next

LEMMA FetchInduct == Spec => []FetchInv
<1>1. QED
  BY InitFetch, FetchStep, TypesInduct, PTL DEF Spec

(* The pointer of a valve never passes a record that was not handed over,  *)
(* in memory or in the file that a restart will load, whatever packet is   *)
(* lost, whatever save is interrupted, and however often the pointer goes  *)
(* round its ring: GetRechargeData moves sentRecharge for every packet it  *)
(* takes, and looks at it only then.                                       *)
THEOREM PointerIsBacked == Spec => []FetchedUpToPointer
<1>1. Types /\ FetchInv => FetchedUpToPointer
  <2> SUFFICES ASSUME Types, FetchInv, NEW v \in Users, Regular(v)
               PROVE  1 .. Of(records, v).at \union 1 .. Of(Loaded, v).at
                        \subseteq got[v] \union OnLine(v)
    BY DEF FetchedUpToPointer
  <2>1. PICK b \in 0 .. written[v] : Knows(v, b)
    BY DEF FetchInv
  <2>2. b \in Nat
    BY DEF Types
  <2>3. Fits(Of(records, v), b, Handed(v)) /\ Fits(Of(Loaded, v), b, Handed(v))
    BY <2>1, <2>2, KnowsIs, LoadedFits
  <2>4. QED
    BY <2>3 DEF Fits, Handed
<1>2. QED
  BY <1>1, TypesInduct, FetchInduct, PTL

==============================================================================
