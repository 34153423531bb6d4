---------------------------- MODULE CBufferProofs ----------------------------
(***************************************************************************)
(* What CBuffer promises, for every size of the buffer, every modulus of   *)
(* the counters it divides and any number of producers: until a producer   *)
(* without the mutex meets another one, no cell is shared, packets leave   *)
(* whole, and the buffer is a bounded FIFO queue; and two producers that   *)
(* both take the mutex never meet.                                         *)
(***************************************************************************)
EXTENDS CBuffer, Integers, TLAPS

------------------------------------------------------------------------------
(* Remainders                                                              *)

(* Quotient and remainder.                                                 *)
LEMMA DivMod ==
  ASSUME NEW m \in Nat \ {0}, NEW x \in Nat
  PROVE  /\ x = m * (x \div m) + (x % m)
         /\ x \div m \in Nat
         /\ x % m \in 0 .. m - 1
  OBVIOUS

(* They are the only ones.                                                 *)
LEMMA ModUnique ==
  ASSUME NEW m \in Nat \ {0}, NEW a \in Int, NEW b \in Int,
         NEW s \in 0 .. m - 1, NEW t \in 0 .. m - 1,
         m * a + s = m * b + t
  PROVE  s = t
<1>1. m * (a - b) = t - s
  OBVIOUS
<1>2. CASE a - b >= 1
  <2>1. m * (a - b) >= m
    BY <1>2
  <2>2. QED
    BY <2>1, <1>1
<1>3. CASE a - b <= -1
  <2>1. m * (a - b) <= -m
    BY <1>3
  <2>2. QED
    BY <2>1, <1>1
<1>4. CASE a = b
  BY <1>4
<1>5. QED
  BY <1>2, <1>3, <1>4

(* A sum of two counters is reduced by one subtraction.                    *)
LEMMA ReduceOnce ==
  ASSUME NEW m \in Nat \ {0}, NEW x \in 0 .. 2 * m - 1
  PROVE  x % m = IF x < m THEN x ELSE x - m
<1>1. /\ x = m * (x \div m) + (x % m)
      /\ x \div m \in Int
      /\ x % m \in 0 .. m - 1
  BY DivMod
<1>2. CASE x < m
  <2>1. m * 0 + x = m * (x \div m) + (x % m)
    BY <1>1
  <2>2. x \in 0 .. m - 1
    BY <1>2
  <2>3. QED
    BY <1>1, <1>2, <2>1, <2>2, ModUnique
<1>3. CASE x >= m
  <2>1. m * 1 + (x - m) = m * (x \div m) + (x % m)
    BY <1>1
  <2>2. x - m \in 0 .. m - 1
    BY <1>3
  <2>3. QED
    BY <1>1, <1>3, <2>1, <2>2, ModUnique
<1>4. QED
  BY <1>2, <1>3

(* Adding a multiple of the modulus changes nothing.                       *)
LEMMA ModShift ==
  ASSUME NEW m \in Nat \ {0}, NEW k \in Nat, NEW y \in Nat
  PROVE  (y + m * k) % m = y % m
<1> DEFINE z == y + m * k
           a == y \div m
           b == z \div m
<1>1. z \in Nat
  OBVIOUS
<1>2. y = m * a + (y % m) /\ a \in Nat /\ y % m \in 0 .. m - 1
  BY DivMod
<1>3. z = m * b + (z % m) /\ b \in Nat /\ z % m \in 0 .. m - 1
  BY <1>1, DivMod
<1>4. z = y + m * k
  OBVIOUS
<1> HIDE DEF z, a, b
<1>5. m * (a + k) = m * a + m * k
  BY <1>2
<1>6. m * k \in Nat /\ m * a \in Nat /\ m * b \in Nat
  BY <1>2, <1>3
<1>7. m * (a + k) + (y % m) = m * b + (z % m)
  BY <1>2, <1>3, <1>4, <1>5, <1>6
<1>8. y % m = z % m
  BY <1>2, <1>3, <1>7, ModUnique
<1>9. QED
  BY <1>8, <1>4

------------------------------------------------------------------------------
(* Cells                                                                   *)

Ring(size, modulus) == modulus > size /\ modulus % size = 0

(* Wrapping a counter does not change its cell.                            *)
LEMMA WrapKeepsCell ==
  ASSUME NEW size \in Nat \ {0}, NEW modulus \in Nat \ {0}, Ring(size, modulus),
         NEW x \in 0 .. 2 * modulus - 1
  PROVE  (x % modulus) % size = x % size
<1>1. size < modulus
  BY DEF Ring
<1>2. x % modulus = IF x < modulus THEN x ELSE x - modulus
  BY <1>1, ReduceOnce
<1>3. CASE x < modulus
  BY <1>2, <1>3
<1>4. CASE x >= modulus
  <2>1. PICK k \in Nat : modulus = size * k
    <3>1. /\ modulus = size * (modulus \div size) + (modulus % size)
          /\ modulus \div size \in Nat
      BY <1>1, DivMod
    <3>2. modulus = size * (modulus \div size)
      BY <1>1, <3>1 DEF Ring
    <3>3. QED
      BY <3>1, <3>2
  <2>2. PICK y \in Nat : x = y + modulus
    <3>1. x - modulus \in Nat /\ x = (x - modulus) + modulus
      BY <1>1, <1>4
    <3>2. QED
      BY <3>1
  <2>3. x = y + size * k
    BY <2>1, <2>2
  <2>4. (y + size * k) % size = y % size
    BY <1>1, ModShift
  <2>5. x % modulus = y
    BY <1>1, <1>2, <1>4, <2>2
  <2>6. QED
    BY <2>3, <2>4, <2>5
<1>5. QED
  BY <1>1, <1>3, <1>4

(* At most as many counter values in a row as there are cells have         *)
(* pairwise distinct cells.                                                *)
LEMMA RowHasDistinctCells ==
  ASSUME NEW size \in Nat \ {0}, NEW modulus \in Nat \ {0}, Ring(size, modulus),
         NEW x \in 0 .. modulus - 1,
         NEW i \in 0 .. size - 1, NEW j \in 0 .. size - 1, i # j
  PROVE  ((x + i) % modulus) % size # ((x + j) % modulus) % size
<1>1. size < modulus
  BY DEF Ring
<1>2. x + i \in 0 .. 2 * modulus - 1 /\ x + j \in 0 .. 2 * modulus - 1
  BY <1>1
<1>3. /\ ((x + i) % modulus) % size = (x + i) % size
      /\ ((x + j) % modulus) % size = (x + j) % size
  BY <1>2, WrapKeepsCell
<1>4. /\ x + i = size * ((x + i) \div size) + ((x + i) % size)
      /\ x + j = size * ((x + j) \div size) + ((x + j) % size)
      /\ (x + i) \div size \in Int /\ (x + j) \div size \in Int
  <2>1. x + i \in Nat /\ x + j \in Nat
    BY <1>1, <1>2
  <2>2. ASSUME NEW y \in Nat
        PROVE  y = size * (y \div size) + (y % size) /\ y \div size \in Int
    OBVIOUS
  <2>3. QED
    BY <2>1, <2>2
<1>5. SUFFICES ASSUME (x + i) % size = (x + j) % size
               PROVE  FALSE
  BY <1>3
<1> DEFINE a == (x + i) \div size
           b == (x + j) \div size
           t == (x + i) % size
<1>6. i - j = size * (a - b) /\ a \in Int /\ b \in Int
  <2>1. x + i = size * a + t /\ x + j = size * b + t
    BY <1>4, <1>5
  <2>2. a \in Int /\ b \in Int /\ t \in Int
    BY <1>1, <1>2, <1>4
  <2> HIDE DEF a, b, t
  <2>3. size * a \in Int /\ size * b \in Int
    BY <1>1, <2>2
  <2>4. i - j = size * a - size * b
    BY <1>1, <2>1, <2>2, <2>3
  <2>5. size * (a - b) = size * a - size * b
    BY <1>1, <2>2
  <2>6. QED
    BY <2>2, <2>4, <2>5
<1> HIDE DEF a, b
<1>7. CASE a - b >= 1
  <2>1. size * (a - b) >= size
    BY <1>1, <1>6, <1>7
  <2>2. QED
    BY <1>1, <1>6, <2>1
<1>8. CASE a - b <= -1
  <2>1. size * (a - b) <= -size
    BY <1>1, <1>6, <1>8
  <2>2. QED
    BY <1>1, <1>6, <2>1
<1>9. CASE a = b
  BY <1>1, <1>6, <1>9
<1>10. QED
  BY <1>6, <1>7, <1>8, <1>9

------------------------------------------------------------------------------
(* The distance between the counters                                       *)

Gap(a, b, modulus) == (a + modulus - b) % modulus

Succ(a, modulus) == (a + 1) % modulus

LEMMA GapValue ==
  ASSUME NEW modulus \in Nat \ {0}, NEW a \in 0 .. modulus - 1, NEW b \in 0 .. modulus - 1
  PROVE  /\ Gap(a, b, modulus) = IF a >= b THEN a - b ELSE a + modulus - b
         /\ Gap(a, b, modulus) \in 0 .. modulus - 1
         /\ (b + Gap(a, b, modulus)) % modulus = a
<1>1. PICK d \in 0 .. 2 * modulus - 1 : d = a + modulus - b
  <2>1. a + modulus - b \in 0 .. 2 * modulus - 1
    OBVIOUS
  <2>2. QED
    BY <2>1
<1>2. Gap(a, b, modulus) = IF a >= b THEN a - b ELSE a + modulus - b
  <2>1. d % modulus = IF d < modulus THEN d ELSE d - modulus
    BY ReduceOnce
  <2>2. (IF d < modulus THEN d ELSE d - modulus) = IF a >= b THEN a - b ELSE a + modulus - b
    BY <1>1
  <2>3. QED
    BY <1>1, <2>1, <2>2 DEF Gap
<1>3. Gap(a, b, modulus) \in 0 .. modulus - 1
  BY <1>2
<1>4. PICK e \in 0 .. 2 * modulus - 1 : e = b + Gap(a, b, modulus)
  BY <1>3
<1>5. e = IF a >= b THEN a ELSE a + modulus
  BY <1>2, <1>4
<1>6. e % modulus = IF e < modulus THEN e ELSE e - modulus
  BY ReduceOnce
<1>7. (b + Gap(a, b, modulus)) % modulus = a
  BY <1>4, <1>5, <1>6
<1>8. QED
  BY <1>2, <1>3, <1>7

LEMMA SuccValue ==
  ASSUME NEW modulus \in Nat \ {0}, NEW a \in 0 .. modulus - 1
  PROVE  /\ Succ(a, modulus) = IF a = modulus - 1 THEN 0 ELSE a + 1
         /\ Succ(a, modulus) \in 0 .. modulus - 1
<1>1. PICK d \in 0 .. 2 * modulus - 1 : d = a + 1
  <2>1. a + 1 \in 0 .. 2 * modulus - 1
    OBVIOUS
  <2>2. QED
    BY <2>1
<1>2. d % modulus = IF d < modulus THEN d ELSE d - modulus
  BY ReduceOnce
<1>3. (IF d < modulus THEN d ELSE d - modulus) = IF a = modulus - 1 THEN 0 ELSE a + 1
  BY <1>1
<1>4. Succ(a, modulus) = IF a = modulus - 1 THEN 0 ELSE a + 1
  BY <1>1, <1>2, <1>3 DEF Succ
<1>5. QED
  BY <1>4

(* cbuffer_write_done makes the distance one more ...                      *)
LEMMA GapAfterWrite ==
  ASSUME NEW modulus \in Nat \ {0}, NEW a \in 0 .. modulus - 1, NEW b \in 0 .. modulus - 1,
         Gap(a, b, modulus) < modulus - 1
  PROVE  Gap(Succ(a, modulus), b, modulus) = Gap(a, b, modulus) + 1
<1>1. PICK c \in 0 .. modulus - 1 : c = Succ(a, modulus)
  BY SuccValue
<1>2. c = IF a = modulus - 1 THEN 0 ELSE a + 1
  BY <1>1, SuccValue
<1>3. Gap(c, b, modulus) = IF c >= b THEN c - b ELSE c + modulus - b
  BY GapValue
<1>4. Gap(a, b, modulus) = IF a >= b THEN a - b ELSE a + modulus - b
  BY GapValue
<1>5. Gap(c, b, modulus) = Gap(a, b, modulus) + 1
  BY <1>2, <1>3, <1>4
<1>6. QED
  BY <1>1, <1>5

(* ... and cbuffer_read_done one less.                                     *)
LEMMA GapAfterRead ==
  ASSUME NEW modulus \in Nat \ {0}, NEW a \in 0 .. modulus - 1, NEW b \in 0 .. modulus - 1,
         Gap(a, b, modulus) > 0
  PROVE  Gap(a, Succ(b, modulus), modulus) = Gap(a, b, modulus) - 1
<1>1. PICK c \in 0 .. modulus - 1 : c = Succ(b, modulus)
  BY SuccValue
<1>2. c = IF b = modulus - 1 THEN 0 ELSE b + 1
  BY <1>1, SuccValue
<1>3. Gap(a, c, modulus) = IF a >= c THEN a - c ELSE a + modulus - c
  BY GapValue
<1>4. Gap(a, b, modulus) = IF a >= b THEN a - b ELSE a + modulus - b
  BY GapValue
<1>5. Gap(a, c, modulus) = Gap(a, b, modulus) - 1
  BY <1>2, <1>3, <1>4
<1>6. QED
  BY <1>1, <1>5

(* The row behind a counter is the one before it without its first.        *)
LEMMA RowAfterSucc ==
  ASSUME NEW modulus \in Nat \ {0}, NEW b \in 0 .. modulus - 1, NEW i \in 0 .. modulus - 1
  PROVE  (Succ(b, modulus) + i) % modulus = (b + (i + 1)) % modulus
<1>1. PICK c \in 0 .. modulus - 1 : c = Succ(b, modulus)
  BY SuccValue
<1>2. c = IF b = modulus - 1 THEN 0 ELSE b + 1
  BY <1>1, SuccValue
<1>3. b + (i + 1) \in 0 .. 2 * modulus - 1 /\ c + i \in 0 .. 2 * modulus - 1
  OBVIOUS
<1>4. PICK x \in 0 .. 2 * modulus - 1, y \in 0 .. 2 * modulus - 1 :
        x = b + (i + 1) /\ y = c + i
  BY <1>3
<1>5. x % modulus = IF x < modulus THEN x ELSE x - modulus
  BY ReduceOnce
<1>6. y % modulus = IF y < modulus THEN y ELSE y - modulus
  BY ReduceOnce
<1>7. x % modulus = y % modulus
  BY <1>2, <1>4, <1>5, <1>6
<1>8. QED
  BY <1>1, <1>4, <1>7

(* All this of the counters of one buffer.                                 *)
CellIsKept(size, modulus) ==
  \A x \in 0 .. 2 * modulus - 1 : (x % modulus) % size = x % size

CellsDiffer(size, modulus) ==
  \A x \in 0 .. modulus - 1, i \in 0 .. size - 1, j \in 0 .. size - 1 :
    i # j => ((x + i) % modulus) % size # ((x + j) % modulus) % size

GapIs(modulus) ==
  \A a \in 0 .. modulus - 1, b \in 0 .. modulus - 1 :
    /\ Gap(a, b, modulus) = IF a >= b THEN a - b ELSE a + modulus - b
    /\ Gap(a, b, modulus) \in 0 .. modulus - 1
    /\ (b + Gap(a, b, modulus)) % modulus = a

GapMoves(modulus) ==
  \A a \in 0 .. modulus - 1, b \in 0 .. modulus - 1 :
    /\ Gap(a, b, modulus) < modulus - 1 =>
         Gap(Succ(a, modulus), b, modulus) = Gap(a, b, modulus) + 1
    /\ Gap(a, b, modulus) > 0 =>
         Gap(a, Succ(b, modulus), modulus) = Gap(a, b, modulus) - 1

RowMoves(modulus) ==
  \A b \in 0 .. modulus - 1, i \in 0 .. modulus - 1 :
    (Succ(b, modulus) + i) % modulus = (b + (i + 1)) % modulus

CountersWrap(size, modulus) ==
  /\ CellIsKept(size, modulus) /\ CellsDiffer(size, modulus)
  /\ GapIs(modulus) /\ GapMoves(modulus) /\ RowMoves(modulus)

LEMMA RingCounters ==
  ASSUME NEW size \in Nat \ {0}, NEW modulus \in Nat \ {0}, Ring(size, modulus)
  PROVE  CountersWrap(size, modulus)
<1>1. CellIsKept(size, modulus)
  BY WrapKeepsCell DEF CellIsKept
<1>2. CellsDiffer(size, modulus)
  BY RowHasDistinctCells DEF CellsDiffer
<1>3. GapIs(modulus)
  BY GapValue DEF GapIs
<1>4. GapMoves(modulus)
  BY GapAfterWrite, GapAfterRead DEF GapMoves
<1>5. RowMoves(modulus)
  BY RowAfterSucc DEF RowMoves
<1>6. QED
  BY <1>1, <1>2, <1>3, <1>4, <1>5 DEF CountersWrap

------------------------------------------------------------------------------
(* Counters: 2^32 is a multiple of the number of cells. *)

LEMMA CountersAreRing ==
  Size \in Nat \ {0} /\ Wrap \in Nat \ {0} /\ Ring(Size, Wrap)
BY SizeAssumption, WrapAssumption DEF Ring

LEMMA WrapPositive == Wrap \in Nat \ {0} /\ Wrap > Size
BY SizeAssumption, WrapAssumption

(* Wrapping a counter does not change its cell.                            *)
LEMMA CellOfWrapped ==
  ASSUME NEW x \in 0 .. 2 * Wrap - 1
  PROVE  Cell(x % Wrap) = Cell(x)
BY CountersAreRing, WrapKeepsCell DEF Cell

(* Fewer than Size counter values from r on have pairwise distinct cells.  *)
LEMMA CellsDistinct ==
  ASSUME NEW x \in 0 .. Wrap - 1,
         NEW i \in 0 .. Size - 1, NEW j \in 0 .. Size - 1, i # j
  PROVE  Cell((x + i) % Wrap) # Cell((x + j) % Wrap)
BY CountersAreRing, RowHasDistinctCells DEF Cell

LEMMA CellInRange ==
  ASSUME NEW x \in Nat
  PROVE  Cell(x) \in 0 .. Size - 1
BY SizeAssumption DEF Cell

------------------------------------------------------------------------------
(* The number of published packets. *)

(* cbuffer_count is the distance from the read to the write counter.       *)
Distance(a, b) == Gap(a, b, Wrap)

LEMMA IncIsSucc == \A a : Inc(a) = Succ(a, Wrap)
BY DEF Inc, Succ

LEMMA DistanceValue ==
  ASSUME NEW a \in 0 .. Wrap - 1, NEW b \in 0 .. Wrap - 1
  PROVE  /\ Distance(a, b) = IF a >= b THEN a - b ELSE a + Wrap - b
         /\ Distance(a, b) \in 0 .. Wrap - 1
         /\ (b + Distance(a, b)) % Wrap = a
BY WrapPositive, GapValue DEF Distance

LEMMA IncValue ==
  ASSUME NEW a \in 0 .. Wrap - 1
  PROVE  /\ Inc(a) = IF a = Wrap - 1 THEN 0 ELSE a + 1
         /\ Inc(a) \in 0 .. Wrap - 1
BY WrapPositive, IncIsSucc, SuccValue

(* cbuffer_write_done makes it one more.                                   *)
LEMMA DistanceWrite ==
  ASSUME NEW a \in 0 .. Wrap - 1, NEW b \in 0 .. Wrap - 1, Distance(a, b) < Size
  PROVE  Distance(Inc(a), b) = Distance(a, b) + 1
<1>1. Distance(a, b) < Wrap - 1
  BY DistanceValue, WrapPositive, SizeAssumption
<1>2. QED
  BY <1>1, WrapPositive, IncIsSucc, GapAfterWrite DEF Distance

(* cbuffer_read_done makes it one less.                                    *)
LEMMA DistanceRead ==
  ASSUME NEW a \in 0 .. Wrap - 1, NEW b \in 0 .. Wrap - 1, Distance(a, b) > 0
  PROVE  Distance(a, Inc(b)) = Distance(a, b) - 1
BY WrapPositive, IncIsSucc, GapAfterRead DEF Distance

LEMMA AfterInc ==
  ASSUME NEW b \in 0 .. Wrap - 1, NEW i \in 0 .. Size
  PROVE  (Inc(b) + i) % Wrap = (b + (i + 1)) % Wrap
<1>1. i \in 0 .. Wrap - 1
  BY WrapPositive, SizeAssumption
<1>2. QED
  BY <1>1, WrapPositive, IncIsSucc, RowAfterSucc

(* The free cell handed out is none of the published ones.                 *)
LEMMA FreeCell ==
  ASSUME TypeOK, Count < Size, NEW i \in 0 .. Count - 1
  PROVE  Cell((r + i) % Wrap) # Cell(w)
<1>1. w \in 0 .. Wrap - 1 /\ r \in 0 .. Wrap - 1
  BY DEF TypeOK
<1>2. (r + Count) % Wrap = w /\ Count \in 0 .. Wrap - 1
  BY <1>1, DistanceValue DEF Count, Distance, Gap
<1>3. i \in 0 .. Size - 1 /\ Count \in 0 .. Size - 1 /\ i # Count
  BY <1>2, SizeAssumption
<1>4. Cell((r + i) % Wrap) # Cell((r + Count) % Wrap)
  BY <1>1, <1>3, CellsDistinct
<1>5. QED
  BY <1>2, <1>4

(* The oldest published cell is the one at r.                              *)
LEMMA OldestCell ==
  ASSUME TypeOK
  PROVE  Cell((r + 0) % Wrap) = Cell(r)
  BY CellOfWrapped, WrapPositive DEF TypeOK

LEMMA CountRange ==
  ASSUME TypeOK
  PROVE  /\ w \in 0 .. Wrap - 1 /\ r \in 0 .. Wrap - 1
         /\ Count \in 0 .. Wrap - 1
         /\ (r + Count) % Wrap = w
         /\ Count = 0 <=> w = r
         /\ Cell(w) \in 0 .. Size - 1 /\ Cell(r) \in 0 .. Size - 1
<1>1. w \in 0 .. Wrap - 1 /\ r \in 0 .. Wrap - 1
  BY DEF TypeOK
<1>2. Count = Distance(w, r)
  BY DEF Count, Distance, Gap
<1>3. /\ Distance(w, r) = IF w >= r THEN w - r ELSE w + Wrap - r
      /\ Distance(w, r) \in 0 .. Wrap - 1
      /\ (r + Distance(w, r)) % Wrap = w
  BY <1>1, DistanceValue
<1>4. Distance(w, r) = 0 <=> w = r
  BY <1>1, <1>3, WrapPositive
<1>5. Cell(w) \in 0 .. Size - 1 /\ Cell(r) \in 0 .. Size - 1
  BY <1>1, CellInRange
<1>6. QED
  BY <1>1, <1>2, <1>3, <1>4, <1>5

LEMMA CountAfterWrite ==
  ASSUME TypeOK, Count < Size, w' = Inc(w), r' = r
  PROVE  Count' = Count + 1
<1>1. w \in 0 .. Wrap - 1 /\ r \in 0 .. Wrap - 1
  BY CountRange
<1>2. Distance(Inc(w), r) = Distance(w, r) + 1
  BY <1>1, DistanceWrite DEF Count, Distance, Gap
<1>3. QED
  BY <1>2 DEF Count, Distance, Gap

LEMMA CountAfterRead ==
  ASSUME TypeOK, Count > 0, w' = w, r' = Inc(r)
  PROVE  Count' = Count - 1
<1>1. w \in 0 .. Wrap - 1 /\ r \in 0 .. Wrap - 1
  BY CountRange
<1>2. Distance(w, Inc(r)) = Distance(w, r) - 1
  BY <1>1, DistanceRead DEF Count, Distance, Gap
<1>3. QED
  BY <1>2 DEF Count, Distance, Gap

------------------------------------------------------------------------------
(* The inductive invariant *)

LEMMA InitInv == Init => CBufferInv
<1> SUFFICES ASSUME Init PROVE CBufferInv
  OBVIOUS
<1> USE DEF Init
<1>1. TypeOK
  <2>1. 0 \in 0 .. Wrap - 1 /\ 0 \in 0 .. Size - 1
    BY WrapPositive, SizeAssumption
  <2>2. out \in (Packets \union {Blank, Foreign}) \X (Packets \union {Blank})
    OBVIOUS
  <2>3. QED
    BY <2>1, <2>2 DEF TypeOK
<1>2. MutexInv /\ SendingInv /\ WholePacketsOnly
  BY DEF MutexInv, SendingInv, WholePacketsOnly
<1>3. ProducerInv /\ AloneInv
  BY DEF ProducerInv, AloneInv, Working
<1>4. Count = 0
  BY <1>1, CountRange
<1>5. PublishedInv
  BY <1>4, SizeAssumption DEF PublishedInv
<1>6. QED
  BY <1>1, <1>2, <1>3, <1>5 DEF CBufferInv, DisciplineInv

LEMMA TypesStep ==
  ASSUME TypeOK, Next
  PROVE  TypeOK'
<1> USE DEF Goes, memory, lineVars, producerVars
<1>1. w \in 0 .. Wrap - 1 /\ r \in 0 .. Wrap - 1
      /\ Cell(w) \in 0 .. Size - 1 /\ Cell(r) \in 0 .. Size - 1
  BY CountRange
<1>2. cells[Cell(r)] \in Packets \union {Blank}
  BY <1>1 DEF TypeOK
<1>3. CASE Consume
  <2>1. CASE Arm \/ BeginSend \/ BeginOther \/ Answered \/ OtherWritten
    BY <1>2, <2>1 DEF Arm, BeginSend, BeginOther, Answered, OtherWritten, TypeOK
  <2>2. CASE EndSend
    <3>1. r' \in 0 .. Wrap - 1
      BY <1>1, <2>2, IncValue DEF EndSend
    <3>2. out' \in (Packets \union {Blank, Foreign}) \X (Packets \union {Blank})
      BY <1>2, <2>2 DEF EndSend, TypeOK
    <3>3. QED
      BY <2>2, <3>1, <3>2 DEF EndSend, TypeOK
  <2>3. CASE EndOther
    BY <2>3 DEF EndOther, TypeOK
  <2>4. QED
    BY <1>3, <2>1, <2>2, <2>3 DEF Consume
<1>4. ASSUME NEW p \in Producers, Produce(p) PROVE TypeOK'
  <2>1. CASE Lock(p) \/ WriteFull(p)
    BY <2>1 DEF Lock, WriteFull, TypeOK
  <2>2. ASSUME NEW x \in Packets, WriteSlot(p, x) PROVE TypeOK'
    BY <1>1, <2>2 DEF WriteSlot, TypeOK
  <2>3. CASE Fill(p)
    BY <2>3 DEF Fill, TypeOK
  <2>4. CASE Load(p)
    BY <1>1, <2>4 DEF Load, TypeOK
  <2>5. CASE WriteDone(p)
    <3>1. w' \in 0 .. Wrap - 1
      BY <2>5, IncValue DEF WriteDone, TypeOK
    <3>2. 0 \in 0 .. Wrap - 1 /\ 0 \in 0 .. Size - 1
      BY WrapPositive, SizeAssumption
    <3>3. QED
      BY <2>5, <3>1, <3>2 DEF WriteDone, TypeOK
  <2>6. QED
    BY <1>4, <2>1, <2>2, <2>3, <2>4, <2>5 DEF Produce
<1>5. QED
  BY <1>3, <1>4 DEF Next

(* One holder of the mutex, and nobody works without it who may not.       *)
LEMMA MutexStep ==
  ASSUME TypeOK, MutexInv, Next
  PROVE  MutexInv'
<1> USE DEF Goes, producerVars
<1>1. CASE Consume
  BY <1>1 DEF Consume, Arm, BeginSend, BeginOther, EndSend, EndOther, Answered, OtherWritten,
     MutexInv
<1>2. ASSUME NEW p \in Producers, Produce(p) PROVE MutexInv'
  <2>1. CASE Lock(p)
    BY <2>1 DEF Lock, MutexInv, TypeOK
  <2>2. CASE WriteFull(p)
    BY <2>2 DEF WriteFull, MutexInv, TypeOK
  <2>3. ASSUME NEW x \in Packets, WriteSlot(p, x) PROVE MutexInv'
    BY <2>3 DEF WriteSlot, MutexInv, TypeOK
  <2>4. CASE Fill(p)
    BY <2>4 DEF Fill, MutexInv, TypeOK
  <2>5. CASE Load(p)
    BY <2>5 DEF Load, MutexInv, TypeOK
  <2>6. CASE WriteDone(p)
    BY <2>6 DEF WriteDone, MutexInv, TypeOK
  <2>7. QED
    BY <1>2, <2>1, <2>2, <2>3, <2>4, <2>5, <2>6 DEF Produce
<1>3. QED
  BY <1>1, <1>2 DEF Next

LEMMA MetStays ==
  ASSUME Next, met
  PROVE  met'
<1>1. CASE Consume
  BY <1>1 DEF Consume, Arm, BeginSend, BeginOther, EndSend, EndOther, Answered, OtherWritten,
     producerVars
<1>2. ASSUME NEW p \in Producers, Produce(p) PROVE met'
  BY <1>2 DEF Produce, Lock, WriteFull, WriteSlot, Fill, Load, WriteDone
<1>3. QED
  BY <1>1, <1>2 DEF Next

(* Steps that touch no cell and no counter.                                *)
LEMMA SameMemory ==
  ASSUME UNCHANGED memory
  PROVE  /\ Count' = Count /\ Cell(w)' = Cell(w) /\ Cell(r)' = Cell(r)
         /\ PublishedInv' <=> PublishedInv
         /\ cells' = cells
BY DEF memory, Count, Cell, PublishedInv

LEMMA LockKeepsDiscipline ==
  ASSUME TypeOK, DisciplineInv, NEW p \in Producers, Lock(p) \/ WriteFull(p)
  PROVE  DisciplineInv'
<1>1. UNCHANGED <<memory, lineVars, slot, packet, seen, urgent>>
  BY DEF Lock, WriteFull
<1>2. \A q \in Producers : (Working(q)' <=> Working(q)) /\ (Working(q) => pc'[q] = pc[q])
  BY DEF Lock, WriteFull, Goes, Working, TypeOK
<1>3. AloneInv'
  BY <1>2 DEF DisciplineInv, AloneInv
<1>4. ProducerInv'
  <2>1. /\ Count' = Count /\ Cell(w)' = Cell(w) /\ cells' = cells /\ w' = w
        /\ slot' = slot /\ packet' = packet /\ seen' = seen
    BY <1>1, SameMemory DEF memory
  <2>2. ASSUME NEW q \in Producers, pc'[q] \in {"filled", "loaded"}
        PROVE  pc'[q] = pc[q]
    BY <1>2, <2>2 DEF Working
  <2>3. QED
    BY <1>2, <2>1, <2>2 DEF DisciplineInv, ProducerInv
<1>5. PublishedInv' /\ SendingInv'
  BY <1>1, SameMemory DEF DisciplineInv, SendingInv, lineVars
<1>6. QED
  BY <1>3, <1>4, <1>5 DEF DisciplineInv

(* Storing into the free cell touches no published cell.                   *)
LEMMA FreeCellStore ==
  ASSUME TypeOK, PublishedInv, SendingInv, Count < Size,
         UNCHANGED <<w, r, urgent, lineVars>>,
         NEW x, cells' = [cells EXCEPT ![Cell(w)] = x]
  PROVE  PublishedInv' /\ SendingInv'
<1> USE DEF lineVars
<1>1. Count' = Count
  BY DEF Count
<1>2. ASSUME NEW i \in 0 .. Count - 1
      PROVE  cells'[Cell((r + i) % Wrap)] = cells[Cell((r + i) % Wrap)]
  <2>1. Cell((r + i) % Wrap) # Cell(w)
    BY FreeCell
  <2>2. r + i \in Nat /\ (r + i) % Wrap \in Nat
    BY CountRange, WrapPositive
  <2>3. Cell((r + i) % Wrap) \in 0 .. Size - 1
    BY <2>2, CellInRange
  <2>4. QED
    BY <2>1, <2>3 DEF TypeOK
<1>3. PublishedInv'
  BY <1>1, <1>2 DEF PublishedInv, Cell
<1>4. SendingInv'
  <2>1. Cell(r)' = Cell(r)
    BY DEF Cell
  <2>2. CASE wrote = "this"
    <3>1. 0 \in 0 .. Count - 1
      BY <2>2, CountRange DEF SendingInv
    <3>2. cells'[Cell(r)] = cells[Cell(r)]
      BY <3>1, <1>2, OldestCell
    <3>3. QED
      BY <2>1, <2>2, <3>2, <1>1 DEF SendingInv
  <2>3. QED
    BY <2>2 DEF SendingInv
<1>5. QED
  BY <1>3, <1>4

(* There is room behind a buffer that is not full.                         *)
LEMMA RoomUnlessFull ==
  ASSUME TypeOK, PublishedInv, ~ Full
  PROVE  Count < Size
BY CountRange, SizeAssumption DEF PublishedInv, Full

(* Who writes while nobody meets him is alone.                             *)
LEMMA WriteSlotKeepsDiscipline ==
  ASSUME TypeOK, DisciplineInv, NEW p \in Producers, NEW x \in Packets, WriteSlot(p, x),
         ~ met'
  PROVE  DisciplineInv'
<1> USE DEF WriteSlot, Goes
<1>1. \A q \in Producers \ {p} : ~ Working(q) /\ pc'[q] = pc[q]
  BY DEF TypeOK
<1>2. \A q \in Producers : Working(q)' <=> q = p
  BY <1>1 DEF TypeOK, Working
<1>3. Count' = Count /\ Cell(w)' = Cell(w)
  BY DEF Count, Cell
<1>4. Count < Size
  BY RoomUnlessFull DEF DisciplineInv
<1>5. AloneInv'
  BY <1>2 DEF AloneInv
<1>6. ProducerInv'
  <2>1. slot'[p] = Cell(w)' /\ packet'[p] = x /\ pc'[p] = "writing"
    BY <1>3 DEF TypeOK
  <2>2. ASSUME NEW q \in Producers \ {p} PROVE pc'[q] \notin {"filled", "loaded"}
    BY <1>1 DEF Working
  <2>3. QED
    BY <1>2, <1>3, <1>4, <2>1, <2>2 DEF ProducerInv
<1>7. PublishedInv' /\ SendingInv'
  BY <1>4, FreeCellStore DEF DisciplineInv
<1>8. QED
  BY <1>5, <1>6, <1>7 DEF DisciplineInv

LEMMA FillStores ==
  ASSUME TypeOK, DisciplineInv, NEW p \in Producers, Fill(p)
  PROVE  /\ slot[p] = Cell(w) /\ Count < Size /\ packet[p] \in Packets
         /\ cells' = [cells EXCEPT ![Cell(w)] = packet[p]]
<1>1. Working(p) /\ \A q \in Producers \ {p} : ~ Working(q)
  BY DEF Fill, DisciplineInv, AloneInv, Working
<1>2. slot[p] = Cell(w) /\ Count < Size /\ packet[p] \in Packets
  BY <1>1 DEF DisciplineInv, ProducerInv
<1>3. PICK x \in {packet[p]} \union
                 {Blank : q \in {q \in Producers \ {p} : Working(q) /\ slot[q] = slot[p]}} :
        cells' = [cells EXCEPT ![slot[p]] = x]
  BY DEF Fill
<1>4. x = packet[p]
  BY <1>1, <1>3
<1>5. QED
  BY <1>2, <1>3, <1>4

LEMMA FillKeepsDiscipline ==
  ASSUME TypeOK, DisciplineInv, NEW p \in Producers, Fill(p)
  PROVE  DisciplineInv'
<1>1. /\ slot[p] = Cell(w) /\ Count < Size /\ packet[p] \in Packets
      /\ cells' = [cells EXCEPT ![Cell(w)] = packet[p]]
  BY FillStores
<1>2. UNCHANGED <<w, r, lineVars, slot, packet, seen, urgent>>
  BY DEF Fill
<1>3. Count' = Count /\ Cell(w)' = Cell(w)
  BY <1>2 DEF Count, Cell
<1>4. pc[p] = "writing" /\ pc' = [pc EXCEPT ![p] = "filled"]
  BY DEF Fill, Goes
<1>5. \A q \in Producers : Working(q)' <=> Working(q)
  BY <1>4 DEF Working, TypeOK
<1>6. AloneInv'
  BY <1>5 DEF DisciplineInv, AloneInv
<1>7. ProducerInv'
  <2>1. cells'[Cell(w)] = packet[p]
    BY <1>1, CountRange DEF TypeOK
  <2>2. ASSUME NEW q \in Producers \ {p}
        PROVE  ~ Working(q) /\ pc'[q] \notin {"filled", "loaded"}
    <3>1. ~ Working(q)
      BY <1>4 DEF DisciplineInv, AloneInv, Working
    <3>2. QED
      BY <1>4, <3>1 DEF Working, TypeOK
  <2>3. pc'[p] = "filled"
    BY <1>4 DEF TypeOK
  <2>4. QED
    BY <1>1, <1>2, <1>3, <1>5, <2>1, <2>2, <2>3 DEF ProducerInv
<1>8. PublishedInv' /\ SendingInv'
  BY <1>1, <1>2, FreeCellStore DEF DisciplineInv
<1>9. QED
  BY <1>6, <1>7, <1>8 DEF DisciplineInv

LEMMA LoadKeepsDiscipline ==
  ASSUME TypeOK, DisciplineInv, NEW p \in Producers, Load(p)
  PROVE  DisciplineInv'
<1>1. UNCHANGED <<memory, lineVars, slot, packet, urgent>>
  BY DEF Load
<1>2. pc[p] = "filled" /\ pc' = [pc EXCEPT ![p] = "loaded"] /\ seen'[p] = w
  BY DEF Load, Goes, TypeOK
<1>3. \A q \in Producers : Working(q)' <=> Working(q)
  BY <1>2 DEF Working, TypeOK
<1>4. AloneInv'
  BY <1>3 DEF DisciplineInv, AloneInv
<1>5. \A q \in Producers \ {p} : ~ Working(q) /\ pc'[q] = pc[q]
  BY <1>2 DEF DisciplineInv, AloneInv, Working, TypeOK
<1>6. ProducerInv'
  <2>1. /\ slot[p] = Cell(w) /\ Count < Size /\ packet[p] \in Packets
        /\ cells[slot[p]] = packet[p]
    BY <1>2 DEF DisciplineInv, ProducerInv, Working
  <2>2. \A q \in Producers \ {p} : pc'[q] \notin {"filled", "loaded"}
    BY <1>5 DEF Working
  <2>3. w' = w /\ cells' = cells /\ slot' = slot /\ packet' = packet
    BY <1>1 DEF memory
  <2>4. QED
    BY <1>1, <1>2, <1>3, <1>5, <2>1, <2>2, <2>3, SameMemory DEF ProducerInv
<1>7. PublishedInv' /\ SendingInv'
  BY <1>1, SameMemory DEF DisciplineInv, SendingInv, lineVars
<1>8. QED
  BY <1>4, <1>6, <1>7 DEF DisciplineInv

(* Without another producer the store is of the value after w.             *)
LEMMA WriteDonePublishes ==
  ASSUME TypeOK, DisciplineInv, NEW p \in Producers, WriteDone(p)
  PROVE  /\ w' = Inc(w) /\ r' = r /\ cells' = cells
         /\ Count < Size /\ Count' = Count + 1
         /\ packet[p] \in Packets /\ cells[Cell(w)] = packet[p]
<1>1. Working(p) /\ pc[p] = "loaded"
  BY DEF WriteDone, Working
<1>2. /\ slot[p] = Cell(w) /\ Count < Size /\ packet[p] \in Packets
      /\ cells[slot[p]] = packet[p] /\ seen[p] = w
  BY <1>1 DEF DisciplineInv, ProducerInv
<1>3. w' = Inc(w) /\ r' = r /\ cells' = cells
  BY <1>2 DEF WriteDone
<1>4. QED
  BY <1>2, <1>3, CountAfterWrite

LEMMA WriteDoneKeepsDiscipline ==
  ASSUME TypeOK, DisciplineInv, NEW p \in Producers, WriteDone(p)
  PROVE  DisciplineInv'
<1>1. /\ w' = Inc(w) /\ r' = r /\ cells' = cells
      /\ Count < Size /\ Count' = Count + 1 /\ cells[Cell(w)] \in Packets
  BY WriteDonePublishes
<1>2. pc[p] = "loaded" /\ pc' = [pc EXCEPT ![p] = "idle"] /\ UNCHANGED <<urgent, lineVars>>
  BY DEF WriteDone, Goes
<1>3. \A q \in Producers : ~ Working(q)' /\ pc'[q] \notin {"filled", "loaded"}
  <2>1. \A q \in Producers \ {p} : ~ Working(q) /\ pc'[q] = pc[q]
    BY <1>2 DEF DisciplineInv, AloneInv, Working, TypeOK
  <2>2. pc'[p] = "idle"
    BY <1>2 DEF TypeOK
  <2>3. QED
    BY <2>1, <2>2 DEF Working
<1>4. AloneInv' /\ ProducerInv'
  BY <1>3 DEF AloneInv, ProducerInv
<1>5. PublishedInv'
  <2>1. Count' <= Size
    BY <1>1, CountRange, SizeAssumption
  <2>2. ASSUME NEW i \in 0 .. Count
        PROVE  cells[Cell((r + i) % Wrap)] \in Packets
    <3>1. CASE i = Count
      BY <3>1, <1>1, CountRange
    <3>2. CASE i # Count
      <4>1. i \in 0 .. Count - 1
        BY <3>2, CountRange
      <4>2. QED
        BY <4>1 DEF DisciplineInv, PublishedInv
    <3>3. QED
      BY <3>1, <3>2
  <2>3. Count' - 1 = Count
    BY <1>1, CountRange
  <2>4. QED
    BY <1>1, <2>1, <2>2, <2>3 DEF PublishedInv, Cell
<1>6. SendingInv'
  BY <1>1, <1>2, CountRange DEF DisciplineInv, SendingInv, Cell, lineVars
<1>7. QED
  BY <1>4, <1>5, <1>6 DEF DisciplineInv

(* The oldest published cell holds a packet.                               *)
LEMMA OldestIsPacket ==
  ASSUME TypeOK, PublishedInv, Count > 0
  PROVE  cells[Cell(r)] \in Packets
<1>1. 0 \in 0 .. Count - 1
  BY CountRange
<1>2. cells[Cell((r + 0) % Wrap)] \in Packets
  BY <1>1 DEF PublishedInv
<1>3. QED
  BY <1>2, OldestCell

(* The producers see nothing of what the owner does before read_done.      *)
LEMMA LineKeepsDiscipline ==
  ASSUME TypeOK, DisciplineInv,
         Arm \/ BeginSend \/ BeginOther \/ EndOther \/ Answered \/ OtherWritten
  PROVE  DisciplineInv'
<1> USE DEF Arm, BeginSend, BeginOther, EndOther, Answered, OtherWritten
<1>1. UNCHANGED <<memory, producerVars, urgent>>
  OBVIOUS
<1>2. AloneInv' /\ ProducerInv'
  <2>1. /\ Count' = Count /\ Cell(w)' = Cell(w) /\ cells' = cells /\ w' = w
        /\ pc' = pc /\ slot' = slot /\ packet' = packet /\ seen' = seen
    BY <1>1, SameMemory DEF memory, producerVars
  <2>2. \A q \in Producers : Working(q)' <=> Working(q)
    BY <2>1 DEF Working
  <2>3. QED
    BY <2>1, <2>2 DEF DisciplineInv, AloneInv, ProducerInv
<1>3. PublishedInv'
  BY <1>1, SameMemory DEF DisciplineInv
<1>4. SendingInv'
  <2>1. Count' = Count /\ cells'[Cell(r)'] = cells[Cell(r)]
    BY <1>1, SameMemory
  <2>2. CASE BeginSend
    <3>1. Count > 0
      BY <2>2, CountRange DEF FromThis, Empty
    <3>2. QED
      BY <2>1, <2>2, <3>1 DEF SendingInv
  <2>3. CASE BeginOther
    BY <2>3 DEF SendingInv, FromOther
  <2>4. CASE EndOther
    BY <2>4 DEF SendingInv
  <2>5. CASE Arm \/ Answered \/ OtherWritten
    BY <1>1, <2>1, <2>5 DEF DisciplineInv, SendingInv
  <2>6. QED
    BY <2>2, <2>3, <2>4, <2>5
<1>5. QED
  BY <1>2, <1>3, <1>4 DEF DisciplineInv

LEMMA EndSendKeepsDiscipline ==
  ASSUME TypeOK, DisciplineInv, EndSend
  PROVE  DisciplineInv'
<1> USE DEF EndSend, producerVars
<1>1. Count > 0
  BY CountRange DEF FromThis, Empty
<1>2. Count' = Count - 1 /\ Cell(w)' = Cell(w)
  BY <1>1, CountAfterRead DEF Cell
<1>3. AloneInv'
  BY DEF DisciplineInv, AloneInv, Working
<1>4. ProducerInv'
  BY <1>2, CountRange, SizeAssumption DEF DisciplineInv, ProducerInv, Working
<1>5. PublishedInv'
  <2>1. Count' <= Size
    BY <1>2, CountRange, SizeAssumption DEF DisciplineInv, PublishedInv
  <2>2. ASSUME NEW i \in 0 .. Count' - 1
        PROVE  cells[Cell((Inc(r) + i) % Wrap)] \in Packets
    <3>1. i + 1 \in 0 .. Count - 1 /\ i \in 0 .. Size
      BY <1>2, CountRange, SizeAssumption DEF DisciplineInv, PublishedInv
    <3>2. (Inc(r) + i) % Wrap = (r + (i + 1)) % Wrap
      BY <3>1, AfterInc, CountRange
    <3>3. cells[Cell((r + (i + 1)) % Wrap)] \in Packets
      BY <3>1 DEF DisciplineInv, PublishedInv
    <3>4. QED
      BY <3>2, <3>3
  <2>3. QED
    BY <2>1, <2>2 DEF PublishedInv, Cell
<1>6. SendingInv'
  BY DEF SendingInv
<1>7. QED
  BY <1>3, <1>4, <1>5, <1>6 DEF DisciplineInv

(* As long as no two producers meet, the discipline is kept.               *)
LEMMA DisciplineStep ==
  ASSUME TypeOK, DisciplineInv, Next, ~ met'
  PROVE  DisciplineInv'
<1>1. CASE Consume
  BY <1>1, LineKeepsDiscipline, EndSendKeepsDiscipline DEF Consume
<1>2. ASSUME NEW p \in Producers, Produce(p) PROVE DisciplineInv'
  BY <1>2, LockKeepsDiscipline, WriteSlotKeepsDiscipline, FillKeepsDiscipline,
     LoadKeepsDiscipline, WriteDoneKeepsDiscipline DEF Produce
<1>3. QED
  BY <1>1, <1>2 DEF Next

(* What read_done takes away was whole, and begun here or by tx.           *)
LEMMA WholeStep ==
  ASSUME TypeOK, ~ met => DisciplineInv, WholePacketsOnly, Next, ~ met'
  PROVE  WholePacketsOnly'
<1>1. ~ met /\ DisciplineInv
  BY MetStays
<1>2. CASE EndSend
  <2>1. Count > 0
    BY <1>2, CountRange DEF EndSend, FromThis, Empty
  <2>2. cells[Cell(r)] \in Packets
    BY <1>1, <2>1, OldestIsPacket DEF DisciplineInv
  <2>3. CASE wrote = "this"
    BY <1>1, <1>2, <2>2, <2>3 DEF EndSend, DisciplineInv, SendingInv, WholePacketsOnly
  <2>4. CASE wrote = "other"
    <3>1. head = Foreign /\ (urgent \/ other)
      BY <1>1, <2>4 DEF DisciplineInv, SendingInv
    <3>2. urgent /\ urgent' = urgent
      BY <1>2, <3>1 DEF EndSend, FromThis
    <3>3. out' = <<Foreign, cells[Cell(r)]>>
      BY <1>2, <3>1 DEF EndSend
    <3>4. QED
      BY <2>2, <3>2, <3>3 DEF WholePacketsOnly
  <2>5. QED
    BY <1>2, <2>3, <2>4 DEF EndSend, TypeOK
<1>3. CASE Arm \/ BeginSend \/ BeginOther \/ EndOther \/ Answered \/ OtherWritten
  BY <1>1, <1>3 DEF Arm, BeginSend, BeginOther, EndOther, Answered, OtherWritten,
     WholePacketsOnly
<1>4. ASSUME NEW p \in Producers, Produce(p) PROVE out' = out /\ urgent' = urgent
  BY <1>4 DEF Produce, Lock, WriteFull, WriteSlot, Fill, Load, WriteDone, lineVars
<1>5. QED
  BY <1>1, <1>2, <1>3, <1>4 DEF Next, Consume, WholePacketsOnly

(* CBufferInv is inductive.                                                *)
LEMMA NextKeepsInv == CBufferInv /\ [Next]_vars => CBufferInv'
<1> SUFFICES ASSUME CBufferInv, [Next]_vars PROVE CBufferInv'
  OBVIOUS
<1>1. CASE Next
  <2>1. TypeOK' /\ MutexInv'
    BY <1>1, TypesStep, MutexStep DEF CBufferInv
  <2>2. ~ met' => DisciplineInv'
    BY <1>1, MetStays, DisciplineStep DEF CBufferInv
  <2>3. WholePacketsOnly'
    <3>1. CASE met'
      BY <3>1 DEF WholePacketsOnly
    <3>2. QED
      BY <1>1, <3>1, WholeStep DEF CBufferInv
  <2>4. QED
    BY <2>1, <2>2, <2>3 DEF CBufferInv
<1>2. CASE UNCHANGED vars
  <2>1. /\ UNCHANGED memory /\ UNCHANGED lineVars /\ UNCHANGED urgent
        /\ UNCHANGED <<lock, pc, slot, packet, seen, met>>
    BY <1>2 DEF vars, producerVars
  <2>2. TypeOK' /\ MutexInv' /\ WholePacketsOnly'
    BY <2>1 DEF CBufferInv, TypeOK, MutexInv, WholePacketsOnly, memory, lineVars
  <2>3. AloneInv' <=> AloneInv
    BY <2>1 DEF AloneInv, Working
  <2>4. ProducerInv' <=> ProducerInv
    BY <2>1, SameMemory DEF ProducerInv, Working, memory
  <2>5. (PublishedInv' <=> PublishedInv) /\ (SendingInv' <=> SendingInv)
    BY <2>1, SameMemory DEF SendingInv, lineVars
  <2>6. QED
    BY <2>1, <2>2, <2>3, <2>4, <2>5 DEF CBufferInv, DisciplineInv
<1>3. QED
  BY <1>1, <1>2

LEMMA InvHolds == Spec => []CBufferInv
  BY InitInv, NextKeepsInv, PTL DEF Spec

------------------------------------------------------------------------------
(* Theorems *)

(* The counters stay 32-bit values and every cell holds a packet or is     *)
(* being filled, through every wrap-around of cbuffer.h.                   *)
THEOREM TypeCorrect == Spec => []TypeOK
<1>1. CBufferInv => TypeOK
  BY DEF CBufferInv
<1>2. QED
  BY <1>1, InvHolds, PTL

(* Two producers that are in the buffer at once did not both take the      *)
(* mutex, and until there are two the cell handed out by cbuffer_write is  *)
(* not the one the owner is sending from, however many producers.          *)
THEOREM CellsNotShared == Spec => []NoCellShared
<1>1. CBufferInv => NoCellShared
  <2> SUFFICES ASSUME CBufferInv, NEW p \in Producers, Working(p)
               PROVE  /\ \A q \in Producers \ {p} :
                           Working(q) => met /\ \E x \in {p, q} : x \in Unlocked \ lock
                      /\ wrote = "this" /\ ~ met => slot[p] # Cell(r)
    BY DEF NoCellShared
  <2>1. ASSUME NEW q \in Producers \ {p}, Working(q)
        PROVE  met /\ \E x \in {p, q} : x \in Unlocked \ lock
    <3>1. met
      BY <2>1 DEF CBufferInv, DisciplineInv, AloneInv
    <3>2. pc[p] # "idle" /\ pc[q] # "idle"
      BY <2>1 DEF Working
    <3>3. p \in lock \union Unlocked /\ q \in lock \union Unlocked
      BY <3>2 DEF CBufferInv, MutexInv
    <3>4. p \notin lock \/ q \notin lock
      BY DEF CBufferInv, MutexInv
    <3>5. QED
      BY <3>1, <3>3, <3>4
  <2>2. ASSUME wrote = "this", ~ met PROVE slot[p] # Cell(r)
    <3>1. slot[p] = Cell(w) /\ Count < Size /\ Count > 0
      BY <2>2 DEF CBufferInv, DisciplineInv, ProducerInv, SendingInv
    <3>2. 0 \in 0 .. Count - 1
      BY <3>1, CountRange DEF CBufferInv
    <3>3. QED
      BY <3>1, <3>2, FreeCell, OldestCell DEF CBufferInv
  <2>3. QED
    BY <2>1, <2>2
<1>2. QED
  BY <1>1, InvHolds, PTL

(* A buffer whose producers all take the mutex, or that has one producer,  *)
(* keeps its promises for good.                                            *)
NeverMet == (Unlocked = {} \/ Producers = {Owner}) => ~ met

(* The exception of the other theorems is only for the buffers with        *)
(* producers that do without the mutex: not for CForwarderMonitor's        *)
(* m_CardCmdBuf nor for rx, which have one producer each.                  *)
THEOREM DisciplineSuffices == Spec => []NeverMet
<1>1. Init => NeverMet
  BY DEF Init, NeverMet
<1>2. CBufferInv /\ NeverMet /\ [Next]_vars => NeverMet'
  <2> SUFFICES ASSUME CBufferInv, NeverMet, [Next]_vars, met',
                      Unlocked = {} \/ Producers = {Owner}
               PROVE  FALSE
    BY DEF NeverMet
  <2>1. ~ met
    BY DEF NeverMet
  <2>2. PICK p \in Producers, x \in Packets : WriteSlot(p, x)
    BY <2>1 DEF Next, Consume, Arm, BeginSend, BeginOther, EndSend, EndOther, Answered,
       OtherWritten, Produce, Lock, WriteFull, Fill, Load, WriteDone, vars, producerVars
  <2>3. PICK q \in Producers \ {p} : Working(q)
    BY <2>1, <2>2 DEF WriteSlot
  <2>4. q \in lock
    BY <2>3, ThreadsAssumption DEF CBufferInv, MutexInv, Working
  <2>5. p \in lock
    BY <2>2, <2>3, ThreadsAssumption DEF WriteSlot, CBufferInv, MutexInv
  <2>6. QED
    BY <2>3, <2>4, <2>5 DEF CBufferInv, MutexInv
<1>3. QED
  BY <1>1, <1>2, InvHolds, PTL DEF Spec

(* Nothing but whole packets leaves a buffer until two producers meet in   *)
(* it, and only htx ends what another buffer began.                        *)
THEOREM PacketsLeaveWhole == Spec => []WholePacketsOnly
<1>1. CBufferInv => WholePacketsOnly
  BY DEF CBufferInv
<1>2. QED
  BY <1>1, InvHolds, PTL

------------------------------------------------------------------------------
(* The buffer is a bounded first-in first-out queue. *)

LEMMA FunctionIsSeq ==
  ASSUME NEW S, NEW n \in Nat, NEW f \in [1 .. n -> S]
  PROVE  f \in Seq(S) /\ Len(f) = n
  OBVIOUS

LEMMA SeqAppend ==
  ASSUME NEW S, NEW n \in Nat, NEW f \in [1 .. n -> S], NEW g \in [1 .. n + 1 -> S],
         \A i \in 1 .. n : g[i] = f[i]
  PROVE  g = Append(f, g[n + 1])
<1>1. f \in Seq(S) /\ Len(f) = n /\ g \in Seq(S) /\ Len(g) = n + 1
  BY FunctionIsSeq
<1>2. g[n + 1] \in S
  OBVIOUS
<1>3. QED
  BY <1>1, <1>2

LEMMA SeqTail ==
  ASSUME NEW S, NEW n \in Nat \ {0}, NEW f \in [1 .. n -> S], NEW g \in [1 .. n - 1 -> S],
         \A i \in 1 .. n - 1 : g[i] = f[i + 1]
  PROVE  f # <<>> /\ Head(f) = f[1] /\ g = Tail(f)
<1>1. n - 1 \in Nat
  OBVIOUS
<1>2. f \in Seq(S) /\ Len(f) = n /\ g \in Seq(S) /\ Len(g) = n - 1
  BY <1>1, FunctionIsSeq
<1>3. f # <<>>
  BY <1>2
<1>4. QED
  BY <1>2, <1>3

(* What is published are packets.                                          *)
LEMMA ContentsType ==
  ASSUME TypeOK, PublishedInv
  PROVE  Count \in Nat /\ Contents \in [1 .. Count -> Packets]
<1>1. Count \in Nat /\ r \in Nat
  BY CountRange, WrapPositive
<1>2. ASSUME NEW i \in 1 .. Count
      PROVE  cells[Cell((r + i - 1) % Wrap)] \in Packets
  <2>1. i - 1 \in 0 .. Count - 1 /\ r + (i - 1) = r + i - 1
    BY <1>1
  <2>2. cells[Cell((r + (i - 1)) % Wrap)] \in Packets
    BY <2>1 DEF PublishedInv
  <2>3. QED
    BY <2>1, <2>2
<1>3. QED
  BY <1>1, <1>2 DEF Contents

(* Steps that move no counter and touch no published cell are invisible.   *)
LEMMA SameContents ==
  ASSUME Count' = Count, r' = r, Count \in Nat, r \in Nat,
         \A i \in 0 .. Count - 1 :
           cells'[Cell((r + i) % Wrap)] = cells[Cell((r + i) % Wrap)]
  PROVE  Contents' = Contents
<1>1. ASSUME NEW i \in 1 .. Count
      PROVE  cells'[Cell((r + i - 1) % Wrap)] = cells[Cell((r + i - 1) % Wrap)]
  <2>1. i - 1 \in 0 .. Count - 1 /\ r + (i - 1) = r + i - 1
    OBVIOUS
  <2>2. cells'[Cell((r + (i - 1)) % Wrap)] = cells[Cell((r + (i - 1)) % Wrap)]
    BY <2>1
  <2>3. QED
    BY <2>1, <2>2
<1>2. QED
  BY <1>1 DEF Contents, Cell

LEMMA SameMemoryInvisible ==
  ASSUME TypeOK, UNCHANGED memory
  PROVE  Contents' = Contents
<1>1. Count \in Nat /\ r \in Nat
  BY CountRange, WrapPositive
<1>2. Count' = Count /\ r' = r /\ cells' = cells
  BY SameMemory DEF memory
<1>3. QED
  BY <1>1, <1>2, SameContents

(* Storing into the free cell is one of them.                              *)
LEMMA FreeCellInvisible ==
  ASSUME TypeOK, Count < Size, w' = w, r' = r,
         NEW x, cells' = [cells EXCEPT ![Cell(w)] = x]
  PROVE  Contents' = Contents
<1>1. Count' = Count /\ Count \in Nat /\ r \in Nat
  BY CountRange, WrapPositive DEF Count
<1>2. ASSUME NEW i \in 0 .. Count - 1
      PROVE  cells'[Cell((r + i) % Wrap)] = cells[Cell((r + i) % Wrap)]
  <2>1. Cell((r + i) % Wrap) # Cell(w)
    BY FreeCell
  <2>2. r + i \in Nat /\ (r + i) % Wrap \in Nat
    BY <1>1, WrapPositive
  <2>3. Cell((r + i) % Wrap) \in 0 .. Size - 1
    BY <2>2, CellInRange
  <2>4. QED
    BY <2>1, <2>3 DEF TypeOK
<1>3. QED
  BY <1>1, <1>2, SameContents

(* cbuffer_write_done puts the packet just filled at the end.              *)
LEMMA WriteDonePuts ==
  ASSUME TypeOK, DisciplineInv, NEW p \in Producers, WriteDone(p)
  PROVE  Fifo!Put(packet[p]) /\ packet[p] \in Packets
<1>1. /\ Count < Size /\ packet[p] \in Packets /\ cells[Cell(w)] = packet[p]
      /\ w' = Inc(w) /\ r' = r /\ cells' = cells /\ Count' = Count + 1
  BY WriteDonePublishes
<1>2. out' = out
  BY DEF WriteDone, lineVars
<1>4. Count \in Nat /\ Contents \in [1 .. Count -> Packets] /\ Len(Contents) = Count
  BY ContentsType, FunctionIsSeq DEF DisciplineInv
<1>5. r \in Nat /\ (r + Count) % Wrap = w
  BY CountRange, WrapPositive
<1>6. Contents' = [i \in 1 .. Count + 1 |-> cells[Cell((r + i - 1) % Wrap)]]
  BY <1>1 DEF Contents, Cell
<1>7. ASSUME NEW i \in 1 .. Count PROVE Contents'[i] = Contents[i]
  <2>1. i \in 1 .. Count + 1
    BY <1>4
  <2>2. Contents'[i] = cells[Cell((r + i - 1) % Wrap)]
    BY <1>6, <2>1
  <2>3. Contents[i] = cells[Cell((r + i - 1) % Wrap)]
    BY DEF Contents
  <2>4. QED
    BY <2>2, <2>3
<1>8. Contents'[Count + 1] = packet[p]
  <2>1. r + (Count + 1) - 1 = r + Count
    BY <1>4, <1>5
  <2>2. Contents'[Count + 1] = cells[Cell((r + (Count + 1) - 1) % Wrap)]
    BY <1>4, <1>6
  <2>3. QED
    BY <2>1, <2>2, <1>1, <1>5
<1>9. Contents' \in [1 .. Count + 1 -> Packets]
  <2>1. ASSUME NEW i \in 1 .. Count + 1 PROVE Contents'[i] \in Packets
    <3>1. i \in 1 .. Count \/ i = Count + 1
      BY <1>4
    <3>2. QED
      BY <3>1, <1>1, <1>4, <1>7, <1>8
  <2>2. QED
    BY <2>1, <1>6
<1>10. Contents' = Append(Contents, Contents'[Count + 1])
  BY <1>4, <1>7, <1>9, SeqAppend
<1>11. QED
  BY <1>1, <1>2, <1>4, <1>8, <1>10 DEF Fifo!Put

(* cbuffer_read_done takes the first packet away, the one just sent.       *)
LEMMA EndSendGets ==
  ASSUME TypeOK, PublishedInv, EndSend
  PROVE  Fifo!Get
<1>1. Count > 0
  BY CountRange DEF EndSend, FromThis, Empty
<1>2. w' = w /\ r' = Inc(r) /\ cells' = cells /\ out'[2] = cells[Cell(r)]
  BY DEF EndSend
<1>3. Count' = Count - 1
  BY <1>1, <1>2, CountAfterRead
<1>4. Count \in Nat \ {0} /\ Contents \in [1 .. Count -> Packets]
  BY <1>1, ContentsType
<1>5. r \in 0 .. Wrap - 1 /\ Count <= Size
  BY CountRange DEF PublishedInv
<1>6. Contents' = [i \in 1 .. Count - 1 |-> cells[Cell((Inc(r) + i - 1) % Wrap)]]
  BY <1>2, <1>3 DEF Contents, Cell
<1>7. ASSUME NEW i \in 1 .. Count - 1 PROVE Contents'[i] = Contents[i + 1]
  <2>1. i - 1 \in 0 .. Size /\ i + 1 \in 1 .. Count
    BY <1>4, <1>5, SizeAssumption
  <2>2. (Inc(r) + (i - 1)) % Wrap = (r + ((i - 1) + 1)) % Wrap
    BY <1>5, <2>1, AfterInc
  <2>3. Inc(r) + (i - 1) = Inc(r) + i - 1 /\ r + ((i - 1) + 1) = r + (i + 1) - 1
    BY <1>5, IncValue, WrapPositive
  <2>4. Contents'[i] = cells[Cell((Inc(r) + i - 1) % Wrap)]
    BY <1>6
  <2>5. Contents[i + 1] = cells[Cell((r + (i + 1) - 1) % Wrap)]
    BY <2>1 DEF Contents
  <2>6. QED
    BY <2>2, <2>3, <2>4, <2>5
<1>8. Contents' \in [1 .. Count - 1 -> Packets]
  <2>1. ASSUME NEW i \in 1 .. Count - 1 PROVE Contents'[i] \in Packets
    <3>1. i + 1 \in 1 .. Count
      BY <1>4
    <3>2. QED
      BY <3>1, <1>4, <1>7
  <2>2. QED
    BY <2>1, <1>6
<1>9. Contents # <<>> /\ Head(Contents) = Contents[1] /\ Contents' = Tail(Contents)
  BY <1>4, <1>7, <1>8, SeqTail
<1>10. Contents[1] = cells[Cell(r)]
  <2>1. r + 1 - 1 = r + 0
    BY <1>5, WrapPositive
  <2>2. Contents[1] = cells[Cell((r + 1 - 1) % Wrap)]
    BY <1>4 DEF Contents
  <2>3. QED
    BY <2>1, <2>2, OldestCell
<1>11. QED
  BY <1>2, <1>9, <1>10 DEF Fifo!Get

(* A step after which no two producers have met is one of the queue's, or  *)
(* none.                                                                   *)
LEMMA StepKeepsPromise ==
  ASSUME TypeOK, DisciplineInv, Next, ~ met, ~ met'
  PROVE  Fifo!Promise \/ UNCHANGED Fifo!vars
<1>0. met' = met
  <2>1. met \in BOOLEAN /\ met' \in BOOLEAN
    BY TypesStep DEF TypeOK
  <2>2. QED
    BY <2>1
<1>1. CASE EndSend
  BY <1>1, EndSendGets DEF Fifo!Promise, DisciplineInv
<1>2. ASSUME NEW p \in Producers, WriteDone(p)
      PROVE  Fifo!Promise
  BY <1>2, WriteDonePuts DEF Fifo!Promise
<1>3. CASE Arm \/ BeginSend \/ BeginOther \/ EndOther \/ Answered \/ OtherWritten
  <2>1. UNCHANGED memory /\ UNCHANGED out
    BY <1>3 DEF Arm, BeginSend, BeginOther, EndOther, Answered, OtherWritten
  <2>2. QED
    BY <2>1, SameMemoryInvisible, <1>0 DEF Fifo!vars
<1>4. ASSUME NEW p \in Producers, Lock(p) \/ WriteFull(p) \/ Load(p)
      PROVE  UNCHANGED Fifo!vars
  <2>1. UNCHANGED memory /\ UNCHANGED out
    BY <1>4 DEF Lock, WriteFull, Load, lineVars
  <2>2. QED
    BY <2>1, SameMemoryInvisible, <1>0 DEF Fifo!vars
<1>5. ASSUME NEW p \in Producers, NEW x \in Packets, WriteSlot(p, x)
      PROVE  UNCHANGED Fifo!vars
  <2>1. Count < Size
    BY <1>5, RoomUnlessFull DEF WriteSlot, DisciplineInv
  <2>2. w' = w /\ r' = r /\ cells' = [cells EXCEPT ![Cell(w)] = Blank] /\ out' = out
    BY <1>5 DEF WriteSlot, lineVars
  <2>3. QED
    BY <2>1, <2>2, FreeCellInvisible, <1>0 DEF Fifo!vars
<1>6. ASSUME NEW p \in Producers, Fill(p)
      PROVE  UNCHANGED Fifo!vars
  <2>1. Count < Size /\ cells' = [cells EXCEPT ![Cell(w)] = packet[p]]
    BY <1>6, FillStores
  <2>2. w' = w /\ r' = r /\ out' = out
    BY <1>6 DEF Fill, lineVars
  <2>3. QED
    BY <2>1, <2>2, FreeCellInvisible, <1>0 DEF Fifo!vars
<1>7. QED
  BY <1>1, <1>2, <1>3, <1>4, <1>5, <1>6 DEF Next, Consume, Produce

LEMMA StepRefinesFifo ==
  ASSUME CBufferInv, [Next]_vars
  PROVE  [Fifo!Next]_(Fifo!vars)
<1>1. CASE Next /\ met'
  BY <1>1 DEF Fifo!Next
<1>2. CASE Next /\ ~ met'
  <2>1. ~ met /\ TypeOK /\ DisciplineInv
    BY <1>2, MetStays DEF CBufferInv
  <2>2. QED
    BY <1>2, <2>1, StepKeepsPromise DEF Fifo!Next
<1>3. CASE UNCHANGED vars
  <2>1. UNCHANGED memory /\ UNCHANGED out /\ UNCHANGED met
    BY <1>3 DEF vars, producerVars, lineVars
  <2>2. QED
    BY <2>1, SameMemoryInvisible DEF CBufferInv, Fifo!vars
<1>4. QED
  BY <1>1, <1>2, <1>3

LEMMA InitRefinesFifo == Init => Fifo!Init
<1> SUFFICES ASSUME Init PROVE Contents = <<>> /\ ~ met
  BY DEF Fifo!Init
<1>1. TypeOK /\ PublishedInv /\ ~ met
  BY InitInv DEF Init, CBufferInv, DisciplineInv
<1>2. Count = 0
  BY <1>1, CountRange DEF Init
<1>3. Contents \in [1 .. 0 -> Packets]
  BY <1>1, <1>2, ContentsType
<1>4. Contents \in Seq(Packets) /\ Len(Contents) = 0
  BY <1>3, FunctionIsSeq
<1>5. QED
  BY <1>1, <1>4

(* cbuffer.c implements a bounded queue until a producer that does without *)
(* the mutex meets another (CValveMonitor.cpp:231, :619): every packet     *)
(* accepted is sent exactly once and in order, for any number of           *)
(* wrap-arounds, short writes and packets of the other buffer.             *)
THEOREM BufferIsFifo == Spec => ImplementsFifo
<1>1. CBufferInv /\ [Next]_vars => [Fifo!Next]_(Fifo!vars)
  BY StepRefinesFifo
<1>2. QED
  BY <1>1, InitRefinesFifo, InvHolds, PTL DEF Spec, ImplementsFifo, Fifo!Spec
==============================================================================
