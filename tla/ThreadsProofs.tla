---------------------------- MODULE ThreadsProofs ----------------------------
(***************************************************************************)
(* What the locks of the threads promise, for any number of queues of      *)
(* records, of packets sent in one go and of valves: who releases a lock   *)
(* is who took it, nobody waits in a circle, and a thread that is lost     *)
(* holds nothing that others need.                                         *)
(*                                                                         *)
(* All of it follows from how the routines are written, so most of this    *)
(* module is about paths: what a path has still to release, in which order *)
(* its locks are nested, and that Then, Section and UpTo keep that order.  *)
(***************************************************************************)
EXTENDS Threads, SequenceTheorems, WellFoundedInduction, TLAPS

------------------------------------------------------------------------------
(* The inductive invariant                                                 *)

Steps == [op : {"take", "try", "release"}, lock : Locks]

(* The locks that a routine may return with.                               *)
Kept == {"Forwarder", "tx", "htx"}

(* From its i-th step on, the path releases l before it meets l otherwise: *)
(* it holds l there.                                                       *)
Open(p, i, l) ==
  \E k \in i .. Len(p) : p[k] = Release(l) /\ \A j \in i .. k - 1 : p[j].lock # l

(* The locks a thread takes while it holds another one, and which one.     *)
Order(t) ==
  CASE t = "portal" -> (Queues \X {"SentLog", "GPRS"})
                         \union {<<"Heat", "heat">>}
                         \union ({"GPRS"} \X ({"Forwarder", "htx"} \union RecordQueues))
                         \union ({"Forwarder"} \X RecordQueues)
    [] t = "valves" -> {"Forwarder"} \X ({"valve"} \union RecordQueues)
    [] OTHER -> {}

(* A lock is taken in the thread's order and, if it is not one that may be *)
(* kept, released; only the portal waits for m_GPRSLock; a lock that is    *)
(* tried is released at once, and none is released twice.                  *)
TakesInOrder(t, p, i) ==
  /\ p[i].lock = "GPRS" => t = "portal"
  /\ p[i].lock \notin Kept => Open(p, i + 1, p[i].lock)
  /\ \A l \in Locks : Open(p, i, l) => <<l, p[i].lock>> \in Order(t)

Conduct(t, p) ==
  /\ p \in Seq(Steps)
  /\ \A i \in 1 .. Len(p) :
       /\ p[i].op = "take" => TakesInOrder(t, p, i)
       /\ p[i].op = "try" => i < Len(p) /\ p[i + 1] = Release(p[i].lock)
       /\ p[i].op = "release" => ~ Open(p, i + 1, p[i].lock)

(* A release that needs no owner: of the meters' lock without meters.      *)
Loose(l) == l = "Heat" /\ ~ meters

(* What the thread holds is what the path has still to release, but for    *)
(* locks that were kept.                                                   *)
Follows(t, p) ==
  /\ Conduct(t, p)
  /\ \A l \in Locks : Open(p, 1, l) => owner[l] = t \/ Loose(l)
  /\ \A l \in Locks \ Kept : owner[l] = t => Open(p, 1, l)

TypesInv ==
  /\ wireless \in BOOLEAN /\ meters \in BOOLEAN
  /\ owner \in [Locks -> Threads \union {Free}]
  /\ todo \in [Threads -> SUBSET Seq(Steps)]

TodoInv(t) ==
  /\ \A p \in todo[t] : p # <<>> /\ Follows(t, p)
  /\ \A p, r \in todo[t] : Head(p) = Head(r)
  /\ todo[t] = {} => Follows(t, <<>>)

ThreadsInv == TypesInv /\ \A t \in Threads : TodoInv(t)

------------------------------------------------------------------------------
(* Paths                                                                   *)

LEMMA StepOfPath ==
  ASSUME NEW p \in Seq(Steps), NEW i \in 1 .. Len(p)
  PROVE  p[i] \in Steps
BY ElementOfSeq

(* What two paths put one after the other are.                             *)
LEMMA Join ==
  ASSUME NEW a \in Seq(Steps), NEW b \in Seq(Steps)
  PROVE  /\ a \o b \in Seq(Steps)
         /\ Len(a) \in Nat /\ Len(b) \in Nat /\ Len(a \o b) = Len(a) + Len(b)
         /\ \A i \in 1 .. Len(a) : (a \o b)[i] = a[i]
         /\ \A i \in 1 .. Len(b) : (a \o b)[Len(a) + i] = b[i]
<1>1. /\ a \o b \in Seq(Steps)
      /\ Len(a) \in Nat /\ Len(b) \in Nat /\ Len(a \o b) = Len(a) + Len(b)
      /\ \A i \in 1 .. Len(a) + Len(b) :
           (a \o b)[i] = IF i <= Len(a) THEN a[i] ELSE b[i - Len(a)]
  BY ConcatProperties, LenProperties
<1>2. ASSUME NEW i \in 1 .. Len(a)
      PROVE  (a \o b)[i] = a[i]
  <2>1. i \in 1 .. Len(a) + Len(b) /\ i <= Len(a)
    BY <1>1
  <2>2. QED
    BY <1>1, <2>1
<1>3. ASSUME NEW i \in 1 .. Len(b)
      PROVE  (a \o b)[Len(a) + i] = b[i]
  <2>1. Len(a) + i \in 1 .. Len(a) + Len(b) /\ ~ (Len(a) + i <= Len(a))
        /\ (Len(a) + i) - Len(a) = i
    BY <1>1
  <2>2. QED
    BY <1>1, <2>1
<1>4. QED
  BY <1>1, <1>2, <1>3

(* What remains of a path after its first n steps.                         *)
LEMMA Rest ==
  ASSUME NEW p \in Seq(Steps), NEW n \in 0 .. Len(p)
  PROVE  LET r == SubSeq(p, n + 1, Len(p))
         IN  /\ r \in Seq(Steps) /\ Len(p) \in Nat /\ Len(r) = Len(p) - n
             /\ \A i \in 1 .. Len(r) : r[i] = p[n + i]
<1> DEFINE r == SubSeq(p, n + 1, Len(p))
<1>1. Len(p) \in Nat /\ \A i \in 1 .. Len(p) : p[i] \in Steps
  BY ElementOfSeq, LenProperties
<1>2. \A i \in n + 1 .. Len(p) : p[i] \in Steps
  BY <1>1
<1>3. /\ r \in Seq(Steps)
      /\ Len(r) = IF n + 1 <= Len(p) THEN Len(p) - (n + 1) + 1 ELSE 0
      /\ \A i \in 1 .. Len(p) - (n + 1) + 1 : r[i] = p[(n + 1) + i - 1]
  BY <1>1, <1>2, SubSeqProperties
<1> HIDE DEF r
<1>4. Len(r) = Len(p) - n
  BY <1>1, <1>3
<1>5. ASSUME NEW i \in 1 .. Len(r)
      PROVE  r[i] = p[n + i]
  <2>1. i \in 1 .. Len(p) - (n + 1) + 1 /\ (n + 1) + i - 1 = n + i
    BY <1>1, <1>4
  <2>2. QED
    BY <1>3, <2>1
<1>6. QED
  BY <1>1, <1>3, <1>4, <1>5 DEF r

LEMMA RestOpen ==
  ASSUME NEW p \in Seq(Steps), NEW n \in 0 .. Len(p),
         NEW i \in 1 .. Len(p) - n + 1, NEW l
  PROVE  Open(SubSeq(p, n + 1, Len(p)), i, l) <=> Open(p, n + i, l)
<1> DEFINE r == SubSeq(p, n + 1, Len(p))
<1>1. /\ r \in Seq(Steps) /\ Len(p) \in Nat /\ Len(r) = Len(p) - n
      /\ \A j \in 1 .. Len(r) : r[j] = p[n + j]
  BY Rest
<1> HIDE DEF r
<1>2. ASSUME Open(r, i, l) PROVE Open(p, n + i, l)
  <2>1. PICK k \in i .. Len(r) : r[k] = Release(l) /\ \A j \in i .. k - 1 : r[j].lock # l
    BY <1>2 DEF Open
  <2>2. n + k \in n + i .. Len(p) /\ k \in 1 .. Len(r)
    BY <1>1, <2>1
  <2>3. p[n + k] = Release(l)
    BY <1>1, <2>1, <2>2
  <2>4. ASSUME NEW j \in n + i .. (n + k) - 1 PROVE p[j].lock # l
    <3>1. j - n \in i .. k - 1 /\ j - n \in 1 .. Len(r) /\ n + (j - n) = j
      BY <1>1, <2>2
    <3>2. QED
      BY <1>1, <2>1, <3>1
  <2>5. QED
    BY <2>2, <2>3, <2>4 DEF Open
<1>3. ASSUME Open(p, n + i, l) PROVE Open(r, i, l)
  <2>1. PICK k \in n + i .. Len(p) :
          p[k] = Release(l) /\ \A j \in n + i .. k - 1 : p[j].lock # l
    BY <1>3 DEF Open
  <2>2. k - n \in i .. Len(r) /\ k - n \in 1 .. Len(r) /\ n + (k - n) = k
    BY <1>1, <2>1
  <2>3. r[k - n] = Release(l)
    BY <1>1, <2>1, <2>2
  <2>4. ASSUME NEW j \in i .. (k - n) - 1 PROVE r[j].lock # l
    <3>1. n + j \in n + i .. k - 1 /\ j \in 1 .. Len(r)
      BY <1>1, <2>2
    <3>2. QED
      BY <1>1, <2>1, <3>1
  <2>5. QED
    BY <2>2, <2>3, <2>4 DEF Open
<1>4. QED
  BY <1>2, <1>3 DEF r

LEMMA RestConduct ==
  ASSUME NEW t, NEW p, Conduct(t, p), NEW n \in 0 .. Len(p)
  PROVE  Conduct(t, SubSeq(p, n + 1, Len(p)))
<1> DEFINE r == SubSeq(p, n + 1, Len(p))
<1>1. p \in Seq(Steps)
  BY DEF Conduct
<1>2. /\ r \in Seq(Steps) /\ Len(p) \in Nat /\ Len(r) = Len(p) - n
      /\ \A j \in 1 .. Len(r) : r[j] = p[n + j]
  BY <1>1, Rest
<1>3. \A i \in 1 .. Len(r) + 1, l \in Locks : Open(r, i, l) <=> Open(p, n + i, l)
  BY <1>1, <1>2, RestOpen
<1>4. \A j \in 1 .. Len(p) : p[j].lock \in Locks
  BY <1>1, StepOfPath DEF Steps
<1> HIDE DEF r
<1>5. ASSUME NEW i \in 1 .. Len(r)
      PROVE  /\ r[i].op = "take" => TakesInOrder(t, r, i)
             /\ r[i].op = "try" => i < Len(r) /\ r[i + 1] = Release(r[i].lock)
             /\ r[i].op = "release" => ~ Open(r, i + 1, r[i].lock)
  <2>1. /\ n + i \in 1 .. Len(p) /\ i \in 1 .. Len(r) + 1 /\ i + 1 \in 1 .. Len(r) + 1
        /\ (n + i) + 1 = n + (i + 1)
    BY <1>2
  <2>2. r[i] = p[n + i] /\ r[i].lock \in Locks
    BY <1>2, <1>4, <2>1
  <2>3. \A l \in Locks : /\ Open(r, i, l) <=> Open(p, n + i, l)
                         /\ Open(r, i + 1, l) <=> Open(p, (n + i) + 1, l)
    BY <1>3, <2>1
  <2>4. /\ p[n + i].op = "take" => TakesInOrder(t, p, n + i)
        /\ p[n + i].op = "try" => n + i < Len(p) /\ p[(n + i) + 1] = Release(p[n + i].lock)
        /\ p[n + i].op = "release" => ~ Open(p, (n + i) + 1, p[n + i].lock)
    BY <2>1 DEF Conduct
  <2>5. r[i].op = "take" => TakesInOrder(t, r, i)
    BY <2>2, <2>3, <2>4 DEF TakesInOrder
  <2>6. r[i].op = "try" => i < Len(r) /\ r[i + 1] = Release(r[i].lock)
    <3>1. SUFFICES ASSUME n + i < Len(p) PROVE i < Len(r) /\ r[i + 1] = p[(n + i) + 1]
      BY <2>2, <2>4
    <3>2. i < Len(r) /\ i + 1 \in 1 .. Len(r)
      BY <1>2, <3>1
    <3>3. QED
      BY <1>2, <2>1, <3>2
  <2>7. QED
    BY <2>2, <2>3, <2>4, <2>5, <2>6
<1>6. QED
  BY <1>2, <1>5 DEF Conduct, r

------------------------------------------------------------------------------
(* Sets of paths                                                           *)

(* A routine's paths, and the parts they are built from, hold nothing at   *)
(* the end, keep the order and meet only the given locks.                  *)
Closed(p) == \A l \in Locks : ~ Open(p, 1, l)
Meets(p, L) == \A i \in 1 .. Len(p) : p[i].lock \in L
Orderly(t, A, L) == \A p \in A : Conduct(t, p) /\ Closed(p) /\ Meets(p, L)

LEMMA NothingIsOrderly ==
  ASSUME NEW t
  PROVE  Conduct(t, <<>>) /\ Closed(<<>>) /\ Orderly(t, Nothing, {})
<1>1. <<>> \in Seq(Steps) /\ Len(<<>>) = 0
  OBVIOUS
<1>2. \A i \in Nat : i > 0 => ~ (\E k \in i .. Len(<<>>) : TRUE)
  BY <1>1
<1>3. Conduct(t, <<>>) /\ Closed(<<>>) /\ Meets(<<>>, {})
  BY <1>1, <1>2 DEF Conduct, Closed, Meets, Open
<1>4. QED
  BY <1>3 DEF Orderly, Nothing

LEMMA EmptyIsOrderly ==
  ASSUME NEW t, NEW L
  PROVE  Orderly(t, {}, L)
BY DEF Orderly

LEMMA Wider ==
  ASSUME NEW t, NEW A, NEW L, NEW M, Orderly(t, A, L), L \subseteq M
  PROVE  Orderly(t, A, M)
BY DEF Orderly, Meets

LEMMA EitherIsOrderly ==
  ASSUME NEW t, NEW A, NEW B, NEW L, Orderly(t, A, L), Orderly(t, B, L)
  PROVE  Orderly(t, A \union B, L)
BY DEF Orderly

(* What the first of two paths holds it releases itself.                   *)
LEMMA OpenFirst ==
  ASSUME NEW a \in Seq(Steps), NEW b \in Seq(Steps), NEW l \in Locks, Closed(b),
         NEW i \in 1 .. Len(a) + 1
  PROVE  Open(a \o b, i, l) <=> Open(a, i, l)
<1> DEFINE c == a \o b
<1>1. /\ Len(a) \in Nat /\ Len(b) \in Nat /\ Len(c) = Len(a) + Len(b)
      /\ \A j \in 1 .. Len(a) : c[j] = a[j]
      /\ \A j \in 1 .. Len(b) : c[Len(a) + j] = b[j]
  BY Join
<1> HIDE DEF c
<1>2. ASSUME Open(a, i, l) PROVE Open(c, i, l)
  <2>1. PICK k \in i .. Len(a) : a[k] = Release(l) /\ \A j \in i .. k - 1 : a[j].lock # l
    BY <1>2 DEF Open
  <2>2. k \in i .. Len(c) /\ k \in 1 .. Len(a) /\ \A j \in i .. k - 1 : j \in 1 .. Len(a)
    BY <1>1, <2>1
  <2>3. c[k] = Release(l) /\ \A j \in i .. k - 1 : c[j].lock # l
    BY <1>1, <2>1, <2>2
  <2>4. QED
    BY <2>2, <2>3 DEF Open
<1>3. ASSUME Open(c, i, l) PROVE Open(a, i, l)
  <2>1. PICK k \in i .. Len(c) : c[k] = Release(l) /\ \A j \in i .. k - 1 : c[j].lock # l
    BY <1>3 DEF Open
  <2>2. ASSUME k > Len(a) PROVE FALSE
    <3> DEFINE m == k - Len(a)
    <3>1. m \in 1 .. Len(b) /\ Len(a) + m = k
      BY <1>1, <2>1, <2>2
    <3>2. b[m] = Release(l)
      BY <1>1, <2>1, <3>1
    <3>3. ASSUME NEW j \in 1 .. m - 1 PROVE b[j].lock # l
      <4>1. Len(a) + j \in i .. k - 1 /\ j \in 1 .. Len(b)
        BY <1>1, <2>1, <3>1
      <4>2. QED
        BY <1>1, <2>1, <4>1
    <3>4. QED
      BY <3>1, <3>2, <3>3 DEF Closed, Open
  <2>3. k \in i .. Len(a) /\ k \in 1 .. Len(a) /\ \A j \in i .. k - 1 : j \in 1 .. Len(a)
    BY <1>1, <2>1, <2>2
  <2>4. a[k] = Release(l) /\ \A j \in i .. k - 1 : a[j].lock # l
    BY <1>1, <2>1, <2>3
  <2>5. QED
    BY <2>3, <2>4 DEF Open
<1>4. QED
  BY <1>2, <1>3 DEF c

LEMMA OpenSecond ==
  ASSUME NEW a \in Seq(Steps), NEW b \in Seq(Steps), NEW l,
         NEW i \in 1 .. Len(b) + 1
  PROVE  Open(a \o b, Len(a) + i, l) <=> Open(b, i, l)
<1> DEFINE c == a \o b
<1>1. /\ c \in Seq(Steps)
      /\ Len(a) \in Nat /\ Len(b) \in Nat /\ Len(c) = Len(a) + Len(b)
      /\ \A j \in 1 .. Len(b) : c[Len(a) + j] = b[j]
  BY Join
<1> HIDE DEF c
<1>2. Len(a) \in 0 .. Len(c) /\ Len(c) - Len(a) = Len(b)
  BY <1>1
<1> DEFINE r == SubSeq(c, Len(a) + 1, Len(c))
<1>3. Open(r, i, l) <=> Open(c, Len(a) + i, l)
  BY <1>1, <1>2, RestOpen
<1>4. /\ r \in Seq(Steps) /\ Len(r) = Len(b)
      /\ \A j \in 1 .. Len(r) : r[j] = c[Len(a) + j]
  BY <1>1, <1>2, Rest
<1> HIDE DEF r
<1>5. \A j \in 1 .. Len(b) : r[j] = b[j]
  BY <1>1, <1>4
<1>6. \A k \in i .. Len(b) : k \in 1 .. Len(b) /\ \A j \in i .. k - 1 : j \in 1 .. Len(b)
  BY <1>1
<1>7. Open(r, i, l) <=> Open(b, i, l)
  BY <1>4, <1>5, <1>6 DEF Open
<1>8. QED
  BY <1>3, <1>7 DEF c

LEMMA LocksOfPath ==
  ASSUME NEW p \in Seq(Steps), NEW i \in 1 .. Len(p)
  PROVE  p[i].lock \in Locks
BY StepOfPath DEF Steps

LEMMA JoinConduct ==
  ASSUME NEW t, NEW a, NEW b, Conduct(t, a), Conduct(t, b), Closed(a), Closed(b)
  PROVE  Conduct(t, a \o b) /\ Closed(a \o b)
<1> DEFINE c == a \o b
<1>1. a \in Seq(Steps) /\ b \in Seq(Steps)
  BY DEF Conduct
<1>2. /\ c \in Seq(Steps)
      /\ Len(a) \in Nat /\ Len(b) \in Nat /\ Len(c) = Len(a) + Len(b)
      /\ \A j \in 1 .. Len(a) : c[j] = a[j]
      /\ \A j \in 1 .. Len(b) : c[Len(a) + j] = b[j]
  BY <1>1, Join
<1>3. \A l \in Locks, i \in 1 .. Len(a) + 1 : Open(c, i, l) <=> Open(a, i, l)
  BY <1>1, OpenFirst
<1>4. \A l \in Locks, i \in 1 .. Len(b) + 1 : Open(c, Len(a) + i, l) <=> Open(b, i, l)
  BY <1>1, OpenSecond
<1> HIDE DEF c
<1>5. Closed(c)
  <2>1. 1 \in 1 .. Len(a) + 1
    BY <1>2
  <2>2. QED
    BY <1>3, <2>1 DEF Closed
<1>6. ASSUME NEW i \in 1 .. Len(a)
      PROVE  /\ c[i].op = "take" => TakesInOrder(t, c, i)
             /\ c[i].op = "try" => i < Len(c) /\ c[i + 1] = Release(c[i].lock)
             /\ c[i].op = "release" => ~ Open(c, i + 1, c[i].lock)
  <2>1. i \in 1 .. Len(a) + 1 /\ i + 1 \in 1 .. Len(a) + 1
    BY <1>2
  <2>2. c[i] = a[i] /\ a[i].lock \in Locks
    BY <1>1, <1>2, LocksOfPath
  <2>3. \A l \in Locks : /\ Open(c, i, l) <=> Open(a, i, l)
                         /\ Open(c, i + 1, l) <=> Open(a, i + 1, l)
    BY <1>3, <2>1
  <2>4. /\ a[i].op = "take" => TakesInOrder(t, a, i)
        /\ a[i].op = "try" => i < Len(a) /\ a[i + 1] = Release(a[i].lock)
        /\ a[i].op = "release" => ~ Open(a, i + 1, a[i].lock)
    BY DEF Conduct
  <2>5. c[i].op = "take" => TakesInOrder(t, c, i)
    BY <2>2, <2>3, <2>4 DEF TakesInOrder
  <2>6. i < Len(a) => i < Len(c) /\ c[i + 1] = a[i + 1]
    BY <1>2
  <2>7. QED
    BY <2>2, <2>3, <2>4, <2>5, <2>6
<1>7. ASSUME NEW k \in 1 .. Len(b)
      PROVE  LET i == Len(a) + k
             IN  /\ c[i].op = "take" => TakesInOrder(t, c, i)
                 /\ c[i].op = "try" => i < Len(c) /\ c[i + 1] = Release(c[i].lock)
                 /\ c[i].op = "release" => ~ Open(c, i + 1, c[i].lock)
  <2> DEFINE i == Len(a) + k
  <2>1. /\ k \in 1 .. Len(b) + 1 /\ k + 1 \in 1 .. Len(b) + 1
        /\ i + 1 = Len(a) + (k + 1)
    BY <1>2
  <2>2. c[i] = b[k] /\ b[k].lock \in Locks
    BY <1>1, <1>2, LocksOfPath
  <2>3. \A l \in Locks : /\ Open(c, i, l) <=> Open(b, k, l)
                         /\ Open(c, i + 1, l) <=> Open(b, k + 1, l)
    BY <1>4, <2>1
  <2>4. /\ b[k].op = "take" => TakesInOrder(t, b, k)
        /\ b[k].op = "try" => k < Len(b) /\ b[k + 1] = Release(b[k].lock)
        /\ b[k].op = "release" => ~ Open(b, k + 1, b[k].lock)
    BY DEF Conduct
  <2>5. k < Len(b) => i < Len(c) /\ c[i + 1] = b[k + 1]
    <3>1. ASSUME k < Len(b) PROVE i < Len(c) /\ k + 1 \in 1 .. Len(b)
      BY <1>2, <3>1
    <3>2. QED
      BY <1>2, <2>1, <3>1
  <2> HIDE DEF i
  <2>6. c[i].op = "take" => TakesInOrder(t, c, i)
    BY <2>2, <2>3, <2>4 DEF TakesInOrder
  <2>7. QED
    BY <2>2, <2>3, <2>4, <2>5, <2>6 DEF i
<1>8. ASSUME NEW i \in 1 .. Len(c), ~ (i \in 1 .. Len(a))
      PROVE  i - Len(a) \in 1 .. Len(b) /\ Len(a) + (i - Len(a)) = i
  BY <1>2, <1>8
<1>9. Conduct(t, c)
  <2> SUFFICES ASSUME NEW i \in 1 .. Len(c)
               PROVE  /\ c[i].op = "take" => TakesInOrder(t, c, i)
                      /\ c[i].op = "try" => i < Len(c) /\ c[i + 1] = Release(c[i].lock)
                      /\ c[i].op = "release" => ~ Open(c, i + 1, c[i].lock)
    BY <1>2 DEF Conduct
  <2>1. CASE i \in 1 .. Len(a)
    BY <1>6, <2>1
  <2>2. CASE ~ (i \in 1 .. Len(a))
    <3> DEFINE k == i - Len(a)
    <3>1. k \in 1 .. Len(b) /\ Len(a) + k = i
      BY <1>8, <2>2
    <3> HIDE DEF k
    <3>2. QED
      BY <1>7, <3>1
  <2>3. QED
    BY <2>1, <2>2
<1>10. QED
  BY <1>5, <1>9 DEF c

LEMMA JoinMeets ==
  ASSUME NEW a \in Seq(Steps), NEW b \in Seq(Steps), NEW L, Meets(a, L), Meets(b, L)
  PROVE  Meets(a \o b, L)
<1> DEFINE c == a \o b
<1>1. /\ Len(a) \in Nat /\ Len(b) \in Nat /\ Len(c) = Len(a) + Len(b)
      /\ \A j \in 1 .. Len(a) : c[j] = a[j]
      /\ \A j \in 1 .. Len(b) : c[Len(a) + j] = b[j]
  BY Join
<1> HIDE DEF c
<1>2. ASSUME NEW i \in 1 .. Len(c) PROVE c[i].lock \in L
  <2>1. CASE i \in 1 .. Len(a)
    BY <1>1, <2>1 DEF Meets
  <2>2. CASE ~ (i \in 1 .. Len(a))
    <3> DEFINE k == i - Len(a)
    <3>1. k \in 1 .. Len(b) /\ Len(a) + k = i
      BY <1>1, <2>2
    <3> HIDE DEF k
    <3>2. QED
      BY <1>1, <3>1 DEF Meets
  <2>3. QED
    BY <2>1, <2>2
<1>3. QED
  BY <1>2 DEF Meets, c

LEMMA ThenIsOrderly ==
  ASSUME NEW t, NEW A, NEW B, NEW L, Orderly(t, A, L), Orderly(t, B, L)
  PROVE  Orderly(t, Then(A, B), L)
<1> SUFFICES ASSUME NEW p \in Then(A, B)
             PROVE  Conduct(t, p) /\ Closed(p) /\ Meets(p, L)
  BY DEF Orderly
<1>1. PICK a \in A, b \in B : p = a \o b
  BY DEF Then
<1>2. /\ Conduct(t, a) /\ Closed(a) /\ Meets(a, L)
      /\ Conduct(t, b) /\ Closed(b) /\ Meets(b, L)
  BY DEF Orderly
<1>3. a \in Seq(Steps) /\ b \in Seq(Steps)
  BY <1>2 DEF Conduct
<1>4. QED
  BY <1>1, <1>2, <1>3, JoinConduct, JoinMeets

(* A lock is taken before a path that does not meet it, and released after *)
(* it.                                                                     *)
Embraced(l, a) == <<Take(l)>> \o (a \o <<Release(l)>>)

LEMMA InSection ==
  ASSUME NEW A, NEW l, NEW p \in Section(l, A)
  PROVE  \E a \in A : p = Embraced(l, a)
<1> DEFINE X == {<<Take(l)>>}
<1> DEFINE Y == {<<Release(l)>>}
<1> DEFINE Z == Then(A, Y)
<1>1. (\A e \in X : e = <<Take(l)>>) /\ \A e \in Y : e = <<Release(l)>>
  OBVIOUS
<1>2. p \in Then(X, Z)
  BY DEF Section
<1> HIDE DEF X, Y, Z
<1>3. PICK c \in X, b \in Z : p = c \o b
  BY <1>2 DEF Then
<1>4. PICK a \in A, d \in Y : b = a \o d
  BY DEF Z, Then
<1>5. QED
  BY <1>1, <1>3, <1>4 DEF Embraced

LEMMA Embrace ==
  ASSUME NEW a \in Seq(Steps), NEW l \in Locks
  PROVE  LET p == Embraced(l, a)
         IN  /\ p \in Seq(Steps)
             /\ Len(a) \in Nat /\ Len(p) = Len(a) + 2
             /\ p[1] = Take(l) /\ p[Len(a) + 2] = Release(l)
             /\ \A i \in 1 .. Len(a) : p[i + 1] = a[i]
<1> DEFINE b == a \o <<Release(l)>>
<1> DEFINE p == <<Take(l)>> \o b
<1>1. /\ <<Take(l)>> \in Seq(Steps) /\ <<Release(l)>> \in Seq(Steps)
      /\ Len(<<Take(l)>>) = 1 /\ Len(<<Release(l)>>) = 1
      /\ <<Take(l)>>[1] = Take(l) /\ <<Release(l)>>[1] = Release(l)
  BY DEF Steps, Take, Release
<1>2. /\ b \in Seq(Steps) /\ Len(a) \in Nat /\ Len(b) = Len(a) + 1
      /\ \A i \in 1 .. Len(a) : b[i] = a[i]
      /\ b[Len(a) + 1] = Release(l)
  BY <1>1, Join
<1> HIDE DEF b
<1>3. /\ p \in Seq(Steps) /\ Len(p) = 1 + Len(b)
      /\ p[1] = Take(l)
      /\ \A i \in 1 .. Len(b) : p[1 + i] = b[i]
  BY <1>1, <1>2, Join
<1> HIDE DEF p
<1>4. Len(p) = Len(a) + 2
  BY <1>2, <1>3
<1>5. p[Len(a) + 2] = Release(l)
  <2>1. Len(a) + 1 \in 1 .. Len(b) /\ 1 + (Len(a) + 1) = Len(a) + 2
    BY <1>2
  <2>2. QED
    BY <1>2, <1>3, <2>1
<1>6. ASSUME NEW i \in 1 .. Len(a) PROVE p[i + 1] = a[i]
  <2>1. i \in 1 .. Len(b) /\ 1 + i = i + 1
    BY <1>2
  <2>2. QED
    BY <1>2, <1>3, <2>1
<1>7. QED
  BY <1>2, <1>3, <1>4, <1>5, <1>6 DEF p, b, Embraced

(* Inside the section its lock is held, and so is what the path inside     *)
(* holds.                                                                  *)
LEMMA OpenInside ==
  ASSUME NEW a \in Seq(Steps), NEW l \in Locks, NEW p, NEW m \in Locks,
         p \in Seq(Steps), Len(p) = Len(a) + 2,
         p[1] = Take(l), p[Len(a) + 2] = Release(l),
         \A i \in 1 .. Len(a) : p[i + 1] = a[i],
         \A i \in 1 .. Len(a) : a[i].lock # l,
         NEW i \in 1 .. Len(a) + 1
  PROVE  Open(p, i + 1, m) <=> m = l \/ Open(a, i, m)
<1>1. Len(a) \in Nat
  BY LenProperties
<1>2. ASSUME NEW j \in i + 1 .. Len(a) + 1
      PROVE  j - 1 \in 1 .. Len(a) /\ p[j] = a[j - 1] /\ j - 1 \in i .. Len(a)
  <2>1. j - 1 \in 1 .. Len(a) /\ (j - 1) + 1 = j /\ j - 1 \in i .. Len(a)
    BY <1>1
  <2>2. QED
    BY <2>1
<1>3. ASSUME m = l PROVE Open(p, i + 1, m)
  <2>1. Len(a) + 2 \in i + 1 .. Len(p) /\ (Len(a) + 2) - 1 = Len(a) + 1
    BY <1>1
  <2>2. \A j \in i + 1 .. Len(a) + 1 : p[j].lock # l
    BY <1>2
  <2>3. \A j \in i + 1 .. (Len(a) + 2) - 1 : p[j].lock # l
    BY <2>1, <2>2
  <2>4. QED
    BY <1>3, <2>1, <2>3 DEF Open
<1>4. ASSUME Open(a, i, m) PROVE Open(p, i + 1, m)
  <2>1. PICK k \in i .. Len(a) : a[k] = Release(m) /\ \A j \in i .. k - 1 : a[j].lock # m
    BY <1>4 DEF Open
  <2>2. k \in 1 .. Len(a) /\ k + 1 \in i + 1 .. Len(p)
    BY <1>1, <2>1
  <2>3. p[k + 1] = Release(m)
    BY <2>1, <2>2
  <2>4. ASSUME NEW j \in i + 1 .. (k + 1) - 1 PROVE p[j].lock # m
    <3>1. j \in i + 1 .. Len(a) + 1 /\ j - 1 \in i .. k - 1
      BY <1>1, <2>1
    <3>2. QED
      BY <1>2, <2>1, <3>1
  <2>5. QED
    BY <2>2, <2>3, <2>4 DEF Open
<1>5. ASSUME m # l, Open(p, i + 1, m) PROVE Open(a, i, m)
  <2>1. PICK k \in i + 1 .. Len(p) :
          p[k] = Release(m) /\ \A j \in i + 1 .. k - 1 : p[j].lock # m
    BY <1>5 DEF Open
  <2>2. Release(m) # Release(l)
    BY <1>5 DEF Release
  <2>3. k \in i + 1 .. Len(a) + 1
    BY <1>1, <2>1, <2>2
  <2>4. k - 1 \in i .. Len(a) /\ a[k - 1] = Release(m)
    BY <1>2, <2>1, <2>3
  <2>5. ASSUME NEW j \in i .. (k - 1) - 1 PROVE a[j].lock # m
    <3>1. j + 1 \in i + 1 .. k - 1 /\ j \in 1 .. Len(a)
      BY <1>1, <2>3
    <3>2. QED
      BY <2>1, <3>1
  <2>6. QED
    BY <2>4, <2>5 DEF Open
<1>6. QED
  BY <1>3, <1>4, <1>5

LEMMA EmbraceConduct ==
  ASSUME NEW t, NEW a, NEW l \in Locks, NEW L,
         Conduct(t, a), Closed(a), Meets(a, L), l \notin L,
         l = "GPRS" => t = "portal",
         \A m \in L \intersect Locks : <<l, m>> \in Order(t)
  PROVE  LET p == Embraced(l, a)
         IN  Conduct(t, p) /\ Closed(p) /\ Meets(p, L \union {l})
<1> DEFINE p == Embraced(l, a)
<1>1. a \in Seq(Steps)
  BY DEF Conduct
<1>2. /\ p \in Seq(Steps)
      /\ Len(a) \in Nat /\ Len(p) = Len(a) + 2
      /\ p[1] = Take(l) /\ p[Len(a) + 2] = Release(l)
      /\ \A i \in 1 .. Len(a) : p[i + 1] = a[i]
  BY <1>1, Embrace
<1> HIDE DEF p
<1>3. \A i \in 1 .. Len(a) : a[i].lock # l /\ a[i].lock \in L \intersect Locks
  BY <1>1, LocksOfPath DEF Meets
<1>4. \A m \in Locks, i \in 1 .. Len(a) + 1 : Open(p, i + 1, m) <=> m = l \/ Open(a, i, m)
  BY <1>1, <1>2, <1>3, OpenInside
<1>5. \A m : ~ Open(p, Len(a) + 3, m)
  BY <1>2 DEF Open
<1>6. ASSUME NEW m \in Locks, Open(p, 1, m) PROVE FALSE
  <2>1. PICK k \in 1 .. Len(p) : p[k] = Release(m) /\ \A j \in 1 .. k - 1 : p[j].lock # m
    BY <1>6 DEF Open
  <2>2. k # 1
    BY <1>2, <2>1 DEF Take, Release
  <2>3. p[1].lock # m /\ p[1].lock = l
    BY <1>2, <2>1, <2>2 DEF Take
  <2>4. Open(p, 1 + 1, m)
    <3>1. k \in 1 + 1 .. Len(p) /\ \A j \in 1 + 1 .. k - 1 : j \in 1 .. k - 1
      BY <2>1, <2>2
    <3>2. QED
      BY <2>1, <3>1 DEF Open
  <2>5. 1 \in 1 .. Len(a) + 1
    BY <1>2
  <2>6. Open(a, 1, m)
    BY <1>4, <2>3, <2>4, <2>5
  <2>7. QED
    BY <2>6 DEF Closed
<1>7. TakesInOrder(t, p, 1) /\ p[1].op = "take"
  <2>1. p[1].lock = l /\ p[1].op = "take"
    BY <1>2 DEF Take
  <2>2. Open(p, 1 + 1, l)
    <3>1. 1 \in 1 .. Len(a) + 1
      BY <1>2
    <3>2. QED
      BY <1>4, <3>1
  <2>3. QED
    BY <1>6, <2>1, <2>2 DEF TakesInOrder
<1>8. ASSUME NEW i \in 1 .. Len(a)
      PROVE  /\ p[i + 1].op = "take" => TakesInOrder(t, p, i + 1)
             /\ p[i + 1].op = "try" =>
                  i + 1 < Len(p) /\ p[(i + 1) + 1] = Release(p[i + 1].lock)
             /\ p[i + 1].op = "release" => ~ Open(p, (i + 1) + 1, p[i + 1].lock)
  <2>1. i \in 1 .. Len(a) + 1 /\ i + 1 \in 1 .. Len(a) + 1
    BY <1>2
  <2>2. p[i + 1] = a[i] /\ a[i].lock # l /\ a[i].lock \in L \intersect Locks
    BY <1>2, <1>3
  <2>3. \A m \in Locks : /\ Open(p, i + 1, m) <=> m = l \/ Open(a, i, m)
                         /\ Open(p, (i + 1) + 1, m) <=> m = l \/ Open(a, i + 1, m)
    BY <1>4, <2>1
  <2>4. /\ a[i].op = "take" => TakesInOrder(t, a, i)
        /\ a[i].op = "try" => i < Len(a) /\ a[i + 1] = Release(a[i].lock)
        /\ a[i].op = "release" => ~ Open(a, i + 1, a[i].lock)
    BY DEF Conduct
  <2>5. p[i + 1].op = "take" => TakesInOrder(t, p, i + 1)
    <3> SUFFICES ASSUME TakesInOrder(t, a, i) PROVE TakesInOrder(t, p, i + 1)
      BY <2>2, <2>4
    <3>1. \A m \in Locks : Open(p, i + 1, m) => <<m, p[i + 1].lock>> \in Order(t)
      BY <2>2, <2>3 DEF TakesInOrder
    <3>2. QED
      BY <2>2, <2>3, <3>1 DEF TakesInOrder
  <2>6. i < Len(a) => i + 1 < Len(p) /\ p[(i + 1) + 1] = a[i + 1]
    <3>1. ASSUME i < Len(a) PROVE i + 1 < Len(p) /\ i + 1 \in 1 .. Len(a)
      BY <1>2, <3>1
    <3>2. QED
      BY <1>2, <3>1
  <2>7. QED
    BY <2>2, <2>3, <2>4, <2>5, <2>6
<1>9. Conduct(t, p)
  <2> SUFFICES ASSUME NEW i \in 1 .. Len(p)
               PROVE  /\ p[i].op = "take" => TakesInOrder(t, p, i)
                      /\ p[i].op = "try" => i < Len(p) /\ p[i + 1] = Release(p[i].lock)
                      /\ p[i].op = "release" => ~ Open(p, i + 1, p[i].lock)
    BY <1>2 DEF Conduct
  <2>1. CASE i = 1
    BY <1>7, <2>1
  <2>2. CASE i = Len(a) + 2
    <3>1. i + 1 = Len(a) + 3
      BY <1>2, <2>2
    <3>2. p[i].op = "release"
      BY <1>2, <2>2 DEF Release
    <3>3. QED
      BY <1>5, <3>1, <3>2
  <2>3. CASE i # 1 /\ i # Len(a) + 2
    <3> DEFINE k == i - 1
    <3>1. k \in 1 .. Len(a) /\ k + 1 = i
      BY <1>2, <2>3
    <3> HIDE DEF k
    <3>2. QED
      BY <1>8, <3>1
  <2>4. QED
    BY <2>1, <2>2, <2>3
<1>10. Meets(p, L \union {l})
  <2> SUFFICES ASSUME NEW i \in 1 .. Len(p) PROVE p[i].lock \in L \union {l}
    BY DEF Meets
  <2>1. CASE i = 1 \/ i = Len(a) + 2
    BY <1>2, <2>1 DEF Take, Release
  <2>2. CASE i # 1 /\ i # Len(a) + 2
    <3> DEFINE k == i - 1
    <3>1. k \in 1 .. Len(a) /\ k + 1 = i
      BY <1>2, <2>2
    <3> HIDE DEF k
    <3>2. QED
      BY <1>2, <1>3, <3>1
  <2>3. QED
    BY <2>1, <2>2
<1>11. QED
  BY <1>6, <1>9, <1>10 DEF Closed, p

LEMMA SectionIsOrderly ==
  ASSUME NEW t, NEW l \in Locks, NEW A, NEW L, Orderly(t, A, L), l \notin L,
         l = "GPRS" => t = "portal",
         \A m \in L \intersect Locks : <<l, m>> \in Order(t)
  PROVE  Orderly(t, Section(l, A), L \union {l})
<1> SUFFICES ASSUME NEW p \in Section(l, A)
             PROVE  Conduct(t, p) /\ Closed(p) /\ Meets(p, L \union {l})
  BY DEF Orderly
<1>1. PICK a \in A : p = Embraced(l, a)
  BY InSection
<1>2. Conduct(t, a) /\ Closed(a) /\ Meets(a, L)
  BY DEF Orderly
<1>3. QED
  BY <1>1, <1>2, EmbraceConduct

LEMMA PlainIsOrderly ==
  ASSUME NEW t, NEW l \in Locks, l = "GPRS" => t = "portal"
  PROVE  Orderly(t, Plain(l), {l})
<1>1. Orderly(t, Nothing, {})
  BY NothingIsOrderly
<1>2. Orderly(t, Section(l, Nothing), {} \union {l})
  BY <1>1, SectionIsOrderly
<1>3. QED
  BY <1>2 DEF Plain

LEMMA TriedIsOrderly ==
  ASSUME NEW t, NEW l \in Locks
  PROVE  Orderly(t, Tried(l), {l})
<1> DEFINE p == <<TryTake(l), Release(l)>>
<1>1. /\ p \in Seq(Steps) /\ Len(p) = 2
      /\ p[1] = TryTake(l) /\ p[2] = Release(l)
  BY DEF Steps, TryTake, Release
<1> HIDE DEF p
<1>2. /\ p[1].op = "try" /\ p[1].lock = l
      /\ p[2].op = "release" /\ p[2].lock = l
  BY <1>1 DEF TryTake, Release
<1>3. ASSUME NEW m, Open(p, 1, m) PROVE FALSE
  <2>1. PICK k \in 1 .. 2 : p[k] = Release(m) /\ \A j \in 1 .. k - 1 : p[j].lock # m
    BY <1>1, <1>3 DEF Open
  <2>2. k # 1
    BY <1>2, <2>1 DEF Release
  <2>3. p[1].lock # m /\ p[2] = Release(m)
    BY <2>1, <2>2
  <2>4. QED
    BY <1>2, <2>3 DEF Release
<1>4. \A m : ~ Open(p, 3, m)
  BY <1>1 DEF Open
<1>5. Conduct(t, p)
  <2>1. \A i \in 1 .. Len(p) : i = 1 \/ i = 2
    BY <1>1
  <2>2. 1 < Len(p) /\ 1 + 1 = 2 /\ 2 + 1 = 3
    BY <1>1
  <2>3. QED
    BY <1>1, <1>2, <1>4, <2>1, <2>2 DEF Conduct
<1>6. Closed(p) /\ Meets(p, {l})
  BY <1>1, <1>2, <1>3 DEF Closed, Meets
<1>7. QED
  BY <1>5, <1>6 DEF Orderly, Tried, p

LEMMA AmongLocks ==
  ASSUME NEW t, NEW l \in Locks
  PROVE  /\ Orderly(t, Tried(l), Locks)
         /\ (l = "GPRS" => t = "portal") => Orderly(t, Plain(l), Locks)
<1>1. {l} \subseteq Locks
  OBVIOUS
<1>2. Orderly(t, Tried(l), Locks)
  BY <1>1, TriedIsOrderly, Wider
<1>3. ASSUME l = "GPRS" => t = "portal" PROVE Orderly(t, Plain(l), Locks)
  BY <1>1, <1>3, PlainIsOrderly, Wider
<1>4. QED
  BY <1>2, <1>3

LEMMA KeepsIsOrderly ==
  ASSUME NEW t, NEW l \in Locks, l \in Kept
  PROVE  Orderly(t, Keeps(l), {l})
<1> DEFINE p == <<Take(l)>>
<1>1. p \in Seq(Steps) /\ Len(p) = 1 /\ p[1] = Take(l)
  BY DEF Steps, Take
<1> HIDE DEF p
<1>2. p[1].op = "take" /\ p[1].lock = l
  BY <1>1 DEF Take
<1>3. \A m : ~ Open(p, 1, m)
  BY <1>1 DEF Open, Take, Release
<1>4. Conduct(t, p)
  <2>1. TakesInOrder(t, p, 1)
    BY <1>2, <1>3 DEF TakesInOrder, Kept
  <2>2. \A i \in 1 .. Len(p) : i = 1
    BY <1>1
  <2>3. QED
    BY <1>1, <1>2, <2>1, <2>2 DEF Conduct
<1>5. Closed(p) /\ Meets(p, {l})
  BY <1>1, <1>2, <1>3 DEF Closed, Meets
<1>6. QED
  BY <1>4, <1>5 DEF Orderly, Keeps, p

LEMMA PlainOrKeepsIsOrderly ==
  ASSUME NEW t, NEW l \in Locks, l \in Kept
  PROVE  Orderly(t, Plain(l) \union Keeps(l), {l})
<1>1. l # "GPRS"
  BY DEF Kept
<1>2. QED
  BY <1>1, PlainIsOrderly, KeepsIsOrderly, EitherIsOrderly

(* A non-empty set of natural numbers has a smallest element.              *)
LEMMA Smallest ==
  ASSUME NEW T, T \subseteq Nat, T # {}
  PROVE  \E x \in T : \A y \in T : ~ (y < x)
<1>1. PICK x \in T : \A y \in T : ~ (<<y, x>> \in OpToRel(<, Nat))
  BY NatLessThanWellFounded, WFMin
<1>2. ASSUME NEW y \in T, y < x PROVE FALSE
  <2>1. <<y, x>> \in OpToRel(<, Nat)
    BY <1>2 DEF OpToRel
  <2>2. QED
    BY <1>1, <2>1
<1>3. QED
  BY <1>1, <1>2

(* The recursive function in UpTo exists.                                  *)
Row(f, k, A) == IF k = 0 THEN Nothing ELSE Nothing \union Then(A, f[k - 1])

IsTimes(f, n, A) == f = [k \in 0 .. n |-> Row(f, k, A)]

LEMMA TimesExists ==
  ASSUME NEW A, NEW n \in Nat
  PROVE  \E f : IsTimes(f, n, A)
<1> DEFINE T == {m \in Nat : ~ \E f : IsTimes(f, m, A)}
<1>1. ASSUME n \in T PROVE FALSE
  <2>1. PICK x \in T : \A y \in T : ~ (y < x)
    BY <1>1, Smallest
  <2>2. CASE x = 0
    <3> DEFINE f == [k \in 0 .. 0 |-> Nothing]
    <3>1. IsTimes(f, 0, A)
      BY DEF IsTimes, Row
    <3>2. QED
      BY <2>1, <2>2, <3>1
  <2>3. CASE x # 0
    <3>1. x - 1 \in Nat /\ x - 1 < x /\ x \in Nat
      BY <2>1, <2>3
    <3>2. PICK f : IsTimes(f, x - 1, A)
      BY <2>1, <3>1
    <3> DEFINE g == [k \in 0 .. x |-> Row(f, k, A)]
    <3>3. ASSUME NEW k \in 0 .. x - 1 PROVE g[k] = f[k]
      <4>1. g[k] = Row(f, k, A)
        BY <3>1
      <4>2. f[k] = Row(f, k, A)
        BY <3>2 DEF IsTimes
      <4>3. QED
        BY <4>1, <4>2
    <3>4. ASSUME NEW k \in 0 .. x PROVE Row(f, k, A) = Row(g, k, A)
      <4>1. CASE k = 0
        BY <4>1 DEF Row
      <4>2. CASE k # 0
        <5>1. k - 1 \in 0 .. x - 1
          BY <3>1, <4>2
        <5>2. g[k - 1] = f[k - 1]
          BY <3>3, <5>1
        <5> HIDE DEF g
        <5>3. QED
          BY <5>2 DEF Row
      <4>3. QED
        BY <4>1, <4>2
    <3>5. g = [k \in 0 .. x |-> Row(f, k, A)]
      OBVIOUS
    <3> HIDE DEF g
    <3>6. IsTimes(g, x, A)
      BY <3>4, <3>5 DEF IsTimes
    <3>7. QED
      BY <2>1, <3>6
  <2>4. QED
    BY <2>2, <2>3
<1>2. QED
  BY <1>1

LEMMA UpToIsOrderly ==
  ASSUME NEW t, NEW A, NEW L, Orderly(t, A, L), NEW n \in Nat
  PROVE  Orderly(t, UpTo(n, A), L)
<1> DEFINE times == CHOOSE f : f = [k \in 0 .. n |-> Row(f, k, A)]
<1>1. times = [k \in 0 .. n |-> Row(times, k, A)]
  BY TimesExists DEF IsTimes
<1>2. UpTo(n, A) = times[n]
  BY DEF UpTo, Row
<1> HIDE DEF times
<1>3. Orderly(t, Nothing, L)
  BY NothingIsOrderly, Wider
<1> DEFINE T == {k \in 0 .. n : ~ Orderly(t, times[k], L)}
<1>4. ASSUME T # {} PROVE FALSE
  <2>0. T \subseteq Nat
    OBVIOUS
  <2> HIDE DEF T
  <2>1. PICK k \in T : \A y \in T : ~ (y < k)
    BY <1>4, <2>0, Smallest
  <2> USE DEF T
  <2>2. times[k] = Row(times, k, A)
    BY <1>1, <2>1
  <2>3. CASE k = 0
    BY <1>3, <2>1, <2>2, <2>3 DEF Row
  <2>4. CASE k # 0
    <3>1. k - 1 \in 0 .. n /\ k - 1 < k
      BY <2>1, <2>4
    <3>2. Orderly(t, times[k - 1], L)
      BY <2>1, <3>1
    <3>3. Orderly(t, Nothing \union Then(A, times[k - 1]), L)
      BY <1>3, <3>2, ThenIsOrderly, EitherIsOrderly
    <3>4. QED
      BY <2>1, <2>2, <2>4, <3>3 DEF Row
  <2>5. QED
    BY <2>3, <2>4
<1>5. QED
  BY <1>2, <1>4

------------------------------------------------------------------------------
(* The routines                                                            *)

LEMMA LockNames ==
  /\ {"GPRS", "SentLog", "Heat", "Forwarder", "ForwarderInfo", "users", "tx", "htx",
      "heat", "valve"} \subseteq Locks
  /\ {"heat", "valve"} \subseteq Queues /\ RecordQueues \subseteq Queues
  /\ Queues \subseteq Locks /\ Kept \subseteq Locks
  /\ \A q \in Queues :
       q \notin {"GPRS", "SentLog", "Heat", "Forwarder", "ForwarderInfo", "users",
                 "tx", "htx"}
BY QueuesAssumption DEF Locks, Queues, Kept

LEMMA PortalOrder ==
  /\ \A q \in Queues : <<q, "SentLog">> \in Order("portal") /\ <<q, "GPRS">> \in Order("portal")
  /\ \A q \in RecordQueues : /\ <<"GPRS", q>> \in Order("portal")
                             /\ <<"Forwarder", q>> \in Order("portal")
  /\ {<<"Heat", "heat">>, <<"GPRS", "Forwarder">>, <<"GPRS", "htx">>} \subseteq Order("portal")
BY DEF Order

LEMMA ValvesOrder ==
  \A q \in RecordQueues \union {"valve"} : <<"Forwarder", q>> \in Order("valves")
BY DEF Order

LEMMA InsertIsOrderly ==
  ASSUME NEW t, NEW q \in Queues
  PROVE  Orderly(t, Insert(q), {q})
<1>1. q \in Locks /\ q # "GPRS"
  BY LockNames
<1>2. QED
  BY <1>1, PlainIsOrderly DEF Insert

LEMMA ParseDataIsOrderly ==
  ASSUME NEW t
  PROVE  Orderly(t, ParseData, RecordQueues)
<1>1. Orderly(t, Nothing, RecordQueues)
  BY NothingIsOrderly, Wider
<1>2. Orderly(t, UNION {Insert(q) : q \in RecordQueues}, RecordQueues)
  <2> SUFFICES ASSUME NEW q \in RecordQueues, NEW p \in Insert(q)
               PROVE  Conduct(t, p) /\ Closed(p) /\ Meets(p, RecordQueues)
    BY DEF Orderly
  <2>1. Orderly(t, Insert(q), {q})
    BY InsertIsOrderly, LockNames
  <2>2. QED
    BY <2>1, Wider DEF Orderly, Meets
<1>3. QED
  BY <1>1, <1>2, EitherIsOrderly DEF ParseData

LEMMA SendQueueIsOrderly ==
  ASSUME NEW q \in Queues
  PROVE  Orderly("portal", SendQueue(q), Locks)
<1> DEFINE L == {"SentLog", "GPRS"}
<1>1. /\ "SentLog" \in Locks /\ "GPRS" \in Locks /\ q \in Locks /\ q \notin L /\ q # "GPRS"
      /\ L \union {q} \subseteq Locks
  BY LockNames
<1>2. Orderly("portal", LogSentData(TRUE), L)
  <2>1. Orderly("portal", Plain("SentLog"), {"SentLog"})
    BY <1>1, PlainIsOrderly
  <2>2. QED
    BY <2>1, Wider DEF LogSentData
<1>3. Orderly("portal", Nothing \union Plain("GPRS"), L)
  <2>1. Orderly("portal", Plain("GPRS"), {"GPRS"})
    BY <1>1, PlainIsOrderly
  <2>2. Orderly("portal", Plain("GPRS"), L) /\ Orderly("portal", Nothing, L)
    BY <2>1, Wider, NothingIsOrderly
  <2>3. QED
    BY <2>2, EitherIsOrderly
<1> HIDE DEF L
<1>4. Orderly("portal", GPRS_Send(TRUE), L)
  BY <1>2, <1>3, ThenIsOrderly DEF GPRS_Send
<1>5. Orderly("portal", UpTo(MaxSends, GPRS_Send(TRUE)), L)
  BY <1>4, UpToIsOrderly, BoundsAssumption
<1>6. \A m \in L \intersect Locks : <<q, m>> \in Order("portal")
  BY PortalOrder DEF L
<1>7. Orderly("portal", SendQueue(q), L \union {q})
  BY <1>1, <1>5, <1>6, SectionIsOrderly DEF SendQueue
<1>8. QED
  BY <1>1, <1>7, Wider

(* With meters; without them SendHeatData is a single release.             *)
LEMMA SendHeatDataIsOrderly ==
  ASSUME meters
  PROVE  Orderly("portal", SendHeatData, Locks)
<1>1. Orderly("portal", Insert("heat"), {"heat"}) /\ Orderly("portal", Nothing, {"heat"})
  BY InsertIsOrderly, NothingIsOrderly, Wider, LockNames
<1>2. Orderly("portal", Nothing \union Insert("heat"), {"heat"})
  BY <1>1, EitherIsOrderly
<1>3. Orderly("portal", Section("Heat", Nothing \union Insert("heat")), {"heat"} \union {"Heat"})
  <2>1. "Heat" \in Locks /\ "Heat" \notin {"heat"} /\ "Heat" # "GPRS"
    BY LockNames
  <2>2. \A m \in {"heat"} \intersect Locks : <<"Heat", m>> \in Order("portal")
    BY PortalOrder
  <2>3. QED
    BY <1>2, <2>1, <2>2, SectionIsOrderly
<1>4. QED
  BY <1>3, Wider, LockNames DEF SendHeatData

LEMMA GPRS_ReceiveIsOrderly ==
  Orderly("portal", GPRS_Receive, Locks)
<1> DEFINE L == {"Forwarder", "htx"} \union RecordQueues
<1>1. /\ "GPRS" \in Locks /\ "Forwarder" \in Locks /\ "htx" \in Locks
      /\ "Forwarder" \in Kept /\ "htx" \in Kept
      /\ "GPRS" \notin L /\ "Forwarder" \notin RecordQueues
      /\ RecordQueues \union {"Forwarder"} \subseteq L /\ L \union {"GPRS"} \subseteq Locks
      /\ {"Forwarder"} \subseteq L /\ {"htx"} \subseteq L
  BY LockNames DEF Kept
<1>2. \A m \in L \intersect Locks : <<"GPRS", m>> \in Order("portal")
  BY PortalOrder
<1> HIDE DEF L
<1>3. Orderly("portal", ConfigForwarder, L)
  <2>1. Orderly("portal", Section("Forwarder", ParseData), RecordQueues \union {"Forwarder"})
    BY <1>1, ParseDataIsOrderly, PortalOrder, SectionIsOrderly
  <2>2. Orderly("portal", Keeps("Forwarder"), {"Forwarder"})
    BY <1>1, KeepsIsOrderly
  <2>3. Orderly("portal", Section("Forwarder", ParseData), L)
        /\ Orderly("portal", Keeps("Forwarder"), L)
    BY <1>1, <2>1, <2>2, Wider
  <2>4. QED
    BY <2>3, EitherIsOrderly DEF ConfigForwarder
<1>4. Orderly("portal", ConfigValves, L)
  <2>1. Orderly("portal", Plain("htx") \union Keeps("htx"), L)
    BY <1>1, PlainOrKeepsIsOrderly, Wider
  <2>2. QED
    BY <2>1, UpToIsOrderly, BoundsAssumption DEF ConfigValves
<1>5. Orderly("portal", UpTo(2, IF wireless THEN ConfigForwarder ELSE ConfigValves), L)
  <2>1. Orderly("portal", IF wireless THEN ConfigForwarder ELSE ConfigValves, L)
    BY <1>3, <1>4
  <2>2. 2 \in Nat
    OBVIOUS
  <2>3. QED
    BY <2>1, <2>2, UpToIsOrderly
<1>6. Orderly("portal", GPRS_Receive, L \union {"GPRS"})
  BY <1>1, <1>2, <1>5, SectionIsOrderly DEF GPRS_Receive
<1>7. QED
  BY <1>1, <1>6, Wider

(* m_ForwarderLock around the insertion of whatever the valves thread got. *)
LEMMA ForwarderSection ==
  ASSUME NEW A, NEW L, L \subseteq RecordQueues \union {"valve"}, Orderly("valves", A, L)
  PROVE  Orderly("valves", Section("Forwarder", UpTo(MaxSends, A)), Locks)
<1>1. /\ "Forwarder" \in Locks /\ "Forwarder" \notin L /\ "Forwarder" # "GPRS"
      /\ L \union {"Forwarder"} \subseteq Locks
  BY LockNames
<1>2. \A m \in L \intersect Locks : <<"Forwarder", m>> \in Order("valves")
  BY ValvesOrder
<1>3. Orderly("valves", UpTo(MaxSends, A), L)
  BY UpToIsOrderly, BoundsAssumption
<1>4. Orderly("valves", Section("Forwarder", UpTo(MaxSends, A)), L \union {"Forwarder"})
  BY <1>1, <1>2, <1>3, SectionIsOrderly
<1>5. QED
  BY <1>1, <1>4, Wider

LEMMA ForwarderIsOrderly ==
  Orderly("valves", Forwarder, Locks)
<1>1. Orderly("valves", SetForwarderInfo, Locks) /\ Orderly("valves", SaveUsers, Locks)
  <2>1. /\ Orderly("valves", Plain("ForwarderInfo"), Locks)
        /\ Orderly("valves", Plain("users"), Locks)
    BY AmongLocks, LockNames
  <2>2. QED
    BY <2>1 DEF SetForwarderInfo, SaveUsers
<1>2. Orderly("valves", CollectData, Locks)
  BY ParseDataIsOrderly, ForwarderSection DEF CollectData
<1>3. Orderly("valves", SendForwarderData, Locks)
  <2>1. Orderly("valves", Insert("valve"), {"valve"})
    BY InsertIsOrderly, LockNames
  <2>2. {"valve"} \subseteq RecordQueues \union {"valve"}
    OBVIOUS
  <2>3. QED
    BY <2>1, <2>2, ForwarderSection DEF SendForwarderData
<1>4. Orderly("valves", GetForwarderInfoTask, Locks)
  <2>1. "Forwarder" \in Locks /\ "Forwarder" \in Kept
    BY LockNames DEF Kept
  <2>2. QED
    BY <2>1, PlainOrKeepsIsOrderly, Wider DEF GetForwarderInfoTask
<1>5. Orderly("valves", ParseData, Locks)
  BY ParseDataIsOrderly, LockNames, Wider
<1>6. QED
  BY <1>1, <1>2, <1>3, <1>4, <1>5, EitherIsOrderly DEF Forwarder

LEMMA ValveMonitorIsOrderly ==
  Orderly("valves", ValveMonitor, Locks)
<1>1. Orderly("valves", Plain("tx"), {"tx"}) /\ Orderly("valves", Insert("valve"), {"valve"})
  BY LockNames, PlainIsOrderly, InsertIsOrderly
<1>2. Orderly("valves", Plain("tx"), Locks) /\ Orderly("valves", Insert("valve"), Locks)
  BY <1>1, LockNames, Wider
<1>3. Orderly("valves", ParseData, Locks)
  BY ParseDataIsOrderly, LockNames, Wider
<1>4. QED
  BY <1>2, <1>3, EitherIsOrderly DEF ValveMonitor

LEMMA CardHostIsOrderly ==
  Orderly("cardhost", CardHost, Locks)
<1>1. Orderly("cardhost", Tried("users"), Locks)
  BY AmongLocks, LockNames
<1>2. Orderly("cardhost", UNION {Plain(l) \union Keeps(l) : l \in {"tx", "htx"}}, Locks)
  <2> SUFFICES ASSUME NEW l \in {"tx", "htx"}, NEW p \in Plain(l) \union Keeps(l)
               PROVE  Conduct("cardhost", p) /\ Closed(p) /\ Meets(p, Locks)
    BY DEF Orderly
  <2>1. l \in Locks /\ l \in Kept
    BY LockNames DEF Kept
  <2>2. Orderly("cardhost", Plain(l) \union Keeps(l), Locks)
    BY <2>1, PlainOrKeepsIsOrderly, Wider
  <2>3. QED
    BY <2>2 DEF Orderly
<1>3. Orderly("cardhost", {}, Locks)
  BY EmptyIsOrderly
<1>4. QED
  BY <1>1, <1>2, <1>3, EitherIsOrderly DEF CardHost

LEMMA ScreenIsOrderly ==
  Orderly("screen", Screen, Locks)
<1>1. /\ Orderly("screen", Tried("GPRS"), Locks) /\ Orderly("screen", Tried("Heat"), Locks)
      /\ Orderly("screen", Tried("users"), Locks)
      /\ Orderly("screen", Tried("ForwarderInfo"), Locks)
  BY AmongLocks, LockNames
<1>2. Orderly("screen", Plain("ForwarderInfo"), Locks) /\ Orderly("screen", Plain("tx"), Locks)
  BY AmongLocks, LockNames
<1>3. Orderly("screen", Plain("ForwarderInfo") \union Tried("ForwarderInfo"), Locks)
      /\ Orderly("screen", Plain("tx") \union Tried("users"), Locks)
      /\ Orderly("screen", Tried("GPRS") \union Tried("Heat"), Locks)
  BY <1>1, <1>2, EitherIsOrderly
<1>4. CASE wireless
  BY <1>3, <1>4, EitherIsOrderly DEF Screen
<1>5. CASE ~ wireless
  BY <1>3, <1>5, EitherIsOrderly DEF Screen
<1>6. QED
  BY <1>4, <1>5

(* Each routine keeps the order and holds nothing where it begins, but for *)
(* the release that needs no owner.                                        *)
LEMMA RoutineConduct ==
  ASSUME NEW t \in Threads, NEW p \in Routines(t)
  PROVE  Conduct(t, p) /\ \A l \in Locks : Open(p, 1, l) => Loose(l)
<1>1. ASSUME Orderly(t, Routines(t), Locks) PROVE Conduct(t, p) /\ Closed(p)
  BY <1>1 DEF Orderly
<1>2. CASE t = "portal"
  <2>1. Orderly("portal", IsRegistered, Locks)
    <3>1. Orderly("portal", Plain("GPRS"), Locks)
      BY AmongLocks, LockNames
    <3>2. Orderly("portal", Nothing, Locks)
      BY NothingIsOrderly, Wider
    <3>3. Orderly("portal", LogSentData(FALSE), Locks)
      BY <3>2 DEF LogSentData
    <3>4. Orderly("portal", GPRS_Send(FALSE), Locks)
      BY <3>1, <3>2, <3>3, EitherIsOrderly, ThenIsOrderly DEF GPRS_Send
    <3>5. QED
      BY <3>1, <3>4, EitherIsOrderly DEF IsRegistered
  <2>2. Orderly("portal", GetGPRSInfoTask, Locks)
    BY AmongLocks, LockNames DEF GetGPRSInfoTask
  <2>3. Orderly("portal", SendRecords, Locks)
    <3> SUFFICES ASSUME NEW q \in RecordQueues, NEW r \in SendQueue(q)
                 PROVE  Conduct("portal", r) /\ Closed(r) /\ Meets(r, Locks)
      BY DEF Orderly, SendRecords
    <3>1. Orderly("portal", SendQueue(q), Locks)
      BY SendQueueIsOrderly, LockNames
    <3>2. QED
      BY <3>1 DEF Orderly
  <2>4. Orderly("portal", SendQueue("heat"), Locks) /\ Orderly("portal", SendQueue("valve"), Locks)
    BY SendQueueIsOrderly, LockNames
  <2>5. CASE p \in SendHeatData
    <3>1. CASE meters
      BY <3>1, <1>2, <2>5, SendHeatDataIsOrderly DEF Orderly, Closed
    <3>2. CASE ~ meters
      <4>1. p = <<Release("Heat")>>
        BY <2>5, <3>2 DEF SendHeatData
      <4>2. Len(p) = 1 /\ p[1] = Release("Heat") /\ p \in Seq(Steps)
        BY <4>1, LockNames DEF Steps, Release
      <4>3. \A l : ~ Open(p, 2, l)
        BY <4>2 DEF Open
      <4>4. \A l : Open(p, 1, l) => l = "Heat"
        BY <4>2 DEF Open, Release
      <4>5. Conduct(t, p)
        <5>1. \A i \in 1 .. Len(p) : i = 1
          BY <4>2
        <5>2. p[1].op = "release" /\ 1 + 1 = 2
          BY <4>2 DEF Release
        <5>3. QED
          BY <4>2, <4>3, <5>1, <5>2 DEF Conduct
      <4>6. QED
        BY <3>2, <4>4, <4>5 DEF Loose
    <3>3. QED
      BY <3>1, <3>2
  <2>6. CASE p \notin SendHeatData
    <3>1. \/ p \in IsRegistered \/ p \in GPRS_Receive \/ p \in SendQueue("heat")
          \/ p \in SendQueue("valve") \/ p \in SendRecords \/ p \in GetGPRSInfoTask
      BY <1>2, <2>6 DEF Routines, Portal, OnFixTimer
    <3>2. Conduct("portal", p) /\ Closed(p)
      BY <2>1, <2>2, <2>3, <2>4, <3>1, GPRS_ReceiveIsOrderly DEF Orderly
    <3>3. QED
      BY <1>2, <3>2 DEF Closed
  <2>7. QED
    BY <2>5, <2>6
<1>3. CASE t = "heat"
  <2>1. Orderly("heat", HeatMonitor, Locks)
    BY AmongLocks, LockNames DEF HeatMonitor
  <2>2. QED
    BY <1>1, <1>3, <2>1 DEF Routines, Closed
<1>4. CASE t = "valves"
  BY <1>1, <1>4, ForwarderIsOrderly, ValveMonitorIsOrderly DEF Routines, Closed
<1>5. CASE t = "cardhost"
  BY <1>1, <1>5, CardHostIsOrderly DEF Routines, Closed
<1>6. CASE t = "screen"
  BY <1>1, <1>6, ScreenIsOrderly DEF Routines, Closed
<1>7. QED
  BY <1>2, <1>3, <1>4, <1>5, <1>6 DEF Threads

------------------------------------------------------------------------------
(* The steps                                                               *)

LEMMA DecisionsAreHeads ==
  ASSUME NEW P, NEW D \in Decisions(P)
  PROVE  /\ D \subseteq P
         /\ \A p \in D : p # <<>>
         /\ \A p, r \in D : Head(p) = Head(r)
         /\ D = {} => <<>> \in P
<1>1. CASE \E end \in P \intersect Nothing : D = {}
  BY <1>1 DEF Nothing
<1>2. CASE \E next \in {Head(path) : path \in P \ Nothing} :
             D = {path \in P \ Nothing : Head(path) = next}
  BY <1>2 DEF Nothing
<1>3. QED
  BY <1>1, <1>2 DEF Decisions

(* All paths a thread may still take have the next step in common.         *)
LEMMA NextStepIsFirst ==
  ASSUME NEW t \in Threads, TodoInv(t), NEW p \in todo[t]
  PROVE  /\ p \in Seq(Steps) /\ Len(p) \in Nat /\ 1 \in 1 .. Len(p)
         /\ NextStep(t) = p[1] /\ p[1].lock \in Locks
         /\ Follows(t, p)
<1>1. Follows(t, p) /\ p # <<>>
  BY DEF TodoInv
<1>2. p \in Seq(Steps) /\ Len(p) \in Nat /\ 1 \in 1 .. Len(p)
  <2>1. p \in Seq(Steps)
    BY <1>1 DEF Follows, Conduct
  <2>2. Len(p) \in Nat /\ Len(p) # 0
    BY <1>1, <2>1, EmptySeq, LenProperties
  <2>3. QED
    BY <2>1, <2>2
<1>3. NextStep(t) = Head(p)
  BY DEF NextStep, TodoInv
<1>4. QED
  BY <1>1, <1>2, <1>3, LocksOfPath

(* A thread whose next paths follow from what it then holds.               *)
LEMMA Goes ==
  ASSUME NEW t \in Threads, NEW P, NEW D \in Decisions(P),
         todo \in [Threads -> SUBSET Seq(Steps)],
         todo' = [todo EXCEPT ![t] = D],
         \A p \in P : Follows(t, p)'
  PROVE  /\ TodoInv(t)' /\ todo' \in [Threads -> SUBSET Seq(Steps)]
         /\ \A u \in Threads : u # t => todo'[u] = todo[u]
<1>1. todo'[t] = D
  OBVIOUS
<1>2. /\ D \subseteq P
      /\ \A p \in D : p # <<>>
      /\ \A p, r \in D : Head(p) = Head(r)
      /\ D = {} => <<>> \in P
  BY DecisionsAreHeads
<1>3. TodoInv(t)'
  BY <1>1, <1>2 DEF TodoInv
<1>4. D \subseteq Seq(Steps)
  BY <1>2 DEF Follows, Conduct
<1>5. QED
  BY <1>3, <1>4

(* What another thread holds is still its own, but for the lock whose      *)
(* release needs no owner.                                                 *)
LEMMA OthersFollow ==
  ASSUME NEW u, UNCHANGED meters, todo'[u] = todo[u], TodoInv(u),
         \A l \in Locks : /\ owner'[l] = u => owner[l] = u
                          /\ owner[l] = u => owner'[l] = u \/ Loose(l)
  PROVE  TodoInv(u)'
<1>1. ASSUME NEW p, Follows(u, p) PROVE Follows(u, p)'
  BY <1>1 DEF Follows, Loose
<1>2. QED
  BY <1>1 DEF TodoInv

(* A step at another lock leaves a lock as it is on the path.              *)
LEMMA OpenLater ==
  ASSUME NEW p \in Seq(Steps), NEW i \in 1 .. Len(p), NEW l, p[i].lock # l
  PROVE  Open(p, i + 1, l) <=> Open(p, i, l)
<1>1. Len(p) \in Nat
  BY LenProperties
<1>2. ASSUME Open(p, i + 1, l) PROVE Open(p, i, l)
  <2>1. PICK k \in i + 1 .. Len(p) :
          p[k] = Release(l) /\ \A j \in i + 1 .. k - 1 : p[j].lock # l
    BY <1>2 DEF Open
  <2>2. k \in i .. Len(p) /\ \A j \in i .. k - 1 : j = i \/ j \in i + 1 .. k - 1
    BY <1>1, <2>1
  <2>3. QED
    BY <2>1, <2>2 DEF Open
<1>3. ASSUME Open(p, i, l) PROVE Open(p, i + 1, l)
  <2>1. PICK k \in i .. Len(p) :
          p[k] = Release(l) /\ \A j \in i .. k - 1 : p[j].lock # l
    BY <1>3 DEF Open
  <2>2. k # i
    BY <2>1 DEF Release
  <2>3. k \in i + 1 .. Len(p) /\ \A j \in i + 1 .. k - 1 : j \in i .. k - 1
    BY <1>1, <2>1, <2>2
  <2>4. QED
    BY <2>1, <2>3 DEF Open
<1>4. QED
  BY <1>2, <1>3

LEMMA ReleaseIsOpen ==
  ASSUME NEW p \in Seq(Steps), NEW i \in 1 .. Len(p), NEW l
  PROVE  /\ p[i] = Release(l) => Open(p, i, l)
         /\ Open(p, i, l) /\ p[i].lock = l => p[i] = Release(l)
<1>1. Len(p) \in Nat
  BY LenProperties
<1>2. i \in i .. Len(p) /\ \A j \in i .. i - 1 : FALSE
  BY <1>1
<1>3. p[i] = Release(l) => Open(p, i, l)
  BY <1>2 DEF Open
<1>4. ASSUME Open(p, i, l), p[i].lock = l PROVE p[i] = Release(l)
  <2>1. PICK k \in i .. Len(p) :
          p[k] = Release(l) /\ \A j \in i .. k - 1 : p[j].lock # l
    BY <1>4 DEF Open
  <2>2. k = i \/ i \in i .. k - 1
    BY <1>1, <2>1
  <2>3. QED
    BY <1>4, <2>1, <2>2
<1>5. QED
  BY <1>3, <1>4

LEMMA RestFollows ==
  ASSUME NEW t, NEW p, Conduct(t, p), NEW n \in 0 .. Len(p), UNCHANGED meters,
         \A l \in Locks : Open(p, n + 1, l) => owner'[l] = t \/ Loose(l),
         \A l \in Locks \ Kept : owner'[l] = t => Open(p, n + 1, l)
  PROVE  Follows(t, SubSeq(p, n + 1, Len(p)))'
<1> DEFINE r == SubSeq(p, n + 1, Len(p))
<1>1. Conduct(t, r)
  BY RestConduct
<1>2. ASSUME NEW l PROVE Open(r, 1, l) <=> Open(p, n + 1, l)
  <2>1. p \in Seq(Steps) /\ Len(p) \in Nat
    BY LenProperties DEF Conduct
  <2>2. 1 \in 1 .. Len(p) - n + 1
    BY <2>1
  <2>3. QED
    BY <2>1, <2>2, RestOpen
<1> HIDE DEF r
<1>3. Follows(t, r)'
  BY <1>1, <1>2 DEF Follows, Loose
<1>4. QED
  BY <1>3 DEF r

LEMMA DoneGoes ==
  ASSUME NEW t \in Threads, NEW n, Done(t, n),
         todo \in [Threads -> SUBSET Seq(Steps)],
         \A p \in todo[t] : Follows(t, SubSeq(p, n + 1, Len(p)))'
  PROVE  /\ TodoInv(t)' /\ todo' \in [Threads -> SUBSET Seq(Steps)]
         /\ \A u \in Threads : u # t => todo'[u] = todo[u]
<1> DEFINE P == {SubSeq(path, n + 1, Len(path)) : path \in todo[t]}
<1>1. PICK D \in Decisions(P) : todo' = [todo EXCEPT ![t] = D]
  BY DEF Done
<1>2. \A p \in P : Follows(t, p)'
  OBVIOUS
<1> HIDE DEF P
<1>3. QED
  BY <1>1, <1>2, Goes

LEMMA CallKeeps ==
  ASSUME ThreadsInv, NEW t \in Threads, Call(t)
  PROVE  ThreadsInv'
<1>1. todo[t] = {} /\ UNCHANGED <<wireless, meters, owner>> /\ TypesInv
  BY DEF Call, ThreadsInv
<1>2. PICK D \in Decisions(Routines(t) \ Nothing) : todo' = [todo EXCEPT ![t] = D]
  BY DEF Call
<1>3. ASSUME NEW p \in Routines(t) \ Nothing PROVE Follows(t, p)'
  <2>1. Conduct(t, p) /\ \A l \in Locks : Open(p, 1, l) => Loose(l)
    BY RoutineConduct
  <2>2. \A l \in Locks \ Kept : owner[l] # t
    <3>1. Follows(t, <<>>)
      BY <1>1 DEF ThreadsInv, TodoInv
    <3>2. \A l \in Locks : ~ Open(<<>>, 1, l)
      BY NothingIsOrderly DEF Closed
    <3>3. QED
      BY <3>1, <3>2 DEF Follows
  <2>3. QED
    BY <1>1, <2>1, <2>2 DEF Follows, Loose
<1>4. /\ TodoInv(t)' /\ todo' \in [Threads -> SUBSET Seq(Steps)]
      /\ \A u \in Threads : u # t => todo'[u] = todo[u]
  BY <1>1, <1>2, <1>3, Goes DEF TypesInv
<1>5. ASSUME NEW u \in Threads, u # t PROVE TodoInv(u)'
  BY <1>1, <1>4, <1>5, OthersFollow DEF ThreadsInv
<1>6. QED
  BY <1>1, <1>4, <1>5 DEF ThreadsInv, TypesInv

(* Lock, and TryLock where it succeeds.                                    *)
LEMMA TakingKeeps ==
  ASSUME ThreadsInv, NEW t \in Threads, todo[t] # {}, NEW l \in Locks,
         NextStep(t).lock = l, NextStep(t).op \in {"take", "try"}, owner[l] = Free,
         owner' = [owner EXCEPT ![l] = t], Done(t, 1), UNCHANGED <<wireless, meters>>
  PROVE  ThreadsInv'
<1>1. TypesInv /\ \A u \in Threads : TodoInv(u)
  BY DEF ThreadsInv
<1>2. Free \notin Threads
  BY DEF Free, Threads
<1>3. /\ owner'[l] = t /\ \A m \in Locks : m # l => owner'[m] = owner[m]
      /\ owner' \in [Locks -> Threads \union {Free}]
  BY <1>1 DEF TypesInv
<1>4. ASSUME NEW p \in todo[t] PROVE Follows(t, SubSeq(p, 1 + 1, Len(p)))'
  <2>1. /\ p \in Seq(Steps) /\ Len(p) \in Nat /\ 1 \in 1 .. Len(p)
        /\ p[1].lock = l /\ p[1].op \in {"take", "try"}
        /\ Follows(t, p) /\ Conduct(t, p)
    BY <1>1, NextStepIsFirst DEF Follows
  <2>2. \A m \in Locks : m # l => (Open(p, 1 + 1, m) <=> Open(p, 1, m))
    BY <2>1, OpenLater
  <2>3. l \notin Kept => Open(p, 1 + 1, l)
    <3>1. CASE p[1].op = "take"
      BY <2>1, <3>1 DEF Conduct, TakesInOrder
    <3>2. CASE p[1].op = "try"
      <4>1. 1 < Len(p) /\ p[1 + 1] = Release(l)
        BY <2>1, <3>2 DEF Conduct
      <4>2. 1 + 1 \in 1 .. Len(p)
        BY <2>1, <4>1
      <4>3. QED
        BY <2>1, <4>1, <4>2, ReleaseIsOpen
    <3>3. QED
      BY <2>1, <3>1, <3>2
  <2>4. \A m \in Locks : Open(p, 1 + 1, m) => owner'[m] = t \/ Loose(m)
    BY <1>3, <2>1, <2>2 DEF Follows
  <2>5. \A m \in Locks \ Kept : owner'[m] = t => Open(p, 1 + 1, m)
    BY <1>3, <2>1, <2>2, <2>3 DEF Follows
  <2>6. 1 \in 0 .. Len(p)
    BY <2>1
  <2>7. QED
    BY <2>1, <2>4, <2>5, <2>6, RestFollows
<1>5. /\ TodoInv(t)' /\ todo' \in [Threads -> SUBSET Seq(Steps)]
      /\ \A u \in Threads : u # t => todo'[u] = todo[u]
  BY <1>1, <1>4, DoneGoes DEF TypesInv
<1>6. ASSUME NEW u \in Threads, u # t PROVE TodoInv(u)'
  <2>1. \A m \in Locks : owner'[m] = u <=> owner[m] = u
    BY <1>2, <1>3, <1>6
  <2>2. QED
    BY <1>1, <1>5, <1>6, <2>1, OthersFollow
<1>7. QED
  BY <1>1, <1>3, <1>5, <1>6 DEF ThreadsInv, TypesInv

(* TryLock where it fails: the release is left out with it.                *)
LEMMA FailingKeeps ==
  ASSUME ThreadsInv, NEW t \in Threads, todo[t] # {}, NextStep(t).op = "try",
         Done(t, 2), UNCHANGED <<wireless, meters, owner>>
  PROVE  ThreadsInv'
<1>1. TypesInv /\ \A u \in Threads : TodoInv(u)
  BY DEF ThreadsInv
<1>2. ASSUME NEW p \in todo[t] PROVE Follows(t, SubSeq(p, 2 + 1, Len(p)))'
  <2> DEFINE l == p[1].lock
  <2>1. /\ p \in Seq(Steps) /\ Len(p) \in Nat /\ 1 \in 1 .. Len(p)
        /\ p[1].op = "try" /\ l \in Locks
        /\ Follows(t, p) /\ Conduct(t, p)
    BY <1>1, NextStepIsFirst DEF Follows
  <2>2. 1 < Len(p) /\ p[1 + 1] = Release(l)
    BY <2>1 DEF Conduct
  <2>3. /\ 2 \in 1 .. Len(p) /\ 2 \in 0 .. Len(p) /\ 1 + 1 = 2
    BY <2>1, <2>2
  <2>4. p[2].op = "release" /\ p[2].lock = l
    BY <2>2, <2>3 DEF Release
  <2>5. ~ Open(p, 2 + 1, l)
    BY <2>1, <2>3, <2>4 DEF Conduct
  <2>6. ~ Open(p, 1, l)
    <3>1. p[1] # Release(l)
      BY <2>1 DEF Release
    <3>2. QED
      BY <2>1, <3>1, ReleaseIsOpen
  <2> HIDE DEF l
  <2>7. ASSUME NEW m \in Locks, m # l PROVE Open(p, 2 + 1, m) <=> Open(p, 1, m)
    <3>1. p[1].lock # m /\ p[2].lock # m
      BY <2>4, <2>7 DEF l
    <3>2. Open(p, 1 + 1, m) <=> Open(p, 1, m)
      BY <2>1, <3>1, OpenLater
    <3>3. Open(p, 2 + 1, m) <=> Open(p, 2, m)
      BY <2>1, <2>3, <3>1, OpenLater
    <3>4. QED
      BY <2>3, <3>2, <3>3
  <2>8. /\ \A m \in Locks : Open(p, 2 + 1, m) => owner'[m] = t \/ Loose(m)
        /\ \A m \in Locks \ Kept : owner'[m] = t => Open(p, 2 + 1, m)
    BY <2>1, <2>5, <2>6, <2>7 DEF Follows
  <2>9. QED
    BY <2>1, <2>3, <2>8, RestFollows
<1>3. /\ TodoInv(t)' /\ todo' \in [Threads -> SUBSET Seq(Steps)]
      /\ \A u \in Threads : u # t => todo'[u] = todo[u]
  BY <1>1, <1>2, DoneGoes DEF TypesInv
<1>4. ASSUME NEW u \in Threads, u # t PROVE TodoInv(u)'
  BY <1>1, <1>3, <1>4, OthersFollow
<1>5. QED
  BY <1>1, <1>3, <1>4 DEF ThreadsInv, TypesInv

LEMMA UnLockKeeps ==
  ASSUME ThreadsInv, NEW t \in Threads, UnLock(t)
  PROVE  ThreadsInv'
<1> DEFINE l == NextStep(t).lock
<1>1. /\ TypesInv /\ \A u \in Threads : TodoInv(u)
      /\ todo[t] # {} /\ NextStep(t).op = "release"
      /\ owner' = [owner EXCEPT ![l] = Free] /\ Done(t, 1) /\ UNCHANGED <<wireless, meters>>
  BY DEF ThreadsInv, UnLock, At
<1>2. ASSUME NEW p \in todo[t]
      PROVE  /\ p \in Seq(Steps) /\ Len(p) \in Nat /\ 1 \in 1 .. Len(p)
             /\ p[1].lock = l /\ p[1].op = "release" /\ l \in Locks
             /\ Follows(t, p) /\ Conduct(t, p) /\ p[1] = Release(l)
  <2>1. /\ p \in Seq(Steps) /\ Len(p) \in Nat /\ 1 \in 1 .. Len(p)
        /\ p[1].lock = l /\ p[1].op = "release" /\ l \in Locks
        /\ Follows(t, p) /\ Conduct(t, p)
    BY <1>1, NextStepIsFirst DEF Follows
  <2>2. p[1] \in Steps
    BY <2>1, StepOfPath
  <2>3. p[1] = Release(l)
    BY <2>1, <2>2 DEF Steps, Release
  <2>4. QED
    BY <2>1, <2>3
<1> HIDE DEF l
<1>3. l \in Locks /\ (owner[l] = t \/ Loose(l))
  <2>1. PICK p \in todo[t] : TRUE
    BY <1>1
  <2>2. Open(p, 1, l)
    BY <1>2, ReleaseIsOpen
  <2>3. QED
    BY <1>2, <2>2 DEF Follows
<1>4. Free \notin Threads
  BY DEF Free, Threads
<1>5. /\ owner'[l] = Free /\ \A m \in Locks : m # l => owner'[m] = owner[m]
      /\ owner' \in [Locks -> Threads \union {Free}]
  BY <1>1, <1>3 DEF TypesInv
<1>6. ASSUME NEW p \in todo[t] PROVE Follows(t, SubSeq(p, 1 + 1, Len(p)))'
  <2>1. ~ Open(p, 1 + 1, l)
    BY <1>2 DEF Conduct
  <2>2. \A m \in Locks : m # l => (Open(p, 1 + 1, m) <=> Open(p, 1, m))
    BY <1>2, OpenLater
  <2>3. \A m \in Locks : Open(p, 1 + 1, m) => owner'[m] = t \/ Loose(m)
    BY <1>2, <1>5, <2>1, <2>2 DEF Follows
  <2>4. \A m \in Locks \ Kept : owner'[m] = t => Open(p, 1 + 1, m)
    BY <1>2, <1>4, <1>5, <2>2 DEF Follows
  <2>5. 1 \in 0 .. Len(p)
    BY <1>2
  <2>6. QED
    BY <1>1, <1>2, <2>3, <2>4, <2>5, RestFollows
<1>7. /\ TodoInv(t)' /\ todo' \in [Threads -> SUBSET Seq(Steps)]
      /\ \A u \in Threads : u # t => todo'[u] = todo[u]
  BY <1>1, <1>6, DoneGoes DEF TypesInv
<1>8. ASSUME NEW u \in Threads, u # t PROVE TodoInv(u)'
  <2>1. \A m \in Locks : /\ owner'[m] = u => owner[m] = u
                         /\ owner[m] = u => owner'[m] = u \/ Loose(m)
    BY <1>3, <1>4, <1>5, <1>8
  <2>2. QED
    BY <1>1, <1>7, <1>8, <2>1, OthersFollow
<1>9. QED
  BY <1>1, <1>5, <1>7, <1>8 DEF ThreadsInv, TypesInv

LEMMA InitInv ==
  ASSUME Init
  PROVE  ThreadsInv
<1>1. TypesInv
  BY DEF Init, TypesInv
<1>2. ASSUME NEW t \in Threads PROVE TodoInv(t)
  <2>1. todo[t] = {} /\ \A l \in Locks : owner[l] = Free
    BY DEF Init
  <2>2. Conduct(t, <<>>) /\ \A l \in Locks : ~ Open(<<>>, 1, l)
    BY NothingIsOrderly DEF Closed
  <2>3. t # Free
    BY DEF Threads, Free
  <2>4. Follows(t, <<>>)
    BY <2>1, <2>2, <2>3 DEF Follows
  <2>5. QED
    BY <2>1, <2>4 DEF TodoInv
<1>3. QED
  BY <1>1, <1>2 DEF ThreadsInv

LEMMA StepInv ==
  ThreadsInv /\ [Next]_vars => ThreadsInv'
<1> SUFFICES ASSUME ThreadsInv, [Next]_vars PROVE ThreadsInv'
  OBVIOUS
<1>1. CASE UNCHANGED vars
  BY <1>1 DEF vars, ThreadsInv, TypesInv, TodoInv, Follows, Loose
<1>2. ASSUME NEW t \in Threads, Call(t) PROVE ThreadsInv'
  BY <1>2, CallKeeps
<1>3. ASSUME NEW t \in Threads, At(t, "take") \/ At(t, "try")
      PROVE  todo[t] # {} /\ NextStep(t).lock \in Locks
  <2>1. todo[t] # {} /\ TodoInv(t)
    BY <1>3 DEF At, ThreadsInv
  <2>2. QED
    BY <2>1, NextStepIsFirst
<1>4. ASSUME NEW t \in Threads, Lock(t) PROVE ThreadsInv'
  BY <1>3, <1>4, TakingKeeps DEF Lock, At
<1>5. ASSUME NEW t \in Threads, TryLock(t) PROVE ThreadsInv'
  <2>1. At(t, "try") /\ NextStep(t).op = "try" /\ UNCHANGED <<wireless, meters>>
    BY <1>5 DEF TryLock, At
  <2>2. CASE owner[NextStep(t).lock] = Free
    <3>1. owner' = [owner EXCEPT ![NextStep(t).lock] = t] /\ Done(t, 1)
      BY <1>5, <2>2 DEF TryLock
    <3>2. QED
      BY <1>3, <2>1, <2>2, <3>1, TakingKeeps
  <2>3. CASE owner[NextStep(t).lock] # Free
    <3>1. Done(t, 2) /\ UNCHANGED owner
      BY <1>5, <2>3 DEF TryLock
    <3>2. QED
      BY <1>3, <2>1, <3>1, FailingKeeps
  <2>4. QED
    BY <2>2, <2>3
<1>6. ASSUME NEW t \in Threads, UnLock(t) PROVE ThreadsInv'
  BY <1>6, UnLockKeeps
<1>7. QED
  BY <1>1, <1>2, <1>4, <1>5, <1>6 DEF Next, Step

LEMMA InvHolds == Spec => []ThreadsInv
BY InitInv, StepInv, PTL DEF Spec

------------------------------------------------------------------------------
(* Who waits                                                               *)

(* A lock for which one thread waits, and which its owner will release, is *)
(* one that the owner's order allows it to hold where it waits itself.     *)
LEMMA AllowedThere ==
  ASSUME ThreadsInv, NEW t \in Threads, NEW u \in Threads, WaitsFor(t, u), At(u, "take")
  PROVE  /\ <<NextStep(t).lock, NextStep(u).lock>> \in Order(u)
         /\ NextStep(t).lock = "GPRS" => t = "portal"
<1> DEFINE l == NextStep(t).lock
<1>1. /\ todo[t] # {} /\ NextStep(t).op = "take" /\ TodoInv(t)
      /\ todo[u] # {} /\ NextStep(u).op = "take" /\ TodoInv(u)
      /\ owner[l] = u /\ ~ IsKept(l)
  BY DEF WaitsFor, At, ThreadsInv
<1>2. PICK r \in todo[t] : TRUE
  BY <1>1
<1>3. /\ r \in Seq(Steps) /\ 1 \in 1 .. Len(r) /\ NextStep(t) = r[1]
      /\ r[1].lock \in Locks /\ Conduct(t, r)
  BY <1>1, <1>2, NextStepIsFirst DEF Follows
<1>4. TakesInOrder(t, r, 1)
  BY <1>1, <1>3 DEF Conduct
<1>5. l \in Locks /\ (l = "GPRS" => t = "portal")
  BY <1>3, <1>4 DEF TakesInOrder
<1> HIDE DEF l
<1>6. PICK p \in todo[u] : Open(p, 1, l)
  <2>1. CASE l \notin Kept
    <3>1. PICK p \in todo[u] : TRUE
      BY <1>1
    <3>2. Open(p, 1, l)
      BY <1>1, <1>5, <2>1, <3>1 DEF TodoInv, Follows
    <3>3. QED
      BY <3>1, <3>2
  <2>2. CASE l \in Kept
    <3>1. owner[l] # Free
      BY <1>1 DEF Threads, Free
    <3>2. PICK p \in todo[u] :
            \E k \in 1 .. Len(p) : p[k] = Release(l) /\ \A j \in 1 .. k - 1 : p[j].lock # l
      BY <1>1, <2>2, <3>1 DEF IsKept, Kept
    <3>3. QED
      BY <3>2 DEF Open
  <2>3. QED
    BY <2>1, <2>2
<1>7. /\ p \in Seq(Steps) /\ 1 \in 1 .. Len(p) /\ NextStep(u) = p[1] /\ Conduct(u, p)
  BY <1>1, <1>6, NextStepIsFirst DEF Follows
<1>8. TakesInOrder(u, p, 1)
  BY <1>1, <1>7 DEF Conduct
<1>9. <<l, NextStep(u).lock>> \in Order(u)
  BY <1>5, <1>6, <1>7, <1>8 DEF TakesInOrder
<1>10. QED
  BY <1>5, <1>9 DEF l

(* The order of each thread, looked at from the inner lock.                *)
LEMMA OrderIs ==
  ASSUME NEW t \in Threads, NEW l, NEW m, <<l, m>> \in Order(t)
  PROVE  /\ t \in {"portal", "valves"}
         /\ t = "valves" => l = "Forwarder" /\ m \in Queues
         /\ t = "portal" /\ m = "Forwarder" => l = "GPRS"
         /\ t = "portal" /\ l \in Queues => m \in {"SentLog", "GPRS"}
         /\ t = "portal" => l # m /\ l # "SentLog"
<1>1. t \in {"portal", "valves"}
  BY DEF Order, Threads
<1>2. CASE t = "valves"
  BY <1>2, LockNames DEF Order
<1>3. CASE t = "portal"
  <2>1. \/ l \in Queues /\ m \in {"SentLog", "GPRS"}
        \/ l = "Heat" /\ m = "heat"
        \/ l = "GPRS" /\ m \in {"Forwarder", "htx"} \union RecordQueues
        \/ l = "Forwarder" /\ m \in RecordQueues
    BY <1>3 DEF Order
  <2>2. QED
    BY <1>3, <2>1, LockNames
<1>4. QED
  BY <1>1, <1>2, <1>3

LEMMA NoCircle ==
  ThreadsInv => NoCircularWait
<1> SUFFICES ASSUME ThreadsInv,
                    NEW S \in SUBSET Threads, S # {},
                    \A t \in S : \E u \in S : WaitsFor(t, u)
             PROVE  FALSE
  BY DEF NoCircularWait
<1>1. \A t \in S : t \in Threads /\ At(t, "take")
  BY DEF WaitsFor
<1>2. ASSUME NEW t \in S, NEW u \in S, WaitsFor(t, u)
      PROVE  /\ <<NextStep(t).lock, NextStep(u).lock>> \in Order(u)
             /\ NextStep(t).lock = "GPRS" => t = "portal"
             /\ u \in Threads
  BY <1>1, <1>2, AllowedThere
(* Somebody waits for the valves' thread, which then waits for a queue.    *)
<1>3. PICK t \in S : WaitsFor(t, "valves") /\ "valves" \in S
  <2>1. PICK t \in S, u \in S : WaitsFor(t, u)
    OBVIOUS
  <2>2. PICK v \in S : WaitsFor(u, v)
    OBVIOUS
  <2>3. /\ <<NextStep(t).lock, NextStep(u).lock>> \in Order(u) /\ u \in Threads
        /\ <<NextStep(u).lock, NextStep(v).lock>> \in Order(v) /\ v \in Threads
    BY <1>2, <2>1, <2>2
  <2>4. u \in {"portal", "valves"} /\ v \in {"portal", "valves"}
    BY <2>3, OrderIs
  <2>5. ~ (u = "portal" /\ v = "portal")
    BY <2>3, OrderIs
  <2>6. QED
    BY <2>1, <2>2, <2>4, <2>5
<1>4. NextStep("valves").lock \in Queues
  <2>1. <<NextStep(t).lock, NextStep("valves").lock>> \in Order("valves") /\ "valves" \in Threads
    BY <1>2, <1>3
  <2>2. QED
    BY <2>1, OrderIs
(* The queue's owner is the portal's thread, which waits for m_GPRSLock    *)
(* or for the log, which it holds itself.                                  *)
<1>5. PICK u \in S : WaitsFor("valves", u)
  BY <1>3
<1>6. u = "portal" /\ NextStep("portal").lock \in {"SentLog", "GPRS"}
  <2>1. <<NextStep("valves").lock, NextStep(u).lock>> \in Order(u) /\ u \in Threads
    BY <1>2, <1>3, <1>5
  <2>2. "Forwarder" \notin Queues
    BY LockNames
  <2>3. QED
    BY <1>4, <2>1, <2>2, OrderIs
<1>7. PICK v \in S : WaitsFor("portal", v)
  BY <1>5, <1>6
<1>8. <<NextStep("portal").lock, NextStep(v).lock>> \in Order(v) /\ v \in Threads
  BY <1>2, <1>5, <1>6, <1>7
<1>9. QED
  BY <1>6, <1>8, OrderIs

LEMMA IdleHoldsOnlyKept ==
  ASSUME ThreadsInv, NEW u \in Threads, todo[u] = {}, NEW l \in Locks, owner[l] = u
  PROVE  IsKept(l)
<1>1. Follows(u, <<>>) /\ ~ Open(<<>>, 1, l)
  BY DEF ThreadsInv, TodoInv, Open
<1>2. l \in Kept
  BY <1>1 DEF Follows
<1>3. QED
  BY <1>2 DEF IsKept, Kept, Threads, Free

LEMMA NoDeadlock ==
  ThreadsInv => OnlyLostStandStill
<1> SUFFICES ASSUME ThreadsInv,
                    NEW S \in SUBSET Threads, S # {},
                    StandStill(S),
                    \A t \in S : ~ IsKept(NextStep(t).lock)
             PROVE  FALSE
  BY DEF OnlyLostStandStill
<1>1. ASSUME NEW t \in S PROVE \E u \in S : WaitsFor(t, u)
  <2> DEFINE l == NextStep(t).lock
             u == owner[l]
  <2>1. At(t, "take") /\ u # Free /\ (u \in S \/ todo[u] = {}) /\ ~ IsKept(l)
    BY DEF StandStill
  <2>2. l \in Locks
    <3>1. todo[t] # {} /\ TodoInv(t) /\ t \in Threads
      BY <2>1 DEF At, ThreadsInv
    <3>2. PICK r \in todo[t] : TRUE
      BY <3>1
    <3>3. QED
      BY <3>1, <3>2, NextStepIsFirst
  <2>3. u \in Threads
    BY <2>1, <2>2 DEF ThreadsInv, TypesInv
  <2>4. todo[u] # {}
    BY <2>1, <2>2, <2>3, IdleHoldsOnlyKept
  <2>5. QED
    BY <2>1, <2>4 DEF WaitsFor
<1>2. QED
  BY <1>1, NoCircle DEF NoCircularWait

LEMMA LostHoldLittle ==
  ThreadsInv => LostHoldNothingWanted
<1> SUFFICES ASSUME ThreadsInv, NEW t \in Threads, At(t, "take"), IsKept(NextStep(t).lock),
                    NEW l \in Locks, owner[l] = t, l # NextStep(t).lock
             PROVE  /\ l \notin Queues \union {"SentLog", "Heat", "users", "ForwarderInfo"}
                    /\ l = "GPRS" =>
                         \A u \in Threads : ~ (At(u, "take") /\ NextStep(u).lock = l)
  BY DEF LostHoldNothingWanted
<1>1. todo[t] # {} /\ NextStep(t).op = "take" /\ TodoInv(t) /\ NextStep(t).lock \in Kept
  BY DEF At, ThreadsInv, IsKept, Kept
<1>2. CASE l \in Kept
  BY <1>2, LockNames DEF Kept
<1>3. CASE l \notin Kept
  <2>1. PICK p \in todo[t] : TRUE
    BY <1>1
  <2>2. /\ 1 \in 1 .. Len(p) /\ NextStep(t) = p[1] /\ Follows(t, p)
    BY <1>1, <2>1, NextStepIsFirst
  <2>3. Open(p, 1, l) /\ TakesInOrder(t, p, 1)
    BY <1>1, <1>3, <2>2 DEF Follows, Conduct
  <2>4. <<l, NextStep(t).lock>> \in Order(t)
    BY <2>2, <2>3 DEF TakesInOrder
  <2>5. t = "portal" /\ l = "GPRS"
    <3>1. t \in {"portal", "valves"}
      BY <2>4, OrderIs
    <3>2. NextStep(t).lock \notin Queues
      BY <1>1, LockNames DEF Kept
    <3>3. t = "portal"
      BY <2>4, <3>1, <3>2, OrderIs
    <3>4. <<l, NextStep(t).lock>> \in {"GPRS"} \X ({"Forwarder", "htx"} \union RecordQueues)
      BY <1>1, <2>4, <3>2, <3>3, LockNames DEF Order, Kept
    <3>5. QED
      BY <3>3, <3>4
  <2>6. ASSUME NEW u \in Threads, At(u, "take"), NextStep(u).lock = "GPRS" PROVE FALSE
    <3>1. todo[u] # {} /\ NextStep(u).op = "take" /\ TodoInv(u)
      BY <2>6 DEF At, ThreadsInv
    <3>2. PICK r \in todo[u] : TRUE
      BY <3>1
    <3>3. 1 \in 1 .. Len(r) /\ NextStep(u) = r[1] /\ Conduct(u, r)
      BY <3>1, <3>2, NextStepIsFirst DEF Follows
    <3>4. u = "portal"
      BY <2>6, <3>1, <3>3 DEF Conduct, TakesInOrder
    <3>5. QED
      BY <2>5, <2>6, <3>4
  <2>7. QED
    BY <2>5, <2>6, LockNames
<1>4. QED
  BY <1>2, <1>3

LEMMA OwnerReleases ==
  ThreadsInv => UnlocksItsOwn
<1> SUFFICES ASSUME ThreadsInv, NEW t \in Threads, At(t, "release")
             PROVE  owner[NextStep(t).lock] = t \/ Loose(NextStep(t).lock)
  BY DEF UnlocksItsOwn, Loose
<1>1. todo[t] # {} /\ NextStep(t).op = "release" /\ TodoInv(t)
  BY DEF At, ThreadsInv
<1>2. PICK p \in todo[t] : TRUE
  BY <1>1
<1>3. /\ p \in Seq(Steps) /\ 1 \in 1 .. Len(p) /\ NextStep(t) = p[1]
      /\ p[1].lock \in Locks /\ Follows(t, p)
  BY <1>1, <1>2, NextStepIsFirst
<1>4. p[1] \in Steps
  BY <1>3, StepOfPath
<1>5. p[1] = Release(p[1].lock)
  BY <1>1, <1>3, <1>4 DEF Steps, Release
<1>6. Open(p, 1, p[1].lock)
  BY <1>3, <1>5, ReleaseIsOpen
<1>7. QED
  BY <1>3, <1>6 DEF Follows

------------------------------------------------------------------------------
(* The theorems                                                            *)

(* CLock::UnLock: a lock is released by the thread that took it, but for   *)
(* the lock of the meters when there is none (CHeatMonitor.cpp:239).       *)
THEOREM LocksAreReleasedByOwner == Spec => []UnlocksItsOwn
<1>1. ThreadsInv => UnlocksItsOwn
  BY OwnerReleases
<1>2. QED
  BY <1>1, InvHolds, PTL

(* The locks' order is a circle over the threads of portal and forwarder,  *)
(* and yet no threads wait in one: a thread that inserts into a queue with *)
(* m_ForwarderLock held waits for one that does not take that lock before  *)
(* it has released the queue.                                              *)
THEOREM NobodyWaitsInCircle == Spec => []NoCircularWait
<1>1. QED
  BY NoCircle, InvHolds, PTL

(* IThread::Run: threads that all wait, for one another or for a thread    *)
(* that is between two of its routines, have among them one that waits for *)
(* a lock that ConfigValve, GetForwarderInfoTask, QueryUser or Recharge    *)
(* kept; without those returns no thread would ever wait for good.         *)
THEOREM OnlyKeptLocksDeadlock == Spec => []OnlyLostStandStill
<1>1. QED
  BY NoDeadlock, InvHolds, PTL

(* ConfigValve, GetForwarderInfoTask, QueryUser and Recharge keep a lock;  *)
(* who waits for it for ever blocks no queue and not the meters, and       *)
(* m_GPRSLock only where nobody waits for it.                              *)
THEOREM LostBlockNothing == Spec => []LostHoldNothingWanted
<1>1. QED
  BY LostHoldLittle, InvHolds, PTL

==============================================================================
