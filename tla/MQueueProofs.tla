---------------------------- MODULE MQueueProofs ----------------------------
(***************************************************************************)
(* The proofs about MQueue, for any number of threads, messages and        *)
(* priorities.                                                             *)
(*                                                                         *)
(* First what the operations on the lists do: an insertion adds one        *)
(* element and a removal takes one away, without changing the order of the *)
(* others.  Then three invariants, each proved from the ones before it:    *)
(* QueueInv, about the messages, WaitInv, about the lists of the threads   *)
(* that wait and the counters of the queue, and MissedInv, about who is    *)
(* woken for a message or for the room it leaves.                          *)
(***************************************************************************)
EXTENDS MQueue, FiniteSetTheorems, FunctionTheorems, SequenceTheorems, WellFoundedInduction, TLAPS

-----------------------------------------------------------------------------
(* Lists.                                                                  *)

\* The sequence t is s with e inserted at position i.
InsertedAt(s, t, i, e) ==
  /\ Len(t) = Len(s) + 1
  /\ \A j \in 1 .. Len(t) : t[j] = IF j < i THEN s[j] ELSE IF j = i THEN e ELSE s[j - 1]

\* The sequence t is s without its element at position i.
DroppedAt(s, t, i) ==
  /\ Len(t) = Len(s) - 1
  /\ \A j \in 1 .. Len(t) : t[j] = IF j < i THEN s[j] ELSE s[j + 1]

Once(s) == \A i, j \in 1 .. Len(s) : s[i] = s[j] => i = j

\* A nonempty set of numbers has a least one.
LEMMA LeastNumber ==
  ASSUME NEW T \in SUBSET Nat, T # {}
  PROVE  Min(T) \in T /\ \A y \in T : Min(T) <= y
<1> DEFINE R == OpToRel(<, Nat)
<1>1. \E x \in T : \A y \in T : ~ (<<y, x>> \in R)
  BY NatLessThanWellFounded, WFMin
<1>2. \A x, y \in Nat : y < x => <<y, x>> \in R
  BY DEF OpToRel
<1> HIDE DEF R
<1>3. PICK x \in T : \A y \in T : ~ (<<y, x>> \in R)
  BY <1>1
<1>4. ASSUME NEW y \in T
      PROVE  ~ (y < x)
  BY <1>2, <1>3, Zenon
<1>5. \A y \in T : x <= y
  BY <1>4
<1> QED BY <1>5 DEF Min

\* The elements of a sequence.
LEMMA RangeIs ==
  ASSUME NEW X, NEW s \in Seq(X)
  PROVE  /\ Len(s) \in Nat /\ DOMAIN s = 1 .. Len(s)
         /\ Range(s) = {s[i] : i \in 1 .. Len(s)} /\ Range(s) \subseteq X
         /\ s # <<>> <=> Range(s) # {}
         /\ s # <<>> => Head(s) = s[1] /\ 1 \in 1 .. Len(s) /\ Head(s) \in Range(s)
BY DEF Range

\* An insertion at position i.
LEMMA InsertIndex ==
  ASSUME NEW X, NEW s \in Seq(X), NEW i \in 1 .. Len(s) + 1, NEW e \in X
  PROVE  InsertAt(s, i, e) \in Seq(X) /\ InsertedAt(s, InsertAt(s, i, e), i, e)
<1> DEFINE a == SubSeq(s, 1, i - 1)
           b == SubSeq(s, i, Len(s))
<1>1. a \in Seq(X) /\ Len(a) = i - 1 /\ \A j \in 1 .. i - 1 : a[j] = s[j]
  OBVIOUS
<1>2. b \in Seq(X) /\ Len(b) = Len(s) - i + 1 /\ \A j \in 1 .. Len(s) - i + 1 : b[j] = s[j + i - 1]
  OBVIOUS
<1> HIDE DEF a, b
<1> DEFINE c == a \o <<e>>
<1>3. c \in Seq(X) /\ Len(c) = i /\ \A j \in 1 .. i : c[j] = IF j < i THEN s[j] ELSE e
  BY <1>1
<1> HIDE DEF c
<1>4. \A j \in 1 .. Len(s) + 1 : (c \o b)[j] = IF j < i THEN s[j] ELSE IF j = i THEN e ELSE s[j - 1]
  <2> SUFFICES ASSUME NEW j \in 1 .. Len(s) + 1
               PROVE  (c \o b)[j] = IF j < i THEN s[j] ELSE IF j = i THEN e ELSE s[j - 1]
    OBVIOUS
  <2>1. j <= i => (c \o b)[j] = c[j] /\ j \in 1 .. i
    BY <1>2, <1>3
  <2>2. j > i => (c \o b)[j] = b[j - i] /\ j - i \in 1 .. Len(s) - i + 1 /\ (j - i) + i - 1 = j - 1
    BY <1>2, <1>3
  <2> QED BY <1>2, <1>3, <2>1, <2>2
<1>5. c \o b \in Seq(X) /\ Len(c \o b) = Len(s) + 1
  <2>1. c \o b \in Seq(X) /\ Len(c \o b) = Len(c) + Len(b)
    BY <1>2, <1>3, ConcatProperties
  <2>2. i + (Len(s) - i + 1) = Len(s) + 1
    OBVIOUS
  <2> QED BY <1>2, <1>3, <2>1, <2>2
<1>6. InsertedAt(s, c \o b, i, e)
  BY <1>4, <1>5 DEF InsertedAt
<1> QED BY <1>5, <1>6 DEF a, b, c, InsertAt

\* A removal at position i.
LEMMA DropIndex ==
  ASSUME NEW X, NEW s \in Seq(X), NEW i \in 1 .. Len(s)
  PROVE  RemoveAt(s, i) \in Seq(X) /\ DroppedAt(s, RemoveAt(s, i), i)
<1> DEFINE a == SubSeq(s, 1, i - 1)
           b == SubSeq(s, i + 1, Len(s))
<1>1. a \in Seq(X) /\ Len(a) = i - 1 /\ \A j \in 1 .. i - 1 : a[j] = s[j]
  OBVIOUS
<1>2. b \in Seq(X) /\ Len(b) = Len(s) - i /\ \A j \in 1 .. Len(s) - i : b[j] = s[j + i]
  OBVIOUS
<1> HIDE DEF a, b
<1>3. \A j \in 1 .. Len(s) - 1 : (a \o b)[j] = IF j < i THEN s[j] ELSE s[j + 1]
  BY <1>1, <1>2
<1>4. a \o b \in Seq(X) /\ Len(a \o b) = Len(s) - 1
  <2>1. a \o b \in Seq(X) /\ Len(a \o b) = Len(a) + Len(b)
    BY <1>1, <1>2, ConcatProperties
  <2> QED BY <1>1, <1>2, <2>1
<1>5. DroppedAt(s, a \o b, i)
  BY <1>3, <1>4 DEF DroppedAt
<1> QED BY <1>4, <1>5 DEF a, b, RemoveAt

\* The removal of the first element.
LEMMA TailDrops ==
  ASSUME NEW X, NEW s \in Seq(X), s # <<>>
  PROVE  Tail(s) \in Seq(X) /\ DroppedAt(s, Tail(s), 1)
BY DEF DroppedAt

\* What an insertion does to the elements.
LEMMA InsertedRange ==
  ASSUME NEW X, NEW s \in Seq(X), NEW t \in Seq(X), NEW i \in 1 .. Len(s) + 1, NEW e,
         InsertedAt(s, t, i, e)
  PROVE  Range(t) = Range(s) \union {e} /\ (Once(s) /\ e \notin Range(s) => Once(t))
<1>1. Len(t) = Len(s) + 1 /\ Len(s) \in Nat /\ i \in Nat
  BY DEF InsertedAt
<1>2. \A j \in 1 .. Len(t) : /\ j < i => j \in 1 .. Len(s) /\ t[j] = s[j]
                             /\ j = i => t[j] = e
                             /\ j > i => j - 1 \in 1 .. Len(s) /\ t[j] = s[j - 1]
  BY <1>1 DEF InsertedAt
<1>3. \A j \in 1 .. Len(s) : /\ j < i => j \in 1 .. Len(t) /\ t[j] = s[j]
                             /\ j >= i => j + 1 \in 1 .. Len(t) /\ t[j + 1] = s[j]
  <2> SUFFICES ASSUME NEW j \in 1 .. Len(s)
               PROVE  /\ j < i => j \in 1 .. Len(t) /\ t[j] = s[j]
                      /\ j >= i => j + 1 \in 1 .. Len(t) /\ t[j + 1] = s[j]
    OBVIOUS
  <2>1. j >= i => j + 1 \in 1 .. Len(t) /\ j + 1 > i /\ (j + 1) - 1 = j
    BY <1>1
  <2> QED BY <1>1, <1>2, <2>1
<1>4. i \in 1 .. Len(t) /\ t[i] = e
  BY <1>1, <1>2
<1>5. Range(s) = {s[j] : j \in 1 .. Len(s)} /\ Range(t) = {t[j] : j \in 1 .. Len(t)}
  BY RangeIs
<1>6. Range(t) \subseteq Range(s) \union {e}
  <2> SUFFICES ASSUME NEW j \in 1 .. Len(t)
               PROVE  t[j] \in Range(s) \union {e}
    BY <1>5
  <2>1. j < i \/ j = i \/ j > i
    BY <1>1
  <2> QED BY <1>2, <1>5, <2>1
<1>7. Range(s) \subseteq Range(t)
  <2> SUFFICES ASSUME NEW j \in 1 .. Len(s)
               PROVE  s[j] \in Range(t)
    BY <1>5
  <2>1. j < i \/ j >= i
    BY <1>1
  <2> QED BY <1>3, <1>5, <2>1
<1>8. ASSUME Once(s), e \notin Range(s)
      PROVE  Once(t)
  <2> SUFFICES ASSUME NEW j \in 1 .. Len(t), NEW k \in 1 .. Len(t), j < k, t[j] = t[k]
               PROVE  FALSE
    BY <1>1 DEF Once
  <2>1. CASE k < i
    BY <1>1, <1>2, <1>8, <2>1 DEF Once
  <2>2. CASE k = i
    BY <1>1, <1>2, <1>5, <1>8, <2>2
  <2>3. CASE k > i /\ j < i
    <3>1. j \in 1 .. Len(s) /\ k - 1 \in 1 .. Len(s) /\ s[j] = s[k - 1] /\ j # k - 1
      BY <1>1, <1>2, <2>3
    <3> QED BY <1>8, <3>1 DEF Once
  <2>4. CASE k > i /\ j = i
    BY <1>1, <1>2, <1>5, <1>8, <2>4
  <2>5. CASE k > i /\ j > i
    <3>1. j - 1 \in 1 .. Len(s) /\ k - 1 \in 1 .. Len(s) /\ s[j - 1] = s[k - 1] /\ j - 1 # k - 1
      BY <1>1, <1>2, <2>5
    <3> QED BY <1>8, <3>1 DEF Once
  <2> QED BY <1>1, <2>1, <2>2, <2>3, <2>4, <2>5
<1> QED BY <1>4, <1>5, <1>6, <1>7, <1>8

\* The positions of the elements that stay.
LEMMA DroppedPlaces ==
  ASSUME NEW X, NEW s \in Seq(X), NEW t \in Seq(X), NEW i \in 1 .. Len(s), DroppedAt(s, t, i)
  PROVE  /\ \A j \in 1 .. Len(t) : \E m \in 1 .. Len(s) :
              t[j] = s[m] /\ m # i /\ m = IF j < i THEN j ELSE j + 1
         /\ \A m \in 1 .. Len(s) : m # i => \E j \in 1 .. Len(t) :
              t[j] = s[m] /\ j = IF m < i THEN m ELSE m - 1
<1>1. Len(t) = Len(s) - 1 /\ Len(s) \in Nat /\ i \in Nat
  BY DEF DroppedAt
<1>2. \A j \in 1 .. Len(t) : \E m \in 1 .. Len(s) :
        t[j] = s[m] /\ m # i /\ m = IF j < i THEN j ELSE j + 1
  BY <1>1 DEF DroppedAt
<1>3. ASSUME NEW m \in 1 .. Len(s), m # i
      PROVE  \E j \in 1 .. Len(t) : t[j] = s[m] /\ j = IF m < i THEN m ELSE m - 1
  <2>1. CASE m < i
    <3>1. m \in 1 .. Len(t)
      BY <1>1, <2>1
    <3> QED BY <2>1, <3>1 DEF DroppedAt
  <2>2. CASE ~ (m < i)
    <3>1. m - 1 \in 1 .. Len(t) /\ ~ (m - 1 < i) /\ (m - 1) + 1 = m
      BY <1>1, <1>3, <2>2
    <3>2. t[m - 1] = s[m]
      BY <3>1 DEF DroppedAt
    <3> QED BY <2>2, <3>1, <3>2
  <2> QED BY <2>1, <2>2
<1> QED BY <1>2, <1>3

\* What a removal does to the elements.
LEMMA DroppedRange ==
  ASSUME NEW X, NEW s \in Seq(X), NEW t \in Seq(X), NEW i \in 1 .. Len(s), DroppedAt(s, t, i), Once(s)
  PROVE  Range(t) = Range(s) \ {s[i]} /\ Once(t)
<1>1. /\ \A j \in 1 .. Len(t) : \E m \in 1 .. Len(s) :
           t[j] = s[m] /\ m # i /\ m = IF j < i THEN j ELSE j + 1
      /\ \A m \in 1 .. Len(s) : m # i => \E j \in 1 .. Len(t) :
           t[j] = s[m] /\ j = IF m < i THEN m ELSE m - 1
  BY DroppedPlaces
<1>2. Range(s) = {s[j] : j \in 1 .. Len(s)} /\ Range(t) = {t[j] : j \in 1 .. Len(t)}
  BY RangeIs
<1>3. Range(t) \subseteq Range(s) \ {s[i]}
  BY <1>1, <1>2 DEF Once
<1>4. Range(s) \ {s[i]} \subseteq Range(t)
  BY <1>1, <1>2
<1>5. Once(t)
  <2> SUFFICES ASSUME NEW j \in 1 .. Len(t), NEW k \in 1 .. Len(t), t[j] = t[k]
               PROVE  j = k
    BY DEF Once
  <2>1. PICK m \in 1 .. Len(s) : t[j] = s[m] /\ m = IF j < i THEN j ELSE j + 1
    BY <1>1
  <2>2. PICK n \in 1 .. Len(s) : t[k] = s[n] /\ n = IF k < i THEN k ELSE k + 1
    BY <1>1
  <2>3. m = n
    BY <2>1, <2>2 DEF Once
  <2> QED BY <2>1, <2>2, <2>3
<1> QED BY <1>3, <1>4, <1>5

\* The removal of an element, as dq_rem does it.
LEMMA RemoveFirstDrops ==
  ASSUME NEW X, NEW s \in Seq(X), NEW e, e \in Range(s)
  PROVE  /\ RemoveFirst(s, e) \in Seq(X)
         /\ \E i \in 1 .. Len(s) : s[i] = e /\ RemoveFirst(s, e) = RemoveAt(s, i) /\ DroppedAt(s, RemoveFirst(s, e), i)
<1> DEFINE I == {i \in 1 .. Len(s) : s[i] = e}
<1>1. \E i \in 1 .. Len(s) : s[i] = e
  BY RangeIs
<1>2. I \in SUBSET Nat /\ I # {}
  BY <1>1
<1>3. RemoveFirst(s, e) = RemoveAt(s, Min(I))
  BY <1>1, <1>2 DEF RemoveFirst, SelectInSeq
<1>4. Min(I) \in 1 .. Len(s) /\ s[Min(I)] = e
  BY <1>2, LeastNumber
<1> HIDE DEF I
<1>5. RemoveAt(s, Min(I)) \in Seq(X) /\ DroppedAt(s, RemoveAt(s, Min(I)), Min(I))
  BY <1>4, DropIndex
<1> QED BY <1>3, <1>4, <1>5

\* What the removal of an element leaves; if it is not there, nothing is removed.
LEMMA RemoveFirstRange ==
  ASSUME NEW X, NEW s \in Seq(X), NEW e, Once(s)
  PROVE  /\ RemoveFirst(s, e) \in Seq(X)
         /\ Range(RemoveFirst(s, e)) = Range(s) \ {e}
         /\ Once(RemoveFirst(s, e))
         /\ Len(s) - Len(RemoveFirst(s, e)) = IF e \in Range(s) THEN 1 ELSE 0
<1>1. CASE e \in Range(s)
  <2>1. RemoveFirst(s, e) \in Seq(X)
    BY <1>1, RemoveFirstDrops
  <2>2. PICK i \in 1 .. Len(s) : s[i] = e /\ DroppedAt(s, RemoveFirst(s, e), i)
    BY <1>1, RemoveFirstDrops
  <2>3. Range(RemoveFirst(s, e)) = Range(s) \ {e} /\ Once(RemoveFirst(s, e))
    BY <2>1, <2>2, DroppedRange
  <2>4. Len(RemoveFirst(s, e)) = Len(s) - 1 /\ Len(s) \in Nat
    BY <2>2 DEF DroppedAt
  <2> QED BY <1>1, <2>1, <2>3, <2>4
<1>2. CASE e \notin Range(s)
  <2>1. ~ \E i \in 1 .. Len(s) : s[i] = e
    BY <1>2, RangeIs
  <2>2. RemoveFirst(s, e) = s
    BY <2>1 DEF RemoveFirst
  <2>3. Range(s) = Range(s) \ {e} /\ Len(s) - Len(s) = 0
    BY <1>2
  <2> QED BY <1>2, <2>2, <2>3
<1> QED BY <1>1, <1>2

\* An insertion before the first of the positions lower, or at the end.
LEMMA BeforeInserts ==
  ASSUME NEW X, NEW s \in Seq(X), NEW lower \in SUBSET (1 .. Len(s)), NEW e \in X
  PROVE  /\ Before(s, lower, e) \in Seq(X)
         /\ \E i \in 1 .. Len(s) + 1 : /\ InsertedAt(s, Before(s, lower, e), i, e)
                                       /\ i \in lower \/ i = Len(s) + 1
                                       /\ \A j \in lower : i <= j
<1> DEFINE T == lower \union {Len(s) + 1}
<1>1. Len(s) \in Nat /\ \A i \in lower : i \in Nat /\ 1 <= i /\ i <= Len(s)
  OBVIOUS
<1>2. \A i \in T : i \in 1 .. Len(s) + 1
  BY <1>1
<1>3. T \in SUBSET Nat /\ T # {}
  <2>1. \A i \in T : i \in Nat
    BY <1>1
  <2> QED BY <2>1
<1>4. Min(T) \in T /\ \A y \in T : Min(T) <= y
  BY <1>3, LeastNumber
<1>5. Min(T) \in 1 .. Len(s) + 1
  BY <1>2, <1>4
<1>6. InsertAt(s, Min(T), e) \in Seq(X) /\ InsertedAt(s, InsertAt(s, Min(T), e), Min(T), e)
  BY <1>5, InsertIndex
<1> QED BY <1>4, <1>5, <1>6 DEF Before

-----------------------------------------------------------------------------
(* The order of the messages: the queue s, and the messages in the order a *)
(* of their arrival.                                                       *)

Msgs == [slot : Slots, prio : MsgPrios]
SlotOnce(s) == \A i, j \in 1 .. Len(s) : s[i].slot = s[j].slot => i = j
Sorted(s, a) ==
  \A i, j \in 1 .. Len(s) : i < j =>
    /\ s[i].prio >= s[j].prio
    /\ s[i].prio = s[j].prio => \A k, l \in 1 .. Len(a) : a[k] = s[i] /\ a[l] = s[j] => k < l

Order(s, a) ==
  /\ s \in Seq(Msgs) /\ a \in Seq(Msgs)
  /\ SlotOnce(s) /\ SlotOnce(a)
  /\ Range(s) = Range(a)
  /\ Sorted(s, a)

\* Priorities are numbers.
LEMMA PrioType == \A m \in Msgs : m.slot \in Slots /\ m.prio \in Nat
BY ConstantsAssumption DEF Msgs, ConstantsAssumption

\* A queue without two messages in one slot holds no message twice.
LEMMA SlotOnceOnce == ASSUME NEW s, SlotOnce(s) PROVE Once(s)
BY DEF SlotOnce, Once

\* Where mq_dosend puts a message: behind all of at least its priority, before all others.
LEMMA QueuePlace ==
  ASSUME NEW s \in Seq(Msgs), NEW a, Sorted(s, a), NEW m \in Msgs
  PROVE  LET t == Before(s, {i \in DOMAIN s : s[i].prio < m.prio}, m) IN
         /\ t \in Seq(Msgs)
         /\ \E i \in 1 .. Len(s) + 1 :
              /\ InsertedAt(s, t, i, m)
              /\ \A j \in 1 .. Len(s) : j < i => s[j].prio >= m.prio
              /\ \A j \in 1 .. Len(s) : j >= i => s[j].prio < m.prio
<1> DEFINE lower == {i \in DOMAIN s : s[i].prio < m.prio}
           t == Before(s, lower, m)
<1>1. lower \in SUBSET (1 .. Len(s)) /\ Len(s) \in Nat
  BY RangeIs
<1>2. m.prio \in Nat /\ \A j \in 1 .. Len(s) : s[j].prio \in Nat
  BY PrioType
<1>3. t \in Seq(Msgs)
  BY <1>1, BeforeInserts
<1>4. PICK i \in 1 .. Len(s) + 1 : /\ InsertedAt(s, t, i, m)
                                   /\ i \in lower \/ i = Len(s) + 1
                                   /\ \A j \in lower : i <= j
  BY <1>1, BeforeInserts
<1>5. ASSUME NEW j \in 1 .. Len(s), j < i
      PROVE  s[j].prio >= m.prio
  <2>1. j \notin lower
    BY <1>1, <1>4, <1>5
  <2> QED BY <1>2, <2>1, RangeIs
<1>6. ASSUME NEW j \in 1 .. Len(s), j >= i
      PROVE  s[j].prio < m.prio
  <2>1. i \in lower /\ i \in 1 .. Len(s)
    BY <1>1, <1>4, <1>6
  <2>2. s[i].prio < m.prio
    BY <2>1
  <2>3. i < j => s[i].prio >= s[j].prio
    BY <2>1 DEF Sorted
  <2> QED BY <1>1, <1>2, <1>6, <2>1, <2>2, <2>3
<1> QED BY <1>3, <1>4, <1>5, <1>6

\* mq_dosend keeps the queue in order.
LEMMA QueueOrder ==
  ASSUME NEW s, NEW a, Order(s, a), NEW m \in Msgs, \A x \in Range(s) : x.slot # m.slot
  PROVE  LET t == Before(s, {i \in DOMAIN s : s[i].prio < m.prio}, m) IN
         Order(t, Append(a, m)) /\ Range(t) = Range(s) \union {m} /\ Len(t) = Len(s) + 1
<1> DEFINE t == Before(s, {i \in DOMAIN s : s[i].prio < m.prio}, m)
           b == Append(a, m)
<1>1. /\ s \in Seq(Msgs) /\ a \in Seq(Msgs) /\ SlotOnce(s) /\ SlotOnce(a)
      /\ Range(s) = Range(a) /\ Sorted(s, a)
  BY DEF Order
<1>2. t \in Seq(Msgs)
  BY <1>1, QueuePlace
<1>3. PICK i \in 1 .. Len(s) + 1 :
        /\ InsertedAt(s, t, i, m)
        /\ \A j \in 1 .. Len(s) : j < i => s[j].prio >= m.prio
        /\ \A j \in 1 .. Len(s) : j >= i => s[j].prio < m.prio
  BY <1>1, QueuePlace
<1> HIDE DEF t
<1>4. Len(t) = Len(s) + 1 /\ Len(s) \in Nat /\ i \in Nat
  BY <1>1, <1>3 DEF InsertedAt
<1>5. Range(t) = Range(s) \union {m}
  BY <1>1, <1>2, <1>3, InsertedRange
<1>6. /\ b \in Seq(Msgs) /\ Len(b) = Len(a) + 1 /\ b[Len(a) + 1] = m /\ Len(a) \in Nat
      /\ \A k \in 1 .. Len(a) : b[k] = a[k]
  BY <1>1
<1> HIDE DEF b
<1>7. \A j \in 1 .. Len(t) : /\ j < i => j \in 1 .. Len(s) /\ t[j] = s[j]
                             /\ j = i => t[j] = m
                             /\ j > i => j - 1 \in 1 .. Len(s) /\ t[j] = s[j - 1] /\ j - 1 >= i
  BY <1>3, <1>4 DEF InsertedAt
<1>8. \A j \in 1 .. Len(s) : s[j].slot # m.slot
  BY <1>1, RangeIs
<1>9. \A j \in 1 .. Len(a) : a[j].slot # m.slot
  BY <1>1, RangeIs
<1>10. Range(b) = Range(a) \union {m}
  <2>1. Range(a) = {a[j] : j \in 1 .. Len(a)} /\ Range(b) = {b[j] : j \in 1 .. Len(b)}
    BY <1>1, <1>6, RangeIs
  <2>2. \A j \in 1 .. Len(b) : j \in 1 .. Len(a) \/ j = Len(a) + 1
    BY <1>6
  <2>3. \A j \in 1 .. Len(a) : j \in 1 .. Len(b)
    BY <1>6
  <2>4. Len(a) + 1 \in 1 .. Len(b)
    BY <1>6
  <2> QED BY <1>6, <2>1, <2>2, <2>3, <2>4
<1>11. SlotOnce(b)
  <2> SUFFICES ASSUME NEW j \in 1 .. Len(b), NEW k \in 1 .. Len(b), b[j].slot = b[k].slot
               PROVE  j = k
    BY DEF SlotOnce
  <2>1. (j \in 1 .. Len(a) \/ j = Len(a) + 1) /\ (k \in 1 .. Len(a) \/ k = Len(a) + 1)
    BY <1>6
  <2> QED BY <1>1, <1>6, <1>9, <2>1 DEF SlotOnce
<1>12. SlotOnce(t)
  <2> SUFFICES ASSUME NEW j \in 1 .. Len(t), NEW k \in 1 .. Len(t), j < k, t[j].slot = t[k].slot
               PROVE  FALSE
    BY <1>4 DEF SlotOnce
  <2>1. CASE k < i
    BY <1>1, <1>4, <1>7, <2>1 DEF SlotOnce
  <2>2. CASE k = i
    BY <1>4, <1>7, <1>8, <2>2
  <2>3. CASE k > i /\ j < i
    <3>1. j \in 1 .. Len(s) /\ k - 1 \in 1 .. Len(s) /\ s[j].slot = s[k - 1].slot /\ j # k - 1
      BY <1>4, <1>7, <2>3
    <3> QED BY <1>1, <3>1 DEF SlotOnce
  <2>4. CASE k > i /\ j = i
    BY <1>4, <1>7, <1>8, <2>4
  <2>5. CASE k > i /\ j > i
    <3>1. j - 1 \in 1 .. Len(s) /\ k - 1 \in 1 .. Len(s) /\ s[j - 1].slot = s[k - 1].slot /\ j - 1 # k - 1
      BY <1>4, <1>7, <2>5
    <3> QED BY <1>1, <3>1 DEF SlotOnce
  <2> QED BY <1>4, <2>1, <2>2, <2>3, <2>4, <2>5
<1>13. Sorted(t, b)
  <2> SUFFICES ASSUME NEW j \in 1 .. Len(t), NEW k \in 1 .. Len(t), j < k
               PROVE  /\ t[j].prio >= t[k].prio
                      /\ t[j].prio = t[k].prio =>
                           \A p, q \in 1 .. Len(b) : b[p] = t[j] /\ b[q] = t[k] => p < q
    BY DEF Sorted
  <2>1. m.prio \in Nat /\ \A n \in 1 .. Len(s) : s[n].prio \in Nat
    BY <1>1, PrioType
  <2>2. \A p \in 1 .. Len(b), n \in 1 .. Len(s) : b[p] = s[n] => p \in 1 .. Len(a) /\ a[p] = s[n]
    <3> SUFFICES ASSUME NEW p \in 1 .. Len(b), NEW n \in 1 .. Len(s), b[p] = s[n]
                 PROVE  p \in 1 .. Len(a) /\ a[p] = s[n]
      OBVIOUS
    <3>1. p \in 1 .. Len(a) \/ p = Len(a) + 1
      BY <1>6
    <3> QED BY <1>6, <1>8, <3>1
  <2>3. \A p \in 1 .. Len(b) : b[p] = m => p = Len(a) + 1
    <3> SUFFICES ASSUME NEW p \in 1 .. Len(b), b[p] = m
                 PROVE  p = Len(a) + 1
      OBVIOUS
    <3>1. p \in 1 .. Len(a) \/ p = Len(a) + 1
      BY <1>6
    <3> QED BY <1>6, <1>9, <3>1
  <2>4. ASSUME NEW c \in 1 .. Len(s), NEW d \in 1 .. Len(s), c < d, t[j] = s[c], t[k] = s[d]
        PROVE  /\ t[j].prio >= t[k].prio
               /\ t[j].prio = t[k].prio =>
                    \A p, q \in 1 .. Len(b) : b[p] = t[j] /\ b[q] = t[k] => p < q
    <3>1. s[c].prio >= s[d].prio
      BY <1>1, <2>4 DEF Sorted
    <3>2. s[c].prio = s[d].prio => \A p, q \in 1 .. Len(a) : a[p] = s[c] /\ a[q] = s[d] => p < q
      BY <1>1, <2>4 DEF Sorted
    <3> QED BY <2>2, <2>4, <3>1, <3>2
  <2>5. CASE k < i
    <3>1. j \in 1 .. Len(s) /\ k \in 1 .. Len(s) /\ t[j] = s[j] /\ t[k] = s[k]
      BY <1>4, <1>7, <2>5
    <3> QED BY <2>4, <3>1
  <2>6. CASE k = i
    <3>1. j \in 1 .. Len(s) /\ t[j] = s[j] /\ t[k] = m /\ s[j].prio >= m.prio
      BY <1>3, <1>4, <1>7, <2>6
    <3>2. \A p, q \in 1 .. Len(b) : b[p] = t[j] /\ b[q] = t[k] => p < q
      <4> SUFFICES ASSUME NEW p \in 1 .. Len(b), NEW q \in 1 .. Len(b), b[p] = t[j], b[q] = t[k]
                   PROVE  p < q
        OBVIOUS
      <4>1. p \in 1 .. Len(a)
        BY <2>2, <3>1
      <4>2. q = Len(a) + 1
        BY <2>3, <3>1
      <4> QED BY <1>6, <4>1, <4>2
    <3> QED BY <3>1, <3>2
  <2>7. CASE k > i /\ j < i
    <3>1. j \in 1 .. Len(s) /\ k - 1 \in 1 .. Len(s) /\ t[j] = s[j] /\ t[k] = s[k - 1] /\ j < k - 1
      BY <1>4, <1>7, <2>7
    <3> QED BY <2>4, <3>1
  <2>8. CASE k > i /\ j = i
    <3>1. k - 1 \in 1 .. Len(s) /\ t[j] = m /\ t[k] = s[k - 1] /\ s[k - 1].prio < m.prio
      BY <1>3, <1>4, <1>7, <2>8
    <3>2. t[j].prio \in Nat /\ t[k].prio \in Nat /\ t[k].prio < t[j].prio
      BY <2>1, <3>1
    <3> QED BY <3>2
  <2>9. CASE k > i /\ j > i
    <3>1. j - 1 \in 1 .. Len(s) /\ k - 1 \in 1 .. Len(s) /\ t[j] = s[j - 1] /\ t[k] = s[k - 1] /\ j - 1 < k - 1
      BY <1>4, <1>7, <2>9
    <3> QED BY <2>4, <3>1
  <2> QED BY <1>4, <2>5, <2>6, <2>7, <2>8, <2>9
<1>14. Order(t, b)
  BY <1>1, <1>2, <1>5, <1>6, <1>10, <1>11, <1>12, <1>13 DEF Order
<1> QED BY <1>4, <1>5, <1>14 DEF t, b

\* mq_receive takes the oldest message of the highest priority, and keeps the queue in order.
LEMMA DequeueOrder ==
  ASSUME NEW s, NEW a, Order(s, a), s # <<>>
  PROVE  LET b == RemoveFirst(a, Head(s)) IN
         /\ Order(Tail(s), b) /\ Range(Tail(s)) = Range(s) \ {Head(s)} /\ Len(Tail(s)) = Len(s) - 1
         /\ \E i \in 1 .. Len(a) :
              /\ b = RemoveAt(a, i)
              /\ \A j \in 1 .. Len(a) \ {i} : \/ a[j].prio < a[i].prio
                                              \/ a[j].prio = a[i].prio /\ i < j
<1> DEFINE t == Tail(s)
           b == RemoveFirst(a, Head(s))
<1>1. /\ s \in Seq(Msgs) /\ a \in Seq(Msgs) /\ SlotOnce(s) /\ SlotOnce(a) /\ Once(s) /\ Once(a)
      /\ Range(s) = Range(a) /\ Sorted(s, a)
  BY SlotOnceOnce DEF Order
<1>2. t \in Seq(Msgs) /\ DroppedAt(s, t, 1) /\ 1 \in 1 .. Len(s) /\ Head(s) = s[1] /\ Head(s) \in Range(a)
  BY <1>1, TailDrops, RangeIs
<1>3. b \in Seq(Msgs)
  BY <1>1, <1>2, RemoveFirstDrops
<1>4. PICK i \in 1 .. Len(a) : a[i] = s[1] /\ b = RemoveAt(a, i) /\ DroppedAt(a, b, i)
  BY <1>1, <1>2, RemoveFirstDrops
<1> HIDE DEF t, b
<1>5. Range(t) = Range(s) \ {s[1]} /\ Range(b) = Range(a) \ {a[i]}
  BY <1>1, <1>2, <1>3, <1>4, DroppedRange
<1>6. Len(t) = Len(s) - 1 /\ Len(s) \in Nat /\ Len(a) \in Nat /\ Len(t) \in Nat
  BY <1>1, <1>2 DEF DroppedAt
<1>7. \A j \in 1 .. Len(t) : j + 1 \in 1 .. Len(s) /\ t[j] = s[j + 1]
  BY <1>2, <1>6 DEF DroppedAt
<1>8. \A j \in 1 .. Len(b) : \E m \in 1 .. Len(a) : b[j] = a[m] /\ m # i /\ m = IF j < i THEN j ELSE j + 1
  <2>1. Len(b) = Len(a) - 1 /\ Len(a) \in Nat /\ i \in Nat
    BY <1>4, <1>6 DEF DroppedAt
  <2> QED BY <1>4, <2>1 DEF DroppedAt
<1>9. SlotOnce(t)
  <2> SUFFICES ASSUME NEW j \in 1 .. Len(t), NEW k \in 1 .. Len(t), t[j].slot = t[k].slot
               PROVE  j = k
    BY DEF SlotOnce
  <2>1. j + 1 = k + 1
    BY <1>1, <1>7 DEF SlotOnce
  <2> QED BY <1>6, <2>1
<1>10. SlotOnce(b)
  <2> SUFFICES ASSUME NEW j \in 1 .. Len(b), NEW k \in 1 .. Len(b), b[j].slot = b[k].slot
               PROVE  j = k
    BY DEF SlotOnce
  <2>1. PICK m \in 1 .. Len(a) : b[j] = a[m] /\ m = IF j < i THEN j ELSE j + 1
    BY <1>8
  <2>2. PICK n \in 1 .. Len(a) : b[k] = a[n] /\ n = IF k < i THEN k ELSE k + 1
    BY <1>8
  <2>3. m = n
    BY <1>1, <2>1, <2>2 DEF SlotOnce
  <2> QED BY <2>1, <2>2, <2>3
<1>11. Sorted(t, b)
  <2> SUFFICES ASSUME NEW j \in 1 .. Len(t), NEW k \in 1 .. Len(t), j < k
               PROVE  /\ t[j].prio >= t[k].prio
                      /\ t[j].prio = t[k].prio =>
                           \A p, q \in 1 .. Len(b) : b[p] = t[j] /\ b[q] = t[k] => p < q
    BY DEF Sorted
  <2>1. /\ j + 1 \in 1 .. Len(s) /\ k + 1 \in 1 .. Len(s) /\ j + 1 < k + 1
        /\ t[j] = s[j + 1] /\ t[k] = s[k + 1]
    BY <1>6, <1>7
  <2>2. /\ t[j].prio >= t[k].prio
        /\ t[j].prio = t[k].prio => \A p, q \in 1 .. Len(a) : a[p] = t[j] /\ a[q] = t[k] => p < q
    BY <1>1, <2>1 DEF Sorted
  <2>3. ASSUME t[j].prio = t[k].prio, NEW p \in 1 .. Len(b), NEW q \in 1 .. Len(b), b[p] = t[j], b[q] = t[k]
        PROVE  p < q
    <3>1. PICK m \in 1 .. Len(a) : b[p] = a[m] /\ m # i /\ m = IF p < i THEN p ELSE p + 1
      BY <1>8
    <3>2. PICK n \in 1 .. Len(a) : b[q] = a[n] /\ n # i /\ n = IF q < i THEN q ELSE q + 1
      BY <1>8
    <3>3. m < n
      BY <2>2, <2>3, <3>1, <3>2
    <3> QED BY <3>1, <3>2, <3>3
  <2> QED BY <2>2, <2>3
<1>12. Order(t, b)
  BY <1>1, <1>2, <1>3, <1>4, <1>5, <1>9, <1>10, <1>11 DEF Order
<1>13. ASSUME NEW j \in 1 .. Len(a), j # i
       PROVE  \/ a[j].prio < a[i].prio
              \/ a[j].prio = a[i].prio /\ i < j
  <2>1. a[j] \in Range(s) /\ a[j] # a[i]
    BY <1>1, <1>13, RangeIs DEF Once
  <2>2. PICK n \in 1 .. Len(s) : s[n] = a[j]
    BY <1>1, <2>1, RangeIs
  <2>3. n # 1 /\ 1 < n
    BY <1>4, <1>6, <2>1, <2>2
  <2>4. /\ s[1].prio >= s[n].prio
        /\ s[1].prio = s[n].prio => \A k, l \in 1 .. Len(a) : a[k] = s[1] /\ a[l] = s[n] => k < l
    BY <1>1, <1>2, <2>3 DEF Sorted
  <2>5. s[1].prio \in Nat /\ s[n].prio \in Nat
    BY <1>1, <1>2, PrioType
  <2> QED BY <1>4, <2>2, <2>4, <2>5
<1> QED BY <1>2, <1>4, <1>5, <1>6, <1>12, <1>13 DEF t, b

-----------------------------------------------------------------------------
(* The messages.  A thread has a message in hand between mq_msgalloc and   *)
(* the insertion, and between the removal and mq_msgfree; a thread that is *)
(* deleted has none.                                                       *)

Queued == {x.slot : x \in Range(msglist)}
Held == {msg[t] : t \in Threads} \ {NoSlot}
InHand == {"insert", "free"}
Sends == {"alloc", "heap", "insert"}
Blocked == {"notfull", "notempty"}
Sending == {t \in Senders : state[t] \in Sends}

Types ==
  /\ state \in [Threads -> State]
  /\ msg \in [Threads -> Slots \union {NoSlot}]

Ordered == nmsgs = Len(msglist) /\ Order(msglist, arrived)

Hands == \A t \in Threads : state[t] \in InHand <=> msg[t] # NoSlot

Deletion ==
  dying # NoThread => /\ dying \in Threads /\ cpu = Deleter
                      /\ state[dying] \in Blocked \union {"ready"}

Places ==
  /\ msgfree \subseteq Fixed /\ msgfreeirq \subseteq Irq /\ heap \subseteq Dyn
  /\ \A t, u \in Threads : msg[t] = msg[u] /\ t # u => msg[t] = NoSlot
  /\ Queued \intersect Held = {}
  /\ (msgfree \union msgfreeirq) \intersect (Queued \union Held) = {}
  /\ msgfree \union msgfreeirq \union Queued \union Held = Fixed \union Irq \union heap
  /\ handled \subseteq Queued

Overshoot == Cardinality(Queued \ handled) + Cardinality(Sending) <= maxmsgs - 1 + Cardinality(Senders)

QueueInv == Types /\ Ordered /\ Hands /\ Deletion /\ Places /\ Overshoot

\* The sets that are counted are finite.
LEMMA Finite ==
  /\ IsFiniteSet(Senders) /\ IsFiniteSet(Receivers) /\ IsFiniteSet(Threads)
  /\ \A S : S \subseteq Slots \/ S \subseteq Threads => IsFiniteSet(S) /\ Cardinality(S) \in Nat
<1>1. IsFiniteSet(Threads) /\ IsFiniteSet(Slots)
  BY ConstantsAssumption DEF ConstantsAssumption
<1>2. \A S : S \subseteq Slots \/ S \subseteq Threads => IsFiniteSet(S)
  BY <1>1, FS_Subset
<1>3. Senders \subseteq Threads /\ Receivers \subseteq Threads
  BY DEF Threads
<1> QED BY <1>1, <1>2, <1>3, FS_CardinalityType

\* The slots of the queue, one for each message.
LEMMA QueuedIs ==
  ASSUME Ordered
  PROVE  /\ Queued \subseteq Slots /\ Queued = {msglist[i].slot : i \in DOMAIN msglist}
         /\ Cardinality(Queued) = Len(msglist) /\ Len(msglist) \in Nat
<1>1. msglist \in Seq(Msgs) /\ SlotOnce(msglist)
  BY DEF Ordered, Order
<1>2. /\ DOMAIN msglist = 1 .. Len(msglist) /\ Range(msglist) = {msglist[i] : i \in 1 .. Len(msglist)}
      /\ Len(msglist) \in Nat /\ Range(msglist) \subseteq Msgs
  BY <1>1, RangeIs
<1>3. Queued \subseteq Slots
  BY <1>2, PrioType DEF Queued
<1>4. Queued = {msglist[i].slot : i \in DOMAIN msglist}
  BY <1>2 DEF Queued
<1> DEFINE f == [i \in 1 .. Len(msglist) |-> msglist[i].slot]
<1>5. f \in Bijection(1 .. Len(msglist), Queued)
  <2>1. f \in [1 .. Len(msglist) -> Queued]
    BY <1>2, <1>4
  <2>2. \A i, j \in 1 .. Len(msglist) : f[i] = f[j] => i = j
    BY <1>1 DEF SlotOnce
  <2>3. \A x \in Queued : \E i \in 1 .. Len(msglist) : f[i] = x
    BY <1>2, <1>4
  <2> QED BY <2>1, <2>2, <2>3, Fun_IsBij
<1>6. IsFiniteSet(1 .. Len(msglist)) /\ Cardinality(1 .. Len(msglist)) = Len(msglist)
  <2>1. \A n \in Nat : IsFiniteSet(1 .. n) /\ Cardinality(1 .. n) = IF 1 > n THEN 0 ELSE n - 1 + 1
    BY FS_Interval
  <2>2. \A n \in Nat : (IF 1 > n THEN 0 ELSE n - 1 + 1) = n
    OBVIOUS
  <2> QED BY <1>2, <2>1, <2>2
<1>7. Cardinality(Queued) = Cardinality(1 .. Len(msglist))
  <2> HIDE DEF f
  <2>1. ExistsBijection(1 .. Len(msglist), Queued)
    BY <1>5 DEF ExistsBijection
  <2> QED BY <1>6, <2>1, FS_Bijection, Zenon
<1> QED BY <1>2, <1>3, <1>4, <1>6, <1>7

\* mq_dosend adds one message, of a slot that is not in the queue.
LEMMA QueueStep ==
  ASSUME Ordered, NEW m \in Msgs, m.slot \notin Queued, NEW f \in BOOLEAN, Queue(m, f)
  PROVE  /\ Ordered' /\ Queued' = Queued \union {m.slot}
         /\ Abstract!Send(m)
<1>1. nmsgs = Len(msglist) /\ Order(msglist, arrived)
  BY DEF Ordered
<1>2. \A x \in Range(msglist) : x.slot # m.slot
  BY DEF Queued
<1>3. /\ msglist' = Before(msglist, {i \in DOMAIN msglist : msglist[i].prio < m.prio}, m)
      /\ arrived' = Append(arrived, m) /\ nmsgs' = nmsgs + 1
  BY DEF Queue
<1>4. /\ Order(msglist', arrived') /\ Range(msglist') = Range(msglist) \union {m}
      /\ Len(msglist') = Len(msglist) + 1
  BY <1>1, <1>2, <1>3, QueueOrder
<1>5. Ordered'
  BY <1>1, <1>3, <1>4 DEF Ordered
<1>6. Queued' = Queued \union {m.slot}
  BY <1>4 DEF Queued
<1>7. ~ Abstract!Queued(m.slot)
  <2>1. arrived \in Seq(Msgs) /\ Range(msglist) = Range(arrived)
    BY <1>1 DEF Order
  <2>2. \A i \in DOMAIN arrived : arrived[i] \in Range(msglist)
    BY <2>1, RangeIs
  <2> QED BY <1>2, <2>2 DEF Abstract!Queued
<1> QED BY <1>3, <1>5, <1>6, <1>7 DEF Abstract!Send

\* mq_waitreceive takes one message, the oldest of the highest priority.
LEMMA DequeueStep ==
  ASSUME Ordered, msglist # <<>>, NEW t, Dequeue(t)
  PROVE  /\ Ordered' /\ Head(msglist).slot \in Queued
         /\ Queued' = Queued \ {Head(msglist).slot}
         /\ \E i \in DOMAIN arrived : Abstract!Receive(i)
<1>1. nmsgs = Len(msglist) /\ Order(msglist, arrived)
  BY DEF Ordered
<1>2. msglist \in Seq(Msgs) /\ arrived \in Seq(Msgs) /\ SlotOnce(msglist)
  BY <1>1 DEF Order
<1>3. msglist' = Tail(msglist) /\ arrived' = RemoveFirst(arrived, Head(msglist)) /\ nmsgs' = nmsgs - 1
  BY DEF Dequeue
<1>4. /\ Order(msglist', arrived') /\ Range(msglist') = Range(msglist) \ {Head(msglist)}
      /\ Len(msglist') = Len(msglist) - 1
  BY <1>1, <1>3, DequeueOrder
<1>5. PICK i \in 1 .. Len(arrived) :
        /\ arrived' = RemoveAt(arrived, i)
        /\ \A j \in 1 .. Len(arrived) \ {i} : \/ arrived[j].prio < arrived[i].prio
                                              \/ arrived[j].prio = arrived[i].prio /\ i < j
  BY <1>1, <1>3, DequeueOrder
<1>6. Ordered'
  BY <1>1, <1>3, <1>4 DEF Ordered
<1>7. Head(msglist) \in Range(msglist)
  BY <1>2, RangeIs
<1>8. \A x \in Range(msglist) : x.slot = Head(msglist).slot => x = Head(msglist)
  <2>1. Range(msglist) = {msglist[k] : k \in 1 .. Len(msglist)}
    BY <1>2, RangeIs
  <2> QED BY <1>2, <1>7, <2>1 DEF SlotOnce
<1>9. Queued' = Queued \ {Head(msglist).slot} /\ Head(msglist).slot \in Queued
  BY <1>4, <1>7, <1>8 DEF Queued
<1>10. i \in DOMAIN arrived /\ Abstract!Receive(i)
  <2>1. DOMAIN arrived = 1 .. Len(arrived)
    BY <1>2, RangeIs
  <2> QED BY <1>5, <2>1 DEF Abstract!Receive, Abstract!Oldest, RemoveAt
<1> QED BY <1>6, <1>9, <1>10

\* A thread takes a message in hand.
LEMMA HeldMore ==
  ASSUME Types, NEW t \in Threads, msg[t] = NoSlot, NEW s \in Slots, msg' = [msg EXCEPT ![t] = s]
  PROVE  Held' = Held \union {s} /\ msg' \in [Threads -> Slots \union {NoSlot}] /\ s # NoSlot
<1>1. s # NoSlot
  BY ConstantsAssumption DEF ConstantsAssumption
<1>2. \A u \in Threads : msg'[u] = IF u = t THEN s ELSE msg[u]
  BY DEF Types
<1> QED BY <1>1, <1>2 DEF Held, Types

\* A thread gives the message in its hand away.
LEMMA HeldLess ==
  ASSUME Types, Places, NEW t \in Threads, msg[t] # NoSlot, msg' = [msg EXCEPT ![t] = NoSlot]
  PROVE  /\ Held' = Held \ {msg[t]} /\ msg[t] \in Held /\ msg[t] \in Slots
         /\ msg' \in [Threads -> Slots \union {NoSlot}]
         /\ \A u, w \in Threads : msg'[u] = msg'[w] /\ u # w => msg'[u] = NoSlot
<1>1. \A u \in Threads : msg'[u] = IF u = t THEN NoSlot ELSE msg[u]
  BY DEF Types
<1>2. \A u, w \in Threads : msg[u] = msg[w] /\ u # w => msg[u] = NoSlot
  BY DEF Places
<1> QED BY <1>1, <1>2 DEF Held, Types

\* A step that moves no message.  A thread that starts to send has found room.
LEMMA NoMove ==
  ASSUME QueueInv, UNCHANGED <<queue, pools, msg>>, Deletion', state' \in [Threads -> State],
         \A u \in Threads : /\ state'[u] \in InHand <=> state[u] \in InHand
                            /\ Full => (state'[u] \in Sends => state[u] \in Sends)
  PROVE  QueueInv'
<1>1. Types' /\ Ordered' /\ Hands' /\ Places'
  <2>1. Queued' = Queued /\ Held' = Held
    BY DEF queue, Queued, Held
  <2> QED BY <2>1 DEF QueueInv, queue, pools, Types, Ordered, Hands, Places
<1>2. Overshoot'
  <2>1. Queued' = Queued /\ handled' = handled
    BY DEF queue, Queued
  <2>2. Sending' \subseteq Senders /\ Sending \subseteq Senders /\ Senders \subseteq Threads
    BY DEF Sending, Threads
  <2>3. /\ IsFiniteSet(Senders) /\ IsFiniteSet(Sending) /\ IsFiniteSet(Sending')
        /\ Cardinality(Senders) \in Nat /\ Cardinality(Sending) \in Nat /\ Cardinality(Sending') \in Nat
        /\ Cardinality(Sending') <= Cardinality(Senders)
    BY <2>2, Finite, FS_Subset, FS_CardinalityType
  <2>4. /\ IsFiniteSet(Queued) /\ IsFiniteSet(Queued \ handled)
        /\ Cardinality(Queued \ handled) \in Nat /\ Cardinality(Queued \ handled) <= Cardinality(Queued)
        /\ Cardinality(Queued) = nmsgs /\ nmsgs \in Nat
    BY QueuedIs, Finite, FS_Subset DEF QueueInv, Ordered
  <2>5. maxmsgs \in Nat
    BY ConstantsAssumption DEF ConstantsAssumption
  <2>6. CASE Full
    <3>1. Sending' \subseteq Sending
      BY <2>2, <2>6 DEF Sending
    <3>2. Cardinality(Sending') <= Cardinality(Sending)
      BY <2>3, <3>1, FS_Subset
    <3> QED BY <2>1, <2>3, <2>4, <2>5, <3>2 DEF QueueInv, Overshoot
  <2>7. CASE ~ Full
    <3>1. nmsgs <= maxmsgs - 1
      BY <2>4, <2>5, <2>7 DEF Full
    <3> QED BY <2>1, <2>3, <2>4, <2>5, <3>1 DEF Overshoot
  <2> QED BY <2>6, <2>7
<1> QED BY <1>1, <1>2 DEF QueueInv

\* A step that neither lets a thread start to send nor queues a message of a thread.
LEMMA OvershootKept ==
  ASSUME QueueInv, (Queued \ handled)' \subseteq Queued \ handled,
         \A u \in Threads : state'[u] \in Sends => state[u] \in Sends
  PROVE  Overshoot'
<1>1. Sending' \subseteq Sending /\ Sending \subseteq Threads /\ Queued \ handled \subseteq Slots
  BY QueuedIs DEF Sending, Threads, QueueInv
<1>2. /\ IsFiniteSet(Sending) /\ IsFiniteSet(Queued \ handled) /\ Cardinality(Senders) \in Nat
      /\ Cardinality(Sending) \in Nat /\ Cardinality(Queued \ handled) \in Nat
  BY <1>1, Finite, FS_CardinalityType
<1>3. Cardinality(Sending') <= Cardinality(Sending) /\ Cardinality(Sending') \in Nat
  BY <1>1, <1>2, FS_Subset, FS_CardinalityType
<1>4. /\ Cardinality((Queued \ handled)') <= Cardinality(Queued \ handled)
      /\ Cardinality((Queued \ handled)') \in Nat
  BY <1>2, FS_Subset, FS_CardinalityType
<1>5. maxmsgs \in Nat
  BY ConstantsAssumption DEF ConstantsAssumption
<1> QED BY <1>2, <1>3, <1>4, <1>5 DEF QueueInv, Overshoot

\* What a step of a thread does to its state and to the others'.
LEMMA StateStep ==
  ASSUME Types, NEW t \in Threads, NEW x \in State, state' = [state EXCEPT ![t] = x]
  PROVE  /\ state' \in [Threads -> State] /\ state'[t] = x
         /\ \A u \in Threads : u # t => state'[u] = state[u]
BY DEF Types

\* A deletion goes on while a thread that has the scheduler locked, or takes it, does a step.
LEMMA DeletionKept ==
  ASSUME Types, Deletion, NEW t \in Threads, cpu = t \/ cpu = NoThread, dying' = dying
  PROVE  dying = NoThread /\ Deletion'
<1>1. dying = NoThread
  BY ConstantsAssumption DEF Deletion, ConstantsAssumption
<1> QED BY <1>1 DEF Deletion

\* mq_msgalloc takes a message from the free list or from the heap.
LEMMA AllocMoves ==
  ASSUME QueueInv, NEW t \in Threads, state[t] \in {"alloc", "heap"}, cpu = t \/ cpu = NoThread,
         NEW s \in Slots, msg' = [msg EXCEPT ![t] = s], Proceed(t, "insert"),
         UNCHANGED <<queue, msgfreeirq, dying>>,
         \/ s \in msgfree /\ msgfree' = msgfree \ {s} /\ heap' = heap
         \/ s \in Dyn \ heap /\ heap' = heap \union {s} /\ msgfree' = msgfree
  PROVE  QueueInv'
<1>1. msg[t] = NoSlot
  BY DEF QueueInv, Hands, InHand
<1>2. Held' = Held \union {s} /\ msg' \in [Threads -> Slots \union {NoSlot}] /\ s # NoSlot
  BY <1>1, HeldMore DEF QueueInv
<1>3. /\ state' \in [Threads -> State] /\ state'[t] = "insert"
      /\ \A u \in Threads : u # t => state'[u] = state[u]
  BY StateStep DEF Proceed, State, QueueInv
<1>4. Queued' = Queued /\ handled' = handled
  BY DEF queue, Queued
<1>5. Types' /\ Ordered'
  BY <1>2, <1>3, <1>4 DEF QueueInv, Types, Ordered, queue
<1>6. \A u \in Threads : msg'[u] = IF u = t THEN s ELSE msg[u]
  BY DEF QueueInv, Types
<1>7. Hands'
  BY <1>2, <1>3, <1>6 DEF QueueInv, Hands, InHand
<1>8. Deletion'
  BY DeletionKept DEF QueueInv
<1>9. Places'
  <2>1. Fixed \intersect Irq = {} /\ Fixed \intersect Dyn = {} /\ Irq \intersect Dyn = {}
    BY ConstantsAssumption DEF ConstantsAssumption
  <2>2. /\ msgfree \subseteq Fixed /\ msgfreeirq \subseteq Irq /\ heap \subseteq Dyn
        /\ \A u, w \in Threads : msg[u] = msg[w] /\ u # w => msg[u] = NoSlot
        /\ Queued \intersect Held = {}
        /\ (msgfree \union msgfreeirq) \intersect (Queued \union Held) = {}
        /\ msgfree \union msgfreeirq \union Queued \union Held = Fixed \union Irq \union heap
        /\ handled \subseteq Queued
    BY DEF QueueInv, Places
  <2>3. s \notin Held /\ s \notin Queued
    BY <2>1, <2>2
  <2>4. \A u, w \in Threads : msg'[u] = msg'[w] /\ u # w => msg'[u] = NoSlot
    <3>1. \A u \in Threads : msg[u] # s
      BY <1>2, <2>3 DEF Held
    <3> QED BY <1>6, <2>2, <3>1
  <2>5. msgfree' \subseteq Fixed /\ msgfreeirq' \subseteq Irq /\ heap' \subseteq Dyn
    BY <2>2
  <2>6. Queued' \intersect Held' = {} /\ handled' \subseteq Queued'
    BY <1>2, <1>4, <2>2, <2>3
  <2>7. (msgfree' \union msgfreeirq') \intersect (Queued' \union Held') = {}
    BY <1>2, <1>4, <2>1, <2>2
  <2>8. msgfree' \union msgfreeirq' \union Queued' \union Held' = Fixed \union Irq \union heap'
    BY <1>2, <1>4, <2>2
  <2> QED BY <2>4, <2>5, <2>6, <2>7, <2>8 DEF Places
<1>10. Overshoot'
  BY <1>3, <1>4, OvershootKept DEF Sends
<1> QED BY <1>5, <1>7, <1>8, <1>9, <1>10 DEF QueueInv

\* mq_dosend moves the message of the thread into the queue.
LEMMA InsertMoves ==
  ASSUME QueueInv, NEW t \in Senders, Insert(t)
  PROVE  QueueInv' /\ \E m \in Abstract!Message : Abstract!Send(m)
<1>1. PICK p \in MsgPrios : Queue([slot |-> msg[t], prio |-> p], FALSE)
  BY DEF Insert
<1>2. cpu = t /\ state[t] = "insert" /\ t \in Threads
  BY DEF Insert, Threads
<1>3. msg[t] # NoSlot
  BY <1>2 DEF QueueInv, Hands, InHand
<1>4. /\ Held' = Held \ {msg[t]} /\ msg[t] \in Held /\ msg[t] \in Slots
      /\ msg' \in [Threads -> Slots \union {NoSlot}]
      /\ \A u, w \in Threads : msg'[u] = msg'[w] /\ u # w => msg'[u] = NoSlot
  BY <1>2, <1>3, HeldLess DEF Insert, QueueInv
<1> DEFINE m == [slot |-> msg[t], prio |-> p]
<1>5. m \in Msgs /\ m \in Abstract!Message /\ m.slot = msg[t]
  BY <1>4 DEF Msgs, Abstract!Message
<1>6. msg[t] \notin Queued
  BY <1>4 DEF QueueInv, Places
<1> HIDE DEF m
<1>7. Ordered' /\ Queued' = Queued \union {msg[t]} /\ Abstract!Send(m)
  <2>1. Queue(m, FALSE)
    BY <1>1 DEF m
  <2> QED BY <1>5, <1>6, <2>1, QueueStep DEF QueueInv
<1>8. handled' = handled
  <2>1. handled' = handled \ {msg[t]}
    BY <1>1 DEF Queue
  <2> QED BY <1>6, <2>1 DEF QueueInv, Places
<1>9. /\ state' \in [Threads -> State] /\ state'[t] = "notify"
      /\ \A u \in Threads : u # t => state'[u] = state[u]
  BY <1>2, StateStep DEF Insert, Proceed, State, QueueInv
<1>10. \A u \in Threads : msg'[u] = IF u = t THEN NoSlot ELSE msg[u]
  BY DEF Insert, QueueInv, Types
<1>11. Types'
  BY <1>4, <1>9 DEF Types
<1>12. Hands'
  BY <1>9, <1>10 DEF QueueInv, Hands, InHand
<1>13. Deletion'
  BY <1>2, DeletionKept DEF QueueInv, Insert
<1>14. Places'
  <2>1. pools' = pools
    BY DEF Insert
  <2> QED BY <1>4, <1>7, <1>8, <2>1 DEF QueueInv, Places, pools
<1>15. Overshoot'
  <2>1. Sending' = Sending \ {t} /\ t \in Sending /\ Sending \subseteq Threads
    BY <1>2, <1>9 DEF Sending, Sends, Threads
  <2>2. /\ Queued' \ handled' = (Queued \ handled) \union {msg[t]}
        /\ msg[t] \notin Queued \ handled /\ Queued \ handled \subseteq Slots
    BY <1>6, <1>7, <1>8, QueuedIs DEF QueueInv, Places
  <2>3. /\ IsFiniteSet(Sending) /\ IsFiniteSet(Queued \ handled) /\ Cardinality(Senders) \in Nat
        /\ Cardinality(Sending) \in Nat /\ Cardinality(Queued \ handled) \in Nat
    BY <2>1, <2>2, Finite, FS_CardinalityType
  <2>4. Cardinality(Sending') = Cardinality(Sending) - 1
    BY <2>1, <2>3, FS_RemoveElement
  <2>5. Cardinality(Queued' \ handled') = Cardinality(Queued \ handled) + 1
    BY <2>2, <2>3, FS_AddElement
  <2>6. maxmsgs \in Nat
    BY ConstantsAssumption DEF ConstantsAssumption
  <2> QED BY <2>3, <2>4, <2>5, <2>6 DEF QueueInv, Overshoot
<1> QED BY <1>5, <1>7, <1>11, <1>12, <1>13, <1>14, <1>15 DEF QueueInv

\* mq_waitreceive moves the first message into the hand of the thread.
LEMMA DequeueMoves ==
  ASSUME QueueInv, NEW t \in Receivers, state[t] \in {"idle", "ready"}, cpu = t \/ cpu = NoThread,
         msglist # <<>>, Dequeue(t), Proceed(t, "free"), UNCHANGED <<pools, dying>>
  PROVE  QueueInv' /\ \E i \in DOMAIN arrived : Abstract!Receive(i)
<1> DEFINE s == Head(msglist).slot
<1>1. t \in Threads
  BY DEF Threads
<1>2. Ordered' /\ s \in Queued /\ Queued' = Queued \ {s} /\ \E i \in DOMAIN arrived : Abstract!Receive(i)
  BY DequeueStep DEF QueueInv
<1>3. msg' = [msg EXCEPT ![t] = s] /\ handled' = handled \ {s}
  BY DEF Dequeue
<1> HIDE DEF s
<1>4. s \in Slots
  BY <1>2, QueuedIs DEF QueueInv
<1>5. msg[t] = NoSlot
  BY <1>1 DEF QueueInv, Hands, InHand
<1>6. Held' = Held \union {s} /\ msg' \in [Threads -> Slots \union {NoSlot}] /\ s # NoSlot
  BY <1>1, <1>3, <1>4, <1>5, HeldMore DEF QueueInv
<1>7. /\ state' \in [Threads -> State] /\ state'[t] = "free"
      /\ \A u \in Threads : u # t => state'[u] = state[u]
  BY <1>1, StateStep DEF Proceed, State, QueueInv
<1>8. \A u \in Threads : msg'[u] = IF u = t THEN s ELSE msg[u]
  BY <1>3 DEF QueueInv, Types
<1>9. Types'
  BY <1>6, <1>7 DEF Types
<1>10. Hands'
  BY <1>6, <1>7, <1>8 DEF QueueInv, Hands, InHand
<1>11. Deletion'
  BY <1>1, DeletionKept DEF QueueInv
<1>12. Places'
  <2>1. \A u \in Threads : msg[u] # s
    BY <1>2, <1>6 DEF QueueInv, Places, Held
  <2>2. \A u, w \in Threads : msg'[u] = msg'[w] /\ u # w => msg'[u] = NoSlot
    BY <1>8, <2>1 DEF QueueInv, Places
  <2>3. pools' = pools
    OBVIOUS
  <2> QED BY <1>2, <1>3, <1>6, <2>2, <2>3 DEF QueueInv, Places, pools
<1>13. Overshoot'
  <2>1. Queued' \ handled' \subseteq Queued \ handled
    BY <1>2, <1>3
  <2> QED BY <1>7, <2>1, OvershootKept DEF Sends
<1> QED BY <1>2, <1>9, <1>10, <1>11, <1>12, <1>13 DEF QueueInv

\* mq_msgfree gives the message back to where it came from.
LEMMA FreeMoves ==
  ASSUME QueueInv, NEW t \in Receivers, Free(t)
  PROVE  QueueInv'
<1>1. cpu = t /\ state[t] = "free" /\ t \in Threads
  BY DEF Free, Threads
<1>2. msg[t] # NoSlot
  BY <1>1 DEF QueueInv, Hands, InHand
<1>3. /\ Held' = Held \ {msg[t]} /\ msg[t] \in Held /\ msg[t] \in Slots
      /\ msg' \in [Threads -> Slots \union {NoSlot}]
      /\ \A u, w \in Threads : msg'[u] = msg'[w] /\ u # w => msg'[u] = NoSlot
  BY <1>1, <1>2, HeldLess DEF Free, QueueInv
<1>4. Queued' = Queued /\ handled' = handled
  BY DEF Free, queue, Queued
<1>5. /\ state' \in [Threads -> State] /\ state'[t] = "check"
      /\ \A u \in Threads : u # t => state'[u] = state[u]
  BY <1>1, StateStep DEF Free, Proceed, State, QueueInv
<1>6. \A u \in Threads : msg'[u] = IF u = t THEN NoSlot ELSE msg[u]
  BY DEF Free, QueueInv, Types
<1>7. Types' /\ Ordered'
  BY <1>3, <1>4, <1>5 DEF Types, QueueInv, Ordered, Free, queue
<1>8. Hands'
  BY <1>5, <1>6 DEF QueueInv, Hands, InHand
<1>9. Deletion'
  BY <1>1, DeletionKept DEF QueueInv, Free
<1>10. Places'
  <2>1. Fixed \intersect Irq = {} /\ Fixed \intersect Dyn = {} /\ Irq \intersect Dyn = {}
    BY ConstantsAssumption DEF ConstantsAssumption
  <2>2. /\ msgfree \subseteq Fixed /\ msgfreeirq \subseteq Irq /\ heap \subseteq Dyn
        /\ Queued \intersect Held = {}
        /\ (msgfree \union msgfreeirq) \intersect (Queued \union Held) = {}
        /\ msgfree \union msgfreeirq \union Queued \union Held = Fixed \union Irq \union heap
        /\ handled \subseteq Queued
    BY DEF QueueInv, Places
  <2>3. /\ msgfree' = msgfree \union ({msg[t]} \intersect Fixed)
        /\ msgfreeirq' = msgfreeirq \union ({msg[t]} \intersect Irq)
        /\ heap' = heap \ {msg[t]}
    BY DEF Free
  <2>4. msgfree' \subseteq Fixed /\ msgfreeirq' \subseteq Irq /\ heap' \subseteq Dyn
    BY <2>2, <2>3
  <2>5. Queued' \intersect Held' = {} /\ handled' \subseteq Queued'
    BY <1>3, <1>4, <2>2
  <2>6. (msgfree' \union msgfreeirq') \intersect (Queued' \union Held') = {}
    BY <1>3, <1>4, <2>2, <2>3
  <2>7. msg[t] \in Fixed \union Irq \union heap
    BY <1>3, <2>2
  <2>8. msgfree' \union msgfreeirq' \union Queued' \union Held' = Fixed \union Irq \union heap'
    BY <1>3, <1>4, <2>1, <2>2, <2>3, <2>7
  <2> QED BY <1>3, <2>4, <2>5, <2>6, <2>8 DEF Places
<1>11. Overshoot'
  BY <1>4, <1>5, OvershootKept DEF Sends
<1> QED BY <1>7, <1>8, <1>9, <1>10, <1>11 DEF QueueInv

\* What the end of waits does to the states of the threads.
LEMMA ReadyStep ==
  ASSUME Types, NEW x, NEW w
  PROVE  /\ Ready(x, w) \in [Threads -> State]
         /\ \A u \in Threads : \/ Ready(x, w)[u] = state[u]
                               \/ state[u] \in Blocked /\ Ready(x, w)[u] = "ready"
<1>1. \A u \in Threads : u \in {x, w} \intersect Waiting => state[u] \in Blocked
  BY DEF Waiting, Blocked
<1> QED BY <1>1 DEF Types, Ready, State

\* A step that ends waits and moves no message.
LEMMA WakeMoves ==
  ASSUME QueueInv, NEW x, NEW w, state' = Ready(x, w), UNCHANGED <<queue, pools, msg, cpu, dying>>
  PROVE  QueueInv'
<1>1. /\ state' \in [Threads -> State]
      /\ \A u \in Threads : state'[u] = state[u] \/ (state[u] \in Blocked /\ state'[u] = "ready")
  BY ReadyStep DEF QueueInv
<1>2. \A u \in Threads : /\ state'[u] \in InHand <=> state[u] \in InHand
                         /\ state'[u] \in Sends => state[u] \in Sends
  BY <1>1 DEF InHand, Sends, Blocked
<1>3. Deletion'
  BY <1>1 DEF QueueInv, Deletion
<1> QED BY <1>1, <1>2, <1>3, NoMove

\* The same, as the last step of a call.
LEMMA WakeReturns ==
  ASSUME QueueInv, NEW t \in Threads, cpu = t, state[t] \in {"detach", "wake", "find"},
         NEW x, NEW w, NEW y \in {"wake", "idle"}, state' = [Ready(x, w) EXCEPT ![t] = y],
         UNCHANGED <<queue, pools, msg, dying>>
  PROVE  QueueInv'
<1>1. /\ Ready(x, w) \in [Threads -> State]
      /\ \A u \in Threads : \/ Ready(x, w)[u] = state[u]
                            \/ state[u] \in Blocked /\ Ready(x, w)[u] = "ready"
  BY ReadyStep DEF QueueInv
<1> DEFINE r == Ready(x, w)
<1> HIDE DEF r
<1>2. /\ r \in [Threads -> State] /\ state' = [r EXCEPT ![t] = y]
      /\ \A u \in Threads : r[u] = state[u] \/ (state[u] \in Blocked /\ r[u] = "ready")
  BY <1>1 DEF r
<1>3. state' \in [Threads -> State]
  BY <1>2 DEF State
<1>4. \A u \in Threads : state'[u] = IF u = t THEN y ELSE r[u]
  BY <1>2
<1>5. \A u \in Threads : /\ state'[u] \in InHand <=> state[u] \in InHand
                         /\ state'[u] \in Sends => state[u] \in Sends
  BY <1>2, <1>4 DEF InHand, Sends, Blocked
<1>6. Deletion'
  BY DeletionKept DEF QueueInv
<1> QED BY <1>3, <1>5, <1>6, NoMove

\* The other steps of a call that move no message.
LEMMA CallMoves ==
  ASSUME QueueInv, NEW t \in Threads, cpu = t \/ cpu = NoThread, NEW y \in State \ InHand,
         state' = [state EXCEPT ![t] = y], state[t] \notin InHand,
         Full => (y \in Sends => state[t] \in Sends),
         UNCHANGED <<queue, pools, msg, dying>>
  PROVE  QueueInv'
<1>1. /\ state' \in [Threads -> State] /\ state'[t] = y
      /\ \A u \in Threads : u # t => state'[u] = state[u]
  BY StateStep DEF QueueInv
<1>2. Deletion'
  BY DeletionKept DEF QueueInv
<1> QED BY <1>1, <1>2, NoMove

\* A handler moves a free message into the queue.
LEMMA HandlerMoves ==
  ASSUME QueueInv, NEW p \in HandlerPrios, HandlerSends(p)
  PROVE  QueueInv' /\ \E m \in Abstract!Message : Abstract!Send(m)
<1>1. PICK s \in IF msgfree # {} THEN msgfree ELSE msgfreeirq :
        /\ msgfree' = msgfree \ {s} /\ msgfreeirq' = msgfreeirq \ {s}
        /\ Queue([slot |-> s, prio |-> p], TRUE)
  BY DEF HandlerSends
<1>2. s \in msgfree \union msgfreeirq
  OBVIOUS
<1>3. /\ msgfree \subseteq Fixed /\ msgfreeirq \subseteq Irq /\ heap \subseteq Dyn
      /\ Queued \intersect Held = {}
      /\ (msgfree \union msgfreeirq) \intersect (Queued \union Held) = {}
      /\ msgfree \union msgfreeirq \union Queued \union Held = Fixed \union Irq \union heap
      /\ handled \subseteq Queued
  BY DEF QueueInv, Places
<1>4. s \in Slots /\ s \notin Queued /\ s \notin Held /\ p \in MsgPrios
  BY <1>2, <1>3, ConstantsAssumption DEF Slots, ConstantsAssumption
<1> DEFINE m == [slot |-> s, prio |-> p]
<1>5. m \in Msgs /\ m \in Abstract!Message /\ m.slot = s
  BY <1>4 DEF Msgs, Abstract!Message
<1> HIDE DEF m
<1>6. Ordered' /\ Queued' = Queued \union {s} /\ Abstract!Send(m)
  <2>1. Queue(m, TRUE)
    BY <1>1 DEF m
  <2> QED BY <1>4, <1>5, <2>1, QueueStep DEF QueueInv
<1>7. handled' = handled \union {s}
  BY <1>1 DEF Queue
<1>8. PICK z : state' = Ready(ntpid, z)
  BY DEF HandlerSends
<1>9. /\ state' \in [Threads -> State]
      /\ \A u \in Threads : state'[u] = state[u] \/ (state[u] \in Blocked /\ state'[u] = "ready")
  BY <1>8, ReadyStep DEF QueueInv
<1>10. heap' = heap /\ msg' = msg /\ cpu' = cpu /\ dying' = dying
  BY DEF HandlerSends
<1>11. Types' /\ Hands' /\ Deletion'
  <2>1. Hands'
    BY <1>9, <1>10 DEF QueueInv, Hands, InHand, Blocked
  <2>2. Deletion'
    BY <1>9, <1>10 DEF QueueInv, Deletion
  <2> QED BY <1>9, <1>10, <2>1, <2>2 DEF QueueInv, Types
<1>12. Places'
  <2>1. Held' = Held
    BY <1>10 DEF Held
  <2>2. Fixed \intersect Irq = {}
    BY ConstantsAssumption DEF ConstantsAssumption
  <2>3. \A u, w \in Threads : msg'[u] = msg'[w] /\ u # w => msg'[u] = NoSlot
    BY <1>10 DEF QueueInv, Places
  <2>4. msgfree' \union msgfreeirq' \union Queued' \union Held' = Fixed \union Irq \union heap'
    BY <1>1, <1>2, <1>3, <1>6, <1>10, <2>1
  <2>5. (msgfree' \union msgfreeirq') \intersect (Queued' \union Held') = {}
    BY <1>1, <1>3, <1>6, <2>1
  <2>6. Queued' \intersect Held' = {} /\ handled' \subseteq Queued'
    BY <1>3, <1>4, <1>6, <1>7, <2>1
  <2>7. msgfree' \subseteq Fixed /\ msgfreeirq' \subseteq Irq /\ heap' \subseteq Dyn
    BY <1>1, <1>3, <1>10
  <2> QED BY <2>3, <2>4, <2>5, <2>6, <2>7 DEF Places
<1>13. Overshoot'
  <2>1. Queued' \ handled' \subseteq Queued \ handled
    BY <1>6, <1>7
  <2>2. \A u \in Threads : state'[u] \in Sends => state[u] \in Sends
    BY <1>9 DEF Sends, Blocked
  <2> QED BY <2>1, <2>2, OvershootKept
<1> QED BY <1>5, <1>6, <1>11, <1>12, <1>13 DEF QueueInv

\* The queue is right when it is created.
LEMMA QueueInit == Init => QueueInv
<1> SUFFICES ASSUME Init PROVE QueueInv
  OBVIOUS
<1>1. Types
  BY DEF Init, Types, State
<1>2. Ordered
  <2>1. <<>> \in Seq(Msgs) /\ Len(<<>>) = 0
    OBVIOUS
  <2>2. Order(<<>>, <<>>)
    BY <2>1 DEF Order, SlotOnce, Sorted
  <2> QED BY <2>1, <2>2 DEF Init, Ordered
<1>3. Queued = {}
  <2>1. msglist \in Seq(Msgs) /\ msglist = <<>>
    BY DEF Init
  <2>2. Range(msglist) = {}
    BY <2>1, RangeIs
  <2> QED BY <2>2 DEF Queued
<1>4. Held = {}
  BY DEF Init, Held
<1>5. Hands /\ Deletion
  BY DEF Init, Hands, InHand, Deletion
<1>6. Places
  <2>1. msg \in [Threads -> {NoSlot}]
    BY DEF Init
  <2>2. Fixed \intersect Irq = {}
    BY ConstantsAssumption DEF ConstantsAssumption
  <2> QED BY <1>3, <1>4, <2>1, <2>2 DEF Init, Places
<1>7. Overshoot
  <2>1. Queued \ handled = {} /\ Sending = {}
    <3>1. \A t \in Senders : state[t] = "idle"
      BY DEF Init, Threads
    <3> QED BY <1>3, <3>1 DEF Sending, Sends
  <2>2. Cardinality({}) = 0 /\ Cardinality(Senders) \in Nat /\ maxmsgs \in Nat \ {0}
    BY Finite, FS_EmptySet, FS_CardinalityType, ConstantsAssumption DEF ConstantsAssumption
  <2> QED BY <2>1, <2>2 DEF Overshoot
<1> QED BY <1>1, <1>2, <1>5, <1>6, <1>7 DEF QueueInv

\* Who takes a step of a call has the scheduler locked, or locks it.
LEMMA RunsCpu == ASSUME NEW t \in Threads, Runs(t) PROVE cpu = t \/ cpu = NoThread
BY DEF Runs

\* The steps of a sender.
LEMMA SenderMoves ==
  ASSUME QueueInv, NEW t \in Senders, Send(t) \/ SendContinues(t)
  PROVE  QueueInv' /\ (arrived' = arrived \/ \E m \in Abstract!Message : Abstract!Send(m))
<1>1. t \in Threads
  BY DEF Threads
<1>2. CASE Send(t)
  <2>1. cpu = t \/ cpu = NoThread
    BY <1>1, <1>2, RunsCpu DEF Send
  <2>2. UNCHANGED <<queue, pools, msg, dying>> /\ state[t] = "idle" /\ arrived' = arrived
    BY <1>2 DEF Send, queue
  <2>3. PICK y \in {"alloc", "notfull"} : state' = [state EXCEPT ![t] = y] /\ (y = "alloc" => ~ Full)
    BY <1>2 DEF Send, Proceed, WaitNotFull
  <2> QED BY <1>1, <2>1, <2>2, <2>3, CallMoves DEF State, InHand, Sends
<1>3. CASE SendResumes(t)
  <2>1. cpu = t \/ cpu = NoThread
    BY <1>1, <1>3, RunsCpu DEF SendResumes
  <2>2. UNCHANGED <<queue, pools, msg, dying>> /\ state[t] = "ready" /\ arrived' = arrived
    BY <1>3 DEF SendResumes, queue
  <2>3. PICK y \in {"alloc", "notfull", "idle"} : state' = [state EXCEPT ![t] = y] /\ (y = "alloc" => ~ Full)
    BY <1>3 DEF SendResumes, Proceed, WaitNotFull, Return
  <2> QED BY <1>1, <2>1, <2>2, <2>3, CallMoves DEF State, InHand, Sends
<1>4. CASE Alloc(t)
  <2>1. cpu = t /\ state[t] = "alloc" /\ UNCHANGED <<queue, msgfreeirq, heap, dying>> /\ arrived' = arrived
    BY <1>4 DEF Alloc, queue
  <2>2. CASE \E s \in msgfree : msgfree' = msgfree \ {s} /\ msg' = [msg EXCEPT ![t] = s] /\ Proceed(t, "insert")
    <3>1. PICK s \in msgfree : msgfree' = msgfree \ {s} /\ msg' = [msg EXCEPT ![t] = s] /\ Proceed(t, "insert")
      BY <2>2
    <3>2. s \in Slots
      BY DEF QueueInv, Places, Slots
    <3> QED BY <1>1, <2>1, <3>1, <3>2, AllocMoves
  <2>3. CASE state' = [state EXCEPT ![t] = "heap"] /\ UNCHANGED <<msgfree, msg>>
    <3>1. UNCHANGED <<queue, pools, msg, dying>>
      BY <2>1, <2>3 DEF pools
    <3> QED BY <1>1, <2>1, <2>3, <3>1, CallMoves DEF State, InHand, Sends
  <2> QED BY <1>4, <2>2, <2>3 DEF Alloc
<1>5. CASE HeapReturns(t)
  <2>1. /\ cpu = NoThread /\ state[t] = "heap" /\ UNCHANGED <<queue, msgfree, msgfreeirq, dying>>
        /\ arrived' = arrived /\ Proceed(t, "insert")
    BY <1>5 DEF HeapReturns, queue
  <2>2. PICK s \in Dyn \ heap : heap' = heap \union {s} /\ msg' = [msg EXCEPT ![t] = s]
    BY <1>5 DEF HeapReturns
  <2>3. s \in Slots
    BY DEF Slots
  <2> QED BY <1>1, <2>1, <2>2, <2>3, AllocMoves
<1>6. CASE Insert(t)
  BY <1>6, InsertMoves
<1>7. CASE Notify(t)
  <2>1. /\ cpu = t /\ UNCHANGED <<queue, pools, msg, dying>> /\ state[t] = "notify" /\ arrived' = arrived
    BY <1>7 DEF Notify, queue
  <2>2. PICK y \in {"wake", "detach"} : state' = [state EXCEPT ![t] = y]
    BY <1>7 DEF Notify, Proceed
  <2> QED BY <1>1, <2>1, <2>2, CallMoves DEF State, InHand, Sends
<1>8. CASE Detach(t)
  <2>1. /\ cpu = t /\ UNCHANGED <<queue, pools, msg, dying>> /\ state[t] = "detach" /\ arrived' = arrived
        /\ state' = [Ready(pid[t], NoThread) EXCEPT ![t] = "wake"]
    BY <1>8 DEF Detach, queue
  <2> QED BY <1>1, <2>1, WakeReturns
<1>9. CASE Wake(t)
  <2>1. /\ cpu = t /\ UNCHANGED <<queue, pools, msg, dying>> /\ state[t] = "wake" /\ arrived' = arrived
    BY <1>9 DEF Wake, queue
  <2>2. PICK w : state' = [Ready(NoThread, w) EXCEPT ![t] = "idle"]
    BY <1>9 DEF Wake
  <2> QED BY <1>1, <2>1, <2>2, WakeReturns
<1> QED BY <1>2, <1>3, <1>4, <1>5, <1>6, <1>7, <1>8, <1>9 DEF SendContinues

\* The steps of a receiver.
LEMMA ReceiverMoves ==
  ASSUME QueueInv, NEW t \in Receivers, Receive(t) \/ ReceiveContinues(t)
  PROVE  QueueInv' /\ (arrived' = arrived \/ \E i \in DOMAIN arrived : Abstract!Receive(i))
<1>1. t \in Threads
  BY DEF Threads
<1>2. CASE Receive(t) \/ ReceiveResumes(t)
  <2>1. /\ cpu = t \/ cpu = NoThread
        /\ state[t] \in {"idle", "ready"} /\ UNCHANGED <<pools, dying>>
    BY <1>1, <1>2, RunsCpu DEF Receive, ReceiveResumes
  <2>2. CASE msglist # <<>> /\ Dequeue(t) /\ Proceed(t, "free")
    BY <2>1, <2>2, DequeueMoves
  <2>3. CASE UNCHANGED <<queue, msg>> /\ (WaitNotEmpty(t) \/ Return(t))
    <3>1. PICK y \in {"notempty", "idle"} : state' = [state EXCEPT ![t] = y]
      BY <2>3 DEF WaitNotEmpty, Return
    <3>2. UNCHANGED <<queue, pools, msg, dying>> /\ arrived' = arrived
      BY <2>1, <2>3 DEF queue
    <3> QED BY <1>1, <2>1, <3>1, <3>2, CallMoves DEF State, InHand, Sends
  <2> QED BY <1>2, <2>2, <2>3 DEF Receive, ReceiveResumes
<1>3. CASE Free(t)
  <2>1. arrived' = arrived
    BY <1>3 DEF Free, queue
  <2> QED BY <1>3, <2>1, FreeMoves
<1>4. CASE Check(t)
  <2>1. /\ cpu = t /\ UNCHANGED <<queue, pools, msg, dying>> /\ state[t] = "check" /\ arrived' = arrived
    BY <1>4 DEF Check, queue
  <2>2. PICK y \in {"find", "idle"} : state' = [state EXCEPT ![t] = y]
    BY <1>4 DEF Check, Proceed, Return
  <2> QED BY <1>1, <2>1, <2>2, CallMoves DEF State, InHand, Sends
<1>5. CASE Find(t)
  <2>1. /\ cpu = t /\ UNCHANGED <<queue, pools, msg, dying>> /\ state[t] = "find" /\ arrived' = arrived
    BY <1>5 DEF Find, queue
  <2>2. CASE state' = [Ready(NoThread, Head(notfull)) EXCEPT ![t] = "idle"]
    BY <1>1, <2>1, <2>2, WakeReturns
  <2>3. CASE state' = [state EXCEPT ![t] = "assert"]
    BY <1>1, <2>1, <2>3, CallMoves DEF State, InHand, Sends
  <2> QED BY <1>5, <2>2, <2>3 DEF Find, Proceed
<1> QED BY <1>2, <1>3, <1>4, <1>5 DEF ReceiveContinues

\* The steps that are not taken by a sender or a receiver.
LEMMA OtherMoves ==
  ASSUME QueueInv, NEW t \in Threads, Timeout(t) \/ Signal(t) \/ mq_recover(t) \/ Removed(t) \/ mq_notify(t)
  PROVE  QueueInv' /\ arrived' = arrived
<1>1. CASE Timeout(t) \/ Signal(t)
  <2>1. UNCHANGED <<queue, pools, msg, cpu, dying>> /\ state' = Ready(t, NoThread) /\ arrived' = arrived
    BY <1>1 DEF Timeout, Signal, queue
  <2> QED BY <2>1, WakeMoves
<1>2. CASE mq_recover(t)
  <2>1. UNCHANGED <<queue, pools, msg, state>> /\ arrived' = arrived /\ dying' = t /\ cpu' = Deleter
    BY <1>2 DEF mq_recover, queue
  <2>2. state[t] \in Blocked \union {"ready"}
    BY <1>2, ConstantsAssumption DEF mq_recover, ConstantsAssumption, Blocked
  <2>3. Deletion'
    BY <2>1, <2>2 DEF Deletion
  <2>4. state' \in [Threads -> State]
    BY <2>1 DEF QueueInv, Types
  <2> QED BY <2>1, <2>3, <2>4, NoMove
<1>3. CASE Removed(t)
  <2>1. /\ UNCHANGED <<queue, pools, msg>> /\ arrived' = arrived /\ dying = t /\ dying' = NoThread
        /\ state' = [state EXCEPT ![t] = "idle"]
    BY <1>3 DEF Removed, queue
  <2>2. state[t] \in Blocked \union {"ready"}
    BY <2>1, ConstantsAssumption DEF QueueInv, Deletion, ConstantsAssumption
  <2>3. /\ state' \in [Threads -> State] /\ state'[t] = "idle"
        /\ \A u \in Threads : u # t => state'[u] = state[u]
    BY <2>1, StateStep DEF State, QueueInv
  <2>4. Deletion'
    BY <2>1 DEF Deletion
  <2>5. \A u \in Threads : /\ state'[u] \in InHand <=> state[u] \in InHand
                           /\ state'[u] \in Sends => state[u] \in Sends
    BY <2>2, <2>3 DEF InHand, Sends, Blocked
  <2> QED BY <2>1, <2>3, <2>4, <2>5, NoMove
<1>4. CASE mq_notify(t)
  <2>1. UNCHANGED <<queue, pools, msg, state, cpu, dying>> /\ arrived' = arrived
    BY <1>4 DEF mq_notify, queue
  <2>2. Deletion' /\ state' \in [Threads -> State]
    BY <2>1 DEF QueueInv, Deletion, Types
  <2> QED BY <2>1, <2>2, NoMove
<1> QED BY <1>1, <1>2, <1>3, <1>4

\* Every step keeps the messages in place and in order, and is a step of MQueueSpec.
LEMMA QueueNext == QueueInv /\ [Next]_vars => QueueInv' /\ [Abstract!Next]_arrived
<1> SUFFICES ASSUME QueueInv, [Next]_vars
             PROVE  QueueInv' /\ [Abstract!Next]_arrived
  OBVIOUS
<1>1. CASE \E t \in Senders : Send(t) \/ SendContinues(t)
  BY <1>1, SenderMoves DEF Abstract!Next
<1>2. CASE \E t \in Receivers : Receive(t) \/ ReceiveContinues(t)
  BY <1>2, ReceiverMoves DEF Abstract!Next
<1>3. CASE \E t \in Threads : Timeout(t) \/ Signal(t) \/ mq_recover(t) \/ Removed(t)
  BY <1>3, OtherMoves
<1>4. CASE \E t \in Notified : mq_notify(t)
  <2>1. Notified \subseteq Threads
    BY ConstantsAssumption DEF ConstantsAssumption
  <2> QED BY <1>4, <2>1, OtherMoves
<1>5. CASE \E p \in HandlerPrios : HandlerSends(p)
  BY <1>5, HandlerMoves DEF Abstract!Next
<1>6. CASE UNCHANGED vars
  <2>1. /\ UNCHANGED <<msglist, nmsgs, arrived, handled, msgfree, msgfreeirq, heap>>
        /\ UNCHANGED <<state, msg, cpu, dying>>
    BY <1>6 DEF vars
  <2>2. QueueInv'
    <3>1. UNCHANGED <<queue, pools, msg>> /\ Deletion' /\ state' \in [Threads -> State]
      BY <2>1 DEF QueueInv, Deletion, Types, queue, pools
    <3> QED BY <2>1, <3>1, NoMove
  <2> QED BY <2>1, <2>2
<1> QED BY <1>1, <1>2, <1>3, <1>4, <1>5, <1>6 DEF Next

\* The messages are in place and in order in every reachable state.
THEOREM QueueInvariance == Spec => []QueueInv
BY QueueInit, QueueNext, PTL DEF Spec

\* Every message structure that mq_msgalloc and mq_msgfree handle is in one place: in the
\* free list of its own type, in the queue, or in the hands of one thread.
THEOREM SlotsCorrect == Spec => []SlotsExact
<1>1. QueueInv => SlotsExact
  <2> SUFFICES ASSUME QueueInv PROVE SlotsExact
    OBVIOUS
  <2>1. Queued = {msglist[i].slot : i \in DOMAIN msglist} /\ Cardinality(Queued) = Len(msglist)
    BY QueuedIs DEF QueueInv
  <2> QED BY <2>1 DEF QueueInv, Places, Held, SlotsExact
<1> QED BY <1>1, QueueInvariance, PTL

\* mq_send lets the threads together exceed maxmsgs by less than their number.
THEOREM OvershootCorrect == Spec => []OvershootBounded
<1>1. QueueInv => OvershootBounded
  <2> SUFFICES ASSUME QueueInv PROVE OvershootBounded
    OBVIOUS
  <2>1. msglist \in Seq(Msgs) /\ SlotOnce(msglist)
    BY DEF QueueInv, Ordered, Order
  <2>2. DOMAIN msglist = 1 .. Len(msglist) /\ Len(msglist) \in Nat
    BY <2>1, RangeIs
  <2>3. Queued = {msglist[i].slot : i \in DOMAIN msglist} /\ Queued \ handled \subseteq Slots
    BY QueuedIs DEF QueueInv
  <2> DEFINE f == [i \in FromThreads |-> msglist[i].slot]
  <2>4. f \in Bijection(FromThreads, Queued \ handled)
    <3>1. f \in [FromThreads -> Queued \ handled]
      BY <2>3 DEF FromThreads
    <3>2. \A i, j \in FromThreads : f[i] = f[j] => i = j
      BY <2>1, <2>2 DEF FromThreads, SlotOnce
    <3>3. \A x \in Queued \ handled : \E i \in FromThreads : f[i] = x
      BY <2>3 DEF FromThreads
    <3> QED BY <3>1, <3>2, <3>3, Fun_IsBij
  <2> HIDE DEF f
  <2>5. Cardinality(FromThreads) = Cardinality(Queued \ handled)
    <3>1. ExistsBijection(FromThreads, Queued \ handled)
      BY <2>4 DEF ExistsBijection
    <3>2. IsFiniteSet(FromThreads)
      <4>1. FromThreads \subseteq 1 .. Len(msglist)
        BY <2>2 DEF FromThreads
      <4>2. \A n \in Nat : IsFiniteSet(1 .. n)
        BY FS_Interval
      <4> QED BY <2>2, <4>1, <4>2, FS_Subset
    <3> QED BY <3>1, <3>2, FS_Bijection, Zenon
  <2>6. /\ Sending \subseteq Threads /\ Cardinality(Sending) \in Nat /\ Cardinality(Senders) \in Nat
        /\ Cardinality(Queued \ handled) \in Nat /\ maxmsgs \in Nat
    <3>1. Sending \subseteq Threads /\ Senders \subseteq Threads
      BY DEF Sending, Threads
    <3> QED BY <2>3, <3>1, Finite, ConstantsAssumption DEF ConstantsAssumption
  <2> QED BY <2>5, <2>6 DEF QueueInv, Overshoot, OvershootBounded
<1> QED BY <1>1, QueueInvariance, PTL

\* mq_send and mq_receive keep what MQueueSpec promises: every message goes to one
\* receiver, the oldest of the highest priority first.
THEOREM Implementation == Spec => ImplementsMQueueSpec
<1>1. Init => Abstract!Init
  BY DEF Init, Abstract!Init
<1> QED BY <1>1, QueueNext, QueueInvariance, PTL DEF Spec, ImplementsMQueueSpec, Abstract!Spec

-----------------------------------------------------------------------------
(* The threads that wait, and the counters nwaitnotfull and nwaitnotempty. *)
(* mq_recover corrects the counters for the thread that is deleted before  *)
(* the thread leaves its list: until then nothing may end its wait.        *)

\* No handler uses the queue between mq_recover and the removal of the thread.
Quiet == HandlersInDeletion = FALSE

Lists ==
  /\ notfull \in Seq(Senders) /\ Once(notfull)
  /\ notempty \in Seq(Receivers) /\ Once(notempty)

Listed ==
  \A t \in Threads : /\ t \in Range(notfull) <=> state[t] = "notfull"
                     /\ t \in Range(notempty) <=> state[t] = "notempty"
                     /\ state[t] \in Blocked => t \notin errno

Counted ==
  /\ nwaitnotfull = Cardinality(Range(notfull) \ {dying})
  /\ nwaitnotempty = Cardinality(Range(notempty) \ {dying})

Disarmed == dying # NoThread => dying \notin dog

WaitInv == Lists /\ Listed /\ Counted /\ Disarmed

\* The removal of two elements from a list.
LEMMA RemoveTwo ==
  ASSUME NEW X, NEW s \in Seq(X), Once(s), NEW x, NEW w
  PROVE  LET t == RemoveFirst(RemoveFirst(s, x), w) IN
         t \in Seq(X) /\ Once(t) /\ Range(t) = Range(s) \ {x, w}
<1> DEFINE r == RemoveFirst(s, x)
<1>1. r \in Seq(X) /\ Once(r) /\ Range(r) = Range(s) \ {x}
  BY RemoveFirstRange
<1> HIDE DEF r
<1>2. RemoveFirst(r, w) \in Seq(X) /\ Once(RemoveFirst(r, w)) /\ Range(RemoveFirst(r, w)) = Range(r) \ {w}
  BY <1>1, RemoveFirstRange
<1> QED BY <1>1, <1>2 DEF r

\* The addition of a thread to a list, as sched_addblocked does it.
LEMMA AddOne ==
  ASSUME NEW X, NEW s \in Seq(X), Once(s), NEW t \in X, t \notin Range(s)
  PROVE  /\ AddPrioritized(s, t) \in Seq(X) /\ Once(AddPrioritized(s, t))
         /\ Range(AddPrioritized(s, t)) = Range(s) \union {t}
<1> DEFINE lower == {i \in DOMAIN s : Priority[s[i]] < Priority[t]}
           b == Before(s, lower, t)
<1>1. lower \in SUBSET (1 .. Len(s))
  BY RangeIs
<1> HIDE DEF lower
<1>2. b \in Seq(X)
  BY <1>1, BeforeInserts
<1>3. PICK i \in 1 .. Len(s) + 1 : InsertedAt(s, b, i, t)
  BY <1>1, BeforeInserts
<1> HIDE DEF b
<1>4. Range(b) = Range(s) \union {t} /\ Once(b)
  BY <1>2, <1>3, InsertedRange
<1> QED BY <1>2, <1>4 DEF b, lower, AddPrioritized

\* Who is counted: the threads in the list, except the one that is deleted.
LEMMA CountLess ==
  \A A, D, d : IsFiniteSet(A) /\ D \subseteq A \ {d} =>
                Cardinality((A \ D) \ {d}) = Cardinality(A \ {d}) - Cardinality(D)
<1> SUFFICES ASSUME NEW A, NEW D, NEW d, IsFiniteSet(A), D \subseteq A \ {d}
             PROVE  Cardinality((A \ D) \ {d}) = Cardinality(A \ {d}) - Cardinality(D)
  OBVIOUS
<1>1. IsFiniteSet(A \ {d}) /\ (A \ D) \ {d} = (A \ {d}) \ D /\ (A \ {d}) \intersect D = D
  BY FS_Subset
<1>2. Cardinality((A \ {d}) \ D) = Cardinality(A \ {d}) - Cardinality((A \ {d}) \intersect D)
  BY <1>1, FS_Difference
<1> QED BY <1>1, <1>2

\* The lists hold threads, and finitely many.
LEMMA ListsFinite ==
  ASSUME Lists
  PROVE  /\ Range(notfull) \subseteq Threads /\ Range(notempty) \subseteq Threads
         /\ IsFiniteSet(Range(notfull)) /\ IsFiniteSet(Range(notempty))
<1>1. Range(notfull) \subseteq Senders /\ Range(notempty) \subseteq Receivers
  BY RangeIs DEF Lists
<1>2. Range(notfull) \subseteq Threads /\ Range(notempty) \subseteq Threads
  BY <1>1 DEF Threads
<1> QED BY <1>2, Finite

\* The end of waits, of threads that are not being deleted.
LEMMA UnblockStep ==
  ASSUME WaitInv, NEW x, NEW w, Unblock(x, w), dying \notin {x, w} \intersect Waiting, dying' = dying,
         \A u \in Threads :
           IF u \in {x, w} \intersect Waiting
           THEN state'[u] \notin Blocked
           ELSE state'[u] = state[u] \/ (state[u] \notin Blocked /\ state'[u] \notin Blocked)
  PROVE  Lists' /\ Listed' /\ Counted'
<1>1. /\ notfull' = RemoveFirst(RemoveFirst(notfull, x), w)
      /\ notempty' = RemoveFirst(RemoveFirst(notempty, x), w)
      /\ errno' = errno \union ({x} \intersect Waiting)
      /\ nwaitnotfull' = nwaitnotfull - Cardinality({u \in {x, w} \intersect Waiting : state[u] = "notfull"})
      /\ nwaitnotempty' = nwaitnotempty - Cardinality({u \in {x, w} \intersect Waiting : state[u] = "notempty"})
  BY DEF Unblock
<1>2. /\ notfull' \in Seq(Senders) /\ Once(notfull') /\ Range(notfull') = Range(notfull) \ {x, w}
      /\ notempty' \in Seq(Receivers) /\ Once(notempty') /\ Range(notempty') = Range(notempty) \ {x, w}
  BY <1>1, RemoveTwo DEF WaitInv, Lists
<1>3. Lists'
  BY <1>2 DEF Lists
<1>4. \A u \in Threads : /\ u \in Range(notfull) <=> state[u] = "notfull"
                         /\ u \in Range(notempty) <=> state[u] = "notempty"
                         /\ state[u] \in Blocked => u \notin errno
                         /\ u \in Waiting <=> state[u] \in Blocked
  BY DEF WaitInv, Listed, Waiting, Blocked
<1>5. Listed'
  <2> SUFFICES ASSUME NEW u \in Threads
               PROVE  /\ u \in Range(notfull') <=> state'[u] = "notfull"
                      /\ u \in Range(notempty') <=> state'[u] = "notempty"
                      /\ state'[u] \in Blocked => u \notin errno'
    BY DEF Listed
  <2>1. CASE u \in {x, w} \intersect Waiting
    BY <1>2, <2>1 DEF Blocked
  <2>2. CASE u \notin {x, w} \intersect Waiting
    <3>1. state'[u] = state[u] \/ (state[u] \notin Blocked /\ state'[u] \notin Blocked)
      BY <2>2
    <3>2. u \in {x, w} => state[u] \notin Blocked
      BY <1>4, <2>2
    <3> QED BY <1>1, <1>2, <1>4, <2>2, <3>1, <3>2 DEF Blocked
  <2> QED BY <2>1, <2>2
<1>6. Counted'
  <2> DEFINE D == {u \in {x, w} \intersect Waiting : state[u] = "notfull"}
             E == {u \in {x, w} \intersect Waiting : state[u] = "notempty"}
  <2>1. /\ Range(notfull) \subseteq Threads /\ Range(notempty) \subseteq Threads
        /\ IsFiniteSet(Range(notfull)) /\ IsFiniteSet(Range(notempty))
    BY ListsFinite DEF WaitInv
  <2>2. /\ D \subseteq Range(notfull) \ {dying} /\ E \subseteq Range(notempty) \ {dying}
        /\ Range(notfull') = Range(notfull) \ D /\ Range(notempty') = Range(notempty) \ E
    BY <1>2, <1>4, <2>1 DEF Waiting, Blocked
  <2>3. nwaitnotfull' = nwaitnotfull - Cardinality(D) /\ nwaitnotempty' = nwaitnotempty - Cardinality(E)
    BY <1>1
  <2> HIDE DEF D, E
  <2>4. Cardinality(Range(notfull') \ {dying}) = Cardinality(Range(notfull) \ {dying}) - Cardinality(D)
    <3>1. IsFiniteSet(Range(notfull)) /\ D \subseteq Range(notfull) \ {dying}
      BY <2>1, <2>2
    <3>2. Cardinality((Range(notfull) \ D) \ {dying}) = Cardinality(Range(notfull) \ {dying}) - Cardinality(D)
      BY <3>1, CountLess
    <3> QED BY <2>2, <3>2
  <2>5. Cardinality(Range(notempty') \ {dying}) = Cardinality(Range(notempty) \ {dying}) - Cardinality(E)
    <3>1. IsFiniteSet(Range(notempty)) /\ E \subseteq Range(notempty) \ {dying}
      BY <2>1, <2>2
    <3>2. Cardinality((Range(notempty) \ E) \ {dying}) = Cardinality(Range(notempty) \ {dying}) - Cardinality(E)
      BY <3>1, CountLess
    <3> QED BY <2>2, <3>2
  <2> QED BY <2>3, <2>4, <2>5 DEF WaitInv, Counted
<1> QED BY <1>3, <1>5, <1>6

\* The beginning of a wait, while no thread is being deleted.
LEMMA WaitStep ==
  ASSUME Types, WaitInv, dying = NoThread, dying' = dying, NEW t \in Threads, state[t] \notin Blocked,
         \/ t \in Senders /\ WaitNotFull(t)
         \/ t \in Receivers /\ WaitNotEmpty(t)
  PROVE  Lists' /\ Listed' /\ Counted'
<1>1. /\ Range(notfull) \subseteq Threads /\ Range(notempty) \subseteq Threads
      /\ IsFiniteSet(Range(notfull)) /\ IsFiniteSet(Range(notempty))
  BY ListsFinite DEF WaitInv
<1>2. \A u \in Threads : /\ u \in Range(notfull) <=> state[u] = "notfull"
                         /\ u \in Range(notempty) <=> state[u] = "notempty"
                         /\ state[u] \in Blocked => u \notin errno
  BY DEF WaitInv, Listed
<1>3. t \notin Range(notfull) /\ t \notin Range(notempty)
  BY <1>2 DEF Blocked
<1>4. NoThread \notin Threads
  BY ConstantsAssumption DEF ConstantsAssumption
<1>5. \A A : A \subseteq Threads => A \ {dying} = A
  BY <1>4
<1>6. Cardinality(Range(notfull)) = nwaitnotfull /\ Cardinality(Range(notempty)) = nwaitnotempty
  BY <1>1, <1>5 DEF WaitInv, Counted
<1>7. CASE t \in Senders /\ WaitNotFull(t)
  <2>1. /\ notfull' = AddPrioritized(notfull, t) /\ nwaitnotfull' = nwaitnotfull + 1
        /\ state' = [state EXCEPT ![t] = "notfull"] /\ errno' = errno \ {t}
        /\ nwaitnotempty' = nwaitnotempty /\ notempty' = notempty
    BY <1>7 DEF WaitNotFull
  <2>2. notfull' \in Seq(Senders) /\ Once(notfull') /\ Range(notfull') = Range(notfull) \union {t}
    BY <1>3, <1>7, <2>1, AddOne DEF WaitInv, Lists
  <2>3. Lists'
    BY <2>1, <2>2 DEF WaitInv, Lists
  <2>4. \A u \in Threads : state'[u] = IF u = t THEN "notfull" ELSE state[u]
    BY <2>1 DEF Types
  <2>5. Listed'
    BY <1>2, <1>3, <2>1, <2>2, <2>4 DEF Listed, Blocked
  <2>6. Cardinality(Range(notfull) \union {t}) = Cardinality(Range(notfull)) + 1
    BY <1>1, <1>3, FS_AddElement
  <2>7. Counted'
    <3>1. Range(notfull') \ {dying'} = Range(notfull) \union {t} /\ Range(notempty') \ {dying'} = Range(notempty)
      BY <1>1, <1>5, <2>1, <2>2
    <3> QED BY <1>6, <2>1, <2>6, <3>1 DEF Counted
  <2> QED BY <2>3, <2>5, <2>7
<1>8. CASE t \in Receivers /\ WaitNotEmpty(t)
  <2>1. /\ notempty' = AddPrioritized(notempty, t) /\ nwaitnotempty' = nwaitnotempty + 1
        /\ state' = [state EXCEPT ![t] = "notempty"] /\ errno' = errno \ {t}
        /\ nwaitnotfull' = nwaitnotfull /\ notfull' = notfull
    BY <1>8 DEF WaitNotEmpty
  <2>2. notempty' \in Seq(Receivers) /\ Once(notempty') /\ Range(notempty') = Range(notempty) \union {t}
    BY <1>3, <1>8, <2>1, AddOne DEF WaitInv, Lists
  <2>3. Lists'
    BY <2>1, <2>2 DEF WaitInv, Lists
  <2>4. \A u \in Threads : state'[u] = IF u = t THEN "notempty" ELSE state[u]
    BY <2>1 DEF Types
  <2>5. Listed'
    BY <1>2, <1>3, <2>1, <2>2, <2>4 DEF Listed, Blocked
  <2>6. Cardinality(Range(notempty) \union {t}) = Cardinality(Range(notempty)) + 1
    BY <1>1, <1>3, FS_AddElement
  <2>7. Counted'
    <3>1. Range(notempty') \ {dying'} = Range(notempty) \union {t} /\ Range(notfull') \ {dying'} = Range(notfull)
      BY <1>1, <1>5, <2>1, <2>2
    <3> QED BY <1>6, <2>1, <2>6, <3>1 DEF Counted
  <2> QED BY <2>3, <2>5, <2>7
<1> QED BY <1>7, <1>8

\* A step that begins and ends no wait.
LEMMA NoWait ==
  ASSUME WaitInv, UNCHANGED <<waits, dying>>, dog' \subseteq dog \/ dying = NoThread,
         \A u \in Threads : state'[u] = state[u] \/ (state[u] \notin Blocked /\ state'[u] \notin Blocked)
  PROVE  WaitInv'
<1>1. UNCHANGED <<nwaitnotfull, nwaitnotempty, notfull, notempty, errno, dying>>
  BY DEF waits
<1>2. Lists' /\ Counted' /\ Disarmed'
  BY <1>1 DEF WaitInv, Lists, Counted, Disarmed
<1>3. Listed'
  BY <1>1 DEF WaitInv, Listed, Blocked
<1> QED BY <1>2, <1>3 DEF WaitInv

\* A step that ends waits, of threads that are not being deleted.
LEMMA WakeWaits ==
  ASSUME Types, WaitInv, NEW x, NEW w, Unblock(x, w), dying \notin {x, w} \intersect Waiting,
         dying' = dying, dog' \subseteq dog,
         \/ state' = Ready(x, w)
         \/ \E t \in Threads, y \in State \ Blocked :
              state[t] \notin Blocked /\ state' = [Ready(x, w) EXCEPT ![t] = y]
  PROVE  WaitInv'
<1> DEFINE r == Ready(x, w)
<1>1. \A u \in Threads : r[u] = IF u \in {x, w} \intersect Waiting THEN "ready" ELSE state[u]
  BY DEF Ready
<1>2. r \in [Threads -> State]
  BY ReadyStep
<1> HIDE DEF r
<1>3. ASSUME NEW u \in Threads
      PROVE  IF u \in {x, w} \intersect Waiting
             THEN state'[u] \notin Blocked
             ELSE state'[u] = state[u] \/ (state[u] \notin Blocked /\ state'[u] \notin Blocked)
  <2>1. CASE state' = r
    BY <1>1, <2>1 DEF Blocked
  <2>2. CASE \E t \in Threads, y \in State \ Blocked : state[t] \notin Blocked /\ state' = [r EXCEPT ![t] = y]
    <3>1. PICK t \in Threads, y \in State \ Blocked : state[t] \notin Blocked /\ state' = [r EXCEPT ![t] = y]
      BY <2>2
    <3>2. state'[u] = IF u = t THEN y ELSE r[u]
      BY <1>2, <3>1
    <3> QED BY <1>1, <3>1, <3>2 DEF Blocked
  <2> QED BY <2>1, <2>2 DEF r
<1>4. Lists' /\ Listed' /\ Counted'
  BY <1>3, UnblockStep
<1>5. Disarmed'
  BY DEF WaitInv, Disarmed
<1> QED BY <1>4, <1>5 DEF WaitInv

\* Nobody waits when the queue is created.
LEMMA WaitInit == Init => WaitInv
<1> SUFFICES ASSUME Init PROVE WaitInv
  OBVIOUS
<1>1. notfull = <<>> /\ notempty = <<>> /\ notfull \in Seq(Senders) /\ notempty \in Seq(Receivers)
  BY DEF Init
<1>2. Range(notfull) = {} /\ Range(notempty) = {}
  BY <1>1, RangeIs
<1>3. Lists
  BY <1>1 DEF Lists, Once
<1>4. Listed /\ Disarmed
  BY <1>2 DEF Init, Listed, Disarmed, Blocked
<1>5. Counted
  <2>1. Cardinality({}) = 0
    BY FS_EmptySet
  <2> QED BY <1>2, <2>1 DEF Init, Counted
<1> QED BY <1>3, <1>4, <1>5 DEF WaitInv

\* Only the thread that is being deleted has the Deleter at work.
LEMMA NoneDies ==
  ASSUME Deletion, NEW t \in Threads, cpu = t \/ cpu = NoThread
  PROVE  dying = NoThread /\ dying \notin Threads
BY ConstantsAssumption DEF Deletion, ConstantsAssumption

\* The steps of a sender.
LEMMA SenderWaits ==
  ASSUME QueueInv, WaitInv, NEW t \in Senders, Send(t) \/ SendContinues(t)
  PROVE  WaitInv'
<1>1. t \in Threads
  BY DEF Threads
<1>2. /\ cpu = t \/ cpu = NoThread
      /\ dying' = dying
  BY <1>1, RunsCpu DEF Send, SendContinues, SendResumes, Alloc, HeapReturns, Insert, Notify, Detach, Wake
<1>3. dying = NoThread /\ dying \notin Threads
  BY <1>1, <1>2, NoneDies DEF QueueInv
<1>4. ASSUME UNCHANGED waits, state[t] \notin Blocked, NEW y \in State \ Blocked, state' = [state EXCEPT ![t] = y]
      PROVE  WaitInv'
  BY <1>1, <1>2, <1>3, <1>4, StateStep, NoWait DEF QueueInv
<1>5. ASSUME state[t] \notin Blocked, WaitNotFull(t)
      PROVE  WaitInv'
  <2>1. Lists' /\ Listed' /\ Counted'
    BY <1>1, <1>2, <1>3, <1>5, WaitStep DEF QueueInv
  <2> QED BY <1>2, <1>3, <2>1 DEF WaitInv, Disarmed
<1>6. CASE Send(t)
  <2>1. state[t] \notin Blocked
    BY <1>6 DEF Send, Blocked
  <2>2. WaitNotFull(t) \/ (UNCHANGED waits /\ Proceed(t, "alloc"))
    BY <1>6 DEF Send
  <2> QED BY <1>4, <1>5, <2>1, <2>2 DEF Proceed, State, Blocked
<1>7. CASE SendResumes(t)
  <2>1. state[t] \notin Blocked
    BY <1>7 DEF SendResumes, Blocked
  <2>2. WaitNotFull(t) \/ (UNCHANGED waits /\ (Proceed(t, "alloc") \/ Return(t)))
    BY <1>7 DEF SendResumes
  <2> QED BY <1>4, <1>5, <2>1, <2>2 DEF Proceed, Return, State, Blocked
<1>8. CASE Alloc(t) \/ HeapReturns(t) \/ Insert(t) \/ Notify(t)
  <2>1. state[t] \notin Blocked /\ UNCHANGED waits
    BY <1>8 DEF Alloc, HeapReturns, Insert, Notify, Blocked
  <2>2. PICK y \in {"insert", "heap", "notify", "wake", "detach"} : state' = [state EXCEPT ![t] = y]
    BY <1>8 DEF Alloc, HeapReturns, Insert, Notify, Proceed
  <2> QED BY <1>4, <2>1, <2>2 DEF State, Blocked
<1>9. CASE Detach(t)
  <2>1. /\ state[t] \notin Blocked /\ Unblock(pid[t], NoThread) /\ dog' = dog
        /\ state' = [Ready(pid[t], NoThread) EXCEPT ![t] = "wake"]
    BY <1>9 DEF Detach, mq_waitirq, Blocked
  <2>2. "wake" \in State \ Blocked
    BY DEF State, Blocked
  <2>3. dying \notin {pid[t], NoThread} \intersect Waiting
    BY <1>3 DEF Waiting
  <2> QED BY <1>1, <1>2, <2>1, <2>2, <2>3, WakeWaits DEF QueueInv
<1>10. CASE Wake(t)
  <2>1. PICK w : Unblock(NoThread, w) /\ state' = [Ready(NoThread, w) EXCEPT ![t] = "idle"]
    BY <1>10 DEF Wake
  <2>2. state[t] \notin Blocked /\ dog' = dog
    BY <1>10 DEF Wake, Blocked
  <2>3. "idle" \in State \ Blocked
    BY DEF State, Blocked
  <2>4. dying \notin {NoThread, w} \intersect Waiting
    BY <1>3 DEF Waiting
  <2> QED BY <1>1, <1>2, <2>1, <2>2, <2>3, <2>4, WakeWaits DEF QueueInv
<1> QED BY <1>6, <1>7, <1>8, <1>9, <1>10 DEF SendContinues

\* The steps of a receiver.
LEMMA ReceiverWaits ==
  ASSUME QueueInv, WaitInv, NEW t \in Receivers, Receive(t) \/ ReceiveContinues(t)
  PROVE  WaitInv'
<1>1. t \in Threads
  BY DEF Threads
<1>2. /\ cpu = t \/ cpu = NoThread
      /\ dying' = dying
  BY <1>1, RunsCpu DEF Receive, ReceiveContinues, ReceiveResumes, Free, Check, Find
<1>3. dying = NoThread /\ dying \notin Threads
  BY <1>1, <1>2, NoneDies DEF QueueInv
<1>4. ASSUME UNCHANGED waits, state[t] \notin Blocked, NEW y \in State \ Blocked, state' = [state EXCEPT ![t] = y]
      PROVE  WaitInv'
  BY <1>1, <1>2, <1>3, <1>4, StateStep, NoWait DEF QueueInv
<1>5. ASSUME state[t] \notin Blocked, WaitNotEmpty(t)
      PROVE  WaitInv'
  <2>1. Lists' /\ Listed' /\ Counted'
    BY <1>1, <1>2, <1>3, <1>5, WaitStep DEF QueueInv
  <2> QED BY <1>2, <1>3, <2>1 DEF WaitInv, Disarmed
<1>6. CASE Receive(t) \/ ReceiveResumes(t)
  <2>1. state[t] \notin Blocked
    BY <1>6 DEF Receive, ReceiveResumes, Blocked
  <2>2. WaitNotEmpty(t) \/ (UNCHANGED waits /\ (Proceed(t, "free") \/ Return(t)))
    BY <1>6 DEF Receive, ReceiveResumes
  <2> QED BY <1>4, <1>5, <2>1, <2>2 DEF Proceed, Return, State, Blocked
<1>7. CASE Free(t) \/ Check(t)
  <2>1. state[t] \notin Blocked /\ UNCHANGED waits
    BY <1>7 DEF Free, Check, Blocked
  <2>2. PICK y \in {"check", "find", "idle"} : state' = [state EXCEPT ![t] = y]
    BY <1>7 DEF Free, Check, Proceed, Return
  <2> QED BY <1>4, <2>1, <2>2 DEF State, Blocked
<1>8. CASE Find(t)
  <2>1. state[t] \notin Blocked /\ dog' = dog
    BY <1>8 DEF Find, Blocked
  <2>2. "idle" \in State \ Blocked /\ "assert" \in State \ Blocked
    BY DEF State, Blocked
  <2>3. dying \notin {NoThread, Head(notfull)} \intersect Waiting
    BY <1>3 DEF Waiting
  <2>4. CASE Unblock(NoThread, Head(notfull)) /\ state' = [Ready(NoThread, Head(notfull)) EXCEPT ![t] = "idle"]
    BY <1>1, <1>2, <2>1, <2>2, <2>3, <2>4, WakeWaits DEF QueueInv
  <2>5. CASE UNCHANGED waits /\ state' = [state EXCEPT ![t] = "assert"]
    BY <1>4, <2>1, <2>2, <2>5
  <2> QED BY <1>8, <2>4, <2>5 DEF Find, Proceed
<1> QED BY <1>6, <1>7, <1>8 DEF ReceiveContinues

\* Interrupts and signals do not end the wait of a thread that is being deleted.
LEMMA InterruptWaits ==
  ASSUME Quiet, QueueInv, WaitInv,
         \/ \E t \in Threads : Timeout(t) \/ Signal(t)
         \/ \E p \in HandlerPrios : HandlerSends(p)
  PROVE  WaitInv'
<1>1. ASSUME NEW t \in Threads, Timeout(t) \/ Signal(t)
      PROVE  WaitInv'
  <2>1. Unblock(t, NoThread) /\ state' = Ready(t, NoThread) /\ dying' = dying /\ dog' \subseteq dog
    BY <1>1 DEF Timeout, Signal, mq_waitirq
  <2>2. t # dying
    BY <1>1, ConstantsAssumption DEF Timeout, Signal, Quiet, WaitInv, Disarmed, ConstantsAssumption
  <2>3. NoThread \notin Threads
    BY ConstantsAssumption DEF ConstantsAssumption
  <2>4. dying \notin {t, NoThread} \intersect Waiting
    BY <2>2, <2>3 DEF Waiting
  <2> QED BY <2>1, <2>4, WakeWaits DEF QueueInv
<1>2. ASSUME NEW p \in HandlerPrios, HandlerSends(p)
      PROVE  WaitInv'
  <2>1. PICK w : Unblock(ntpid, w) /\ state' = Ready(ntpid, w)
    BY <1>2 DEF HandlerSends
  <2>2. dying = NoThread /\ dying' = dying /\ dog' = dog
    BY <1>2 DEF HandlerSends, Quiet
  <2>3. dying \notin {ntpid, w} \intersect Waiting
    BY <2>2, ConstantsAssumption DEF Waiting, ConstantsAssumption
  <2> QED BY <2>1, <2>2, <2>3, WakeWaits DEF QueueInv
<1> QED BY <1>1, <1>2

\* The deletion of a thread: mq_recover corrects the counters, then the thread leaves its list.
LEMMA DeletionWaits ==
  ASSUME QueueInv, WaitInv, NEW t \in Threads, mq_recover(t) \/ Removed(t)
  PROVE  WaitInv'
<1>1. /\ Range(notfull) \subseteq Threads /\ Range(notempty) \subseteq Threads
      /\ IsFiniteSet(Range(notfull)) /\ IsFiniteSet(Range(notempty))
  BY ListsFinite DEF WaitInv
<1>2. NoThread \notin Threads
  BY ConstantsAssumption DEF ConstantsAssumption
<1>3. CASE mq_recover(t)
  <2>1. /\ UNCHANGED <<notfull, notempty, errno, state>> /\ dying' = t /\ dog' = dog \ {t}
        /\ nwaitnotfull' = IF state[t] = "notfull" THEN nwaitnotfull - 1 ELSE nwaitnotfull
        /\ nwaitnotempty' = IF state[t] = "notempty" THEN nwaitnotempty - 1 ELSE nwaitnotempty
    BY <1>3 DEF mq_recover
  <2>2. dying = NoThread
    BY <1>3, NoneDies DEF mq_recover, QueueInv
  <2>3. Lists' /\ Listed' /\ Disarmed'
    BY <2>1 DEF WaitInv, Lists, Listed, Disarmed
  <2>4. /\ nwaitnotfull = Cardinality(Range(notfull)) /\ nwaitnotempty = Cardinality(Range(notempty))
    <3>1. Range(notfull) \ {dying} = Range(notfull) /\ Range(notempty) \ {dying} = Range(notempty)
      BY <1>1, <1>2, <2>2
    <3> QED BY <3>1 DEF WaitInv, Counted
  <2>5. (t \in Range(notfull) <=> state[t] = "notfull") /\ (t \in Range(notempty) <=> state[t] = "notempty")
    BY DEF WaitInv, Listed
  <2>6. ASSUME NEW A, IsFiniteSet(A)
        PROVE  Cardinality(A \ {t}) = IF t \in A THEN Cardinality(A) - 1 ELSE Cardinality(A)
    <3>1. CASE t \in A
      BY <2>6, <3>1, FS_RemoveElement
    <3>2. CASE t \notin A
      <4>1. A \ {t} = A
        BY <3>2
      <4> QED BY <3>2, <4>1
    <3> QED BY <3>1, <3>2
  <2>7. /\ Cardinality(Range(notfull) \ {t}) = IF t \in Range(notfull) THEN nwaitnotfull - 1 ELSE nwaitnotfull
        /\ Cardinality(Range(notempty) \ {t}) = IF t \in Range(notempty) THEN nwaitnotempty - 1 ELSE nwaitnotempty
    BY <1>1, <2>4, <2>6
  <2>8. Counted'
    BY <2>1, <2>5, <2>7 DEF Counted
  <2> QED BY <2>3, <2>8 DEF WaitInv
<1>4. CASE Removed(t)
  <2>1. /\ notfull' = RemoveFirst(notfull, t) /\ notempty' = RemoveFirst(notempty, t)
        /\ state' = [state EXCEPT ![t] = "idle"] /\ errno' = errno \ {t}
        /\ dying = t /\ dying' = NoThread /\ UNCHANGED <<nwaitnotfull, nwaitnotempty>>
    BY <1>4 DEF Removed
  <2>2. /\ notfull' \in Seq(Senders) /\ Once(notfull') /\ Range(notfull') = Range(notfull) \ {t}
        /\ notempty' \in Seq(Receivers) /\ Once(notempty') /\ Range(notempty') = Range(notempty) \ {t}
    BY <2>1, RemoveFirstRange DEF WaitInv, Lists
  <2>3. \A u \in Threads : state'[u] = IF u = t THEN "idle" ELSE state[u]
    BY <2>1 DEF QueueInv, Types
  <2>4. Lists' /\ Disarmed'
    BY <2>1, <2>2 DEF Lists, Disarmed
  <2>5. Listed'
    BY <2>1, <2>2, <2>3 DEF WaitInv, Listed, Blocked
  <2>6. Counted'
    <3>1. /\ Range(notfull') \ {dying'} = Range(notfull) \ {dying}
          /\ Range(notempty') \ {dying'} = Range(notempty) \ {dying}
      BY <1>1, <1>2, <2>1, <2>2
    <3> QED BY <2>1, <3>1 DEF WaitInv, Counted
  <2> QED BY <2>4, <2>5, <2>6 DEF WaitInv
<1> QED BY <1>3, <1>4

\* Every step keeps the counters exact.
LEMMA WaitNext == Quiet /\ QueueInv /\ WaitInv /\ [Next]_vars => WaitInv'
<1> SUFFICES ASSUME Quiet, QueueInv, WaitInv, [Next]_vars
             PROVE  WaitInv'
  OBVIOUS
<1>1. CASE \E t \in Senders : Send(t) \/ SendContinues(t)
  BY <1>1, SenderWaits
<1>2. CASE \E t \in Receivers : Receive(t) \/ ReceiveContinues(t)
  BY <1>2, ReceiverWaits
<1>3. CASE \E t \in Threads : Timeout(t) \/ Signal(t) \/ mq_recover(t) \/ Removed(t)
  BY <1>3, InterruptWaits, DeletionWaits
<1>4. CASE \E t \in Notified : mq_notify(t)
  <2>1. UNCHANGED <<waits, state, dying, dog>>
    BY <1>4 DEF mq_notify
  <2> QED BY <2>1, NoWait
<1>5. CASE \E p \in HandlerPrios : HandlerSends(p)
  BY <1>5, InterruptWaits
<1>6. CASE UNCHANGED vars
  <2>1. UNCHANGED <<waits, state, dying, dog>>
    BY <1>6 DEF vars, waits
  <2> QED BY <2>1, NoWait
<1> QED BY <1>1, <1>2, <1>3, <1>4, <1>5, <1>6 DEF Next

\* The lists and the counters of the threads that wait are right in every reachable state.
THEOREM WaitInvariance == ASSUME Quiet PROVE Spec => []WaitInv
BY Quiet, WaitInit, WaitNext, QueueInvariance, PTL DEF Spec

\* nwaitnotfull and nwaitnotempty, which decide whether somebody is woken, are the lengths of
\* the lists that are then searched, if no handler uses the queue of a thread while it is deleted.
THEOREM CountsCorrect == ASSUME Quiet PROVE Spec => []CountsExact
<1>1. QueueInv /\ WaitInv => CountsExact
  <2> SUFFICES ASSUME QueueInv, WaitInv PROVE CountsExact
    OBVIOUS
  <2>1. \A A : A \ {dying} = {t \in A : t # dying}
    OBVIOUS
  <2> QED BY <2>1 DEF QueueInv, Ordered, WaitInv, Counted, Listed, CountsExact
<1> QED BY <1>1, Quiet, QueueInvariance, WaitInvariance, PTL

-----------------------------------------------------------------------------
(* Who is woken.  A message is answered by a receiver that was woken for   *)
(* it, or by the sender that is about to wake one; room in the queue by a  *)
(* sender that was woken for it or is filling it, or by the receiver that  *)
(* is about to wake one.                                                   *)

\* Threads are deleted while they wait, not between the end of the wait and its next step.
KilledWaiting == KillAt \subseteq Blocked

Woken == {t \in Receivers : state[t] = "ready" /\ t \notin errno}
Posting == {t \in Senders : state[t] \in {"notify", "detach", "wake"}}
Entering == {t \in Senders : state[t] \in {"alloc", "heap", "insert"} \/ (state[t] = "ready" /\ t \notin errno)}
Leaving == {t \in Receivers : state[t] \in {"free", "check", "find"}}

DyingWaits == dying # NoThread => state[dying] \in Blocked

MissedInv == DyingWaits /\ NoMessageMissed /\ NoRoomMissed

\* The two properties, with names for what they count.
LEMMA MissedIs ==
  /\ NoMessageMissed <=> (Range(notempty) \ {dying} # {} => nmsgs <= Cardinality(Woken) + Cardinality(Posting))
  /\ NoRoomMissed <=> (Range(notfull) \ {dying} # {} => maxmsgs - nmsgs <= Cardinality(Entering) + Cardinality(Leaving))
BY DEF NoMessageMissed, NoRoomMissed, Woken, Posting, Entering, Leaving

\* The same in the next state.
LEMMA MissedNext ==
  /\ NoMessageMissed' <=> (Range(notempty') \ {dying'} # {} => nmsgs' <= Cardinality(Woken') + Cardinality(Posting'))
  /\ NoRoomMissed' <=> (Range(notfull') \ {dying'} # {} => maxmsgs - nmsgs' <= Cardinality(Entering') + Cardinality(Leaving'))
BY DEF NoMessageMissed, NoRoomMissed, Woken, Posting, Entering, Leaving

\* All four sets are finite.
LEMMA CountTypes ==
  /\ \A S : S \subseteq Senders \/ S \subseteq Receivers => IsFiniteSet(S) /\ Cardinality(S) \in Nat
  /\ Woken \subseteq Receivers /\ Posting \subseteq Senders /\ Entering \subseteq Senders /\ Leaving \subseteq Receivers
  /\ Woken' \subseteq Receivers /\ Posting' \subseteq Senders /\ Entering' \subseteq Senders /\ Leaving' \subseteq Receivers
  /\ maxmsgs \in Nat
<1>1. Senders \subseteq Threads /\ Receivers \subseteq Threads
  BY DEF Threads
<1>2. \A S : S \subseteq Senders \/ S \subseteq Receivers => IsFiniteSet(S) /\ Cardinality(S) \in Nat
  BY <1>1, Finite
<1> QED BY <1>2, ConstantsAssumption DEF ConstantsAssumption, Woken, Posting, Entering, Leaving

\* More elements, a larger number.
LEMMA CountMore ==
  \A S, T : S \subseteq T /\ (T \subseteq Senders \/ T \subseteq Receivers) => Cardinality(S) <= Cardinality(T)
<1> SUFFICES ASSUME NEW S, NEW T, S \subseteq T, T \subseteq Senders \/ T \subseteq Receivers
             PROVE  Cardinality(S) <= Cardinality(T)
  OBVIOUS
<1>1. IsFiniteSet(T)
  BY CountTypes
<1> QED BY <1>1, FS_Subset

\* One element less, a smaller number.
LEMMA CountOne ==
  \A S, T, x : x \in T /\ S = T \ {x} /\ (T \subseteq Senders \/ T \subseteq Receivers) =>
                 Cardinality(T) = Cardinality(S) + 1
<1> SUFFICES ASSUME NEW S, NEW T, NEW x, x \in T, S = T \ {x}, T \subseteq Senders \/ T \subseteq Receivers
             PROVE  Cardinality(T) = Cardinality(S) + 1
  OBVIOUS
<1>1. IsFiniteSet(T) /\ Cardinality(T) \in Nat
  BY CountTypes
<1>2. Cardinality(S) = Cardinality(T) - 1
  BY <1>1, FS_RemoveElement
<1> QED BY <1>1, <1>2

\* One who answers more.
LEMMA OneMore ==
  \A S, T, x : x \in T /\ x \notin S /\ S \subseteq T /\ (T \subseteq Senders \/ T \subseteq Receivers) =>
                 Cardinality(T) >= Cardinality(S) + 1
<1> SUFFICES ASSUME NEW S, NEW T, NEW x, x \in T, x \notin S, S \subseteq T,
                    T \subseteq Senders \/ T \subseteq Receivers
             PROVE  Cardinality(T) >= Cardinality(S) + 1
  OBVIOUS
<1>1. S \subseteq T \ {x} /\ (T \ {x} \subseteq Senders \/ T \ {x} \subseteq Receivers)
  OBVIOUS
<1>2. Cardinality(T) = Cardinality(T \ {x}) + 1
  BY CountOne
<1>3. Cardinality(S) <= Cardinality(T \ {x})
  BY <1>1, CountMore
<1>4. Cardinality(S) \in Nat /\ Cardinality(T \ {x}) \in Nat
  BY <1>1, CountTypes
<1> QED BY <1>2, <1>3, <1>4

\* One who answers less, at most.
LEMMA OneLess ==
  \A S, T, x : x \in S /\ S \ {x} \subseteq T /\
                 ((S \subseteq Senders /\ T \subseteq Senders) \/ (S \subseteq Receivers /\ T \subseteq Receivers)) =>
                 Cardinality(T) + 1 >= Cardinality(S)
<1> SUFFICES ASSUME NEW S, NEW T, NEW x, x \in S, S \ {x} \subseteq T,
                    (S \subseteq Senders /\ T \subseteq Senders) \/ (S \subseteq Receivers /\ T \subseteq Receivers)
             PROVE  Cardinality(T) + 1 >= Cardinality(S)
  OBVIOUS
<1>1. Cardinality(S) = Cardinality(S \ {x}) + 1
  BY CountOne
<1>2. Cardinality(S \ {x}) <= Cardinality(T)
  BY CountMore
<1>3. Cardinality(T) \in Nat /\ Cardinality(S \ {x}) \in Nat
  BY CountTypes
<1> QED BY <1>1, <1>2, <1>3

\* Messages: fewer, or no more than before, and as many threads answer them.
LEMMA MessageKept ==
  ASSUME NoMessageMissed, nmsgs \in Nat, nmsgs' \in Nat, Woken \subseteq Woken', Posting \subseteq Posting',
         nmsgs' <= nmsgs \/ nmsgs' = 0, Range(notempty') \ {dying'} \subseteq Range(notempty) \ {dying} \/ nmsgs' = 0
  PROVE  NoMessageMissed'
<1>1. /\ Cardinality(Woken) \in Nat /\ Cardinality(Posting) \in Nat
      /\ Cardinality(Woken') \in Nat /\ Cardinality(Posting') \in Nat
  BY CountTypes
<1>2. Cardinality(Woken) <= Cardinality(Woken') /\ Cardinality(Posting) <= Cardinality(Posting')
  BY CountTypes, CountMore
<1>3. nmsgs' = 0 \/ (Range(notempty') \ {dying'} # {} => nmsgs' <= nmsgs /\ nmsgs <= Cardinality(Woken) + Cardinality(Posting))
  BY MissedIs
<1>4. Range(notempty') \ {dying'} # {} => nmsgs' <= Cardinality(Woken') + Cardinality(Posting')
  BY <1>1, <1>2, <1>3
<1> QED BY <1>4, MissedNext

\* Room: less, or no more than before, and as many threads answer it.
LEMMA RoomKept ==
  ASSUME NoRoomMissed, nmsgs \in Nat, nmsgs' \in Nat, Entering \subseteq Entering', Leaving \subseteq Leaving',
         nmsgs' >= nmsgs, Range(notfull') \ {dying'} \subseteq Range(notfull) \ {dying}
  PROVE  NoRoomMissed'
<1>1. /\ Cardinality(Entering) \in Nat /\ Cardinality(Leaving) \in Nat
      /\ Cardinality(Entering') \in Nat /\ Cardinality(Leaving') \in Nat /\ maxmsgs \in Nat
  BY CountTypes
<1>2. Cardinality(Entering) <= Cardinality(Entering') /\ Cardinality(Leaving) <= Cardinality(Leaving')
  BY CountTypes, CountMore
<1>3. Range(notfull') \ {dying'} # {} => maxmsgs - nmsgs <= Cardinality(Entering) + Cardinality(Leaving)
  BY MissedIs
<1>4. Range(notfull') \ {dying'} # {} => maxmsgs - nmsgs' <= Cardinality(Entering') + Cardinality(Leaving')
  BY <1>1, <1>2, <1>3
<1> QED BY <1>4, MissedNext

\* While the queue is full there is no room to miss.
LEMMA FullKept ==
  ASSUME nmsgs \in Nat, nmsgs' = nmsgs, Full
  PROVE  NoRoomMissed'
<1>1. Cardinality(Entering') \in Nat /\ Cardinality(Leaving') \in Nat /\ maxmsgs \in Nat
  BY CountTypes
<1>2. maxmsgs - nmsgs' <= Cardinality(Entering') + Cardinality(Leaving')
  BY <1>1 DEF Full
<1> QED BY <1>2, MissedNext

\* nmsgs is the length of the queue.
LEMMA LengthIs == ASSUME Ordered PROVE nmsgs \in Nat /\ nmsgs = Len(msglist) /\ (msglist = <<>> <=> nmsgs = 0)
<1>1. msglist \in Seq(Msgs) /\ nmsgs = Len(msglist)
  BY DEF Ordered, Order
<1> QED BY <1>1

\* A step that changes neither the queue nor who answers, or adds to those who answer.
LEMMA MissedKept ==
  ASSUME QueueInv, MissedInv, nmsgs' = nmsgs,
         Range(notempty') \ {dying'} \subseteq Range(notempty) \ {dying},
         Range(notfull') \ {dying'} \subseteq Range(notfull) \ {dying},
         Woken \subseteq Woken', Posting \subseteq Posting', Entering \subseteq Entering', Leaving \subseteq Leaving'
  PROVE  NoMessageMissed' /\ NoRoomMissed'
<1>1. nmsgs \in Nat
  BY LengthIs DEF QueueInv
<1>2. NoMessageMissed'
  BY <1>1, MessageKept DEF MissedInv
<1>3. NoRoomMissed'
  BY <1>1, RoomKept DEF MissedInv
<1> QED BY <1>2, <1>3

\* What the end of waits does to those who answer: t is the thread that runs, or NoThread.
LEMMA UnblockAnswers ==
  ASSUME Types, WaitInv, NEW x, NEW w, Unblock(x, w), NEW t, t \in Threads => state[t] \notin Blocked,
         \A u \in Threads : u # t => state'[u] = Ready(x, w)[u]
  PROVE  /\ Range(notempty') = Range(notempty) \ {x, w} /\ Range(notfull') = Range(notfull) \ {x, w}
         /\ Woken \ {t} \subseteq Woken' /\ Posting \ {t} \subseteq Posting'
         /\ Entering \ {t} \subseteq Entering' /\ Leaving \ {t} \subseteq Leaving'
         /\ \A u \in Threads : u # t /\ state[u] \notin Blocked => state'[u] = state[u]
         /\ w \in Waiting /\ w # x => w # t /\ state'[w] = "ready" /\ w \notin errno' /\ state[w] \in Blocked
         /\ errno \subseteq errno' /\ errno' \ errno \subseteq {x} \intersect Waiting
<1>1. /\ notfull' = RemoveFirst(RemoveFirst(notfull, x), w)
      /\ notempty' = RemoveFirst(RemoveFirst(notempty, x), w)
      /\ errno' = errno \union ({x} \intersect Waiting)
  BY DEF Unblock
<1>2. Range(notempty') = Range(notempty) \ {x, w} /\ Range(notfull') = Range(notfull) \ {x, w}
  BY <1>1, RemoveTwo DEF WaitInv, Lists
<1>3. \A u \in Threads : Ready(x, w)[u] = IF u \in {x, w} \intersect Waiting THEN "ready" ELSE state[u]
  BY DEF Ready
<1>4. \A u \in Threads : (u \in Waiting <=> state[u] \in Blocked) /\ (state[u] \in Blocked => u \notin errno)
  BY DEF WaitInv, Listed, Waiting, Blocked
<1>5. \A u \in Threads : u # t /\ state[u] \notin Blocked => state'[u] = state[u] /\ (u \in errno' <=> u \in errno)
  BY <1>1, <1>3, <1>4
<1>6. /\ Woken \ {t} \subseteq Woken' /\ Posting \ {t} \subseteq Posting'
      /\ Entering \ {t} \subseteq Entering' /\ Leaving \ {t} \subseteq Leaving'
  <2>1. \A u \in Threads : state[u] \in {"ready", "notify", "detach", "wake", "alloc", "heap", "insert",
                                         "free", "check", "find"} => state[u] \notin Blocked
    BY DEF Blocked
  <2>2. Senders \subseteq Threads /\ Receivers \subseteq Threads
    BY DEF Threads
  <2>3. Woken \ {t} \subseteq Woken'
    BY <1>5, <2>1, <2>2 DEF Woken
  <2>4. Posting \ {t} \subseteq Posting'
    BY <1>5, <2>1, <2>2 DEF Posting
  <2>5. Entering \ {t} \subseteq Entering'
    BY <1>5, <2>1, <2>2 DEF Entering
  <2>6. Leaving \ {t} \subseteq Leaving'
    BY <1>5, <2>1, <2>2 DEF Leaving
  <2> QED BY <2>3, <2>4, <2>5, <2>6
<1>7. w \in Waiting /\ w # x => w # t /\ state'[w] = "ready" /\ w \notin errno' /\ state[w] \in Blocked
  <2>1. Waiting \subseteq Threads
    BY DEF Waiting
  <2> QED BY <1>1, <1>3, <1>4, <2>1
<1> QED BY <1>1, <1>2, <1>5, <1>6, <1>7

\* A wait that ends with an error: a notification, a timeout or a signal.
LEMMA ErrorAnswers ==
  ASSUME QueueInv, WaitInv, MissedInv, NEW x, Unblock(x, NoThread), NEW t, dying' = dying, nmsgs' = nmsgs,
         t \in Threads => state[t] \notin Blocked,
         t \in Posting => t \in Posting', t \notin Woken \union Entering \union Leaving,
         \A u \in Threads : u # t => state'[u] = Ready(x, NoThread)[u]
  PROVE  NoMessageMissed' /\ NoRoomMissed'
<1>1. /\ Range(notempty') = Range(notempty) \ {x, NoThread} /\ Range(notfull') = Range(notfull) \ {x, NoThread}
      /\ Woken \ {t} \subseteq Woken' /\ Posting \ {t} \subseteq Posting'
      /\ Entering \ {t} \subseteq Entering' /\ Leaving \ {t} \subseteq Leaving'
  BY UnblockAnswers DEF QueueInv
<1> QED BY <1>1, MissedKept

\* A step of a call that changes only the state of its thread.
LEMMA CallAnswers ==
  ASSUME QueueInv, MissedInv, NEW t \in Threads, NEW y \in State, state' = [state EXCEPT ![t] = y],
         UNCHANGED <<waits, dying>>, nmsgs' = nmsgs,
         t \in Posting => y \in {"notify", "detach", "wake"},
         t \in Entering => y \in {"alloc", "heap", "insert"},
         t \in Leaving => y \in {"free", "check", "find"},
         t \notin Woken
  PROVE  NoMessageMissed' /\ NoRoomMissed'
<1>1. state'[t] = y /\ \A u \in Threads : u # t => state'[u] = state[u]
  BY StateStep DEF QueueInv
<1>2. UNCHANGED <<notfull, notempty, errno>>
  BY DEF waits
<1>3. Senders \subseteq Threads /\ Receivers \subseteq Threads
  BY DEF Threads
<1>4. Woken \subseteq Woken'
  BY <1>1, <1>2, <1>3 DEF Woken
<1>5. Posting \subseteq Posting'
  BY <1>1, <1>2, <1>3 DEF Posting
<1>6. Entering \subseteq Entering'
  BY <1>1, <1>2, <1>3 DEF Entering
<1>7. Leaving \subseteq Leaving'
  BY <1>1, <1>2, <1>3 DEF Leaving
<1> QED BY <1>2, <1>4, <1>5, <1>6, <1>7, MissedKept

\* Senders do not receive.
LEMMA Sides ==
  /\ \A t \in Senders : t \in Threads /\ t \notin Receivers /\ t \notin Woken /\ t \notin Leaving
  /\ \A t \in Receivers : t \in Threads /\ t \notin Senders /\ t \notin Posting /\ t \notin Entering
<1>1. Senders \intersect Receivers = {}
  BY ConstantsAssumption DEF ConstantsAssumption
<1> QED BY <1>1 DEF Threads, Woken, Posting, Entering, Leaving

\* A sender waits: there is no room.
LEMMA FullAnswers ==
  ASSUME QueueInv, MissedInv, NEW t \in Senders, state[t] \in {"idle", "ready"}, Full, WaitNotFull(t),
         UNCHANGED <<queue, dying>>
  PROVE  NoMessageMissed' /\ NoRoomMissed'
<1>1. nmsgs \in Nat /\ nmsgs' = nmsgs
  BY LengthIs DEF QueueInv, queue
<1>2. state' = [state EXCEPT ![t] = "notfull"] /\ errno' = errno \ {t} /\ notempty' = notempty
  BY DEF WaitNotFull
<1>3. \A u \in Threads : u # t => state'[u] = state[u]
  BY <1>2 DEF QueueInv, Types
<1>4. Woken \subseteq Woken'
  BY <1>2, <1>3, Sides DEF Woken
<1>5. Posting \subseteq Posting'
  BY <1>3, Sides DEF Posting
<1>6. NoMessageMissed'
  BY <1>1, <1>2, <1>4, <1>5, MessageKept DEF MissedInv
<1>7. NoRoomMissed'
  BY <1>1, FullKept
<1> QED BY <1>6, <1>7

\* A receiver waits: there is no message.
LEMMA EmptyAnswers ==
  ASSUME QueueInv, MissedInv, NEW t \in Receivers, state[t] \in {"idle", "ready"}, msglist = <<>>,
         WaitNotEmpty(t), UNCHANGED <<queue, dying>>
  PROVE  NoMessageMissed' /\ NoRoomMissed'
<1>1. nmsgs = 0 /\ nmsgs' = 0
  BY LengthIs DEF QueueInv, queue
<1>2. state' = [state EXCEPT ![t] = "notempty"] /\ errno' = errno \ {t} /\ notfull' = notfull
  BY DEF WaitNotEmpty
<1>3. \A u \in Threads : u # t => state'[u] = state[u]
  BY <1>2 DEF QueueInv, Types
<1>4. Entering \subseteq Entering'
  BY <1>2, <1>3, Sides DEF Entering
<1>5. Leaving \subseteq Leaving'
  BY <1>3, Sides DEF Leaving
<1>6. NoMessageMissed'
  <2>1. Cardinality(Woken') \in Nat /\ Cardinality(Posting') \in Nat
    BY CountTypes
  <2> QED BY <1>1, <2>1, MissedNext
<1>7. NoRoomMissed'
  BY <1>1, <1>2, <1>4, <1>5, RoomKept DEF MissedInv
<1> QED BY <1>6, <1>7

\* mq_dosend: the sender is now about to wake a receiver.
LEMMA InsertAnswers ==
  ASSUME QueueInv, MissedInv, NEW t \in Senders, Insert(t)
  PROVE  NoMessageMissed' /\ NoRoomMissed'
<1>1. nmsgs \in Nat /\ nmsgs' = nmsgs + 1
  BY LengthIs DEF QueueInv, Insert, Queue
<1>2. /\ state[t] = "insert" /\ state' = [state EXCEPT ![t] = "notify"]
      /\ UNCHANGED <<notfull, notempty, errno, dying>>
  BY DEF Insert, Proceed, waits
<1>3. state'[t] = "notify" /\ \A u \in Threads : u # t => state'[u] = state[u]
  BY <1>2, Sides DEF QueueInv, Types
<1>4. Woken' = Woken /\ Leaving' = Leaving
  BY <1>2, <1>3, Sides DEF Woken, Leaving
<1>5. t \in Posting' /\ Posting = Posting' \ {t}
  BY <1>2, <1>3, Sides DEF Posting
<1>6. t \in Entering /\ Entering' = Entering \ {t}
  BY <1>2, <1>3, Sides DEF Entering
<1>7. Cardinality(Posting') = Cardinality(Posting) + 1
  BY <1>5, CountTypes, CountOne
<1>8. Cardinality(Entering) = Cardinality(Entering') + 1
  BY <1>6, CountTypes, CountOne
<1>9. /\ Cardinality(Woken) \in Nat /\ Cardinality(Posting) \in Nat
      /\ Cardinality(Entering') \in Nat /\ Cardinality(Leaving) \in Nat /\ maxmsgs \in Nat
  BY CountTypes
<1>10. NoMessageMissed'
  <2>1. Range(notempty) \ {dying} # {} => nmsgs <= Cardinality(Woken) + Cardinality(Posting)
    BY MissedIs DEF MissedInv
  <2>2. Range(notempty') \ {dying'} # {} => nmsgs' <= Cardinality(Woken') + Cardinality(Posting')
    BY <1>1, <1>2, <1>4, <1>7, <1>9, <2>1
  <2> QED BY <2>2, MissedNext
<1>11. NoRoomMissed'
  <2>1. Range(notfull) \ {dying} # {} => maxmsgs - nmsgs <= Cardinality(Entering) + Cardinality(Leaving)
    BY MissedIs DEF MissedInv
  <2>2. Range(notfull') \ {dying'} # {} => maxmsgs - nmsgs' <= Cardinality(Entering') + Cardinality(Leaving')
    BY <1>1, <1>2, <1>4, <1>8, <1>9, <2>1
  <2> QED BY <2>2, MissedNext
<1> QED BY <1>10, <1>11

\* mq_waitreceive with a message: the receiver is now about to wake a sender.
LEMMA DequeueAnswers ==
  ASSUME QueueInv, MissedInv, NEW t \in Receivers, state[t] \in {"idle", "ready"}, msglist # <<>>,
         Dequeue(t), Proceed(t, "free"), UNCHANGED <<waits, dying>>
  PROVE  NoMessageMissed' /\ NoRoomMissed'
<1>1. nmsgs \in Nat /\ nmsgs' = nmsgs - 1
  BY LengthIs DEF QueueInv, Dequeue
<1>2. state' = [state EXCEPT ![t] = "free"] /\ UNCHANGED <<notfull, notempty, errno, dying>>
  BY DEF Proceed, waits
<1>3. state'[t] = "free" /\ \A u \in Threads : u # t => state'[u] = state[u]
  BY <1>2, Sides DEF QueueInv, Types
<1>4. Posting' = Posting /\ Entering' = Entering
  BY <1>2, <1>3, Sides DEF Posting, Entering
<1>5. t \in Leaving' /\ Leaving = Leaving' \ {t}
  BY <1>2, <1>3, Sides DEF Leaving
<1>6. Woken' = Woken \ {t}
  BY <1>2, <1>3, Sides DEF Woken
<1>7. Cardinality(Leaving') = Cardinality(Leaving) + 1
  BY <1>5, CountTypes, CountOne
<1>8. Cardinality(Woken) <= Cardinality(Woken') + 1
  <2>1. Cardinality(Woken) \in Nat /\ Cardinality(Woken') \in Nat
    BY CountTypes
  <2>2. CASE t \in Woken
    BY <1>6, <2>1, <2>2, CountTypes, CountOne
  <2>3. CASE t \notin Woken
    <3>1. Woken' = Woken
      BY <1>6, <2>3
    <3> QED BY <2>1, <3>1
  <2> QED BY <2>2, <2>3
<1>9. /\ Cardinality(Woken) \in Nat /\ Cardinality(Woken') \in Nat /\ Cardinality(Posting) \in Nat
      /\ Cardinality(Entering) \in Nat /\ Cardinality(Leaving) \in Nat /\ maxmsgs \in Nat
  BY CountTypes
<1>10. NoMessageMissed'
  <2>1. Range(notempty) \ {dying} # {} => nmsgs <= Cardinality(Woken) + Cardinality(Posting)
    BY MissedIs DEF MissedInv
  <2>2. Range(notempty') \ {dying'} # {} => nmsgs' <= Cardinality(Woken') + Cardinality(Posting')
    BY <1>1, <1>2, <1>4, <1>8, <1>9, <2>1
  <2> QED BY <2>2, MissedNext
<1>11. NoRoomMissed'
  <2>1. Range(notfull) \ {dying} # {} => maxmsgs - nmsgs <= Cardinality(Entering) + Cardinality(Leaving)
    BY MissedIs DEF MissedInv
  <2>2. Range(notfull') \ {dying'} # {} => maxmsgs - nmsgs' <= Cardinality(Entering') + Cardinality(Leaving')
    BY <1>1, <1>2, <1>4, <1>7, <1>9, <2>1
  <2> QED BY <2>2, MissedNext
<1> QED BY <1>10, <1>11

\* A counter that is not positive: nobody is in the list.
LEMMA NobodyWaits ==
  ASSUME Lists, Counted, NEW n \in {nwaitnotfull, nwaitnotempty}, ~ (n > 0)
  PROVE  /\ n = nwaitnotfull => Range(notfull) \ {dying} = {}
         /\ n = nwaitnotempty => Range(notempty) \ {dying} = {}
<1>1. IsFiniteSet(Range(notfull) \ {dying}) /\ IsFiniteSet(Range(notempty) \ {dying})
  BY ListsFinite, FS_Subset
<1>2. Cardinality(Range(notfull) \ {dying}) \in Nat /\ Cardinality(Range(notempty) \ {dying}) \in Nat
  BY <1>1, FS_CardinalityType
<1>3. ASSUME NEW A, IsFiniteSet(A), Cardinality(A) \in Nat, ~ (Cardinality(A) > 0)
      PROVE  A = {}
  <2>1. Cardinality(A) = 0
    BY <1>3
  <2> QED BY <1>3, <2>1, FS_EmptySet
<1> QED BY <1>1, <1>2, <1>3 DEF Counted

\* A counter that is positive: the first of the list waits, and is of the right side.
LEMMA SomebodyWaits ==
  ASSUME Lists, Listed, Counted
  PROVE  /\ nwaitnotfull > 0 => notfull # <<>>
         /\ nwaitnotempty > 0 => notempty # <<>>
         /\ notfull # <<>> => Head(notfull) \in Senders /\ Head(notfull) \in Waiting
         /\ notempty # <<>> => Head(notempty) \in Receivers /\ Head(notempty) \in Waiting
<1>1. /\ notfull # <<>> <=> Range(notfull) # {}
      /\ notempty # <<>> <=> Range(notempty) # {}
      /\ Range(notfull) \subseteq Senders /\ Range(notempty) \subseteq Receivers
      /\ notfull # <<>> => Head(notfull) \in Range(notfull)
      /\ notempty # <<>> => Head(notempty) \in Range(notempty)
  BY RangeIs DEF Lists
<1>2. \A u \in Range(notfull) \union Range(notempty) : u \in Waiting
  BY <1>1 DEF Listed, Waiting, Threads
<1>3. Cardinality({}) = 0
  BY FS_EmptySet
<1>4. /\ Range(notfull) = {} => nwaitnotfull = 0
      /\ Range(notempty) = {} => nwaitnotempty = 0
  BY <1>3 DEF Counted
<1> QED BY <1>1, <1>2, <1>4

\* The last step of mq_dosend wakes a receiver, if one waits.
LEMMA WakeAnswers ==
  ASSUME QueueInv, WaitInv, MissedInv, NEW t \in Senders, Wake(t)
  PROVE  NoMessageMissed' /\ NoRoomMissed'
<1> DEFINE w == IF nwaitnotempty > 0 THEN Head(notempty) ELSE NoThread
<1>1. /\ Unblock(NoThread, w) /\ state' = [Ready(NoThread, w) EXCEPT ![t] = "idle"] /\ state[t] = "wake"
      /\ cpu = t /\ dying' = dying /\ nmsgs' = nmsgs
  BY DEF Wake, queue
<1>2. (nwaitnotempty > 0 => w = Head(notempty)) /\ (~ (nwaitnotempty > 0) => w = NoThread)
  OBVIOUS
<1> HIDE DEF w
<1>3. Ready(NoThread, w) \in [Threads -> State]
  BY ReadyStep DEF QueueInv
<1>4. \A u \in Threads : u # t => state'[u] = Ready(NoThread, w)[u]
  BY <1>1, <1>3
<1>5. state[t] \notin Blocked /\ t \in Threads
  BY <1>1, Sides DEF Blocked
<1>6. /\ Range(notempty') = Range(notempty) \ {NoThread, w} /\ Range(notfull') = Range(notfull) \ {NoThread, w}
      /\ Woken \ {t} \subseteq Woken' /\ Posting \ {t} \subseteq Posting'
      /\ Entering \ {t} \subseteq Entering' /\ Leaving \ {t} \subseteq Leaving'
      /\ w \in Waiting /\ w # NoThread => w # t /\ state'[w] = "ready" /\ w \notin errno' /\ state[w] \in Blocked
  BY <1>1, <1>4, <1>5, UnblockAnswers DEF QueueInv
<1>7. t \in Posting /\ t \notin Woken /\ t \notin Entering /\ t \notin Leaving
  BY <1>1, Sides DEF Posting, Entering
<1>8. nmsgs \in Nat
  BY LengthIs DEF QueueInv
<1>9. NoRoomMissed'
  <2>1. Entering \subseteq Entering' /\ Leaving \subseteq Leaving'
    BY <1>6, <1>7
  <2>2. Range(notfull') \ {dying'} \subseteq Range(notfull) \ {dying}
    BY <1>1, <1>6
  <2> QED BY <1>1, <1>8, <2>1, <2>2, RoomKept DEF MissedInv
<1>10. CASE ~ (nwaitnotempty > 0)
  <2>1. Range(notempty') \ {dying'} = {}
    BY <1>1, <1>6, <1>10, NobodyWaits DEF WaitInv
  <2>2. NoMessageMissed'
    BY <2>1, MissedNext
  <2> QED BY <1>9, <2>2
<1>11. CASE nwaitnotempty > 0
  <2>1. w \in Receivers /\ w \in Waiting
    BY <1>2, <1>11, SomebodyWaits DEF WaitInv
  <2>2. w # NoThread /\ w \in Threads
    BY <2>1, Sides, ConstantsAssumption DEF ConstantsAssumption
  <2>3. w \in Woken' /\ w \notin Woken /\ Woken \subseteq Woken'
    BY <1>6, <1>7, <2>1, <2>2 DEF Woken, Blocked
  <2>4. Cardinality(Woken') >= Cardinality(Woken) + 1
    BY <2>3, CountTypes, OneMore
  <2>5. Cardinality(Posting') + 1 >= Cardinality(Posting)
    BY <1>6, <1>7, CountTypes, OneLess
  <2>6. /\ Cardinality(Woken) \in Nat /\ Cardinality(Posting) \in Nat
        /\ Cardinality(Woken') \in Nat /\ Cardinality(Posting') \in Nat
    BY CountTypes
  <2>7. Range(notempty) \ {dying} # {} => nmsgs <= Cardinality(Woken) + Cardinality(Posting)
    BY MissedIs DEF MissedInv
  <2>8. Range(notempty') \ {dying'} # {} => Range(notempty) \ {dying} # {}
    BY <1>1, <1>6
  <2>9. Range(notempty') \ {dying'} # {} => nmsgs' <= Cardinality(Woken') + Cardinality(Posting')
    BY <1>1, <1>8, <2>4, <2>5, <2>6, <2>7, <2>8
  <2> QED BY <1>9, <2>9, MissedNext
<1> QED BY <1>10, <1>11

\* The last step of mq_doreceive wakes a sender, if one waits.
LEMMA FindAnswers ==
  ASSUME QueueInv, WaitInv, MissedInv, NEW t \in Receivers, Find(t)
  PROVE  NoMessageMissed' /\ NoRoomMissed'
<1>1. cpu = t /\ state[t] = "find" /\ dying' = dying /\ nmsgs' = nmsgs /\ t \in Threads
  BY Sides DEF Find, queue
<1>2. nmsgs \in Nat
  BY LengthIs DEF QueueInv
<1>3. t \in Leaving /\ t \notin Woken /\ t \notin Posting /\ t \notin Entering
  BY <1>1, Sides DEF Leaving, Woken
<1>4. CASE notfull = <<>> /\ Proceed(t, "assert") /\ UNCHANGED waits
  <2>1. Range(notfull) = {}
    BY <1>4, RangeIs DEF WaitInv, Lists
  <2>2. state' = [state EXCEPT ![t] = "assert"] /\ UNCHANGED <<notfull, notempty, errno>>
    BY <1>4 DEF Proceed, waits
  <2>3. \A u \in Threads : u # t => state'[u] = state[u]
    BY <2>2 DEF QueueInv, Types
  <2>4. Woken \subseteq Woken'
    BY <1>3, <2>2, <2>3, Sides DEF Woken
  <2>5. Posting \subseteq Posting'
    BY <1>3, <2>2, <2>3, Sides DEF Posting
  <2>6. NoMessageMissed'
    BY <1>1, <1>2, <2>2, <2>4, <2>5, MessageKept DEF MissedInv
  <2>7. NoRoomMissed'
    BY <2>1, <2>2, MissedNext
  <2> QED BY <2>6, <2>7
<1>5. CASE /\ notfull # <<>> /\ Unblock(NoThread, Head(notfull))
           /\ state' = [Ready(NoThread, Head(notfull)) EXCEPT ![t] = "idle"]
  <2> DEFINE w == Head(notfull)
  <2>1. w \in Senders /\ w \in Waiting
    BY <1>5, SomebodyWaits DEF WaitInv
  <2>2. Unblock(NoThread, w) /\ state' = [Ready(NoThread, w) EXCEPT ![t] = "idle"]
    BY <1>5
  <2> HIDE DEF w
  <2>3. Ready(NoThread, w) \in [Threads -> State]
    BY ReadyStep DEF QueueInv
  <2>4. \A u \in Threads : u # t => state'[u] = Ready(NoThread, w)[u]
    BY <2>2, <2>3
  <2>5. state[t] \notin Blocked
    BY <1>1 DEF Blocked
  <2>6. /\ Range(notempty') = Range(notempty) \ {NoThread, w} /\ Range(notfull') = Range(notfull) \ {NoThread, w}
        /\ Woken \ {t} \subseteq Woken' /\ Posting \ {t} \subseteq Posting'
        /\ Entering \ {t} \subseteq Entering' /\ Leaving \ {t} \subseteq Leaving'
        /\ w \in Waiting /\ w # NoThread => w # t /\ state'[w] = "ready" /\ w \notin errno' /\ state[w] \in Blocked
    BY <2>2, <2>4, <2>5, UnblockAnswers DEF QueueInv
  <2>7. w # NoThread /\ w \in Threads
    BY <2>1, Sides, ConstantsAssumption DEF ConstantsAssumption
  <2>8. w \in Entering' /\ w \notin Entering /\ Entering \subseteq Entering'
    BY <1>3, <2>1, <2>6, <2>7 DEF Entering, Blocked
  <2>9. Cardinality(Entering') >= Cardinality(Entering) + 1
    BY <2>8, CountTypes, OneMore
  <2>10. Cardinality(Leaving') + 1 >= Cardinality(Leaving)
    BY <1>3, <2>6, CountTypes, OneLess
  <2>11. /\ Cardinality(Entering) \in Nat /\ Cardinality(Leaving) \in Nat
         /\ Cardinality(Entering') \in Nat /\ Cardinality(Leaving') \in Nat /\ maxmsgs \in Nat
    BY CountTypes
  <2>12. Range(notfull) \ {dying} # {} => maxmsgs - nmsgs <= Cardinality(Entering) + Cardinality(Leaving)
    BY MissedIs DEF MissedInv
  <2>13. Range(notfull') \ {dying'} # {} => Range(notfull) \ {dying} # {}
    BY <1>1, <2>6
  <2>14. Range(notfull') \ {dying'} # {} => maxmsgs - nmsgs' <= Cardinality(Entering') + Cardinality(Leaving')
    BY <1>1, <1>2, <2>9, <2>10, <2>11, <2>12, <2>13
  <2>15. NoMessageMissed'
    <3>1. Woken \subseteq Woken' /\ Posting \subseteq Posting'
      BY <1>3, <2>6
    <3>2. Range(notempty') \ {dying'} \subseteq Range(notempty) \ {dying}
      BY <1>1, <2>6
    <3> QED BY <1>1, <1>2, <3>1, <3>2, MessageKept DEF MissedInv
  <2> QED BY <2>14, <2>15, MissedNext
<1> QED BY <1>4, <1>5 DEF Find

\* mq_doreceive looks for a sender unless none waits.
LEMMA CheckAnswers ==
  ASSUME QueueInv, WaitInv, MissedInv, NEW t \in Receivers, Check(t)
  PROVE  NoMessageMissed' /\ NoRoomMissed'
<1>1. /\ cpu = t /\ state[t] = "check" /\ UNCHANGED <<waits, dying>> /\ nmsgs' = nmsgs /\ t \in Threads
  BY Sides DEF Check, queue
<1>2. t \in Leaving /\ t \notin Woken /\ t \notin Posting /\ t \notin Entering
  BY <1>1, Sides DEF Leaving, Woken
<1>3. CASE nwaitnotfull > 0
  <2>1. state' = [state EXCEPT ![t] = "find"]
    BY <1>3 DEF Check, Proceed
  <2> QED BY <1>1, <1>2, <2>1, CallAnswers DEF State
<1>4. CASE ~ (nwaitnotfull > 0)
  <2>1. Range(notfull) \ {dying} = {}
    BY <1>4, NobodyWaits DEF WaitInv
  <2>2. state' = [state EXCEPT ![t] = "idle"] /\ UNCHANGED <<notfull, notempty, errno, dying>>
    BY <1>1, <1>4 DEF Check, Return, waits
  <2>3. \A u \in Threads : u # t => state'[u] = state[u]
    BY <2>2 DEF QueueInv, Types
  <2>4. Woken \subseteq Woken'
    BY <1>2, <2>2, <2>3, Sides DEF Woken
  <2>5. Posting \subseteq Posting'
    BY <1>2, <2>2, <2>3, Sides DEF Posting
  <2>6. nmsgs \in Nat
    BY LengthIs DEF QueueInv
  <2>7. NoMessageMissed'
    BY <1>1, <2>2, <2>4, <2>5, <2>6, MessageKept DEF MissedInv
  <2>8. NoRoomMissed'
    BY <2>1, <2>2, MissedNext
  <2> QED BY <2>7, <2>8
<1> QED BY <1>3, <1>4

\* A handler that sends wakes a receiver, if one waits other than the thread that it notifies.
LEMMA HandlerAnswers ==
  ASSUME Quiet, QueueInv, WaitInv, MissedInv, NEW p \in HandlerPrios, HandlerSends(p)
  PROVE  NoMessageMissed' /\ NoRoomMissed'
<1> DEFINE rest == RemoveFirst(notempty, ntpid)
           n == nwaitnotempty - (Len(notempty) - Len(rest))
           w == IF n > 0 THEN Head(rest) ELSE NoThread
<1>1. /\ Unblock(ntpid, w) /\ state' = Ready(ntpid, w)
      /\ dying = NoThread /\ dying' = dying
  BY DEF HandlerSends, Quiet
<1>2. nmsgs \in Nat /\ nmsgs' = nmsgs + 1
  BY LengthIs DEF QueueInv, HandlerSends, Queue
<1>3. /\ rest \in Seq(Receivers) /\ Range(rest) = Range(notempty) \ {ntpid}
      /\ Len(notempty) - Len(rest) = IF ntpid \in Range(notempty) THEN 1 ELSE 0
  BY RemoveFirstRange DEF WaitInv, Lists
<1>4. (n > 0 => w = Head(rest)) /\ (~ (n > 0) => w = NoThread)
  OBVIOUS
<1>5. NoThread \notin Threads
  BY ConstantsAssumption DEF ConstantsAssumption
<1>6. /\ Range(notempty) \subseteq Threads /\ IsFiniteSet(Range(notempty)) /\ Cardinality(Range(notempty)) \in Nat
      /\ nwaitnotempty = Cardinality(Range(notempty))
  <2>1. Range(notempty) \subseteq Threads /\ IsFiniteSet(Range(notempty))
    BY ListsFinite DEF WaitInv
  <2>2. Range(notempty) \ {dying} = Range(notempty)
    BY <1>1, <1>5, <2>1
  <2> QED BY <2>1, <2>2, FS_CardinalityType DEF WaitInv, Counted
<1> HIDE DEF rest
<1>7. n = Cardinality(Range(rest)) /\ Cardinality(Range(rest)) \in Nat /\ IsFiniteSet(Range(rest))
  <2>1. IsFiniteSet(Range(rest)) /\ Cardinality(Range(rest)) \in Nat
    BY <1>3, <1>6, FS_Subset, FS_CardinalityType
  <2>2. CASE ntpid \in Range(notempty)
    <3>1. Cardinality(Range(rest)) = Cardinality(Range(notempty)) - 1
      BY <1>3, <1>6, <2>2, FS_RemoveElement
    <3> QED BY <1>3, <1>6, <2>1, <2>2, <3>1
  <2>3. CASE ntpid \notin Range(notempty)
    <3>1. Range(rest) = Range(notempty)
      BY <1>3, <2>3
    <3>2. n = nwaitnotempty
      BY <1>3, <1>6, <2>3
    <3> QED BY <1>6, <2>1, <3>1, <3>2
  <2> QED BY <2>2, <2>3
<1> HIDE DEF n, w
<1>8. /\ Range(notempty') = Range(notempty) \ {ntpid, w} /\ Range(notfull') = Range(notfull) \ {ntpid, w}
      /\ Woken \ {NoThread} \subseteq Woken' /\ Posting \ {NoThread} \subseteq Posting'
      /\ Entering \ {NoThread} \subseteq Entering' /\ Leaving \ {NoThread} \subseteq Leaving'
      /\ w \in Waiting /\ w # ntpid =>
           w # NoThread /\ state'[w] = "ready" /\ w \notin errno' /\ state[w] \in Blocked
  BY <1>1, <1>5, UnblockAnswers DEF QueueInv
<1>9. /\ Woken \subseteq Woken' /\ Posting \subseteq Posting'
      /\ Entering \subseteq Entering' /\ Leaving \subseteq Leaving'
  <2>1. NoThread \notin Senders /\ NoThread \notin Receivers
    BY <1>5, Sides
  <2>2. NoThread \notin Woken /\ NoThread \notin Posting /\ NoThread \notin Entering /\ NoThread \notin Leaving
    BY <2>1, CountTypes
  <2> QED BY <1>8, <2>2
<1>10. NoRoomMissed'
  <2>1. Range(notfull') \ {dying'} \subseteq Range(notfull) \ {dying}
    BY <1>1, <1>8
  <2>2. nmsgs' \in Nat /\ nmsgs' >= nmsgs
    BY <1>2
  <2> QED BY <1>2, <1>9, <2>1, <2>2, RoomKept DEF MissedInv
<1>11. CASE ~ (n > 0)
  <2>1. Cardinality(Range(rest)) = 0
    BY <1>7, <1>11
  <2>2. Range(rest) = {}
    BY <1>7, <2>1, FS_EmptySet
  <2>3. Range(notempty') \ {dying'} = {}
    BY <1>3, <1>8, <2>2
  <2> QED BY <1>10, <2>3, MissedNext
<1>12. CASE n > 0
  <2>1. Range(rest) # {}
    <3>1. Cardinality({}) = 0
      BY FS_EmptySet
    <3> QED BY <1>7, <1>12, <3>1
  <2>2. w \in Range(rest)
    BY <1>3, <1>4, <1>12, <2>1, RangeIs
  <2>3. w \in Receivers /\ w \in Waiting /\ w # ntpid /\ w \in Threads
    <3>1. w \in Receivers /\ w \in Range(notempty) /\ w # ntpid
      BY <1>3, <2>2, RangeIs
    <3> QED BY <1>6, <3>1 DEF WaitInv, Listed, Waiting
  <2>4. w \in Woken' /\ w \notin Woken
    BY <1>8, <2>3 DEF Woken, Blocked
  <2>5. Cardinality(Woken') >= Cardinality(Woken) + 1
    BY <1>9, <2>4, CountTypes, OneMore
  <2>6. Cardinality(Posting) <= Cardinality(Posting')
    BY <1>9, CountTypes, CountMore
  <2>7. /\ Cardinality(Woken) \in Nat /\ Cardinality(Posting) \in Nat
        /\ Cardinality(Woken') \in Nat /\ Cardinality(Posting') \in Nat
    BY CountTypes
  <2>8. Range(notempty) \ {dying} # {} => nmsgs <= Cardinality(Woken) + Cardinality(Posting)
    BY MissedIs DEF MissedInv
  <2>9. Range(notempty') \ {dying'} # {} => Range(notempty) \ {dying} # {}
    BY <1>1, <1>8
  <2>10. Range(notempty') \ {dying'} # {} => nmsgs' <= Cardinality(Woken') + Cardinality(Posting')
    BY <1>2, <2>5, <2>6, <2>7, <2>8, <2>9
  <2> QED BY <1>10, <2>10, MissedNext
<1> QED BY <1>11, <1>12

\* The steps of a sender.
LEMMA SenderAnswers ==
  ASSUME QueueInv, WaitInv, MissedInv, NEW t \in Senders, Send(t) \/ SendContinues(t)
  PROVE  MissedInv'
<1>1. t \in Threads /\ t \notin Woken /\ t \notin Leaving
  BY Sides
<1>2. DyingWaits'
  <2>1. /\ cpu = t \/ cpu = NoThread
        /\ dying' = dying
    BY <1>1, RunsCpu DEF Send, SendContinues, SendResumes, Alloc, HeapReturns, Insert, Notify, Detach, Wake
  <2>2. dying = NoThread
    BY <1>1, <2>1, NoneDies DEF QueueInv
  <2> QED BY <2>1, <2>2 DEF DyingWaits
<1>3. CASE Send(t)
  <2>1. /\ state[t] = "idle" /\ UNCHANGED <<queue, dying>> /\ nmsgs' = nmsgs
        /\ t \notin Posting /\ t \notin Entering
    BY <1>3 DEF Send, queue, Posting, Entering
  <2>2. CASE Proceed(t, "alloc") /\ UNCHANGED waits
    <3>1. NoMessageMissed' /\ NoRoomMissed'
      BY <1>1, <2>1, <2>2, CallAnswers DEF Proceed, State
    <3> QED BY <1>2, <3>1 DEF MissedInv
  <2>3. CASE Full /\ WaitNotFull(t)
    BY <1>2, <2>1, <2>3, FullAnswers DEF MissedInv
  <2> QED BY <1>3, <2>2, <2>3 DEF Send
<1>4. CASE SendResumes(t)
  <2>1. state[t] = "ready" /\ UNCHANGED <<queue, dying>> /\ nmsgs' = nmsgs /\ t \notin Posting
    BY <1>4 DEF SendResumes, queue, Posting
  <2>2. CASE t \in errno /\ Return(t) /\ UNCHANGED waits
    <3>1. t \notin Entering
      BY <2>1, <2>2 DEF Entering
    <3>2. NoMessageMissed' /\ NoRoomMissed'
      BY <1>1, <2>1, <2>2, <3>1, CallAnswers DEF Return, State
    <3> QED BY <1>2, <3>2 DEF MissedInv
  <2>3. CASE Proceed(t, "alloc") /\ UNCHANGED waits
    <3>1. NoMessageMissed' /\ NoRoomMissed'
      BY <1>1, <2>1, <2>3, CallAnswers DEF Proceed, State
    <3> QED BY <1>2, <3>1 DEF MissedInv
  <2>4. CASE Full /\ WaitNotFull(t)
    BY <1>2, <2>1, <2>4, FullAnswers DEF MissedInv
  <2> QED BY <1>4, <2>2, <2>3, <2>4 DEF SendResumes
<1>5. CASE Alloc(t) \/ HeapReturns(t)
  <2>1. /\ state[t] \in {"alloc", "heap"} /\ UNCHANGED <<waits, dying>> /\ nmsgs' = nmsgs
        /\ t \notin Posting
    BY <1>5 DEF Alloc, HeapReturns, queue, Posting
  <2>2. PICK y \in {"insert", "heap"} : state' = [state EXCEPT ![t] = y]
    BY <1>5 DEF Alloc, HeapReturns, Proceed
  <2>3. NoMessageMissed' /\ NoRoomMissed'
    BY <1>1, <2>1, <2>2, CallAnswers DEF State
  <2> QED BY <1>2, <2>3 DEF MissedInv
<1>6. CASE Insert(t)
  BY <1>2, <1>6, InsertAnswers DEF MissedInv
<1>7. CASE Notify(t)
  <2>1. /\ state[t] = "notify" /\ UNCHANGED <<waits, dying>> /\ nmsgs' = nmsgs
        /\ t \notin Entering
    BY <1>7 DEF Notify, queue, Entering
  <2>2. PICK y \in {"wake", "detach"} : state' = [state EXCEPT ![t] = y]
    BY <1>7 DEF Notify, Proceed
  <2>3. NoMessageMissed' /\ NoRoomMissed'
    BY <1>1, <2>1, <2>2, CallAnswers DEF State
  <2> QED BY <1>2, <2>3 DEF MissedInv
<1>8. CASE Detach(t)
  <2>1. /\ state[t] = "detach" /\ dying' = dying /\ nmsgs' = nmsgs /\ Unblock(pid[t], NoThread)
        /\ state' = [Ready(pid[t], NoThread) EXCEPT ![t] = "wake"]
    BY <1>8 DEF Detach, mq_waitirq, queue
  <2>2. Ready(pid[t], NoThread) \in [Threads -> State]
    BY ReadyStep DEF QueueInv
  <2>3. state'[t] = "wake" /\ \A u \in Threads : u # t => state'[u] = Ready(pid[t], NoThread)[u]
    BY <1>1, <2>1, <2>2
  <2>4. t \in Posting' /\ t \notin Entering /\ state[t] \notin Blocked
    BY <2>1, <2>3 DEF Posting, Entering, Blocked
  <2>5. NoMessageMissed' /\ NoRoomMissed'
    BY <1>1, <2>1, <2>3, <2>4, ErrorAnswers
  <2> QED BY <1>2, <2>5 DEF MissedInv
<1>9. CASE Wake(t)
  BY <1>2, <1>9, WakeAnswers DEF MissedInv
<1> QED BY <1>3, <1>4, <1>5, <1>6, <1>7, <1>8, <1>9 DEF SendContinues

\* The steps of a receiver.
LEMMA ReceiverAnswers ==
  ASSUME QueueInv, WaitInv, MissedInv, NEW t \in Receivers, Receive(t) \/ ReceiveContinues(t)
  PROVE  MissedInv'
<1>1. t \in Threads /\ t \notin Posting /\ t \notin Entering
  BY Sides
<1>2. DyingWaits'
  <2>1. /\ cpu = t \/ cpu = NoThread
        /\ dying' = dying
    BY <1>1, RunsCpu DEF Receive, ReceiveContinues, ReceiveResumes, Free, Check, Find
  <2>2. dying = NoThread
    BY <1>1, <2>1, NoneDies DEF QueueInv
  <2> QED BY <2>1, <2>2 DEF DyingWaits
<1>3. CASE Receive(t) \/ ReceiveResumes(t)
  <2>1. state[t] \in {"idle", "ready"} /\ dying' = dying
    BY <1>3 DEF Receive, ReceiveResumes
  <2>2. CASE msglist # <<>> /\ Dequeue(t) /\ Proceed(t, "free") /\ UNCHANGED waits
    BY <1>2, <2>1, <2>2, DequeueAnswers DEF MissedInv
  <2>3. CASE msglist = <<>> /\ WaitNotEmpty(t) /\ UNCHANGED queue
    BY <1>2, <2>1, <2>3, EmptyAnswers DEF MissedInv
  <2>4. CASE t \in errno /\ Return(t) /\ UNCHANGED <<queue, waits>>
    <3>1. t \notin Woken /\ t \notin Leaving /\ nmsgs' = nmsgs
      BY <2>1, <2>4 DEF Woken, Leaving, queue
    <3>2. NoMessageMissed' /\ NoRoomMissed'
      BY <1>1, <2>1, <2>4, <3>1, CallAnswers DEF Return, State
    <3> QED BY <1>2, <3>2 DEF MissedInv
  <2> QED BY <1>3, <2>2, <2>3, <2>4 DEF Receive, ReceiveResumes
<1>4. CASE Free(t)
  <2>1. /\ state[t] = "free" /\ UNCHANGED <<waits, dying>> /\ nmsgs' = nmsgs /\ t \notin Woken
        /\ state' = [state EXCEPT ![t] = "check"]
    BY <1>4 DEF Free, queue, Woken, Proceed
  <2>2. NoMessageMissed' /\ NoRoomMissed'
    BY <1>1, <2>1, CallAnswers DEF State
  <2> QED BY <1>2, <2>2 DEF MissedInv
<1>5. CASE Check(t)
  BY <1>2, <1>5, CheckAnswers DEF MissedInv
<1>6. CASE Find(t)
  BY <1>2, <1>6, FindAnswers DEF MissedInv
<1> QED BY <1>3, <1>4, <1>5, <1>6 DEF ReceiveContinues

\* Timeouts, signals, handlers, and the deletion of a thread.
LEMMA OtherAnswers ==
  ASSUME Quiet, KilledWaiting, QueueInv, WaitInv, MissedInv,
         \/ \E t \in Threads : Timeout(t) \/ Signal(t) \/ mq_recover(t) \/ Removed(t) \/ mq_notify(t)
         \/ \E p \in HandlerPrios : HandlerSends(p)
  PROVE  MissedInv'
<1>1. NoThread \notin Threads
  BY ConstantsAssumption DEF ConstantsAssumption
<1>2. NoThread \notin Woken \union Posting \union Entering \union Leaving
  BY <1>1 DEF Woken, Posting, Entering, Leaving, Threads
<1>3. ASSUME NEW t \in Threads, Timeout(t) \/ Signal(t)
      PROVE  MissedInv'
  <2>1. /\ Unblock(t, NoThread) /\ state' = Ready(t, NoThread) /\ dying' = dying /\ nmsgs' = nmsgs
    BY <1>3 DEF Timeout, Signal, mq_waitirq, queue
  <2>2. NoMessageMissed' /\ NoRoomMissed'
    BY <1>1, <1>2, <2>1, ErrorAnswers
  <2>3. DyingWaits'
    <3>1. t # dying
      BY <1>1, <1>3 DEF Timeout, Signal, Quiet, WaitInv, Disarmed
    <3>2. dying # NoThread => dying \in Threads
      BY DEF QueueInv, Deletion
    <3>3. dying # NoThread => state'[dying] = state[dying]
      BY <2>1, <3>1, <3>2 DEF Ready
    <3> QED BY <2>1, <3>3 DEF MissedInv, DyingWaits
  <2> QED BY <2>2, <2>3 DEF MissedInv
<1>4. ASSUME NEW t \in Threads, mq_recover(t)
      PROVE  MissedInv'
  <2>1. /\ UNCHANGED <<notfull, notempty, errno, state>> /\ nmsgs' = nmsgs /\ dying' = t
        /\ cpu = NoThread /\ state[t] \in Blocked
    BY <1>4 DEF mq_recover, queue, KilledWaiting
  <2>2. dying = NoThread
    BY <2>1, NoneDies DEF QueueInv
  <2>3. Woken' = Woken /\ Posting' = Posting /\ Entering' = Entering /\ Leaving' = Leaving
    BY <2>1 DEF Woken, Posting, Entering, Leaving
  <2>4. Range(notempty) \subseteq Threads /\ Range(notfull) \subseteq Threads
    BY ListsFinite DEF WaitInv
  <2>5. NoMessageMissed' /\ NoRoomMissed'
    BY <1>1, <2>1, <2>2, <2>3, <2>4, MissedKept
  <2>6. DyingWaits'
    BY <2>1 DEF DyingWaits
  <2> QED BY <2>5, <2>6 DEF MissedInv
<1>5. ASSUME NEW t \in Threads, Removed(t)
      PROVE  MissedInv'
  <2>1. /\ notfull' = RemoveFirst(notfull, t) /\ notempty' = RemoveFirst(notempty, t)
        /\ state' = [state EXCEPT ![t] = "idle"] /\ errno' = errno \ {t}
        /\ dying = t /\ dying' = NoThread /\ nmsgs' = nmsgs
    BY <1>5 DEF Removed, queue
  <2>2. Range(notfull') = Range(notfull) \ {t} /\ Range(notempty') = Range(notempty) \ {t}
    BY <2>1, RemoveFirstRange DEF WaitInv, Lists
  <2>3. state[t] \in Blocked
    BY <1>1, <2>1 DEF MissedInv, DyingWaits
  <2>4. \A u \in Threads : u # t => state'[u] = state[u] /\ (u \in errno' <=> u \in errno)
    BY <2>1 DEF QueueInv, Types
  <2>5. t \notin Woken /\ t \notin Posting /\ t \notin Entering /\ t \notin Leaving
    BY <2>3 DEF Woken, Posting, Entering, Leaving, Blocked
  <2>6. Senders \subseteq Threads /\ Receivers \subseteq Threads
    BY DEF Threads
  <2>7. Woken \subseteq Woken' /\ Posting \subseteq Posting'
    BY <2>4, <2>5, <2>6 DEF Woken, Posting
  <2>8. Entering \subseteq Entering' /\ Leaving \subseteq Leaving'
    BY <2>4, <2>5, <2>6 DEF Entering, Leaving
  <2>9. NoMessageMissed' /\ NoRoomMissed'
    BY <2>1, <2>2, <2>7, <2>8, MissedKept
  <2>10. DyingWaits'
    BY <2>1 DEF DyingWaits
  <2> QED BY <2>9, <2>10 DEF MissedInv
<1>6. ASSUME NEW t \in Threads, mq_notify(t)
      PROVE  MissedInv'
  <2>1. UNCHANGED <<notfull, notempty, errno, state, dying, nmsgs>>
    BY <1>6 DEF mq_notify, queue, waits
  <2>2. Woken' = Woken /\ Posting' = Posting /\ Entering' = Entering /\ Leaving' = Leaving
    BY <2>1 DEF Woken, Posting, Entering, Leaving
  <2> QED BY <2>1, <2>2, MissedKept DEF MissedInv, DyingWaits
<1>7. ASSUME NEW p \in HandlerPrios, HandlerSends(p)
      PROVE  MissedInv'
  <2>1. dying' = NoThread
    BY <1>7 DEF HandlerSends, Quiet
  <2> QED BY <1>7, <2>1, HandlerAnswers DEF MissedInv, DyingWaits
<1> QED BY <1>3, <1>4, <1>5, <1>6, <1>7

\* Every step answers the messages and the room.
LEMMA MissedStep == Quiet /\ KilledWaiting /\ QueueInv /\ WaitInv /\ MissedInv /\ [Next]_vars => MissedInv'
<1> SUFFICES ASSUME Quiet, KilledWaiting, QueueInv, WaitInv, MissedInv, [Next]_vars
             PROVE  MissedInv'
  OBVIOUS
<1>1. CASE \E t \in Senders : Send(t) \/ SendContinues(t)
  BY <1>1, SenderAnswers
<1>2. CASE \E t \in Receivers : Receive(t) \/ ReceiveContinues(t)
  BY <1>2, ReceiverAnswers
<1>3. CASE \E t \in Threads : Timeout(t) \/ Signal(t) \/ mq_recover(t) \/ Removed(t)
  BY <1>3, OtherAnswers
<1>4. CASE \E t \in Notified : mq_notify(t)
  <2>1. Notified \subseteq Threads
    BY ConstantsAssumption DEF ConstantsAssumption
  <2> QED BY <1>4, <2>1, OtherAnswers
<1>5. CASE \E p \in HandlerPrios : HandlerSends(p)
  BY <1>5, OtherAnswers
<1>6. CASE UNCHANGED vars
  <2>1. UNCHANGED <<notfull, notempty, errno, state, dying, nmsgs>>
    BY <1>6 DEF vars
  <2>2. Woken' = Woken /\ Posting' = Posting /\ Entering' = Entering /\ Leaving' = Leaving
    BY <2>1 DEF Woken, Posting, Entering, Leaving
  <2> QED BY <2>1, <2>2, MissedKept DEF MissedInv, DyingWaits
<1> QED BY <1>1, <1>2, <1>3, <1>4, <1>5, <1>6 DEF Next

\* Messages and room are answered in every reachable state.
THEOREM MissedInvariance == ASSUME Quiet, KilledWaiting PROVE Spec => []MissedInv
<1>1. Init => MissedInv
  <2> SUFFICES ASSUME Init PROVE MissedInv
    OBVIOUS
  <2>1. notfull = <<>> /\ notempty = <<>> /\ notfull \in Seq(Senders) /\ notempty \in Seq(Receivers)
    BY DEF Init
  <2>2. Range(notfull) = {} /\ Range(notempty) = {} /\ dying = NoThread
    BY <2>1, RangeIs DEF Init
  <2> QED BY <2>2 DEF MissedInv, DyingWaits, NoMessageMissed, NoRoomMissed
<1> QED BY <1>1, Quiet, KilledWaiting, MissedStep, QueueInvariance, WaitInvariance, PTL DEF Spec

\* No message lies in the queue while a receiver sleeps, unless as many receivers are woken
\* or about to be: mq_dosend and mq_receive lose no wake-up.
THEOREM NoMessageLost == ASSUME Quiet, KilledWaiting PROVE Spec => []NoMessageMissed
<1>1. MissedInv => NoMessageMissed
  BY DEF MissedInv
<1> QED BY <1>1, Quiet, KilledWaiting, MissedInvariance, PTL

\* The queue has no room while a sender sleeps, unless as many senders are woken or sending
\* or about to be woken: mq_doreceive and mq_send lose no wake-up.
THEOREM NoRoomLost == ASSUME Quiet, KilledWaiting PROVE Spec => []NoRoomMissed
<1>1. MissedInv => NoRoomMissed
  BY DEF MissedInv
<1> QED BY <1>1, Quiet, KilledWaiting, MissedInvariance, PTL
=============================================================================
