-------------------------- MODULE WorkQueueProofs --------------------------
(***************************************************************************)
(* The proofs about WorkQueue.                                             *)
(*                                                                         *)
(* First the list: an insertion at the place that work_qqueue finds, a     *)
(* removal anywhere and the passing of time keep it sorted by delay and,   *)
(* among works of one delay, by age.  Then the inductive invariant IInv,   *)
(* with a lemma for each action that also shows it to be a step of         *)
(* WorkSpec or a stuttering one; the theorems follow.                      *)
(***************************************************************************)
EXTENDS WorkQueue, SequenceTheorems, TLAPS

-----------------------------------------------------------------------------
(* The list s of the works in W, with the delays d and the ages g.         *)

Listed(s, W) ==
  /\ \A i \in 1 .. Len(s) : s[i] \in W
  /\ \A w \in W : \E i \in 1 .. Len(s) : s[i] = w
Once(s) == \A i, j \in 1 .. Len(s) : s[i] = s[j] => i = j
Ordered(s, d, g) ==
  \A i, j \in 1 .. Len(s) : i < j =>
    d[s[i]] <= d[s[j]] /\ (d[s[i]] = d[s[j]] => g[s[i]] >= g[s[j]])

WorkList(s, W, d, g) ==
  /\ s \in Seq(Works)
  /\ W \in SUBSET Works
  /\ d \in [Works -> Nat]
  /\ g \in [Works -> Nat]
  /\ Listed(s, W)
  /\ Once(s)
  /\ Ordered(s, d, g)

\* The sequence t is s with w inserted at position i.
Inserted(s, t, i, w) ==
  /\ t \in Seq(Works)
  /\ Len(t) = Len(s) + 1
  /\ \A j \in 1 .. Len(t) : t[j] = IF j < i THEN s[j] ELSE IF j = i THEN w ELSE s[j - 1]

\* The sequence t is s without its element at position i.
Removed(s, t, i) ==
  /\ t \in Seq(Works)
  /\ Len(t) = Len(s) - 1
  /\ \A j \in 1 .. Len(t) : t[j] = IF j < i THEN s[j] ELSE s[j + 1]

\* The links that work_qqueue sets insert the work at position i.
LEMMA InsertIndex ==
  ASSUME NEW s \in Seq(Works), NEW i \in 1 .. Len(s) + 1, NEW w \in Works
  PROVE  Inserted(s, SubSeq(s, 1, i - 1) \o <<w>> \o SubSeq(s, i, Len(s)), i, w)
<1> DEFINE a == SubSeq(s, 1, i - 1)
           b == SubSeq(s, i, Len(s))
<1>1. a \in Seq(Works) /\ Len(a) = i - 1 /\ \A j \in 1 .. i - 1 : a[j] = s[j]
  OBVIOUS
<1>2. b \in Seq(Works) /\ Len(b) = Len(s) - i + 1 /\ \A j \in 1 .. Len(s) - i + 1 : b[j] = s[j + i - 1]
  OBVIOUS
<1> HIDE DEF a, b
<1> DEFINE c == a \o <<w>>
<1>3. c \in Seq(Works) /\ Len(c) = i /\ \A j \in 1 .. i : c[j] = IF j < i THEN s[j] ELSE w
  BY <1>1
<1> HIDE DEF c
<1>4. \A j \in 1 .. Len(s) + 1 : (c \o b)[j] = IF j < i THEN s[j] ELSE IF j = i THEN w ELSE s[j - 1]
  <2> SUFFICES ASSUME NEW j \in 1 .. Len(s) + 1
               PROVE  (c \o b)[j] = IF j < i THEN s[j] ELSE IF j = i THEN w ELSE s[j - 1]
    OBVIOUS
  <2>1. j <= i => (c \o b)[j] = c[j] /\ j \in 1 .. i
    BY <1>2, <1>3
  <2>2. j > i => (c \o b)[j] = b[j - i] /\ j - i \in 1 .. Len(s) - i + 1 /\ (j - i) + i - 1 = j - 1
    BY <1>2, <1>3
  <2> QED BY <1>2, <1>3, <2>1, <2>2
<1>5. c \o b \in Seq(Works) /\ Len(c \o b) = Len(s) + 1
  <2>1. c \o b \in Seq(Works) /\ Len(c \o b) = Len(c) + Len(b)
    BY <1>2, <1>3, ConcatProperties
  <2>2. i + (Len(s) - i + 1) = Len(s) + 1
    OBVIOUS
  <2> QED BY <1>2, <1>3, <2>1, <2>2
<1>6. Inserted(s, c \o b, i, w)
  BY <1>4, <1>5 DEF Inserted
<1> QED BY <1>6 DEF a, b, c

\* The links that work_qcancel sets remove the element at position i.
LEMMA RemoveIndex ==
  ASSUME NEW s \in Seq(Works), NEW i \in 1 .. Len(s)
  PROVE  Removed(s, SubSeq(s, 1, i - 1) \o SubSeq(s, i + 1, Len(s)), i)
<1> DEFINE a == SubSeq(s, 1, i - 1)
           b == SubSeq(s, i + 1, Len(s))
<1>1. a \in Seq(Works) /\ Len(a) = i - 1 /\ \A j \in 1 .. i - 1 : a[j] = s[j]
  OBVIOUS
<1>2. b \in Seq(Works) /\ Len(b) = Len(s) - i /\ \A j \in 1 .. Len(s) - i : b[j] = s[j + i]
  OBVIOUS
<1> HIDE DEF a, b
<1>3. \A j \in 1 .. Len(s) - 1 : (a \o b)[j] = IF j < i THEN s[j] ELSE s[j + 1]
  BY <1>1, <1>2
<1>4. a \o b \in Seq(Works) /\ Len(a \o b) = Len(s) - 1
  <2>1. a \o b \in Seq(Works) /\ Len(a \o b) = Len(a) + Len(b)
    BY <1>1, <1>2, ConcatProperties
  <2> QED BY <1>1, <1>2, <2>1
<1>5. Removed(s, a \o b, i)
  BY <1>3, <1>4 DEF Removed
<1> QED BY <1>5 DEF a, b

\* Taking the head off, as work_process does, removes the first element.
LEMMA TailRemoves ==
  ASSUME NEW s \in Seq(Works), s # <<>>
  PROVE  1 \in 1 .. Len(s) /\ Head(s) = s[1] /\ Removed(s, Tail(s), 1)
BY DEF Removed

\* Without one of its elements the list still holds none twice.
LEMMA RemovedOnce ==
  ASSUME NEW s \in Seq(Works), NEW t, NEW i \in 1 .. Len(s), Removed(s, t, i), Once(s)
  PROVE  Once(t) /\ \A j \in 1 .. Len(t) : t[j] # s[i]
<1>1. Len(t) = Len(s) - 1 /\ Len(s) \in Nat
  BY DEF Removed
<1>2. \A p \in 1 .. Len(t) : \E m \in 1 .. Len(s) :
        t[p] = s[m] /\ m # i /\ p = IF m < i THEN m ELSE m - 1
  <2> SUFFICES ASSUME NEW p \in 1 .. Len(t)
               PROVE  \E m \in 1 .. Len(s) : t[p] = s[m] /\ m # i /\ p = IF m < i THEN m ELSE m - 1
    OBVIOUS
  <2>1. CASE p < i
    BY <1>1, <2>1 DEF Removed
  <2>2. CASE ~ (p < i)
    <3>1. t[p] = s[p + 1] /\ p + 1 \in 1 .. Len(s) /\ p + 1 # i /\ ~ (p + 1 < i) /\ p = (p + 1) - 1
      BY <1>1, <2>2 DEF Removed
    <3> QED BY <3>1
  <2> QED BY <2>1, <2>2
<1>3. ASSUME NEW j \in 1 .. Len(t), NEW k \in 1 .. Len(t), t[j] = t[k]
      PROVE  j = k
  <2>1. PICK m \in 1 .. Len(s) : t[j] = s[m] /\ j = IF m < i THEN m ELSE m - 1
    BY <1>2
  <2>2. PICK n \in 1 .. Len(s) : t[k] = s[n] /\ k = IF n < i THEN n ELSE n - 1
    BY <1>2
  <2>3. m = n
    BY <1>3, <2>1, <2>2 DEF Once
  <2> QED BY <2>1, <2>2, <2>3
<1>4. ASSUME NEW j \in 1 .. Len(t)
      PROVE  t[j] # s[i]
  <2>1. PICK m \in 1 .. Len(s) : t[j] = s[m] /\ m # i
    BY <1>2
  <2> QED BY <2>1 DEF Once
<1> QED BY <1>3, <1>4 DEF Once

\* Without one of its elements the list is still in order.
LEMMA RemovedOrdered ==
  ASSUME NEW s \in Seq(Works), NEW t, NEW i \in 1 .. Len(s), Removed(s, t, i),
         NEW d, NEW g, Ordered(s, d, g)
  PROVE  Ordered(t, d, g)
<1> SUFFICES ASSUME NEW j \in 1 .. Len(t), NEW k \in 1 .. Len(t), j < k
             PROVE  d[t[j]] <= d[t[k]] /\ (d[t[j]] = d[t[k]] => g[t[j]] >= g[t[k]])
  BY DEF Ordered
<1>1. PICK m, n \in 1 .. Len(s) : t[j] = s[m] /\ t[k] = s[n] /\ m < n
  <2>1. Len(t) = Len(s) - 1 /\ Len(s) \in Nat
    BY DEF Removed
  <2>2. \A p \in 1 .. Len(t) : \E m \in 1 .. Len(s) : t[p] = s[m] /\ m = IF p < i THEN p ELSE p + 1
    BY <2>1 DEF Removed
  <2> QED BY <2>1, <2>2
<1> QED BY <1>1 DEF Ordered

\* With a work that was not in it the list still holds none twice.
LEMMA InsertedOnce ==
  ASSUME NEW s \in Seq(Works), NEW t, NEW i \in 1 .. Len(s) + 1, NEW w, Inserted(s, t, i, w),
         Once(s), \A j \in 1 .. Len(s) : s[j] # w
  PROVE  Once(t)
<1>1. \A j \in 1 .. Len(t) : /\ j < i => j \in 1 .. Len(s) /\ t[j] = s[j]
                             /\ j = i => t[j] = w
                             /\ j > i => j - 1 \in 1 .. Len(s) /\ t[j] = s[j - 1]
  BY DEF Inserted
<1> SUFFICES ASSUME NEW j \in 1 .. Len(t), NEW k \in 1 .. Len(t), j < k, t[j] = t[k]
             PROVE  FALSE
  BY DEF Once, Inserted
<1>2. CASE k < i
  BY <1>1, <1>2 DEF Once
<1>3. CASE k = i
  BY <1>1, <1>3
<1>4. CASE k > i /\ j = i
  BY <1>1, <1>4
<1>5. CASE k > i /\ j < i
  <2>1. k - 1 \in 1 .. Len(s) /\ j \in 1 .. Len(s) /\ s[j] = s[k - 1] /\ j # k - 1
    BY <1>1, <1>5
  <2> QED BY <2>1 DEF Once
<1>6. CASE k > i /\ j > i
  <2>1. k - 1 \in 1 .. Len(s) /\ j - 1 \in 1 .. Len(s) /\ s[j - 1] = s[k - 1] /\ j - 1 # k - 1
    BY <1>1, <1>6
  <2> QED BY <2>1 DEF Once
<1> QED BY <1>2, <1>3, <1>4, <1>5, <1>6

\* A removal keeps the list: the other works are in it, once each, in order.
LEMMA RemovalKeepsList ==
  ASSUME NEW s, NEW W, NEW d, NEW g, WorkList(s, W, d, g),
         NEW i \in 1 .. Len(s), NEW t, Removed(s, t, i)
  PROVE  WorkList(t, W \ {s[i]}, d, g)
<1>1. /\ s \in Seq(Works) /\ W \in SUBSET Works /\ d \in [Works -> Nat] /\ g \in [Works -> Nat]
      /\ Listed(s, W) /\ Once(s) /\ Ordered(s, d, g)
  BY DEF WorkList
<1>2. t \in Seq(Works) /\ Len(t) = Len(s) - 1 /\ Len(s) \in Nat
  BY <1>1 DEF Removed
<1>3. \A j \in 1 .. Len(t) : /\ j < i => j \in 1 .. Len(s) /\ t[j] = s[j]
                             /\ j >= i => j + 1 \in 1 .. Len(s) /\ t[j] = s[j + 1]
  BY <1>2 DEF Removed
<1>4. Once(t) /\ \A j \in 1 .. Len(t) : t[j] # s[i]
  BY <1>1, RemovedOnce
<1>5. Ordered(t, d, g)
  BY <1>1, RemovedOrdered
<1>6. Listed(t, W \ {s[i]})
  <2>1. \A j \in 1 .. Len(t) : t[j] \in W \ {s[i]}
    <3>1. \A j \in 1 .. Len(t) : \E k \in 1 .. Len(s) : t[j] = s[k]
      BY <1>2 DEF Removed
    <3>2. \A j \in 1 .. Len(t) : t[j] \in W
      BY <1>1, <3>1 DEF Listed
    <3> QED BY <1>4, <3>2
  <2>2. ASSUME NEW w \in W \ {s[i]} PROVE \E j \in 1 .. Len(t) : t[j] = w
    <3>1. PICK k \in 1 .. Len(s) : s[k] = w
      BY <1>1 DEF Listed
    <3>2. CASE k < i
      <4>1. k \in 1 .. Len(t) /\ t[k] = w
        BY <1>2, <3>1, <3>2 DEF Removed
      <4> QED BY <4>1
    <3>3. CASE k > i
      <4>1. k - 1 \in 1 .. Len(t) /\ t[k - 1] = w
        BY <1>2, <3>1, <3>3 DEF Removed
      <4> QED BY <4>1
    <3> QED BY <3>1, <3>2, <3>3
  <2> QED BY <2>1, <2>2 DEF Listed
<1> QED BY <1>1, <1>2, <1>4, <1>5, <1>6 DEF WorkList

\* The place of a work with delay n in the list s.
PlaceIn(s, d, n, i) ==
  /\ \A k \in 1 .. i - 1 : d[s[k]] <= n
  /\ i <= Len(s) => d[s[i]] > n

\* An insertion before the first work with a longer delay keeps the list.
LEMMA InsertionKeepsList ==
  ASSUME NEW s, NEW W, NEW d, NEW g, WorkList(s, W, d, g),
         NEW w \in Works \ W, NEW n \in Nat, NEW i \in 1 .. Len(s) + 1, PlaceIn(s, d, n, i),
         NEW t, Inserted(s, t, i, w)
  PROVE  WorkList(t, W \union {w}, [d EXCEPT ![w] = n], [g EXCEPT ![w] = 0])
<1> DEFINE e == [d EXCEPT ![w] = n]
           h == [g EXCEPT ![w] = 0]
<1>1. /\ s \in Seq(Works) /\ W \in SUBSET Works /\ d \in [Works -> Nat] /\ g \in [Works -> Nat]
      /\ Listed(s, W) /\ Once(s) /\ Ordered(s, d, g)
  BY DEF WorkList
<1>2. t \in Seq(Works) /\ Len(t) = Len(s) + 1 /\ Len(s) \in Nat
  BY <1>1 DEF Inserted
<1>3. \A j \in 1 .. Len(t) : /\ j < i => j \in 1 .. Len(s) /\ t[j] = s[j]
                             /\ j = i => t[j] = w
                             /\ j > i => j - 1 \in 1 .. Len(s) /\ t[j] = s[j - 1]
  BY <1>2 DEF Inserted
<1>4. \A j \in 1 .. Len(s) : s[j] \in W /\ s[j] # w /\ s[j] \in Works
  BY <1>1 DEF Listed
<1>5. e \in [Works -> Nat] /\ h \in [Works -> Nat] /\ e[w] = n /\ h[w] = 0
  BY <1>1
<1>6. \A j \in 1 .. Len(s) : e[s[j]] = d[s[j]] /\ h[s[j]] = g[s[j]] /\ d[s[j]] \in Nat /\ g[s[j]] \in Nat
  BY <1>1, <1>4
<1> HIDE DEF e, h
<1>7. Once(t)
  BY <1>1, <1>4, InsertedOnce
<1>8. Listed(t, W \union {w})
  <2>1. ASSUME NEW j \in 1 .. Len(t) PROVE t[j] \in W \union {w}
    <3>1. CASE j < i
      BY <1>3, <1>4, <3>1
    <3>2. CASE j = i
      BY <1>3, <3>2
    <3>3. CASE j > i
      BY <1>3, <1>4, <3>3
    <3>4. j \in Int /\ i \in Int
      BY <1>2
    <3> QED BY <3>1, <3>2, <3>3, <3>4
  <2>2. ASSUME NEW v \in W \union {w} PROVE \E j \in 1 .. Len(t) : t[j] = v
    <3>1. CASE v = w
      <4>1. i \in 1 .. Len(t)
        BY <1>2
      <4> QED BY <1>3, <3>1, <4>1
    <3>2. CASE v \in W
      <4>1. PICK k \in 1 .. Len(s) : s[k] = v
        BY <1>1, <3>2 DEF Listed
      <4>2. CASE k < i
        <5>1. k \in 1 .. Len(t) /\ t[k] = v
          BY <1>2, <4>1, <4>2 DEF Inserted
        <5> QED BY <5>1
      <4>3. CASE k >= i
        <5>1. k + 1 \in 1 .. Len(t) /\ t[k + 1] = v
          BY <1>2, <4>1, <4>3 DEF Inserted
        <5> QED BY <5>1
      <4> QED BY <4>2, <4>3
    <3> QED BY <3>1, <3>2
  <2> QED BY <2>1, <2>2 DEF Listed
<1>9. Ordered(t, e, h)
  <2>1. \A k \in 1 .. Len(s) : /\ k < i => d[s[k]] <= n
                               /\ k >= i => d[s[k]] > n
    <3> SUFFICES ASSUME NEW k \in 1 .. Len(s), k >= i PROVE d[s[k]] > n
      BY <1>2 DEF PlaceIn
    <3>1. i \in 1 .. Len(s) /\ d[s[i]] > n
      BY <1>2 DEF PlaceIn
    <3>2. k = i \/ d[s[i]] <= d[s[k]]
      BY <1>1, <3>1 DEF Ordered
    <3> QED BY <1>6, <3>1, <3>2
  <2> SUFFICES ASSUME NEW j \in 1 .. Len(t), NEW k \in 1 .. Len(t), j < k
               PROVE  e[t[j]] <= e[t[k]] /\ (e[t[j]] = e[t[k]] => h[t[j]] >= h[t[k]])
    BY DEF Ordered
  <2>2. CASE k < i
    <3>1. j \in 1 .. Len(s) /\ k \in 1 .. Len(s) /\ t[j] = s[j] /\ t[k] = s[k]
      BY <1>2, <1>3, <2>2
    <3> QED BY <1>1, <1>6, <3>1 DEF Ordered
  <2>3. CASE k = i
    <3>1. j \in 1 .. Len(s) /\ t[j] = s[j] /\ t[k] = w /\ j < i
      BY <1>2, <1>3, <2>3
    <3> QED BY <1>5, <1>6, <2>1, <3>1
  <2>4. CASE k > i /\ j = i
    <3>1. k - 1 \in 1 .. Len(s) /\ t[k] = s[k - 1] /\ t[j] = w /\ k - 1 >= i
      BY <1>2, <1>3, <2>4
    <3> QED BY <1>5, <1>6, <2>1, <3>1
  <2>5. CASE k > i /\ j # i
    <3>1. PICK p, r \in 1 .. Len(s) : t[j] = s[p] /\ t[k] = s[r] /\ p < r
      <4>1. k - 1 \in 1 .. Len(s) /\ t[k] = s[k - 1]
        BY <1>2, <1>3, <2>5
      <4>2. CASE j < i
        <5>1. j \in 1 .. Len(s) /\ t[j] = s[j] /\ j < k - 1
          BY <1>2, <1>3, <2>5, <4>2
        <5> QED BY <4>1, <5>1
      <4>3. CASE j > i
        <5>1. j - 1 \in 1 .. Len(s) /\ t[j] = s[j - 1] /\ j - 1 < k - 1
          BY <1>2, <1>3, <2>5, <4>3
        <5> QED BY <4>1, <5>1
      <4> QED BY <1>2, <2>5, <4>2, <4>3
    <3>2. d[s[p]] <= d[s[r]] /\ (d[s[p]] = d[s[r]] => g[s[p]] >= g[s[r]])
      BY <1>1, <3>1 DEF Ordered
    <3>3. e[s[p]] = d[s[p]] /\ h[s[p]] = g[s[p]] /\ e[s[r]] = d[s[r]] /\ h[s[r]] = g[s[r]]
      BY <1>6
    <3> QED BY <3>1, <3>2, <3>3
  <2> QED BY <1>2, <2>2, <2>3, <2>4, <2>5
<1> QED BY <1>1, <1>2, <1>5, <1>7, <1>8, <1>9 DEF WorkList, e, h

\* Time passes for all works alike, up to their delays, so the order stays.
LEMMA TickKeepsList ==
  ASSUME NEW s, NEW W, NEW d, NEW g, WorkList(s, W, d, g)
  PROVE  WorkList(s, W, d, [w \in Works |-> Min(g[w] + 1, d[w])])
<1> DEFINE h == [w \in Works |-> Min(g[w] + 1, d[w])]
<1>1. /\ s \in Seq(Works) /\ W \in SUBSET Works /\ d \in [Works -> Nat] /\ g \in [Works -> Nat]
      /\ Listed(s, W) /\ Once(s) /\ Ordered(s, d, g)
  BY DEF WorkList
<1>2. h \in [Works -> Nat]
  BY <1>1 DEF Min
<1>3. Ordered(s, d, h)
  <2>1. \A j \in 1 .. Len(s) : s[j] \in Works
    BY <1>1
  <2>2. \A w \in Works : d[w] \in Nat /\ g[w] \in Nat /\ h[w] = Min(g[w] + 1, d[w])
    BY <1>1
  <2>3. ASSUME NEW v \in Works, NEW w \in Works,
               d[v] <= d[w] /\ (d[v] = d[w] => g[v] >= g[w])
        PROVE  d[v] <= d[w] /\ (d[v] = d[w] => h[v] >= h[w])
    BY <2>2, <2>3 DEF Min
  <2> HIDE DEF h
  <2> SUFFICES ASSUME NEW i \in 1 .. Len(s), NEW j \in 1 .. Len(s), i < j
               PROVE  d[s[i]] <= d[s[j]] /\ (d[s[i]] = d[s[j]] => h[s[i]] >= h[s[j]])
    BY DEF Ordered
  <2>4. s[i] \in Works /\ s[j] \in Works
    BY <2>1
  <2>5. d[s[i]] <= d[s[j]] /\ (d[s[i]] = d[s[j]] => g[s[i]] >= g[s[j]])
    BY <1>1 DEF Ordered
  <2> QED BY <2>3, <2>4, <2>5
<1> QED BY <1>1, <1>2, <1>3 DEF WorkList

-----------------------------------------------------------------------------
(* The inductive invariant.                                                *)

\* The age of a work stops at its delay, and a work in the list has a delay
\* that some client uses.
Times ==
  /\ \A w \in Works : age[w] <= delay[w]
  /\ \A w \in worker : delay[w] \in Delays

WorkerOK ==
  /\ pc \in {"loop", "run", "again", "wait", "sleep"}
  /\ running \in Works \union {NoWork}
  /\ pc = "run" <=> running # NoWork
  /\ left \in Nat
  /\ pc = "sleep" => left > 0
  /\ polled \in Nat
  /\ caller \in [Callers -> {"idle", "queued"}]

\* The worker sleeps no longer than until the delay of an urgent work is over.
SleepInTime ==
  pc = "sleep" /\ ~SignalComing =>
    \A i \in DOMAIN q : Urgent(q[i]) => left + age[q[i]] <= delay[q[i]]

IInv ==
  /\ WorkList(q, worker, delay, age)
  /\ Times
  /\ WorkerOK
  /\ NoLostWakeup
  /\ SleepInTime

\* The state of WorkSpec that WorkQueue implements.
Due == [w \in Works |-> IF w \in worker THEN delay[w] - age[w] ELSE NotQueued]

Good == IInv' /\ [Abs!Next]_<<Due, running>>

\* The invariant holds at the start.
LEMMA InitIInv == Init => IInv
<1> SUFFICES ASSUME Init PROVE IInv
  OBVIOUS
<1>1. WorkList(q, worker, delay, age)
  BY DEF Init, WorkList, Listed, Once, Ordered
<1> QED BY <1>1, ConstantsAssumption
        DEF Init, IInv, Times, WorkerOK, NoLostWakeup, SleepInTime, ConstantsAssumption

\* The facts about the list and the works that the steps need.
LEMMA Facts ==
  ASSUME IInv
  PROVE  /\ q \in Seq(Works) /\ worker \in SUBSET Works
         /\ delay \in [Works -> Nat] /\ age \in [Works -> Nat]
         /\ DOMAIN q = 1 .. Len(q) /\ Len(q) \in Nat
         /\ \A i \in DOMAIN q : q[i] \in worker /\ q[i] \in Works
         /\ \A w \in worker : InQueue(w)
         /\ \A w \in Works : Due[w] = (IF w \in worker THEN delay[w] - age[w] ELSE NotQueued)
         /\ \A w \in worker : Due[w] \in Nat /\ Due[w] # NotQueued
<1>1. /\ q \in Seq(Works) /\ worker \in SUBSET Works
      /\ delay \in [Works -> Nat] /\ age \in [Works -> Nat] /\ Listed(q, worker)
  BY DEF IInv, WorkList
<1>2. DOMAIN q = 1 .. Len(q) /\ Len(q) \in Nat
  BY <1>1
<1>3. \A i \in DOMAIN q : q[i] \in worker /\ q[i] \in Works
  BY <1>1, <1>2 DEF Listed
<1>4. \A w \in worker : InQueue(w)
  BY <1>1, <1>2 DEF Listed, InQueue
<1>5. \A w \in Works : Due[w] = (IF w \in worker THEN delay[w] - age[w] ELSE NotQueued)
  BY DEF Due
<1>6. \A w \in worker : Due[w] \in Nat
  <2> SUFFICES ASSUME NEW w \in worker PROVE Due[w] \in Nat
    OBVIOUS
  <2>1. w \in Works /\ delay[w] \in Nat /\ age[w] \in Nat /\ age[w] <= delay[w]
    BY <1>1 DEF IInv, Times
  <2> QED BY <1>5, <2>1
<1>7. \A w \in worker : Due[w] # NotQueued
  BY <1>6, ConstantsAssumption DEF ConstantsAssumption
<1> QED BY <1>1, <1>2, <1>3, <1>4, <1>5, <1>6, <1>7

\* work_qqueue keeps the list and is a Queue step of WorkSpec.
LEMMA QueueEffect ==
  ASSUME IInv, NEW w \in Works, NEW d \in Delays, work_qqueue(w, d)
  PROVE  /\ WorkList(q, worker, delay, age)' /\ Times'
         /\ w \notin worker /\ worker' = worker \union {w}
         /\ Due[w] = NotQueued /\ Due' = [Due EXCEPT ![w] = d]
<1>1. w \notin worker
  BY Facts DEF work_qqueue
<1>2. d \in Nat
  BY ConstantsAssumption DEF ConstantsAssumption
<1>3. PICK i \in 1 .. Len(q) + 1 :
        Place(d, i) /\ q' = SubSeq(q, 1, i - 1) \o <<w>> \o SubSeq(q, i, Len(q))
  BY DEF work_qqueue
<1>4. PlaceIn(q, delay, d, i)
  BY <1>3 DEF Place, PlaceIn
<1>5. Inserted(q, q', i, w)
  BY <1>3, Facts, InsertIndex
<1>6. worker' = worker \union {w} /\ delay' = [delay EXCEPT ![w] = d] /\ age' = [age EXCEPT ![w] = 0]
  BY DEF work_qqueue
<1>7. WorkList(q', worker', delay', age')
  BY <1>1, <1>2, <1>4, <1>5, <1>6, InsertionKeepsList DEF IInv
<1>8. Times'
  BY <1>2, <1>6, Facts DEF IInv, Times
<1>9. Due[w] = NotQueued
  BY <1>1, Facts
<1>10. Due' = [Due EXCEPT ![w] = d]
  <2>1. Due' = [v \in Works |-> IF v \in worker' THEN delay'[v] - age'[v] ELSE NotQueued]
    BY DEF Due
  <2>2. \A v \in Works : Due'[v] = IF v = w THEN d ELSE Due[v]
    BY <1>2, <1>6, <2>1, Facts
  <2> QED BY <2>1, <2>2 DEF Due
<1> QED BY <1>1, <1>6, <1>7, <1>8, <1>9, <1>10

\* A step that queues w is a step of WorkSpec.
LEMMA QueueIsAbstract ==
  ASSUME NEW w \in Works, NEW d \in Delays, Due[w] = NotQueued, Due' = [Due EXCEPT ![w] = d],
         running' = running
  PROVE  Abs!Next
BY DEF Abs!Next, Abs!Queue, Due

\* A thread that has queued work owes the worker a signal.
LEMMA QueueFirstStep ==
  ASSUME IInv, NEW c \in Callers, NEW w \in Works, NEW d \in Delays, QueueFirst(c, w, d)
  PROVE  Good
<1>1. work_qqueue(w, d) /\ caller' = [caller EXCEPT ![c] = "queued"] /\ UNCHANGED workerVars
  BY DEF QueueFirst
<1>2. SignalComing'
  BY <1>1 DEF SignalComing, IInv, WorkerOK
<1>3. WorkerOK'
  BY <1>1 DEF IInv, WorkerOK, workerVars
<1>4. NoLostWakeup' /\ SleepInTime'
  BY <1>2 DEF NoLostWakeup, SleepInTime
<1>5. Abs!Next
  BY <1>1, QueueEffect, QueueIsAbstract DEF workerVars
<1> QED BY <1>1, <1>3, <1>4, <1>5, QueueEffect DEF Good, IInv

\* After a signal the worker neither waits nor sleeps.
LEMMA SignalEffect ==
  ASSUME IInv, work_signal, caller' \in [Callers -> {"idle", "queued"}]
  PROVE  WorkerOK' /\ NoLostWakeup' /\ SleepInTime' /\ running' = running
<1>1. pc' \in {"loop", "run", "again"} /\ running' = running /\ polled' = polled
  BY DEF work_signal, IInv, WorkerOK
<1>2. left' \in Nat /\ (pc' = "run" <=> pc = "run")
  BY DEF work_signal, IInv, WorkerOK
<1>3. WorkerOK'
  BY <1>1, <1>2 DEF IInv, WorkerOK
<1> QED BY <1>1, <1>3 DEF NoLostWakeup, SleepInTime

\* The second half of work_queue changes nothing for the clients.
LEMMA QueueSecondStep ==
  ASSUME IInv, NEW c \in Callers, QueueSecond(c) PROVE Good
<1>1. work_signal /\ UNCHANGED clientVars /\ caller' \in [Callers -> {"idle", "queued"}]
  BY DEF QueueSecond, IInv, WorkerOK
<1>2. UNCHANGED Due
  BY <1>1 DEF Due, clientVars
<1>3. WorkList(q, worker, delay, age)' /\ Times'
  BY <1>1 DEF clientVars, IInv, Times
<1> QED BY <1>1, <1>2, <1>3, SignalEffect DEF Good, IInv

\* Handlers, and the work that runs, queue and signal in one step.
LEMMA QueueSignalStep ==
  ASSUME IInv, NEW w \in Works, NEW d \in Delays, work_qqueue(w, d), work_signal, UNCHANGED caller
  PROVE  Good
<1>1. WorkerOK' /\ NoLostWakeup' /\ SleepInTime' /\ running' = running
  BY SignalEffect DEF IInv, WorkerOK
<1>2. Abs!Next
  BY <1>1, QueueEffect, QueueIsAbstract
<1> QED BY <1>1, <1>2, QueueEffect DEF Good, IInv

\* Taking w off the list: what remains is a list, and every work in it was there.
LEMMA RemoveEffect ==
  ASSUME IInv, NEW i \in DOMAIN q, NEW w, q[i] = w, Removed(q, q', i), worker' = worker \ {w},
         UNCHANGED <<delay, age>>
  PROVE  /\ WorkList(q, worker, delay, age)' /\ Times'
         /\ w \in worker /\ w \in Works /\ Due[w] # NotQueued /\ Due' = [Due EXCEPT ![w] = NotQueued]
         /\ \A j \in DOMAIN q' : \E k \in DOMAIN q : q'[j] = q[k]
<1>1. w \in worker /\ w \in Works /\ Due[w] # NotQueued
  BY Facts
<1>2. WorkList(q', worker', delay', age')
  BY Facts, RemovalKeepsList DEF IInv
<1>3. Times'
  BY DEF IInv, Times
<1>4. Due' = [Due EXCEPT ![w] = NotQueued]
  <2>1. Due' = [v \in Works |-> IF v \in worker' THEN delay[v] - age[v] ELSE NotQueued]
    BY DEF Due
  <2>2. \A v \in Works : Due'[v] = IF v = w THEN NotQueued ELSE Due[v]
    BY <2>1, Facts
  <2> QED BY <2>1, <2>2 DEF Due
<1>5. \A j \in DOMAIN q' : \E k \in DOMAIN q : q'[j] = q[k]
  <2>1. DOMAIN q' = 1 .. Len(q) - 1 /\ DOMAIN q = 1 .. Len(q) /\ Len(q) \in Nat
    BY Facts DEF Removed
  <2> QED BY <2>1 DEF Removed
<1> QED BY <1>1, <1>2, <1>3, <1>4, <1>5

\* work_qcancel takes one work off the list; the sleep is not too long for the others.
LEMMA CancelStep ==
  ASSUME IInv, NEW w \in Works, Cancel(w) PROVE Good
<1>1. /\ worker' = worker \ {w}
      /\ UNCHANGED <<delay, age, workerVars, caller>>
  BY DEF Cancel
<1>2. PICK i \in DOMAIN q : q[i] = w /\ q' = SubSeq(q, 1, i - 1) \o SubSeq(q, i + 1, Len(q))
  BY DEF Cancel
<1>3. Removed(q, q', i)
  BY <1>2, Facts, RemoveIndex
<1>4. /\ WorkList(q, worker, delay, age)' /\ Times'
      /\ w \in worker /\ Due[w] # NotQueued /\ Due' = [Due EXCEPT ![w] = NotQueued]
      /\ \A j \in DOMAIN q' : \E k \in DOMAIN q : q'[j] = q[k]
  BY <1>1, <1>2, <1>3, RemoveEffect
<1>5. WorkerOK'
  BY <1>1 DEF IInv, WorkerOK, workerVars
<1>6. NoLostWakeup'
  <2>1. pc' = pc /\ left' = left /\ delay' = delay /\ (SignalComing' <=> SignalComing)
    BY <1>1 DEF workerVars, SignalComing
  <2>2. q # <<>>
    BY <1>2
  <2> QED BY <1>4, <2>1, <2>2 DEF IInv, NoLostWakeup
<1>7. SleepInTime'
  <2>1. pc' = pc /\ left' = left /\ delay' = delay /\ age' = age /\ (SignalComing' <=> SignalComing)
    BY <1>1 DEF workerVars, SignalComing
  <2>2. \A v : Urgent(v)' <=> Urgent(v)
    BY <2>1 DEF Urgent
  <2> QED BY <1>4, <2>1, <2>2 DEF IInv, SleepInTime
<1>8. Abs!Next
  BY <1>1, <1>4 DEF Abs!Next, Abs!Cancel, Due, workerVars
<1> QED BY <1>4, <1>5, <1>6, <1>7, <1>8 DEF Good, IInv

\* The longest delay is a number.
LEMMA MaxPolledType == MaxPolled \in Nat
<1>1. PICK d \in Delays : \A e \in Delays : e <= d
  BY ConstantsAssumption DEF ConstantsAssumption
<1>2. MaxPolled \in Delays
  BY <1>1 DEF MaxPolled
<1> QED BY <1>2, ConstantsAssumption DEF ConstantsAssumption

\* A tick shortens the sleep as much as it ages the works.
LEMMA TickStep == ASSUME IInv, Tick PROVE Good
<1>1. /\ age' = [w \in Works |-> Min(age[w] + 1, delay[w])]
      /\ left' = IF pc = "sleep" THEN left - 1 ELSE left
      /\ pc' = IF pc = "sleep" /\ left = 1 THEN "loop" ELSE pc
      /\ polled' = IF pc \in {"run", "again"} THEN Min(polled + 1, MaxPolled) ELSE polled
      /\ q' = q /\ worker' = worker /\ delay' = delay /\ running' = running /\ caller' = caller
  BY DEF Tick
<1>2. WorkList(q', worker', delay', age')
  BY <1>1, TickKeepsList DEF IInv
<1>3. Times'
  BY <1>1, Facts DEF IInv, Times, Min
<1>4. WorkerOK'
  <2>1. polled' \in Nat
    BY <1>1, MaxPolledType DEF IInv, WorkerOK, Min
  <2>2. left' \in Nat /\ (pc' = "sleep" => left' > 0) /\ (pc' = "sleep" => pc = "sleep")
    BY <1>1 DEF IInv, WorkerOK
  <2>3. pc' = pc \/ (pc' = "loop" /\ pc = "sleep")
    BY <1>1
  <2> QED BY <1>1, <2>1, <2>2, <2>3 DEF IInv, WorkerOK
<1>5. /\ SignalComing' <=> SignalComing
      /\ pc' = "wait" => pc = "wait"
      /\ pc' = "sleep" => pc = "sleep" /\ left' = left - 1 /\ left \in Nat
  BY <1>1 DEF SignalComing, IInv, WorkerOK
<1>6. NoLostWakeup'
  <2>1. \A i \in DOMAIN q : delay[q[i]] \in Nat
    BY Facts
  <2> QED BY <1>1, <1>5, <2>1 DEF IInv, NoLostWakeup
<1>7. SleepInTime'
  <2>1. \A v : Urgent(v)' <=> Urgent(v)
    BY <1>1 DEF Urgent
  <2>2. \A i \in DOMAIN q : /\ delay[q[i]] \in Nat /\ age[q[i]] \in Nat
                            /\ age'[q[i]] = Min(age[q[i]] + 1, delay[q[i]])
    BY <1>1, Facts
  <2>3. \A a, b, l \in Nat : l + a <= b => (l - 1) + Min(a + 1, b) <= b
    BY DEF Min
  <2> QED BY <1>1, <1>5, <2>1, <2>2, <2>3 DEF IInv, SleepInTime
<1>8. Abs!Tick
  <2>1. Due' = [w \in Works |-> IF w \in worker THEN delay[w] - age'[w] ELSE NotQueued]
    BY <1>1 DEF Due
  <2>2. ASSUME NEW w \in Works
        PROVE  Due'[w] = IF Due[w] \in {NotQueued, 0} THEN Due[w] ELSE Due[w] - 1
    <3>1. CASE w \notin worker
      BY <2>1, <3>1, Facts
    <3>2. CASE w \in worker
      <4>1. Due[w] = delay[w] - age[w] /\ Due'[w] = delay[w] - Min(age[w] + 1, delay[w]) /\ Due[w] # NotQueued
        BY <1>1, <2>1, <3>2, Facts
      <4>2. delay[w] \in Nat /\ age[w] \in Nat /\ age[w] <= delay[w]
        BY Facts DEF IInv, Times
      <4>3. \A a, b \in Nat : a <= b => b - Min(a + 1, b) = IF b - a = 0 THEN b - a ELSE (b - a) - 1
        BY DEF Min
      <4>4. Due'[w] = IF Due[w] = 0 THEN Due[w] ELSE Due[w] - 1
        BY <4>1, <4>2, <4>3
      <4> QED BY <4>1, <4>4
    <3> QED BY <3>1, <3>2
  <2>3. Due' = [w \in Works |-> IF Due[w] \in {NotQueued, 0} THEN Due[w] ELSE Due[w] - 1]
    BY <2>1, <2>2
  <2> QED BY <1>1, <2>3 DEF Abs!Tick, Due
<1> QED BY <1>2, <1>3, <1>4, <1>6, <1>7, <1>8 DEF Good, IInv, Abs!Next

\* One look at the head of the list, in either loop of work_process: a work is
\* called only when its delay is over, and the sleep ends in time for the rest.
LEMMA ProcessStep ==
  ASSUME IInv, NEW p \in Nat, Process(p), pc \in {"loop", "again"}, polled' \in Nat,
         UNCHANGED <<delay, age, caller>>
  PROVE  Good
<1>1. running = NoWork
  BY DEF IInv, WorkerOK
<1>2. CASE q = <<>> /\ pc' = "wait" /\ UNCHANGED <<q, worker, running, left>>
  <2>1. WorkList(q, worker, delay, age)' /\ Times'
    BY <1>2 DEF IInv, Times
  <2>2. WorkerOK'
    BY <1>1, <1>2 DEF IInv, WorkerOK
  <2>3. NoLostWakeup' /\ SleepInTime'
    BY <1>2 DEF NoLostWakeup, SleepInTime
  <2>4. UNCHANGED <<Due, running>>
    BY <1>2 DEF Due
  <2> QED BY <2>1, <2>2, <2>3, <2>4 DEF Good, IInv
<1>3. CASE /\ q # <<>> /\ Elapsed(Head(q), p)
           /\ q' = Tail(q) /\ worker' = worker \ {Head(q)}
           /\ pc' = "run" /\ running' = Head(q) /\ UNCHANGED left
  <2> DEFINE w == Head(q)
  <2>1. 1 \in DOMAIN q /\ q[1] = w /\ Removed(q, q', 1)
    BY <1>3, Facts, TailRemoves
  <2>2. /\ WorkList(q, worker, delay, age)' /\ Times'
        /\ w \in worker /\ w \in Works /\ Due' = [Due EXCEPT ![w] = NotQueued]
    BY <1>3, <2>1, RemoveEffect
  <2>3. Due[w] = 0
    <3>1. Due[w] = delay[w] - age[w] /\ delay[w] \in Nat /\ age[w] \in Nat /\ age[w] <= delay[w]
      BY <2>2, Facts DEF IInv, Times
    <3>2. age[w] >= delay[w]
      BY <1>3 DEF Elapsed
    <3> QED BY <3>1, <3>2
  <2>4. WorkerOK'
    BY <1>3, <2>2, ConstantsAssumption DEF IInv, WorkerOK, ConstantsAssumption
  <2>5. NoLostWakeup' /\ SleepInTime'
    BY <1>3 DEF NoLostWakeup, SleepInTime
  <2>6. Abs!Next
    BY <1>1, <1>3, <2>2, <2>3 DEF Abs!Next, Abs!Start, Due
  <2> QED BY <2>2, <2>4, <2>5, <2>6 DEF Good, IInv
<1>4. CASE /\ q # <<>> /\ ~Elapsed(Head(q), p)
           /\ left' = Remaining(Head(q), p)
           /\ pc' = IF left' > 0 THEN "sleep" ELSE "loop"
           /\ UNCHANGED <<q, worker, running>>
  <2> DEFINE h == Head(q)
  <2>1. 1 \in DOMAIN q /\ h = q[1] /\ h \in worker /\ h \in Works
    BY <1>4, Facts, TailRemoves
  <2>2. delay[h] \in Nat /\ age[h] \in Nat /\ age[h] < delay[h] /\ delay[h] \in Delays
    <3>1. ~(age[h] >= delay[h])
      BY <1>4 DEF Elapsed
    <3> QED BY <2>1, <3>1, Facts DEF IInv, Times
  <2>3. left' \in Nat /\ left' + age[h] <= delay[h]
    BY <1>4, <2>2 DEF Remaining, Min
  <2>4. WorkList(q, worker, delay, age)' /\ Times'
    BY <1>4 DEF IInv, Times
  <2>5. WorkerOK'
    BY <1>1, <1>4, <2>3 DEF IInv, WorkerOK
  <2>6. \A i \in DOMAIN q : /\ delay[q[i]] \in Nat /\ age[q[i]] \in Nat
                            /\ delay[h] <= delay[q[i]]
                            /\ delay[h] = delay[q[i]] => age[h] >= age[q[i]]
    <3>1. Ordered(q, delay, age)
      BY DEF IInv, WorkList
    <3> SUFFICES ASSUME NEW i \in DOMAIN q
                 PROVE  /\ delay[q[i]] \in Nat /\ age[q[i]] \in Nat
                        /\ delay[h] <= delay[q[i]]
                        /\ delay[h] = delay[q[i]] => age[h] >= age[q[i]]
      OBVIOUS
    <3>2. delay[q[i]] \in Nat /\ age[q[i]] \in Nat
      BY Facts
    <3>3. i = 1 \/ (1 < i /\ 1 \in 1 .. Len(q) /\ i \in 1 .. Len(q))
      BY <2>1, Facts
    <3>4. CASE i = 1
      BY <2>1, <2>2, <3>4
    <3>5. CASE i # 1
      BY <2>1, <3>1, <3>2, <3>3, <3>5 DEF Ordered
    <3> QED BY <3>2, <3>4, <3>5
  <2>7. NoLostWakeup'
    BY <1>4, <2>2, <2>3, <2>6 DEF NoLostWakeup
  <2>8. SleepInTime'
    <3> SUFFICES ASSUME NEW i \in DOMAIN q, Urgent(q[i]) PROVE left' + age[q[i]] <= delay[q[i]]
      BY <1>4 DEF SleepInTime, Urgent
    <3>1. delay[q[i]] <= delay[h]
      BY <2>2 DEF Urgent
    <3>2. delay[q[i]] = delay[h] /\ age[h] >= age[q[i]]
      BY <2>2, <2>6, <3>1
    <3> QED BY <2>2, <2>3, <2>6, <3>2
  <2>9. UNCHANGED <<Due, running>>
    BY <1>4 DEF Due
  <2> QED BY <2>4, <2>5, <2>7, <2>8, <2>9 DEF Good, IInv
<1> QED BY <1>2, <1>3, <1>4 DEF Process

\* The return of the work.
LEMMA ReturnStep == ASSUME IInv, WorkReturns PROVE Good
<1>1. pc = "run" /\ pc' = "again" /\ running' = NoWork /\ UNCHANGED <<clientVars, left, polled, caller>>
  BY DEF WorkReturns
<1>2. UNCHANGED Due /\ running # NoWork
  BY <1>1 DEF Due, clientVars, IInv, WorkerOK
<1>3. WorkList(q, worker, delay, age)' /\ Times'
  BY <1>1 DEF clientVars, IInv, Times
<1>4. WorkerOK'
  BY <1>1 DEF IInv, WorkerOK
<1>5. NoLostWakeup' /\ SleepInTime'
  BY <1>1 DEF NoLostWakeup, SleepInTime
<1>6. Abs!Next
  BY <1>1, <1>2 DEF Abs!Next, Abs!Finish, Due
<1> QED BY <1>3, <1>4, <1>5, <1>6 DEF Good, IInv

\* Every step keeps the invariant and is one of WorkSpec or changes nothing there.
LEMMA NextStep == IInv /\ [Next]_vars => Good
<1> SUFFICES ASSUME IInv, [Next]_vars PROVE Good
  OBVIOUS
<1>1. ASSUME NEW w \in Works, NEW d \in Delays,
             QueueIrq(w, d) \/ \E c \in Callers : QueueFirst(c, w, d)
      PROVE  Good
  BY <1>1, QueueFirstStep, QueueSignalStep DEF QueueIrq
<1>2. ASSUME NEW c \in Callers, QueueSecond(c) PROVE Good
  BY <1>2, QueueSecondStep
<1>3. ASSUME NEW d \in Delays, QueueSelf(d) PROVE Good
  <2>1. running \in Works
    BY <1>3 DEF QueueSelf, IInv, WorkerOK
  <2> QED BY <1>3, <2>1, QueueSignalStep DEF QueueSelf
<1>4. ASSUME NEW w \in Works, Cancel(w) PROVE Good
  BY <1>4, CancelStep
<1>5. CASE Poll
  BY <1>5, ProcessStep DEF Poll
<1>6. CASE WorkReturns
  BY <1>6, ReturnStep
<1>7. CASE Again
  BY <1>7, ProcessStep DEF Again, IInv, WorkerOK
<1>8. CASE Tick
  BY <1>8, TickStep
<1>9. CASE UNCHANGED vars
  BY <1>9 DEF vars, Good, IInv, Times, WorkerOK, NoLostWakeup, SleepInTime, SignalComing, Urgent, Due
<1> QED BY <1>1, <1>2, <1>3, <1>4, <1>5, <1>6, <1>7, <1>8, <1>9 DEF Next

-----------------------------------------------------------------------------
(* The theorems.                                                           *)

\* The invariant holds in every state.
THEOREM Invariance == Spec => []IInv
<1>1. IInv /\ [Next]_vars => IInv'
  BY NextStep DEF Good
<1> QED BY <1>1, InitIInv, PTL DEF Spec

\* The variables of the work queue and of its worker keep their types.
THEOREM TypeCorrect == Spec => []TypeOK
<1>1. IInv => TypeOK
  BY DEF IInv, WorkList, WorkerOK, TypeOK
<1> QED BY <1>1, Invariance, PTL

\* The list holds exactly the works whose callback is set, once each, sorted by
\* delay and then by age: what work_qcancel asserts and work_process relies on.
THEOREM ListCorrect == Spec => [](ListIntegrity /\ ListOrder)
<1>1. IInv => ListIntegrity
  <2> SUFFICES ASSUME IInv PROVE ListIntegrity
    OBVIOUS
  <2>1. \A w \in Works : InQueue(w) <=> w \in worker
    BY Facts DEF InQueue
  <2>2. \A i, j \in DOMAIN q : q[i] = q[j] => i = j
    BY Facts DEF IInv, WorkList, Once
  <2> QED BY <2>1, <2>2 DEF ListIntegrity
<1>2. IInv => ListOrder
  BY Facts DEF IInv, WorkList, Ordered, ListOrder
<1> QED BY <1>1, <1>2, Invariance, PTL

\* The worker does not miss a wake-up: once no signal is outstanding, it waits
\* without limit only for an empty list and sleeps no longer than any delay in it.
THEOREM NoWakeupLost == Spec => []NoLostWakeup
<1>1. IInv => NoLostWakeup
  BY DEF IInv
<1> QED BY <1>1, Invariance, PTL

\* A worker that sleeps leaves no work of the shortest delay in the list that is ready.
THEOREM ReadyServed == Spec => []ReadyIsServed
<1>1. IInv => ReadyIsServed
  <2> SUFFICES ASSUME IInv, pc \in {"wait", "sleep"}, ~SignalComing,
                      NEW i \in DOMAIN q, Urgent(q[i])
               PROVE  age[q[i]] < delay[q[i]]
    BY DEF ReadyIsServed
  <2>1. pc = "sleep" /\ left > 0 /\ left \in Nat
    BY DEF IInv, NoLostWakeup, WorkerOK
  <2>2. delay[q[i]] \in Nat /\ age[q[i]] \in Nat
    BY Facts
  <2>3. left + age[q[i]] <= delay[q[i]]
    BY <2>1 DEF IInv, SleepInTime
  <2> QED BY <2>1, <2>2, <2>3
<1> QED BY <1>1, Invariance, PTL

\* The work queue implements WorkSpec: no work starts before its delay, twice, or
\* after it was cancelled, and one runs at a time.
THEOREM Implementation == Spec => ImplementsWorkSpec
<1>1. Init => Abs!Init
  BY DEF Init, Abs!Init
<1>2. IInv /\ [Next]_vars => [Abs!Next]_<<Due, running>>
  BY NextStep DEF Good
<1> QED BY <1>1, <1>2, Invariance, PTL DEF Spec, ImplementsWorkSpec, Abs!Spec, Abs!vars, Due
=============================================================================
