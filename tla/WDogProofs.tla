----------------------------- MODULE WDogProofs -----------------------------
(***************************************************************************)
(* The proofs about WDog.                                                  *)
(*                                                                         *)
(* The heart is the delta list: the list is sorted by deadline and the lag *)
(* of each watchdog is its deadline less that of the one before it.  The   *)
(* first part shows, for any list, that removing an element whose lag the  *)
(* next one inherits, inserting one at its place, and a tick of the head   *)
(* keep it; the second part the same of the free list.  The third part is  *)
(* the inductive invariant IInv, with one lemma for each action, which     *)
(* also shows that the step is one of WDogSpec; the theorems follow.       *)
(***************************************************************************)
EXTENDS WDog, FiniteSetTheorems, SequenceTheorems, WellFoundedInduction, TLAPS

-----------------------------------------------------------------------------
(* Sequences.                                                              *)

\* What SequencesExt's RemoveAt, which models the unlinking in wd_cancel, returns.
LEMMA RemoveAtIndex ==
  ASSUME NEW S, NEW s \in Seq(S), NEW i \in 1 .. Len(s)
  PROVE  /\ RemoveAt(s, i) \in Seq(S)
         /\ Len(RemoveAt(s, i)) = Len(s) - 1
         /\ \A j \in 1 .. Len(s) - 1 : RemoveAt(s, i)[j] = IF j < i THEN s[j] ELSE s[j + 1]
<1> DEFINE a == SubSeq(s, 1, i - 1)
           b == SubSeq(s, i + 1, Len(s))
<1>1. a \in Seq(S) /\ Len(a) = i - 1 /\ \A j \in 1 .. i - 1 : a[j] = s[j]
  OBVIOUS
<1>2. b \in Seq(S) /\ Len(b) = Len(s) - i /\ \A j \in 1 .. Len(s) - i : b[j] = s[j + i]
  OBVIOUS
<1>3. RemoveAt(s, i) = a \o b
  BY DEF RemoveAt
<1> HIDE DEF a, b
<1>4. \A j \in 1 .. Len(s) - 1 : (a \o b)[j] = IF j < i THEN s[j] ELSE s[j + 1]
  BY <1>1, <1>2
<1>5. a \o b \in Seq(S) /\ Len(a \o b) = Len(s) - 1
  <2>1. a \o b \in Seq(S) /\ Len(a \o b) = Len(a) + Len(b)
    BY <1>1, <1>2, ConcatProperties
  <2> QED BY <1>1, <1>2, <2>1
<1> QED BY <1>3, <1>4, <1>5

\* What InsertAt, which models the insertion before curr in wd_start, returns.
LEMMA InsertAtIndex ==
  ASSUME NEW S, NEW s \in Seq(S), NEW i \in 1 .. Len(s), NEW e \in S
  PROVE  /\ InsertAt(s, i, e) \in Seq(S)
         /\ Len(InsertAt(s, i, e)) = Len(s) + 1
         /\ \A j \in 1 .. Len(s) + 1 :
              InsertAt(s, i, e)[j] = IF j < i THEN s[j] ELSE IF j = i THEN e ELSE s[j - 1]
<1> DEFINE a == SubSeq(s, 1, i - 1)
           b == SubSeq(s, i, Len(s))
<1>1. a \in Seq(S) /\ Len(a) = i - 1 /\ \A j \in 1 .. i - 1 : a[j] = s[j]
  OBVIOUS
<1>2. b \in Seq(S) /\ Len(b) = Len(s) - i + 1 /\ \A j \in 1 .. Len(s) - i + 1 : b[j] = s[j + i - 1]
  OBVIOUS
<1>3. InsertAt(s, i, e) = (a \o <<e>>) \o b
  BY DEF InsertAt
<1> HIDE DEF a, b
<1> DEFINE c == a \o <<e>>
<1>4. c \in Seq(S) /\ Len(c) = i /\ \A j \in 1 .. i : c[j] = IF j < i THEN s[j] ELSE e
  BY <1>1
<1> HIDE DEF c
<1>5. \A j \in 1 .. Len(s) + 1 : (c \o b)[j] = IF j < i THEN s[j] ELSE IF j = i THEN e ELSE s[j - 1]
  BY <1>2, <1>4
<1>6. c \o b \in Seq(S) /\ Len(c \o b) = Len(s) + 1
  <2>1. c \o b \in Seq(S) /\ Len(c \o b) = Len(c) + Len(b)
    BY <1>2, <1>4, ConcatProperties
  <2>2. i + (Len(s) - i + 1) = Len(s) + 1
    OBVIOUS
  <2> QED BY <1>2, <1>4, <2>1, <2>2
<1> QED BY <1>3, <1>5, <1>6 DEF c

-----------------------------------------------------------------------------
(* The list s of the watchdogs in A, the lags l, and the ticks f that each *)
(* has left.                                                               *)

ListType(s, l, f, A) ==
  /\ s \in Seq(Dogs)
  /\ l \in [Dogs -> Int]
  /\ f \in [Dogs -> Nat \union {Off}]
  /\ A \in SUBSET Dogs

OnceEach(s) == \A i, j \in 1 .. Len(s) : s[i] = s[j] => i = j
Listed(s, A) ==
  /\ \A i \in 1 .. Len(s) : s[i] \in A
  /\ \A d \in A : \E i \in 1 .. Len(s) : s[i] = d
LeftOfActive(f, A) == \A d \in Dogs : IF d \in A THEN f[d] \in Nat ELSE f[d] = Off
Sorted(s, f) == \A i, j \in 1 .. Len(s) : i < j => f[s[i]] <= f[s[j]]
Before(s, f, i) == IF i = 1 THEN 0 ELSE f[s[i - 1]]
LagsExact(s, l, f) == \A i \in 1 .. Len(s) : l[s[i]] = f[s[i]] - Before(s, f, i)

DeltaList(s, l, f, A) ==
  /\ ListType(s, l, f, A)
  /\ OnceEach(s)
  /\ Listed(s, A)
  /\ LeftOfActive(f, A)
  /\ Sorted(s, f)
  /\ LagsExact(s, l, f)

\* The list t is s without its element at position i, and m are the lags after
\* the next one inherited its lag.
Removal(s, t, i) ==
  /\ t \in Seq(Dogs)
  /\ Len(t) = Len(s) - 1
  /\ \A j \in 1 .. Len(t) : t[j] = IF j < i THEN s[j] ELSE s[j + 1]
Inherited(s, l, m, i) ==
  /\ m \in [Dogs -> Int]
  /\ \A j \in 1 .. Len(s) : m[s[j]] = IF j = i + 1 THEN l[s[j]] + l[s[i]] ELSE l[s[j]]

\* Where the elements were before the removal.
LEMMA RemovalPlaces ==
  ASSUME NEW s \in Seq(Dogs), NEW t, NEW i \in 1 .. Len(s), Removal(s, t, i)
  PROVE  /\ \A j \in 1 .. Len(t) : \E m \in 1 .. Len(s) :
              t[j] = s[m] /\ m # i /\ j = IF m < i THEN m ELSE m - 1
         /\ \A j, k \in 1 .. Len(t) : j < k =>
              \E m, n \in 1 .. Len(s) : t[j] = s[m] /\ t[k] = s[n] /\ m < n
<1>1. Len(t) = Len(s) - 1 /\ Len(s) \in Nat
  BY DEF Removal
<1>2. ASSUME NEW j \in 1 .. Len(t)
      PROVE  \E m \in 1 .. Len(s) : t[j] = s[m] /\ m # i /\ j = IF m < i THEN m ELSE m - 1
  <2>1. CASE j < i
    BY <1>1, <2>1 DEF Removal
  <2>2. CASE ~ (j < i)
    <3>1. t[j] = s[j + 1] /\ j + 1 \in 1 .. Len(s) /\ j + 1 # i /\ ~ (j + 1 < i) /\ j = (j + 1) - 1
      BY <1>1, <2>2 DEF Removal
    <3> QED BY <3>1
  <2> QED BY <2>1, <2>2
<1>3. ASSUME NEW j \in 1 .. Len(t), NEW k \in 1 .. Len(t), j < k
      PROVE  \E m, n \in 1 .. Len(s) : t[j] = s[m] /\ t[k] = s[n] /\ m < n
  <2>1. PICK m \in 1 .. Len(s) : t[j] = s[m] /\ m # i /\ j = IF m < i THEN m ELSE m - 1
    BY <1>2
  <2>2. PICK n \in 1 .. Len(s) : t[k] = s[n] /\ n # i /\ k = IF n < i THEN n ELSE n - 1
    BY <1>2
  <2>3. m < n
    BY <1>3, <2>1, <2>2
  <2> QED BY <2>1, <2>2, <2>3
<1> QED BY <1>2, <1>3

\* Without one of its elements the list is still sorted by deadline.
LEMMA RemovedSorted ==
  ASSUME NEW s \in Seq(Dogs), NEW t, NEW f, NEW i \in 1 .. Len(s), Removal(s, t, i),
         Sorted(s, f)
  PROVE  Sorted(t, f)
<1> SUFFICES ASSUME NEW j \in 1 .. Len(t), NEW k \in 1 .. Len(t), j < k
             PROVE  f[t[j]] <= f[t[k]]
  BY DEF Sorted
<1>1. PICK m \in 1 .. Len(s), n \in 1 .. Len(s) : t[j] = s[m] /\ t[k] = s[n] /\ m < n
  BY RemovalPlaces
<1> QED BY <1>1 DEF Sorted

\* Without one of its elements the list still holds none twice.
LEMMA RemovedOnce ==
  ASSUME NEW s \in Seq(Dogs), NEW t, NEW i \in 1 .. Len(s), Removal(s, t, i), OnceEach(s)
  PROVE  OnceEach(t) /\ \A j \in 1 .. Len(t) : t[j] # s[i]
<1>1. ASSUME NEW j \in 1 .. Len(t), NEW k \in 1 .. Len(t), t[j] = t[k]
      PROVE  j = k
  <2>1. PICK m \in 1 .. Len(s) : t[j] = s[m] /\ j = IF m < i THEN m ELSE m - 1
    BY RemovalPlaces
  <2>2. PICK n \in 1 .. Len(s) : t[k] = s[n] /\ k = IF n < i THEN n ELSE n - 1
    BY RemovalPlaces
  <2>3. m = n
    BY <1>1, <2>1, <2>2 DEF OnceEach
  <2> QED BY <2>1, <2>2, <2>3
<1>2. ASSUME NEW j \in 1 .. Len(t)
      PROVE  t[j] # s[i]
  <2>1. PICK m \in 1 .. Len(s) : t[j] = s[m] /\ m # i
    BY RemovalPlaces
  <2> QED BY <2>1 DEF OnceEach
<1> QED BY <1>1, <1>2 DEF OnceEach

\* Without its element at i the list holds the other active watchdogs.
LEMMA RemovedListed ==
  ASSUME NEW s \in Seq(Dogs), NEW t, NEW i \in 1 .. Len(s), Removal(s, t, i), OnceEach(s),
         NEW A, Listed(s, A)
  PROVE  Listed(t, A \ {s[i]})
<1>1. \A j \in 1 .. Len(t) : t[j] \in A \ {s[i]}
  <2>1. \A j \in 1 .. Len(t) : t[j] # s[i]
    BY RemovedOnce
  <2>2. \A j \in 1 .. Len(t) : t[j] \in A
    BY DEF Removal, Listed
  <2> QED BY <2>1, <2>2
<1>2. ASSUME NEW d \in A \ {s[i]} PROVE \E j \in 1 .. Len(t) : t[j] = d
  <2>1. PICK k \in 1 .. Len(s) : s[k] = d
    BY DEF Listed
  <2>2. CASE k < i
    <3>1. k \in 1 .. Len(t) /\ t[k] = d
      BY <2>1, <2>2 DEF Removal
    <3> QED BY <3>1
  <2>3. CASE k > i
    <3>1. k - 1 \in 1 .. Len(t) /\ t[k - 1] = d
      BY <2>1, <2>3 DEF Removal
    <3> QED BY <3>1
  <2> QED BY <2>1, <2>2, <2>3
<1> QED BY <1>1, <1>2 DEF Listed

\* If the next element inherits the lag, as wd_cancel does, the lags stay exact.
LEMMA RemovedLags ==
  ASSUME NEW s \in Seq(Dogs), NEW t, NEW i \in 1 .. Len(s), Removal(s, t, i),
         NEW l, NEW m, Inherited(s, l, m, i),
         NEW f, \A j \in 1 .. Len(s) : f[s[j]] \in Nat, LagsExact(s, l, f)
  PROVE  LagsExact(t, m, f)
<1> SUFFICES ASSUME NEW j \in 1 .. Len(t) PROVE m[t[j]] = f[t[j]] - Before(t, f, j)
  BY DEF LagsExact
<1>1. CASE j < i
  <2>1. t[j] = s[j] /\ Before(t, f, j) = Before(s, f, j) /\ j \in 1 .. Len(s) /\ j # i + 1
    BY <1>1 DEF Removal, Before
  <2>2. m[s[j]] = l[s[j]]
    BY <2>1 DEF Inherited
  <2> QED BY <2>1, <2>2 DEF LagsExact
<1>2. CASE j = i
  <2>1. t[j] = s[i + 1] /\ Before(t, f, j) = Before(s, f, i) /\ i + 1 \in 1 .. Len(s)
    BY <1>2 DEF Removal, Before
  <2>2. m[s[i + 1]] = l[s[i + 1]] + l[s[i]]
    BY <2>1 DEF Inherited
  <2>3. l[s[i + 1]] = f[s[i + 1]] - f[s[i]] /\ l[s[i]] = f[s[i]] - Before(s, f, i)
    BY <2>1 DEF LagsExact, Before
  <2>4. f[s[i]] \in Nat /\ f[s[i + 1]] \in Nat
    BY <2>1
  <2>5. Before(s, f, i) \in Int
    <3>1. i # 1 => i - 1 \in 1 .. Len(s)
      OBVIOUS
    <3> QED BY <3>1 DEF Before
  <2> QED BY <2>1, <2>2, <2>3, <2>4, <2>5
<1>3. CASE j > i
  <2>1. t[j] = s[j + 1] /\ j + 1 \in 1 .. Len(s) /\ Before(t, f, j) = Before(s, f, j + 1)
    <3>1. t[j] = s[j + 1] /\ j + 1 \in 1 .. Len(s) /\ j # 1 /\ j + 1 # 1 /\ (j + 1) - 1 = j
      BY <1>3 DEF Removal
    <3>2. t[j - 1] = s[j]
      BY <1>3 DEF Removal
    <3> QED BY <3>1, <3>2 DEF Before
  <2>2. m[s[j + 1]] = l[s[j + 1]]
    BY <1>3, <2>1 DEF Inherited
  <2> QED BY <2>1, <2>2 DEF LagsExact
<1> QED BY <1>1, <1>2, <1>3 DEF Removal

\* Taking a watchdog off the list leaves a delta list, if the next one inherits
\* its lag.
LEMMA RemovalKeepsDeltaList ==
  ASSUME NEW s, NEW l, NEW f, NEW A, DeltaList(s, l, f, A), NEW i \in 1 .. Len(s),
         NEW t, Removal(s, t, i),
         NEW m, m = IF i = Len(s) THEN l ELSE [l EXCEPT ![s[i + 1]] = @ + l[s[i]]]
  PROVE  DeltaList(t, m, [f EXCEPT ![s[i]] = Off], A \ {s[i]})
<1> DEFINE g == [f EXCEPT ![s[i]] = Off]
<1>1. /\ s \in Seq(Dogs) /\ l \in [Dogs -> Int] /\ f \in [Dogs -> Nat \union {Off}] /\ A \in SUBSET Dogs
      /\ OnceEach(s) /\ Listed(s, A) /\ LeftOfActive(f, A) /\ Sorted(s, f) /\ LagsExact(s, l, f)
  BY DEF DeltaList, ListType
<1>3. \A j \in 1 .. Len(s) : s[j] \in Dogs
  BY <1>1
<1>4. Inherited(s, l, m, i)
  <2>1. CASE i = Len(s)
    <3>1. m = l /\ \A j \in 1 .. Len(s) : j # i + 1
      BY <2>1
    <3> QED BY <1>1, <3>1 DEF Inherited
  <2>2. CASE i # Len(s)
    <3>1. i + 1 \in 1 .. Len(s)
      BY <1>1, <2>2
    <3>2. l[s[i]] \in Int /\ l[s[i + 1]] \in Int /\ s[i + 1] \in Dogs
      BY <1>1, <1>3, <3>1
    <3>3. m = [l EXCEPT ![s[i + 1]] = l[s[i + 1]] + l[s[i]]]
      BY <2>2
    <3>4. m \in [Dogs -> Int]
      BY <1>1, <3>2, <3>3
    <3>5. ASSUME NEW j \in 1 .. Len(s)
          PROVE  m[s[j]] = IF j = i + 1 THEN l[s[j]] + l[s[i]] ELSE l[s[j]]
      <4>1. s[j] \in Dogs /\ (s[j] = s[i + 1] => j = i + 1)
        BY <1>1, <1>3, <3>1 DEF OnceEach
      <4> QED BY <1>1, <3>2, <3>3, <4>1
    <3> QED BY <3>4, <3>5 DEF Inherited
  <2> QED BY <2>1, <2>2
<1>5. \A j \in 1 .. Len(s) : f[s[j]] \in Nat
  BY <1>1, <1>3 DEF Listed, LeftOfActive
<1>6. /\ OnceEach(t) /\ Listed(t, A \ {s[i]}) /\ Sorted(t, f)
      /\ \A j \in 1 .. Len(t) : t[j] # s[i]
  BY <1>1, RemovedOnce, RemovedListed, RemovedSorted
<1>7. LagsExact(t, m, f)
  BY <1>1, <1>4, <1>5, RemovedLags
<1>8. g \in [Dogs -> Nat \union {Off}]
  BY <1>1
<1>9. t \in Seq(Dogs) /\ \A j \in 1 .. Len(t) : t[j] \in Dogs
  BY DEF Removal
<1>10. \A j \in 1 .. Len(t) : g[t[j]] = f[t[j]]
  BY <1>1, <1>6, <1>9
<1>11. LeftOfActive(g, A \ {s[i]})
  BY <1>1, <1>3 DEF LeftOfActive
<1> HIDE DEF g
<1>12. Sorted(t, g)
  BY <1>6, <1>10 DEF Sorted
<1>13. LagsExact(t, m, g)
  <2>1. \A j \in 1 .. Len(t) : Before(t, g, j) = Before(t, f, j)
    <3> SUFFICES ASSUME NEW j \in 1 .. Len(t), j # 1 PROVE g[t[j - 1]] = f[t[j - 1]]
      BY DEF Before
    <3>1. j - 1 \in 1 .. Len(t)
      BY <1>9
    <3> QED BY <1>10, <3>1
  <2> QED BY <1>7, <1>10, <2>1 DEF LagsExact
<1>14. ListType(t, m, g, A \ {s[i]})
  BY <1>1, <1>4, <1>8, <1>9 DEF ListType, Inherited
<1> QED BY <1>6, <1>11, <1>12, <1>13, <1>14 DEF DeltaList, g

-----------------------------------------------------------------------------
(* Insertion of the watchdog d before position c of the list, or at its    *)
(* end, with n ticks left.                                                 *)

Insertion(s, t, c, d) ==
  /\ t \in Seq(Dogs)
  /\ Len(t) = Len(s) + 1
  /\ \A j \in 1 .. Len(t) : t[j] = IF j < c THEN s[j] ELSE IF j = c THEN d ELSE s[j - 1]

\* wd_start at the end of the list is an insertion.
LEMMA AppendInserts ==
  ASSUME NEW s \in Seq(Dogs), NEW d \in Dogs
  PROVE  Insertion(s, Append(s, d), Len(s) + 1, d)
BY DEF Insertion

\* wd_start before curr is an insertion at the position of curr.
LEMMA InsertAtInserts ==
  ASSUME NEW s \in Seq(Dogs), NEW c \in 1 .. Len(s), NEW d \in Dogs
  PROVE  Insertion(s, InsertAt(s, c, d), c, d)
BY InsertAtIndex DEF Insertion

\* The place that the walk of wd_start finds.
Place(s, f, c, n) ==
  /\ \A j \in 1 .. Len(s) : j < c => f[s[j]] <= n
  /\ \A j \in 1 .. Len(s) : j >= c => n <= f[s[j]]

\* The insertion of a watchdog that is not in the list puts none in twice.
LEMMA InsertedOnce ==
  ASSUME NEW s \in Seq(Dogs), NEW t, NEW c \in 1 .. Len(s) + 1, NEW d, Insertion(s, t, c, d),
         OnceEach(s), \A j \in 1 .. Len(s) : s[j] # d
  PROVE  OnceEach(t)
<1>1. Len(t) = Len(s) + 1 /\ Len(s) \in Nat /\ t[c] = d
  BY DEF Insertion
<1>2. ASSUME NEW j \in 1 .. Len(t), j # c
      PROVE  \E m \in 1 .. Len(s) : t[j] = s[m] /\ m = IF j < c THEN j ELSE j - 1
  <2>1. CASE j < c
    BY <1>1, <2>1 DEF Insertion
  <2>2. CASE ~ (j < c)
    <3>1. t[j] = s[j - 1] /\ j - 1 \in 1 .. Len(s)
      BY <1>1, <1>2, <2>2 DEF Insertion
    <3> QED BY <2>2, <3>1
  <2> QED BY <2>1, <2>2
<1> SUFFICES ASSUME NEW j \in 1 .. Len(t), NEW k \in 1 .. Len(t), t[j] = t[k]
             PROVE  j = k
  BY DEF OnceEach
<1>3. CASE j # c /\ k # c
  <2>1. PICK m \in 1 .. Len(s) : t[j] = s[m] /\ m = IF j < c THEN j ELSE j - 1
    BY <1>2, <1>3
  <2>2. PICK n \in 1 .. Len(s) : t[k] = s[n] /\ n = IF k < c THEN k ELSE k - 1
    BY <1>2, <1>3
  <2>3. m = n
    BY <2>1, <2>2 DEF OnceEach
  <2> QED BY <1>3, <2>1, <2>2, <2>3
<1>4. ASSUME NEW i \in 1 .. Len(t), i # c
      PROVE  t[i] # t[c]
  BY <1>1, <1>2, <1>4
<1> QED BY <1>3, <1>4

\* After the insertion the list holds the active watchdogs and the new one.
LEMMA InsertedListed ==
  ASSUME NEW s \in Seq(Dogs), NEW t, NEW c \in 1 .. Len(s) + 1, NEW d, Insertion(s, t, c, d),
         NEW A, Listed(s, A)
  PROVE  Listed(t, A \union {d})
<1>1. \A j \in 1 .. Len(t) : t[j] \in A \union {d}
  <2> SUFFICES ASSUME NEW j \in 1 .. Len(t) PROVE t[j] \in A \union {d}
    OBVIOUS
  <2>1. CASE j < c
    <3>1. j \in 1 .. Len(s) /\ t[j] = s[j]
      BY <2>1 DEF Insertion
    <3> QED BY <3>1 DEF Listed
  <2>2. CASE j = c
    BY <2>2 DEF Insertion
  <2>3. CASE j > c
    <3>1. j - 1 \in 1 .. Len(s) /\ t[j] = s[j - 1]
      BY <2>3 DEF Insertion
    <3> QED BY <3>1 DEF Listed
  <2> QED BY <2>1, <2>2, <2>3 DEF Insertion
<1>2. ASSUME NEW e \in A \union {d} PROVE \E j \in 1 .. Len(t) : t[j] = e
  <2>1. CASE e = d
    <3>1. c \in 1 .. Len(t) /\ t[c] = d
      BY DEF Insertion
    <3> QED BY <2>1, <3>1
  <2>2. CASE e \in A
    <3>1. PICK k \in 1 .. Len(s) : s[k] = e
      BY <2>2 DEF Listed
    <3>2. CASE k < c
      <4>1. k \in 1 .. Len(t) /\ t[k] = e
        BY <3>1, <3>2 DEF Insertion
      <4> QED BY <4>1
    <3>3. CASE k >= c
      <4>1. k + 1 \in 1 .. Len(t) /\ t[k + 1] = e
        BY <3>1, <3>3 DEF Insertion
      <4> QED BY <4>1
    <3> QED BY <3>2, <3>3
  <2> QED BY <2>1, <2>2
<1> QED BY <1>1, <1>2 DEF Listed

\* An insertion at the place found by the walk keeps the list sorted.
LEMMA InsertedSorted ==
  ASSUME NEW s \in Seq(Dogs), NEW t, NEW c \in 1 .. Len(s) + 1, NEW d, Insertion(s, t, c, d),
         NEW f, Sorted(s, f), f[d] \in Nat, Place(s, f, c, f[d])
  PROVE  Sorted(t, f)
<1> SUFFICES ASSUME NEW j \in 1 .. Len(t), NEW k \in 1 .. Len(t), j < k
             PROVE  f[t[j]] <= f[t[k]]
  BY DEF Sorted
<1>1. \A p \in 1 .. Len(t) :
        /\ p < c => p \in 1 .. Len(s) /\ t[p] = s[p]
        /\ p = c => t[p] = d
        /\ p > c => p - 1 \in 1 .. Len(s) /\ t[p] = s[p - 1]
  BY DEF Insertion
<1>2. CASE k < c
  <2>1. t[j] = s[j] /\ t[k] = s[k] /\ j \in 1 .. Len(s) /\ k \in 1 .. Len(s)
    BY <1>1, <1>2
  <2> QED BY <2>1 DEF Sorted
<1>3. CASE k = c
  <2>1. t[j] = s[j] /\ t[k] = d /\ j \in 1 .. Len(s)
    BY <1>1, <1>3
  <2> QED BY <1>3, <2>1 DEF Place
<1>4. CASE j < c /\ k > c
  <2>1. t[j] = s[j] /\ t[k] = s[k - 1] /\ j \in 1 .. Len(s) /\ k - 1 \in 1 .. Len(s)
    BY <1>1, <1>4
  <2>2. j < k - 1
    BY <1>4, <2>1
  <2> QED BY <2>1, <2>2 DEF Sorted
<1>5. CASE j = c
  <2>1. t[j] = d /\ t[k] = s[k - 1] /\ k - 1 \in 1 .. Len(s) /\ k - 1 >= c
    BY <1>1, <1>5
  <2> QED BY <2>1 DEF Place
<1>6. CASE j > c
  <2>1. t[j] = s[j - 1] /\ t[k] = s[k - 1] /\ j - 1 \in 1 .. Len(s) /\ k - 1 \in 1 .. Len(s)
    BY <1>1, <1>6
  <2>2. j - 1 < k - 1
    OBVIOUS
  <2> QED BY <2>1, <2>2 DEF Sorted
<1> QED BY <1>2, <1>3, <1>4, <1>5, <1>6 DEF Insertion

\* The lags m after the insertion: d is relative to its predecessor, and the
\* element behind it is now relative to d.
Relative(s, l, m, f, c, d, n) ==
  /\ m \in [Dogs -> Int]
  /\ m[d] = n - Before(s, f, c)
  /\ \A j \in 1 .. Len(s) : m[s[j]] = IF j = c THEN l[s[j]] - m[d] ELSE l[s[j]]

Agree(s, f, g) == \A j \in 1 .. Len(s) : f[s[j]] \in Nat /\ g[s[j]] = f[s[j]]

\* With the relative lags that wd_start computes, the lags stay exact.
LEMMA InsertedLags ==
  ASSUME NEW s \in Seq(Dogs), NEW t, NEW c \in 1 .. Len(s) + 1, NEW d, Insertion(s, t, c, d),
         NEW f, NEW l, NEW m, NEW n \in Nat, Relative(s, l, m, f, c, d, n),
         LagsExact(s, l, f), NEW g, g[d] = n, Agree(s, f, g)
  PROVE  LagsExact(t, m, g)
<1> USE DEF Agree
<1> SUFFICES ASSUME NEW j \in 1 .. Len(t) PROVE m[t[j]] = g[t[j]] - Before(t, g, j)
  BY DEF LagsExact
<1>1. CASE j < c
  <2>0. j \in 1 .. Len(s) /\ t[j] = s[j] /\ j # c
    BY <1>1 DEF Insertion
  <2>1. j \in 1 .. Len(s) /\ t[j] = s[j] /\ m[s[j]] = l[s[j]]
    BY <2>0 DEF Relative
  <2>2. Before(t, g, j) = Before(s, f, j)
    <3>1. j # 1 => j - 1 \in 1 .. Len(s) /\ t[j - 1] = s[j - 1]
      BY <1>1 DEF Insertion
    <3> QED BY <3>1 DEF Before
  <2> QED BY <2>1, <2>2 DEF LagsExact
<1>2. CASE j = c
  <2>1. t[j] = d
    BY <1>2 DEF Insertion
  <2>2. Before(t, g, j) = Before(s, f, c)
    <3>1. j # 1 => j - 1 \in 1 .. Len(s) /\ t[j - 1] = s[j - 1]
      BY <1>2 DEF Insertion
    <3> QED BY <1>2, <3>1 DEF Before
  <2> QED BY <2>1, <2>2 DEF Relative
<1>3. CASE j = c + 1
  <2>1. c \in 1 .. Len(s) /\ t[j] = s[c] /\ t[j - 1] = d /\ j # 1
    BY <1>3 DEF Insertion
  <2>2. Before(t, g, j) = n
    BY <2>1 DEF Before
  <2>3. l[s[c]] = f[s[c]] - Before(s, f, c) /\ f[s[c]] \in Nat
    BY <2>1 DEF LagsExact
  <2>4. m[s[c]] = l[s[c]] - (n - Before(s, f, c))
    BY <2>1 DEF Relative
  <2>5. Before(s, f, c) \in Int
    <3>1. c # 1 => c - 1 \in 1 .. Len(s)
      OBVIOUS
    <3> QED BY <3>1 DEF Before
  <2>6. g[s[c]] = f[s[c]]
    BY <2>1
  <2>7. f[s[c]] - n = l[s[c]] - (n - Before(s, f, c))
    BY <2>3, <2>5
  <2> QED BY <2>1, <2>2, <2>4, <2>6, <2>7
<1>4. CASE j > c + 1
  <2>1. j - 1 \in 1 .. Len(s) /\ t[j] = s[j - 1] /\ j - 1 # c /\ j - 1 # 1
    BY <1>4 DEF Insertion
  <2>2. m[s[j - 1]] = l[s[j - 1]]
    BY <2>1 DEF Relative
  <2>3. j - 2 \in 1 .. Len(s) /\ t[j - 1] = s[j - 2]
    BY <1>4 DEF Insertion
  <2>4. Before(t, g, j) = f[s[j - 2]] /\ Before(s, f, j - 1) = f[s[j - 2]]
    BY <2>1, <2>3 DEF Before
  <2> QED BY <2>1, <2>2, <2>4 DEF LagsExact
<1> QED BY <1>1, <1>2, <1>3, <1>4 DEF Insertion

\* wd_start at its place keeps the delta list.
LEMMA InsertionKeepsDeltaList ==
  ASSUME NEW s, NEW l, NEW f, NEW A, DeltaList(s, l, f, A),
         NEW c \in 1 .. Len(s) + 1, NEW d \in Dogs \ A, NEW n \in Nat, Place(s, f, c, n),
         NEW t, Insertion(s, t, c, d),
         NEW m, Relative(s, l, m, f, c, d, n)
  PROVE  DeltaList(t, m, [f EXCEPT ![d] = n], A \union {d})
<1> DEFINE g == [f EXCEPT ![d] = n]
<1>1. /\ s \in Seq(Dogs) /\ l \in [Dogs -> Int] /\ f \in [Dogs -> Nat \union {Off}] /\ A \in SUBSET Dogs
      /\ OnceEach(s) /\ Listed(s, A) /\ LeftOfActive(f, A) /\ Sorted(s, f) /\ LagsExact(s, l, f)
  BY DEF DeltaList, ListType
<1>2. \A j \in 1 .. Len(s) : s[j] \in A /\ s[j] # d /\ s[j] \in Dogs
  BY <1>1 DEF Listed
<1>3. \A j \in 1 .. Len(s) : f[s[j]] \in Nat
  BY <1>1, <1>2 DEF LeftOfActive
<1>4. g[d] = n /\ g \in [Dogs -> Nat \union {Off}] /\ \A j \in 1 .. Len(s) : g[s[j]] = f[s[j]]
  BY <1>1, <1>2
<1>5. LeftOfActive(g, A \union {d})
  BY <1>1 DEF LeftOfActive
<1> HIDE DEF g
<1>6. OnceEach(t) /\ Listed(t, A \union {d})
  BY <1>1, <1>2, InsertedOnce, InsertedListed
<1>7. Sorted(s, g) /\ Place(s, g, c, g[d])
  BY <1>1, <1>4 DEF Sorted, Place
<1>8. Sorted(t, g)
  BY <1>1, <1>4, <1>7, InsertedSorted
<1>9. LagsExact(t, m, g)
  <2>1. Agree(s, f, g)
    BY <1>3, <1>4 DEF Agree
  <2> QED BY <1>1, <1>4, <2>1, InsertedLags
<1>10. ListType(t, m, g, A \union {d})
  BY <1>1, <1>4 DEF ListType, Insertion, Relative
<1> QED BY <1>5, <1>6, <1>8, <1>9, <1>10 DEF DeltaList, g

\* A tick takes one from the lag of the head, and with it from all of the list.
LEMMA TickKeepsDeltaList ==
  ASSUME NEW s, NEW l, NEW f, NEW A, DeltaList(s, l, f, A), s # <<>>,
         \A d \in A : f[d] > 0,
         NEW m, m = [l EXCEPT ![s[1]] = @ - 1],
         NEW g, g = [d \in Dogs |-> IF d \in A THEN f[d] - 1 ELSE f[d]]
  PROVE  DeltaList(s, m, g, A)
<1>1. /\ s \in Seq(Dogs) /\ l \in [Dogs -> Int] /\ f \in [Dogs -> Nat \union {Off}] /\ A \in SUBSET Dogs
      /\ OnceEach(s) /\ Listed(s, A) /\ LeftOfActive(f, A) /\ Sorted(s, f) /\ LagsExact(s, l, f)
  BY DEF DeltaList, ListType
<1>2. Len(s) \in Nat /\ 1 \in 1 .. Len(s) /\ \A j \in 1 .. Len(s) : s[j] \in A /\ s[j] \in Dogs
  BY <1>1 DEF Listed
<1>3. \A d \in A : f[d] \in Nat /\ g[d] = f[d] - 1 /\ g[d] \in Nat
  BY <1>1 DEF LeftOfActive
<1>4. g \in [Dogs -> Nat \union {Off}]
  BY <1>1, <1>3
<1>5. LeftOfActive(g, A)
  BY <1>1, <1>3 DEF LeftOfActive
<1>6. m \in [Dogs -> Int] /\ \A j \in 1 .. Len(s) : m[s[j]] = IF j = 1 THEN l[s[1]] - 1 ELSE l[s[j]]
  BY <1>1, <1>2 DEF OnceEach
<1>7. \A j \in 1 .. Len(s) : f[s[j]] \in Nat /\ g[s[j]] = f[s[j]] - 1
  BY <1>2, <1>3
<1>8. Sorted(s, g)
  BY <1>1, <1>7 DEF Sorted
<1>9. LagsExact(s, m, g)
  <2> SUFFICES ASSUME NEW j \in 1 .. Len(s) PROVE m[s[j]] = g[s[j]] - Before(s, g, j)
    BY DEF LagsExact
  <2>1. l[s[j]] = f[s[j]] - Before(s, f, j)
    BY <1>1 DEF LagsExact
  <2>2. CASE j = 1
    BY <1>6, <1>7, <2>1, <2>2 DEF Before
  <2>3. CASE j # 1
    <3>1. j - 1 \in 1 .. Len(s)
      BY <1>2, <2>3
    <3>2. f[s[j - 1]] \in Nat /\ g[s[j - 1]] = f[s[j - 1]] - 1
      BY <1>7, <3>1
    <3>3. Before(s, f, j) = f[s[j - 1]] /\ Before(s, g, j) = f[s[j - 1]] - 1
      BY <2>3, <3>2 DEF Before
    <3>4. m[s[j]] = l[s[j]]
      BY <1>6, <2>3
    <3>5. g[s[j]] = f[s[j]] - 1 /\ f[s[j]] \in Int
      BY <1>7
    <3>6. f[s[j]] - f[s[j - 1]] = (f[s[j]] - 1) - (f[s[j - 1]] - 1)
      BY <3>2, <3>5
    <3> QED BY <2>1, <3>3, <3>4, <3>5, <3>6, Zenon
  <2> QED BY <2>2, <2>3
<1> QED BY <1>1, <1>4, <1>5, <1>6, <1>8, <1>9 DEF DeltaList, ListType

\* The head of a delta list has least to wait, and its lag is what it has left.
LEMMA HeadIsLeast ==
  ASSUME NEW s, NEW l, NEW f, NEW A, DeltaList(s, l, f, A), s # <<>>
  PROVE  /\ 1 \in 1 .. Len(s) /\ s[1] \in A /\ s[1] \in Dogs
         /\ f[s[1]] \in Nat /\ l[s[1]] = f[s[1]]
         /\ \A d \in A : f[d] \in Nat /\ f[s[1]] <= f[d]
<1>1. /\ s \in Seq(Dogs) /\ A \in SUBSET Dogs
      /\ Listed(s, A) /\ LeftOfActive(f, A) /\ Sorted(s, f) /\ LagsExact(s, l, f)
  BY DEF DeltaList, ListType
<1>2. 1 \in 1 .. Len(s) /\ s[1] \in A /\ s[1] \in Dogs
  BY <1>1 DEF Listed
<1>3. \A d \in A : f[d] \in Nat
  BY <1>1 DEF LeftOfActive
<1>4. l[s[1]] = f[s[1]]
  BY <1>1, <1>2, <1>3 DEF LagsExact, Before
<1>5. ASSUME NEW d \in A PROVE f[s[1]] <= f[d]
  <2>1. PICK k \in 1 .. Len(s) : s[k] = d
    BY <1>1 DEF Listed
  <2> QED BY <1>1, <1>2, <1>3, <2>1 DEF Sorted
<1> QED BY <1>2, <1>3, <1>4, <1>5

\* wd_cancel, wd_start and wd_delete take a watchdog off the list if it is there.
LEMMA CancelKeepsDeltaList ==
  ASSUME DeltaList(list, lag, left, active), NEW d \in Dogs, wd_cancel(d)
  PROVE  /\ DeltaList(list', lag', left', active')
         /\ active' = active \ {d}
         /\ left' = [left EXCEPT ![d] = Off]
<1>1. CASE d \in active
  <2>1. PICK i \in 1 .. Len(list) : list[i] = d /\ i = IndexOf(d)
    BY <1>1 DEF DeltaList, ListType, Listed, IndexOf
  <2>2. /\ list' = RemoveAt(list, i)
        /\ lag' = IF i = Len(list) THEN lag ELSE [lag EXCEPT ![list[i + 1]] = @ + lag[list[i]]]
        /\ active' = active \ {list[i]}
        /\ left' = [left EXCEPT ![list[i]] = Off]
    BY <1>1, <2>1 DEF wd_cancel, Unlink
  <2>3. Removal(list, list', i)
    BY <2>1, <2>2, RemoveAtIndex DEF Removal, DeltaList, ListType
  <2>4. DeltaList(list', lag', [left EXCEPT ![list[i]] = Off], active \ {list[i]})
    BY <2>1, <2>2, <2>3, RemovalKeepsDeltaList
  <2> QED BY <2>1, <2>2, <2>4
<1>2. CASE d \notin active
  <2>1. UNCHANGED <<list, lag, active, left>>
    BY <1>2 DEF wd_cancel, lists
  <2>2. left[d] = Off
    BY <1>2 DEF DeltaList, LeftOfActive
  <2>3. left' = [left EXCEPT ![d] = Off]
    BY <2>1, <2>2 DEF DeltaList, ListType
  <2> QED BY <1>2, <2>1, <2>3
<1> QED BY <1>1, <1>2

-----------------------------------------------------------------------------
(* The pool and its users.                                                 *)

\* sq_remfirst(&g_wdfreelist): the head leaves a list of distinct watchdogs.
LEMMA TakenFromFree ==
  ASSUME NEW s \in Seq(Pool), s # <<>>, IsInjective(s)
  PROVE  /\ Head(s) \in Pool /\ Head(s) \in Range(s)
         /\ Tail(s) \in Seq(Pool) /\ Len(Tail(s)) = Len(s) - 1
         /\ Range(Tail(s)) = Range(s) \ {Head(s)}
         /\ IsInjective(Tail(s))
<1> DEFINE t == Tail(s)
<1>1. /\ Len(s) \in Nat /\ 1 \in 1 .. Len(s) /\ Head(s) = s[1] /\ DOMAIN s = 1 .. Len(s)
      /\ \A i \in 1 .. Len(s) : s[i] \in Pool
  OBVIOUS
<1>2. /\ t \in Seq(Pool) /\ Len(t) = Len(s) - 1 /\ DOMAIN t = 1 .. Len(t)
      /\ \A i \in 1 .. Len(t) : t[i] = s[i + 1]
  OBVIOUS
<1> HIDE DEF t
<1>3. \A i, j \in 1 .. Len(s) : s[i] = s[j] => i = j
  BY <1>1 DEF IsInjective
<1>4. IsInjective(t)
  BY <1>1, <1>2, <1>3 DEF IsInjective
<1>5. ASSUME NEW e \in Range(t) PROVE e \in Range(s) \ {Head(s)}
  <2>1. PICK i \in 1 .. Len(t) : e = t[i]
    BY <1>2 DEF Range
  <2>2. i + 1 \in 1 .. Len(s) /\ e = s[i + 1] /\ i + 1 # 1
    BY <1>1, <1>2, <2>1
  <2> QED BY <1>1, <1>3, <2>2 DEF Range
<1>6. ASSUME NEW e \in Range(s) \ {Head(s)} PROVE e \in Range(t)
  <2>1. PICK i \in 1 .. Len(s) : e = s[i]
    BY <1>1 DEF Range
  <2>2. i # 1
    BY <1>1, <2>1
  <2>3. i - 1 \in 1 .. Len(t) /\ t[i - 1] = e
    BY <1>1, <1>2, <2>1, <2>2
  <2> QED BY <1>2, <2>3 DEF Range
<1> QED BY <1>1, <1>2, <1>4, <1>5, <1>6 DEF t, Range

\* sq_addlast(&g_wdfreelist): a watchdog that is not free joins the list.
LEMMA GivenToFree ==
  ASSUME NEW s \in Seq(Pool), NEW d \in Pool, d \notin Range(s), IsInjective(s)
  PROVE  /\ Append(s, d) \in Seq(Pool) /\ Len(Append(s, d)) = Len(s) + 1
         /\ Range(Append(s, d)) = Range(s) \union {d}
         /\ IsInjective(Append(s, d))
<1> DEFINE t == Append(s, d)
<1>1. Len(s) \in Nat /\ DOMAIN s = 1 .. Len(s)
  OBVIOUS
<1>2. /\ t \in Seq(Pool) /\ Len(t) = Len(s) + 1 /\ DOMAIN t = 1 .. Len(t)
      /\ \A i \in 1 .. Len(t) : t[i] = IF i = Len(t) THEN d ELSE s[i]
  OBVIOUS
<1> HIDE DEF t
<1>3. \A i, j \in 1 .. Len(s) : s[i] = s[j] => i = j
  BY <1>1 DEF IsInjective
<1>4. \A i \in 1 .. Len(s) : s[i] # d
  BY <1>1 DEF Range
<1>5. IsInjective(t)
  <2> SUFFICES ASSUME NEW i \in 1 .. Len(t), NEW j \in 1 .. Len(t), t[i] = t[j]
               PROVE  i = j
    BY <1>2 DEF IsInjective
  <2>1. CASE i = Len(t) /\ j # Len(t)
    BY <1>1, <1>2, <1>4, <2>1
  <2>2. CASE i # Len(t) /\ j = Len(t)
    BY <1>1, <1>2, <1>4, <2>2
  <2>3. CASE i # Len(t) /\ j # Len(t)
    BY <1>1, <1>2, <1>3, <2>3
  <2> QED BY <2>1, <2>2, <2>3
<1>6. ASSUME NEW e \in Range(t) PROVE e \in Range(s) \union {d}
  BY <1>1, <1>2 DEF Range
<1>7. ASSUME NEW e \in Range(s) \union {d} PROVE e \in Range(t)
  <2>1. CASE e = d
    <3>1. Len(t) \in 1 .. Len(t) /\ t[Len(t)] = d
      BY <1>1, <1>2
    <3> QED BY <1>2, <2>1, <3>1 DEF Range
  <2>2. CASE e # d
    <3>1. PICK i \in 1 .. Len(s) : e = s[i]
      BY <1>1, <2>2 DEF Range
    <3>2. i \in 1 .. Len(t) /\ t[i] = e
      BY <1>1, <1>2, <3>1
    <3> QED BY <1>2, <3>2 DEF Range
  <2> QED BY <2>1, <2>2
<1> QED BY <1>2, <1>5, <1>6, <1>7 DEF t

FreeInv ==
  /\ free \in Seq(Pool)
  /\ IsInjective(free)
  /\ nfree = Len(free)
  /\ heap \subseteq Heap
  /\ reserved \subseteq Pool

\* wd_create returns no watchdog, or one that was not in use and now is.
LEMMA CreateEffect ==
  ASSUME ConstantsAssumption, FreeInv, NEW d \in Dogs \union {NoDog}, NEW h \in BOOLEAN, wd_create(d, h)
  PROVE  /\ FreeInv'
         /\ UNCHANGED <<list, lag, left>>
         /\ active' = active \ {d}
         /\ d # NoDog => d \notin InUse /\ InUse' = InUse \union {d}
         /\ d = NoDog => InUse' = InUse
<1>1. CASE ~(nfree > INTRESERVE \/ h)
  BY <1>1 DEF wd_create, FreeInv, InUse, ConstantsAssumption, Dogs
<1>2. CASE (nfree > INTRESERVE \/ h) /\ free = <<>>
  <2>1. d = NoDog /\ free' = free /\ nfree' = nfree /\ heap' = heap /\ reserved' = (IF h THEN reserved ELSE reserved \union {d})
    BY <1>2 DEF wd_create
  <2>2. nfree = 0
    BY <1>2 DEF FreeInv
  <2>3. h
    BY <1>2, <2>2 DEF ConstantsAssumption
  <2> QED BY <1>2, <2>1, <2>3 DEF wd_create, FreeInv, InUse
<1>3. CASE (nfree > INTRESERVE \/ h) /\ free # <<>>
  <2>1. /\ d = Head(free) /\ free' = Tail(free) /\ nfree' = nfree - 1 /\ heap' = heap
        /\ active' = active \ {d} /\ UNCHANGED <<list, lag, left>>
        /\ reserved' \in {reserved, reserved \union {d}}
    BY <1>3 DEF wd_create
  <2>2. /\ Head(free) \in Pool /\ Head(free) \in Range(free)
        /\ Tail(free) \in Seq(Pool) /\ Len(Tail(free)) = Len(free) - 1
        /\ Range(Tail(free)) = Range(free) \ {Head(free)}
        /\ IsInjective(Tail(free))
    BY <1>3, TakenFromFree DEF FreeInv
  <2>3. FreeInv'
    BY <2>1, <2>2 DEF FreeInv
  <2>4. d \notin InUse /\ InUse' = InUse \union {d}
    BY <2>1, <2>2 DEF InUse, FreeInv, ConstantsAssumption
  <2> QED BY <2>1, <2>2, <2>3, <2>4 DEF ConstantsAssumption, Dogs
<1> QED BY <1>1, <1>2, <1>3

\* wd_delete cancels, and takes a watchdog of the pool or the heap out of use.
LEMMA DeleteEffect ==
  ASSUME ConstantsAssumption, FreeInv, NEW d \in InUse, wd_delete(d)
  PROVE  /\ FreeInv'
         /\ wd_cancel(d)
         /\ InUse' = IF d \in Static THEN InUse ELSE InUse \ {d}
<1>1. wd_cancel(d) /\ heap' = heap \ {d} /\ reserved' = reserved \ {d}
  BY DEF wd_delete
<1>2. CASE d \in Pool
  <2>1. free' = Append(free, d) /\ nfree' = nfree + 1
    BY <1>2 DEF wd_delete
  <2>2. d \notin Range(free)
    BY <1>2 DEF InUse, FreeInv, ConstantsAssumption
  <2>3. /\ Append(free, d) \in Seq(Pool) /\ Len(Append(free, d)) = Len(free) + 1
        /\ Range(Append(free, d)) = Range(free) \union {d}
        /\ IsInjective(Append(free, d))
    BY <1>2, <2>2, GivenToFree DEF FreeInv
  <2>4. FreeInv'
    BY <1>1, <2>1, <2>3 DEF FreeInv
  <2>5. InUse' = InUse \ {d} /\ d \notin Static
    BY <1>1, <1>2, <2>1, <2>3 DEF InUse, FreeInv, ConstantsAssumption
  <2> QED BY <1>1, <2>4, <2>5
<1>3. CASE d \notin Pool
  <2>1. free' = free /\ nfree' = nfree
    BY <1>3 DEF wd_delete
  <2> QED BY <1>1, <1>3, <2>1 DEF FreeInv, InUse, ConstantsAssumption
<1> QED BY <1>2, <1>3

-----------------------------------------------------------------------------
(* The inductive invariant.                                                *)

ListOK == DeltaList(list, lag, left, active)

\* Outside of an expiration nothing is due.
NothingDue == irq = "none" => \A d \in active : left[d] > 0

\* wd_start has passed only delays that are not longer than its own, and now is
\* the time at which the current watchdog is due.
WalkOK ==
  walk # NoWalk =>
    /\ walk.dog \in InUse /\ walk.dog \notin active
    /\ \E delay \in Delays : walk.delay = IF delay <= 0 THEN 1 ELSE delay
    /\ walk.delay \in Nat \ {0}
    /\ walk.curr \in 0 .. Len(list)
    /\ walk.now = IF walk.curr = 0 THEN 0 ELSE left[list[walk.curr]]
    /\ \A j \in 1 .. Len(list) : j < walk.curr => left[list[j]] <= walk.delay
    /\ irq # "expiration"

\* Every watchdog that is in use has one owner.
OwnersOK ==
  /\ \A u \in Timers : handle[u] \in InUse \union {NoDog}
  /\ \A t \in Waiters : Owned(t) => waitdog[t] \in InUse
  /\ \A u, v \in Timers : handle[u] = handle[v] /\ u # v => handle[u] = NoDog
  /\ \A t, w \in Waiters : Owned(t) /\ Owned(w) /\ t # w => waitdog[t] # waitdog[w]
  /\ \A u \in Timers, t \in Waiters : Owned(t) => waitdog[t] # handle[u]

UsersTypeOK ==
  /\ parm \in [Dogs -> User]
  /\ handle \in [Timers -> Dogs \union {NoDog}]
  /\ waitdog \in [Waiters -> Dogs \union {NoDog}]
  /\ at \in [Waiters -> WaitPoint]

ControlTypeOK ==
  /\ irq \in {"none", "expiration", "function"}
  /\ caller \in User
  /\ calls \in 0 .. MaxCalls
  /\ walk \in [dog : Dogs \union {NoDog}, delay : Nat, curr : Nat, now : Int]

IInv ==
  /\ ListOK
  /\ NothingDue
  /\ WalkOK
  /\ FreeInv
  /\ active \subseteq InUse
  /\ OwnersOK
  /\ UsersTypeOK
  /\ ControlTypeOK

\* Whatever is in use is a watchdog.
LEMMA InUseAreDogs == FreeInv => InUse \subseteq Dogs
BY DEF FreeInv, InUse, Dogs

\* wd_initialize establishes the invariant.
LEMMA InitIInv == Init => IInv
<1> SUFFICES ASSUME Init PROVE IInv
  OBVIOUS
<1> USE ConstantsAssumption
<1>1. ListOK
  BY DEF Init, ListOK, DeltaList, ListType, OnceEach, Listed, LeftOfActive, Sorted, LagsExact, Off
<1>2. free \in Seq(Pool) /\ IsInjective(free)
  <2>1. IsFiniteSet(Pool) /\ Pool \subseteq Dogs
    BY FS_Subset DEF ConstantsAssumption, Dogs
  <2>2. PICK n \in Nat : n = Cardinality(Pool)
    BY <2>1, FS_CardinalityType
  <2>3. /\ free \in [1 .. n -> Pool]
        /\ \A i, j \in 1 .. n : i # j => free[i] # free[j]
    BY <2>2 DEF Init, SetToSeqs
  <2> QED BY <2>3 DEF IsInjective
<1>3. FreeInv
  BY <1>2 DEF Init, FreeInv
<1>4. NothingDue /\ WalkOK /\ active \subseteq InUse
  BY DEF Init, NothingDue, WalkOK
<1>5. OwnersOK
  BY DEF Init, OwnersOK, Owned, InUse, ConstantsAssumption
<1>6. UsersTypeOK /\ ControlTypeOK
  BY DEF Init, UsersTypeOK, ControlTypeOK, User, WaitPoint, NoWalk, ConstantsAssumption, Dogs
<1> QED BY <1>1, <1>3, <1>4, <1>5, <1>6 DEF IInv

\* What a cancellation of d, in any of the calls, does to the list.
LEMMA CancelStep ==
  ASSUME IInv, NEW d \in InUse, wd_cancel(d), irq' = irq
  PROVE  /\ ListOK' /\ NothingDue'
         /\ active' = active \ {d}
         /\ left' = [left EXCEPT ![d] = Off]
         /\ [Abstract!Next]_left
<1>1. d \in Dogs
  BY InUseAreDogs DEF IInv
<1>2. ListOK' /\ active' = active \ {d} /\ left' = [left EXCEPT ![d] = Off]
  BY <1>1, CancelKeepsDeltaList DEF IInv, ListOK
<1>3. left \in [Dogs -> Nat \union {Off}] /\ active \subseteq Dogs
  BY DEF IInv, ListOK, DeltaList, ListType
<1>4. NothingDue'
  BY <1>2, <1>3 DEF IInv, NothingDue
<1>5. [Abstract!Next]_left
  <2>1. CASE left[d] = Off
    BY <1>1, <1>2, <1>3, <2>1
  <2>2. CASE left[d] # Off
    BY <1>1, <1>2, <2>2 DEF Abstract!Next, Abstract!Cancel, Abstract!Off, Off
  <2> QED BY <2>1, <2>2
<1> QED BY <1>2, <1>4, <1>5

-----------------------------------------------------------------------------
(* The steps.  Each keeps the invariant and is a step of WDogSpec.         *)

Good == IInv' /\ [Abstract!Next]_left

\* A step of the walk of wd_start.
LEMMA AdvanceStep == ASSUME IInv, Advance PROVE Good
<1>1. /\ walk # NoWalk /\ walk.curr < Len(list) /\ walk.now <= walk.delay
      /\ walk' = [walk EXCEPT !.curr = @ + 1, !.now = @ + lag[list[walk.curr + 1]]]
      /\ UNCHANGED <<lists, pool, users, parm, irq, caller, calls>>
  BY DEF Advance
<1> DEFINE c == walk.curr
<1>2. /\ walk \in [dog : Dogs \union {NoDog}, delay : Nat, curr : Nat, now : Int]
      /\ list \in Seq(Dogs) /\ lag \in [Dogs -> Int] /\ WalkOK
  BY DEF IInv, ControlTypeOK, ListOK, DeltaList, ListType
<1>3. c \in Nat /\ c + 1 \in 1 .. Len(list) /\ list[c + 1] \in Dogs
  BY <1>1, <1>2
<1>4. /\ walk'.dog = walk.dog /\ walk'.delay = walk.delay /\ walk'.curr = c + 1
      /\ walk'.now = walk.now + lag[list[c + 1]]
      /\ walk' \in [dog : Dogs \union {NoDog}, delay : Nat, curr : Nat, now : Int]
  <2>1. lag[list[c + 1]] \in Int
    BY <1>2, <1>3
  <2>2. PICK x \in Int : x = lag[list[c + 1]]
    BY <2>1
  <2>3. walk' = [walk EXCEPT !.curr = @ + 1, !.now = @ + x]
    BY <1>1, <2>2
  <2>4. walk' = [dog |-> walk.dog, delay |-> walk.delay, curr |-> walk.curr + 1,
                 now |-> walk.now + x]
    BY <1>2, <2>3
  <2> QED BY <1>2, <2>2, <2>4
<1>5. /\ lag[list[c + 1]] = left[list[c + 1]] - Before(list, left, c + 1)
      /\ left[list[c + 1]] \in Nat
      /\ c # 0 => left[list[c]] \in Nat
  <2>1. /\ LagsExact(list, lag, left) /\ Listed(list, active) /\ LeftOfActive(left, active)
        /\ active \subseteq Dogs
    BY DEF IInv, ListOK, DeltaList, ListType
  <2>2. \A j \in 1 .. Len(list) : left[list[j]] \in Nat
    BY <2>1 DEF Listed, LeftOfActive
  <2>3. c # 0 => c \in 1 .. Len(list)
    BY <1>3
  <2> QED BY <1>3, <2>1, <2>2, <2>3 DEF LagsExact
<1>6. walk.now = Before(list, left, c + 1)
  BY <1>1, <1>2, <1>3 DEF WalkOK, Before
<1>7. walk'.now = left[list[c + 1]]
  BY <1>2, <1>4, <1>5, <1>6
<1>8. \A j \in 1 .. Len(list) : j < c + 1 => left[list[j]] <= walk.delay
  BY <1>1, <1>2, <1>3 DEF WalkOK
<1>9. WalkOK'
  <2>1. /\ walk.dog \in InUse /\ walk.dog \notin active /\ irq # "expiration"
        /\ \E delay \in Delays : walk.delay = IF delay <= 0 THEN 1 ELSE delay
        /\ walk.delay \in Nat \ {0}
    BY <1>1, <1>2 DEF WalkOK
  <2>2. UNCHANGED <<list, left, active, InUse, irq>>
    BY <1>1 DEF lists, pool, InUse
  <2>3. walk'.curr \in 0 .. Len(list) /\ walk'.curr # 0
    BY <1>3, <1>4
  <2> QED BY <1>4, <1>7, <1>8, <2>1, <2>2, <2>3 DEF WalkOK
<1>10. ListOK' /\ NothingDue' /\ FreeInv' /\ (active \subseteq InUse)' /\ OwnersOK' /\ UsersTypeOK'
  BY <1>1 DEF IInv, lists, pool, users, ListOK, NothingDue, FreeInv, InUse, OwnersOK, Owned, UsersTypeOK
<1>11. ControlTypeOK'
  BY <1>1, <1>4 DEF IInv, ControlTypeOK
<1> QED BY <1>1, <1>9, <1>10, <1>11 DEF Good, IInv, lists

\* The insertion by wd_start is a start at the asked deadline.
LEMMA InsertStep == ASSUME ConstantsAssumption, IInv, Insert PROVE Good
<1> DEFINE d == walk.dog
           n == walk.delay
           c == IF n < walk.now THEN walk.curr ELSE Len(list) + 1
<1>1. /\ walk # NoWalk /\ WalkOK
      /\ ~(walk.curr < Len(list) /\ walk.now <= n)
      /\ walk \in [dog : Dogs \union {NoDog}, delay : Nat, curr : Nat, now : Int]
      /\ walk' = NoWalk
      /\ UNCHANGED <<pool, users, parm, irq, caller, calls>>
  BY DEF IInv, ControlTypeOK, Insert
<1>2. /\ d \in InUse /\ d \notin active /\ d \in Dogs
      /\ n \in Nat \ {0}
      /\ \E delay \in Delays : n = IF delay <= 0 THEN 1 ELSE delay
      /\ walk.curr \in 0 .. Len(list) /\ walk.now \in Int
      /\ walk.now = IF walk.curr = 0 THEN 0 ELSE left[list[walk.curr]]
      /\ \A j \in 1 .. Len(list) : j < walk.curr => left[list[j]] <= n
  BY <1>1, InUseAreDogs DEF WalkOK, IInv
<1>3. /\ list \in Seq(Dogs) /\ lag \in [Dogs -> Int] /\ left \in [Dogs -> Nat \union {Off}]
      /\ active \subseteq Dogs /\ OnceEach(list)
      /\ Sorted(list, left) /\ LagsExact(list, lag, left)
      /\ Listed(list, active) /\ LeftOfActive(left, active)
  BY DEF IInv, ListOK, DeltaList, ListType
<1>4. \A j \in 1 .. Len(list) : list[j] \in Dogs /\ list[j] # d /\ left[list[j]] \in Nat
  BY <1>2, <1>3 DEF Listed, LeftOfActive
<1>5. c \in 1 .. Len(list) + 1 /\ (n < walk.now => walk.curr \in 1 .. Len(list))
  BY <1>2, <1>3
<1>6. Place(list, left, c, n)
  <2>1. CASE n < walk.now
    <3>1. c = walk.curr /\ c \in 1 .. Len(list) /\ n < left[list[c]]
      BY <1>2, <1>5, <2>1
    <3>2. ASSUME NEW j \in 1 .. Len(list), j >= c PROVE n <= left[list[j]]
      <4>1. left[list[c]] <= left[list[j]]
        BY <1>3, <1>4, <3>1, <3>2 DEF Sorted
      <4> QED BY <1>2, <1>4, <3>1, <4>1
    <3> QED BY <1>2, <3>1, <3>2 DEF Place
  <2>2. CASE ~(n < walk.now)
    <3>1. walk.now <= n /\ c = Len(list) + 1 /\ walk.curr = Len(list)
      BY <1>1, <1>2, <1>3, <2>2
    <3>2. \A j \in 1 .. Len(list) : left[list[j]] <= n
      BY <1>2, <1>3, <3>1
    <3> QED BY <1>3, <3>1, <3>2 DEF Place
  <2> QED BY <2>1, <2>2
<1>7. Insertion(list, list', c, d)
  <2>1. CASE n < walk.now
    <3>1. list' = InsertAt(list, c, d) /\ c \in 1 .. Len(list)
      BY <1>5, <2>1 DEF Insert
    <3> HIDE DEF c, d
    <3> QED BY <1>2, <1>3, <3>1, InsertAtInserts
  <2>2. CASE ~(n < walk.now)
    <3>1. list' = Append(list, d) /\ c = Len(list) + 1
      BY <2>2 DEF Insert
    <3> HIDE DEF c, d
    <3>2. Insertion(list, Append(list, d), Len(list) + 1, d)
      BY <1>2, <1>3, AppendInserts
    <3> QED BY <3>1, <3>2, Zenon
  <2> QED BY <2>1, <2>2
<1>8. Relative(list, lag, lag', left, c, d, n)
  <2>1. CASE n < walk.now
    <3>1. c = walk.curr /\ c \in 1 .. Len(list) /\ walk.now = left[list[c]] /\ list[c] \in Dogs /\ list[c] # d
      BY <1>2, <1>4, <1>5, <2>1
    <3>2. lag[list[c]] = left[list[c]] - Before(list, left, c)
      BY <1>3, <3>1 DEF LagsExact
    <3>3. Before(list, left, c) \in Int
      <4>1. c # 1 => c - 1 \in 1 .. Len(list)
        BY <1>3, <3>1
      <4> QED BY <1>4, <4>1 DEF Before
    <3> DEFINE r == n - (walk.now - lag[list[c]])
    <3>4. lag' = [lag EXCEPT ![list[c]] = @ - r, ![d] = r]
      BY <2>1, <3>1 DEF Insert
    <3>5. r = n - Before(list, left, c) /\ r \in Int
      <4>1. left[list[c]] \in Int /\ n \in Int
        BY <1>2, <1>4, <3>1
      <4> QED BY <3>1, <3>2, <3>3, <4>1
    <3> HIDE DEF r, c, d
    <3>6. lag' \in [Dogs -> Int] /\ lag'[d] = r /\ lag'[list[c]] = lag[list[c]] - r
      BY <1>2, <1>3, <3>1, <3>4, <3>5
    <3>7. \A j \in 1 .. Len(list) : j # c => lag'[list[j]] = lag[list[j]]
      BY <1>3, <1>4, <3>1, <3>4 DEF OnceEach
    <3> QED BY <3>1, <3>5, <3>6, <3>7 DEF Relative
  <2>2. CASE ~(n < walk.now)
    <3>1. walk.now <= n /\ c = Len(list) + 1 /\ walk.curr = Len(list)
      BY <1>1, <1>2, <1>3, <2>2
    <3>2. Before(list, left, c) = walk.now
      BY <1>2, <1>3, <3>1 DEF Before
    <3>3. lag' = [lag EXCEPT ![d] = n - walk.now]
      BY <2>2 DEF Insert
    <3> HIDE DEF c, d
    <3>4. lag' \in [Dogs -> Int] /\ lag'[d] = n - walk.now
      BY <1>2, <1>3, <3>3
    <3>5. \A j \in 1 .. Len(list) : lag'[list[j]] = lag[list[j]] /\ j # c
      BY <1>3, <1>4, <3>1, <3>3
    <3> QED BY <3>2, <3>4, <3>5 DEF Relative
  <2> QED BY <2>1, <2>2
<1>9. active' = active \union {d} /\ left' = [left EXCEPT ![d] = n]
  BY DEF Insert
<1> HIDE DEF c
<1>10. ListOK'
  <2>1. DeltaList(list', lag', [left EXCEPT ![d] = n], active \union {d})
    <3> HIDE DEF d, n
    <3>1. d \in Dogs \ active /\ n \in Nat /\ DeltaList(list, lag, left, active)
      BY <1>2 DEF IInv, ListOK
    <3> QED BY <1>5, <1>6, <1>7, <1>8, <3>1, InsertionKeepsDeltaList
  <2> QED BY <1>9, <2>1 DEF ListOK
<1>11. NothingDue'
  BY <1>1, <1>2, <1>3, <1>9 DEF IInv, NothingDue
<1>12. InUse' = InUse
  BY <1>1 DEF InUse, pool
<1>13. WalkOK' /\ FreeInv' /\ (active \subseteq InUse)' /\ OwnersOK' /\ UsersTypeOK'
  BY <1>1, <1>2, <1>9, <1>12 DEF IInv, pool, users, WalkOK, FreeInv, OwnersOK, Owned, UsersTypeOK
<1>14. ControlTypeOK'
  BY <1>1 DEF IInv, ControlTypeOK, NoWalk
<1>15. [Abstract!Next]_left
  <2>1. left[d] = Off
    BY <1>2, <1>3 DEF LeftOfActive
  <2>2. PICK delay \in Delays : n = IF delay <= 0 THEN 1 ELSE delay
    BY <1>2
  <2>3. Abstract!Start(d, delay)
    BY <1>9, <2>1, <2>2 DEF Abstract!Start, Abstract!Off, Off
  <2> QED BY <1>2, <2>3 DEF Abstract!Next
<1> QED BY <1>10, <1>11, <1>13, <1>14, <1>15 DEF Good, IInv

\* A tick brings every active watchdog one tick nearer; nothing was due before.
LEMMA TimerStep == ASSUME IInv, wd_timer PROVE Good
<1>1. /\ irq = "none" /\ walk = NoWalk /\ list # <<>>
      /\ lag' = [lag EXCEPT ![list[1]] = @ - 1]
      /\ left' = [d \in Dogs |-> IF d \in active THEN left[d] - 1 ELSE left[d]]
      /\ irq' = IF lag'[list[1]] <= 0 THEN "expiration" ELSE "none"
      /\ UNCHANGED <<pool, users, list, active, parm, caller, calls, walk>>
  BY DEF wd_timer
<1>2. \A d \in active : left[d] > 0
  BY <1>1 DEF IInv, NothingDue
<1>3. ListOK'
  BY <1>1, <1>2, TickKeepsDeltaList DEF IInv, ListOK
<1>4. NothingDue'
  <2> SUFFICES ASSUME irq' = "none", NEW d \in active' PROVE left'[d] > 0
    BY DEF NothingDue
  <2>1. lag'[list'[1]] > 0 /\ list' # <<>>
    <3>1. list' # <<>> /\ DeltaList(list', lag', left', active')
      BY <1>1, <1>3 DEF ListOK
    <3>2. lag'[list'[1]] = left'[list'[1]] /\ left'[list'[1]] \in Nat
      BY <3>1, HeadIsLeast
    <3> QED BY <1>1, <3>1, <3>2
  <2>2. left'[d] \in Nat /\ left'[list'[1]] \in Nat /\ lag'[list'[1]] = left'[list'[1]] /\ left'[list'[1]] <= left'[d]
    BY <1>3, <2>1, HeadIsLeast DEF ListOK
  <2> QED BY <2>1, <2>2
<1>5. InUse' = InUse
  BY <1>1 DEF InUse, pool
<1>6. WalkOK' /\ FreeInv' /\ (active \subseteq InUse)' /\ OwnersOK' /\ UsersTypeOK' /\ ControlTypeOK'
  BY <1>1, <1>5 DEF IInv, pool, users, WalkOK, FreeInv, OwnersOK, Owned, UsersTypeOK, ControlTypeOK
<1>7. [Abstract!Next]_left
  <2>1. \A d \in Dogs : IF d \in active THEN left[d] \in Nat /\ left[d] > 0 ELSE left[d] = Off
    BY <1>2 DEF IInv, ListOK, DeltaList, LeftOfActive
  <2>2. Abstract!Tick
    BY <1>1, <2>1 DEF Abstract!Tick, Abstract!Off, Off
  <2> QED BY <2>2 DEF Abstract!Next
<1> QED BY <1>3, <1>4, <1>6, <1>7 DEF Good, IInv

\* wd_expiration removes the first element.
LEMMA TailRemoves ==
  ASSUME NEW s \in Seq(Dogs), s # <<>>
  PROVE  Removal(s, Tail(s), 1)
BY DEF Removal

\* wd_expiration takes off a watchdog exactly when its deadline is reached.
LEMMA ExpireStep == ASSUME IInv, Expire PROVE Good
<1> DEFINE d == list[1]
<1>1. /\ irq = "expiration" /\ list # <<>> /\ lag[d] <= 0
      /\ list' = Tail(list)
      /\ lag' = IF Len(list) > 1 THEN [lag EXCEPT ![list[2]] = @ + lag[d]] ELSE lag
      /\ active' = active \ {d}
      /\ left' = [left EXCEPT ![d] = Off]
      /\ irq' = "function"
      /\ caller' = parm[d]
      /\ calls' = IF parm[d] \in Timers THEN MaxCalls ELSE 0
      /\ at' = IF parm[d] \in Waiters /\ at[parm[d]] = "blocked"
               THEN [at EXCEPT ![parm[d]] = "ready"] ELSE at
      /\ UNCHANGED <<pool, parm, handle, waitdog, walk>>
  BY DEF Expire
<1>2. /\ 1 \in 1 .. Len(list) /\ d \in active /\ d \in Dogs
      /\ left[d] \in Nat /\ lag[d] = left[d]
  BY <1>1, HeadIsLeast DEF IInv, ListOK
<1>3. left[d] = 0
  BY <1>1, <1>2
<1>4. ListOK'
  <2>1. list \in Seq(Dogs) /\ Removal(list, list', 1)
    BY <1>1, TailRemoves DEF IInv, ListOK, DeltaList, ListType
  <2>2. lag' = IF 1 = Len(list) THEN lag ELSE [lag EXCEPT ![list[1 + 1]] = @ + lag[list[1]]]
    <3>1. Len(list) > 1 <=> ~(1 = Len(list))
      <4>1. Len(list) \in Nat /\ 1 <= Len(list)
        BY <1>2, <2>1
      <4>2. \A n \in Nat : 1 <= n => (n > 1 <=> ~(1 = n))
        OBVIOUS
      <4> HIDE DEF d
      <4> QED BY <4>1, <4>2, Zenon
    <3>2. 1 + 1 = 2
      OBVIOUS
    <3> QED BY <1>1, <3>1, <3>2
  <2>3. DeltaList(list', lag', [left EXCEPT ![list[1]] = Off], active \ {list[1]})
    BY <1>2, <2>1, <2>2, RemovalKeepsDeltaList DEF IInv, ListOK
  <2> QED BY <1>1, <2>3 DEF ListOK
<1>5. walk = NoWalk
  BY <1>1 DEF IInv, WalkOK
<1>6. NothingDue' /\ WalkOK'
  BY <1>1, <1>5 DEF NothingDue, WalkOK
<1>7. InUse' = InUse
  BY <1>1 DEF InUse, pool
<1>8. at' \in [Waiters -> WaitPoint] /\ \A t \in Waiters : Owned(t)' = Owned(t)
  BY <1>1 DEF IInv, UsersTypeOK, WaitPoint, Owned
<1>9. OwnersOK'
  BY <1>1, <1>7, <1>8 DEF IInv, OwnersOK
<1>10. FreeInv' /\ (active \subseteq InUse)' /\ UsersTypeOK' /\ ControlTypeOK'
  BY <1>1, <1>2, <1>7, <1>8, ConstantsAssumption
     DEF IInv, pool, FreeInv, UsersTypeOK, ControlTypeOK, ConstantsAssumption
<1>11. [Abstract!Next]_left
  BY <1>1, <1>2, <1>3 DEF Abstract!Next, Abstract!Expire, Abstract!Off, Off
<1> QED BY <1>4, <1>6, <1>9, <1>10, <1>11 DEF Good, IInv

\* The interrupt returns only when nothing is due any more.
LEMMA ReturnSteps == ASSUME IInv, FunctionReturns \/ InterruptReturns PROVE Good
<1>1. UNCHANGED <<lists, pool, users, parm, walk>>
  BY DEF FunctionReturns, InterruptReturns
<1>2. ListOK' /\ FreeInv' /\ (active \subseteq InUse)' /\ OwnersOK' /\ UsersTypeOK' /\ InUse' = InUse
  BY <1>1 DEF IInv, lists, pool, users, ListOK, FreeInv, InUse, OwnersOK, Owned, UsersTypeOK
<1>3. [Abstract!Next]_left
  BY <1>1 DEF lists
<1>4. CASE FunctionReturns
  <2>1. NothingDue' /\ WalkOK' /\ ControlTypeOK'
    BY <1>1, <1>4, ConstantsAssumption
       DEF FunctionReturns, NothingDue, WalkOK, IInv, ControlTypeOK, User, ConstantsAssumption
  <2> QED BY <1>2, <1>3, <2>1 DEF Good, IInv
<1>5. CASE InterruptReturns
  <2>1. walk = NoWalk
    BY <1>5 DEF IInv, WalkOK, InterruptReturns
  <2>2. NothingDue'
    <3> SUFFICES ASSUME NEW d \in active PROVE left[d] > 0
      BY <1>1 DEF NothingDue, lists
    <3>1. list # <<>>
      BY DEF IInv, ListOK, DeltaList, Listed
    <3>2. lag[list[1]] > 0
      BY <1>5, <3>1 DEF InterruptReturns
    <3>3. left[d] \in Nat /\ left[list[1]] \in Nat /\ lag[list[1]] = left[list[1]] /\ left[list[1]] <= left[d]
      BY <3>1, HeadIsLeast DEF IInv, ListOK
    <3> QED BY <3>2, <3>3
  <2>3. WalkOK' /\ ControlTypeOK'
    BY <1>1, <1>5, <2>1 DEF InterruptReturns, WalkOK, IInv, ControlTypeOK
  <2> QED BY <1>2, <1>3, <2>2, <2>3 DEF Good, IInv
<1> QED BY <1>4, <1>5

-----------------------------------------------------------------------------
(* The calls of the users.                                                 *)

\* What a call from a thread, a handler or a function leaves alone.
LEMMA CallFacts ==
  ASSUME IInv, NEW h \in BOOLEAN, Call(h)
  PROVE  /\ walk = NoWalk /\ irq # "expiration" /\ irq' = irq /\ caller' = caller
         /\ calls' \in 0 .. MaxCalls
BY ConstantsAssumption DEF IInv, ControlTypeOK, Call, ConstantsAssumption

\* wd_create, by whomever it is called.
LEMMA CreateStep ==
  ASSUME IInv, NEW d \in Dogs \union {NoDog}, NEW h \in BOOLEAN, wd_create(d, h),
         irq' = irq, walk = NoWalk, walk' = walk
  PROVE  /\ ListOK' /\ NothingDue' /\ WalkOK' /\ FreeInv' /\ (active \subseteq InUse)'
         /\ [Abstract!Next]_left
         /\ d # NoDog => d \notin InUse /\ InUse' = InUse \union {d}
         /\ d = NoDog => InUse' = InUse
<1>1. /\ FreeInv'
      /\ UNCHANGED <<list, lag, left>>
      /\ active' = active \ {d}
      /\ d # NoDog => d \notin InUse /\ InUse' = InUse \union {d}
      /\ d = NoDog => InUse' = InUse
  BY ConstantsAssumption, CreateEffect DEF IInv
<1>2. d \notin active
  BY <1>1, InUseAreDogs, ConstantsAssumption DEF IInv, ConstantsAssumption
<1>3. active' = active
  BY <1>1, <1>2
<1> QED BY <1>1, <1>3 DEF IInv, ListOK, NothingDue, WalkOK

\* A timer obtains its watchdog.
LEMMA TimerCreateStep ==
  ASSUME IInv, NEW u \in Timers, NEW h \in BOOLEAN, TimerCreate(u, h) PROVE Good
<1>1. PICK d \in Dogs \union {NoDog} : wd_create(d, h) /\ handle' = [handle EXCEPT ![u] = d]
  BY DEF TimerCreate
<1>2. /\ Call(h) /\ handle[u] = NoDog
      /\ UNCHANGED <<parm, waitdog, at, walk>>
  BY DEF TimerCreate
<1>3. walk = NoWalk /\ irq' = irq /\ caller' = caller /\ calls' \in 0 .. MaxCalls
  BY <1>2, CallFacts
<1>4. /\ ListOK' /\ NothingDue' /\ WalkOK' /\ FreeInv' /\ (active \subseteq InUse)'
      /\ [Abstract!Next]_left
      /\ d # NoDog => d \notin InUse /\ InUse' = InUse \union {d}
      /\ d = NoDog => InUse' = InUse
  BY <1>1, <1>2, <1>3, CreateStep
<1>5. UsersTypeOK' /\ ControlTypeOK'
  BY <1>1, <1>2, <1>3 DEF IInv, UsersTypeOK, ControlTypeOK
<1>6. OwnersOK'
  <2>1. handle \in [Timers -> Dogs \union {NoDog}] /\ OwnersOK
    BY DEF IInv, UsersTypeOK
  <2>2. \A v \in Timers : handle'[v] = IF v = u THEN d ELSE handle[v]
    BY <1>1, <2>1
  <2>3. \A t \in Waiters : Owned(t)' = Owned(t) /\ waitdog'[t] = waitdog[t]
    BY <1>2 DEF Owned
  <2> QED BY <1>2, <1>4, <2>1, <2>2, <2>3, ConstantsAssumption, InUseAreDogs
          DEF OwnersOK, IInv, ConstantsAssumption
<1> QED BY <1>4, <1>5, <1>6 DEF Good, IInv

\* wd_start up to the walk, by whomever it is called.
LEMMA StartStep ==
  ASSUME IInv, NEW d \in InUse, NEW delay \in Delays, NEW u \in User, wd_start(d, delay, u),
         irq' = irq, irq # "expiration", caller' = caller, calls' \in 0 .. MaxCalls, UNCHANGED pool
  PROVE  /\ ListOK' /\ NothingDue' /\ WalkOK' /\ FreeInv' /\ (active \subseteq InUse)'
         /\ ControlTypeOK' /\ parm' \in [Dogs -> User]
         /\ InUse' = InUse
         /\ [Abstract!Next]_left
<1>1. /\ wd_cancel(d)
      /\ parm' = [parm EXCEPT ![d] = u]
      /\ walk' = [dog |-> d, delay |-> IF delay <= 0 THEN 1 ELSE delay, curr |-> 0, now |-> 0]
  BY DEF wd_start
<1>2. /\ ListOK' /\ NothingDue' /\ active' = active \ {d} /\ [Abstract!Next]_left
  BY <1>1, CancelStep
<1>3. d \in Dogs
  BY InUseAreDogs DEF IInv
<1>4. InUse' = InUse /\ FreeInv'
  BY DEF InUse, pool, IInv, FreeInv
<1>5. delay \in Nat
  BY ConstantsAssumption DEF ConstantsAssumption
<1>6. ControlTypeOK'
  BY <1>1, <1>3, <1>5 DEF IInv, ControlTypeOK
<1>7. WalkOK'
  <2>1. list' \in Seq(Dogs)
    BY <1>2 DEF ListOK, DeltaList, ListType
  <2>2. /\ walk'.dog = d /\ walk'.curr = 0 /\ walk'.now = 0
        /\ walk'.delay = (IF delay <= 0 THEN 1 ELSE delay)
    BY <1>1
  <2>3. walk'.delay \in Nat \ {0} /\ walk'.curr \in 0 .. Len(list')
    BY <1>5, <2>1, <2>2
  <2> QED BY <1>2, <1>4, <2>1, <2>2, <2>3 DEF WalkOK
<1>8. parm' \in [Dogs -> User]
  BY <1>1 DEF IInv, UsersTypeOK
<1> QED BY <1>2, <1>4, <1>6, <1>7, <1>8 DEF IInv

\* A timer is started or restarted.
LEMMA TimerStartStep ==
  ASSUME IInv, NEW u \in Timers, NEW delay \in Delays, TimerStart(u, delay) PROVE Good
<1>1. /\ Call(TRUE) /\ handle[u] # NoDog /\ wd_start(handle[u], delay, u)
      /\ UNCHANGED <<pool, users>>
  BY DEF TimerStart
<1>2. irq # "expiration" /\ irq' = irq /\ caller' = caller /\ calls' \in 0 .. MaxCalls
  BY <1>1, CallFacts
<1>3. handle[u] \in InUse /\ u \in User
  BY <1>1 DEF IInv, OwnersOK, User
<1>4. /\ ListOK' /\ NothingDue' /\ WalkOK' /\ FreeInv' /\ (active \subseteq InUse)'
      /\ ControlTypeOK' /\ parm' \in [Dogs -> User] /\ InUse' = InUse
      /\ [Abstract!Next]_left
  BY <1>1, <1>2, <1>3, StartStep
<1>5. UsersTypeOK' /\ OwnersOK'
  BY <1>1, <1>4 DEF IInv, users, UsersTypeOK, OwnersOK, Owned
<1> QED BY <1>4, <1>5 DEF Good, IInv

\* A timer is cancelled.
LEMMA TimerCancelStep ==
  ASSUME IInv, NEW u \in Timers, TimerCancel(u) PROVE Good
<1>1. /\ Call(TRUE) /\ handle[u] # NoDog /\ wd_cancel(handle[u])
      /\ UNCHANGED <<pool, users, parm, walk>>
  BY DEF TimerCancel
<1>2. walk = NoWalk /\ irq' = irq /\ caller' = caller /\ calls' \in 0 .. MaxCalls
  BY <1>1, CallFacts
<1>3. handle[u] \in InUse
  BY <1>1 DEF IInv, OwnersOK
<1>4. /\ ListOK' /\ NothingDue' /\ active' = active \ {handle[u]} /\ [Abstract!Next]_left
  BY <1>1, <1>2, <1>3, CancelStep
<1>5. InUse' = InUse
  BY <1>1 DEF InUse, pool
<1>6. WalkOK' /\ FreeInv' /\ (active \subseteq InUse)' /\ OwnersOK' /\ UsersTypeOK' /\ ControlTypeOK'
  BY <1>1, <1>2, <1>4, <1>5
     DEF IInv, pool, users, WalkOK, FreeInv, OwnersOK, Owned, UsersTypeOK, ControlTypeOK
<1> QED BY <1>4, <1>6 DEF Good, IInv

\* wd_delete, by whomever it is called.
LEMMA DeleteStep ==
  ASSUME IInv, NEW d \in InUse, wd_delete(d), irq' = irq, walk = NoWalk, walk' = walk
  PROVE  /\ ListOK' /\ NothingDue' /\ WalkOK' /\ FreeInv' /\ (active \subseteq InUse)'
         /\ InUse' = IF d \in Static THEN InUse ELSE InUse \ {d}
         /\ [Abstract!Next]_left
<1>1. FreeInv' /\ wd_cancel(d) /\ InUse' = IF d \in Static THEN InUse ELSE InUse \ {d}
  BY ConstantsAssumption, DeleteEffect DEF IInv
<1>2. ListOK' /\ NothingDue' /\ active' = active \ {d} /\ [Abstract!Next]_left
  BY <1>1, CancelStep
<1> QED BY <1>1, <1>2 DEF IInv, WalkOK

\* A timer is deleted; a static watchdog stays with its owner.
LEMMA TimerDeleteStep ==
  ASSUME IInv, NEW u \in Timers, TimerDelete(u) PROVE Good
<1>1. /\ Call(TRUE) /\ handle[u] # NoDog /\ wd_delete(handle[u])
      /\ handle' = IF handle[u] \in Static THEN handle ELSE [handle EXCEPT ![u] = NoDog]
      /\ UNCHANGED <<parm, waitdog, at, walk>>
  BY DEF TimerDelete
<1>2. walk = NoWalk /\ irq' = irq /\ caller' = caller /\ calls' \in 0 .. MaxCalls
  BY <1>1, CallFacts
<1>3. handle[u] \in InUse
  BY <1>1 DEF IInv, OwnersOK
<1>4. /\ ListOK' /\ NothingDue' /\ WalkOK' /\ FreeInv' /\ (active \subseteq InUse)'
      /\ InUse' = IF handle[u] \in Static THEN InUse ELSE InUse \ {handle[u]}
      /\ [Abstract!Next]_left
  BY <1>1, <1>2, <1>3, DeleteStep
<1>5. UsersTypeOK' /\ ControlTypeOK'
  BY <1>1, <1>2 DEF IInv, UsersTypeOK, ControlTypeOK
<1>6. OwnersOK'
  <2>1. handle \in [Timers -> Dogs \union {NoDog}] /\ OwnersOK
    BY DEF IInv, UsersTypeOK
  <2>2. \A v \in Timers : handle'[v] = IF v = u /\ handle[u] \notin Static THEN NoDog ELSE handle[v]
    BY <1>1, <2>1
  <2>3. \A t \in Waiters : Owned(t)' = Owned(t) /\ waitdog'[t] = waitdog[t]
    BY <1>1 DEF Owned
  <2>4. NoDog \notin InUse
    BY InUseAreDogs, ConstantsAssumption DEF IInv, ConstantsAssumption
  <2> QED BY <1>1, <1>4, <2>1, <2>2, <2>3, <2>4 DEF OwnersOK
<1> QED BY <1>4, <1>5, <1>6 DEF Good, IInv

\* What a step of a timed wait leaves alone.
LEMMA RunningFacts ==
  ASSUME IInv, Running
  PROVE  /\ irq = "none" /\ irq' = irq /\ walk = NoWalk
         /\ caller' = caller /\ calls' = calls /\ handle' = handle
         /\ calls \in 0 .. MaxCalls
BY DEF Running, IInv, ControlTypeOK

\* sem_timedwait creates its watchdog.
LEMMA WaitCreateStep ==
  ASSUME IInv, NEW t \in Waiters, WaitCreate(t) PROVE Good
<1>1. PICK d \in Dogs \union {NoDog} :
        /\ wd_create(d, FALSE)
        /\ waitdog' = [waitdog EXCEPT ![t] = d]
        /\ at' = IF d = NoDog THEN at ELSE [at EXCEPT ![t] = "created"]
  BY DEF WaitCreate
<1>2. Running /\ at[t] = "idle" /\ UNCHANGED <<parm, walk>>
  BY DEF WaitCreate
<1>3. /\ irq' = irq /\ walk = NoWalk /\ caller' = caller /\ calls' = calls /\ handle' = handle
  BY <1>2, RunningFacts
<1>4. /\ ListOK' /\ NothingDue' /\ WalkOK' /\ FreeInv' /\ (active \subseteq InUse)'
      /\ [Abstract!Next]_left
      /\ d # NoDog => d \notin InUse /\ InUse' = InUse \union {d}
      /\ d = NoDog => InUse' = InUse
  BY <1>1, <1>2, <1>3, CreateStep
<1>5. UsersTypeOK' /\ ControlTypeOK'
  BY <1>1, <1>2, <1>3 DEF IInv, UsersTypeOK, ControlTypeOK, WaitPoint
<1>6. OwnersOK'
  <2>1. /\ waitdog \in [Waiters -> Dogs \union {NoDog}] /\ at \in [Waiters -> WaitPoint]
        /\ OwnersOK
    BY DEF IInv, UsersTypeOK
  <2>2. \A w \in Waiters : waitdog'[w] = IF w = t THEN d ELSE waitdog[w]
    BY <1>1, <2>1
  <2>3. \A w \in Waiters : Owned(w)' <=> (Owned(w) \/ (w = t /\ d # NoDog))
    BY <1>1, <1>2, <2>1 DEF Owned
  <2>4. ~ Owned(t)
    BY <1>2 DEF Owned
  <2> QED BY <1>3, <1>4, <2>1, <2>2, <2>3, <2>4, ConstantsAssumption, InUseAreDogs
          DEF OwnersOK, IInv, ConstantsAssumption
<1> QED BY <1>4, <1>5, <1>6 DEF Good, IInv

\* sem_timedwait starts its watchdog and blocks.
LEMMA WaitStartStep ==
  ASSUME IInv, NEW t \in Waiters, NEW delay \in Delays, WaitStart(t, delay) PROVE Good
<1>1. /\ Running /\ at[t] = "created" /\ wd_start(waitdog[t], delay, t)
      /\ at' = [at EXCEPT ![t] = "blocked"]
      /\ UNCHANGED <<pool, waitdog>>
  BY DEF WaitStart
<1>2. irq = "none" /\ irq' = irq /\ caller' = caller /\ calls' \in 0 .. MaxCalls /\ handle' = handle
  BY <1>1, RunningFacts
<1>3. waitdog[t] \in InUse /\ t \in User
  BY <1>1 DEF IInv, OwnersOK, Owned, User
<1>4. /\ ListOK' /\ NothingDue' /\ WalkOK' /\ FreeInv' /\ (active \subseteq InUse)'
      /\ ControlTypeOK' /\ parm' \in [Dogs -> User] /\ InUse' = InUse
      /\ [Abstract!Next]_left
  BY <1>1, <1>2, <1>3, StartStep
<1>5. at' \in [Waiters -> WaitPoint] /\ \A w \in Waiters : Owned(w)' = Owned(w)
  BY <1>1 DEF IInv, UsersTypeOK, WaitPoint, Owned
<1>6. UsersTypeOK' /\ OwnersOK'
  BY <1>1, <1>2, <1>4, <1>5 DEF IInv, UsersTypeOK, OwnersOK
<1> QED BY <1>4, <1>6 DEF Good, IInv

\* The wait ends with a post or a signal.
LEMMA WaitPostedStep ==
  ASSUME IInv, NEW t \in Waiters, WaitPosted(t) PROVE Good
<1>1. /\ at[t] = "blocked" /\ at' = [at EXCEPT ![t] = "ready"]
      /\ UNCHANGED <<lists, pool, parm, handle, waitdog, irq, caller, calls, walk>>
  BY DEF WaitPosted
<1>2. at' \in [Waiters -> WaitPoint] /\ \A w \in Waiters : Owned(w)' = Owned(w)
  BY <1>1 DEF IInv, UsersTypeOK, WaitPoint, Owned
<1>3. InUse' = InUse
  BY <1>1 DEF InUse, pool
<1>4. ListOK' /\ NothingDue' /\ WalkOK' /\ FreeInv' /\ (active \subseteq InUse)'
  BY <1>1, <1>3 DEF IInv, lists, pool, ListOK, NothingDue, WalkOK, FreeInv
<1>5. OwnersOK' /\ UsersTypeOK' /\ ControlTypeOK'
  BY <1>1, <1>2, <1>3 DEF IInv, OwnersOK, UsersTypeOK, ControlTypeOK
<1> QED BY <1>1, <1>4, <1>5 DEF Good, IInv, lists

\* The thread that waited cancels its watchdog.
LEMMA WaitCancelStep ==
  ASSUME IInv, NEW t \in Waiters, WaitCancel(t) PROVE Good
<1>1. /\ Running /\ at[t] = "ready" /\ wd_cancel(waitdog[t])
      /\ at' = [at EXCEPT ![t] = "cancelled"]
      /\ UNCHANGED <<pool, parm, waitdog, walk>>
  BY DEF WaitCancel
<1>2. /\ irq' = irq /\ walk = NoWalk /\ caller' = caller /\ calls' = calls /\ handle' = handle
  BY <1>1, RunningFacts
<1>3. waitdog[t] \in InUse
  BY <1>1 DEF IInv, OwnersOK, Owned
<1>4. ListOK' /\ NothingDue' /\ active' = active \ {waitdog[t]} /\ [Abstract!Next]_left
  BY <1>1, <1>2, <1>3, CancelStep
<1>5. at' \in [Waiters -> WaitPoint] /\ \A w \in Waiters : Owned(w)' = Owned(w)
  BY <1>1 DEF IInv, UsersTypeOK, WaitPoint, Owned
<1>6. InUse' = InUse
  BY <1>1 DEF InUse, pool
<1>7. WalkOK' /\ FreeInv' /\ (active \subseteq InUse)'
  BY <1>1, <1>2, <1>4, <1>6 DEF IInv, pool, WalkOK, FreeInv
<1>8. OwnersOK' /\ UsersTypeOK' /\ ControlTypeOK'
  BY <1>1, <1>2, <1>5, <1>6 DEF IInv, OwnersOK, UsersTypeOK, ControlTypeOK
<1> QED BY <1>4, <1>7, <1>8 DEF Good, IInv

\* The deletion of the watchdog of a timed wait, by the thread itself or by
\* wd_recover, leaves every other watchdog to its owner.
LEMMA WaitDogDeleted ==
  ASSUME IInv, NEW t \in Waiters, Running, Owned(t), wd_delete(waitdog[t]),
         UNCHANGED <<parm, walk>>,
         \A w \in Waiters : w # t => at'[w] = at[w] /\ waitdog'[w] = waitdog[w],
         at' \in [Waiters -> WaitPoint], waitdog' \in [Waiters -> Dogs \union {NoDog}],
         at'[t] \in {"idle", "deleted"}
  PROVE  Good
<1>1. /\ irq' = irq /\ walk = NoWalk /\ caller' = caller /\ calls' = calls /\ handle' = handle
  BY RunningFacts
<1>2. waitdog[t] \in InUse
  BY DEF IInv, OwnersOK
<1>3. /\ ListOK' /\ NothingDue' /\ WalkOK' /\ FreeInv' /\ (active \subseteq InUse)'
      /\ InUse' = IF waitdog[t] \in Static THEN InUse ELSE InUse \ {waitdog[t]}
      /\ [Abstract!Next]_left
  BY <1>1, <1>2, DeleteStep
<1>4. UsersTypeOK' /\ ControlTypeOK'
  BY <1>1 DEF IInv, UsersTypeOK, ControlTypeOK
<1>5. \A w \in Waiters : Owned(w)' => w # t /\ Owned(w) /\ waitdog'[w] = waitdog[w]
  BY DEF Owned
<1>6. OwnersOK'
  <2>1. OwnersOK
    BY DEF IInv
  <2> QED BY <1>1, <1>3, <1>5, <2>1 DEF OwnersOK
<1> QED BY <1>3, <1>4, <1>6 DEF Good, IInv

\* The thread that waited deletes its watchdog.
LEMMA WaitDeleteStep ==
  ASSUME IInv, NEW t \in Waiters, WaitDelete(t) PROVE Good
<1>1. /\ Running /\ at[t] \in {"created", "cancelled"} /\ wd_delete(waitdog[t])
      /\ at' = [at EXCEPT ![t] = "deleted"]
      /\ UNCHANGED <<parm, waitdog, walk>>
  BY DEF WaitDelete
<1>2. Owned(t)
  BY <1>1 DEF Owned
<1>3. /\ at' \in [Waiters -> WaitPoint] /\ waitdog' \in [Waiters -> Dogs \union {NoDog}]
      /\ at'[t] \in {"idle", "deleted"}
      /\ \A w \in Waiters : w # t => at'[w] = at[w] /\ waitdog'[w] = waitdog[w]
  BY <1>1 DEF IInv, UsersTypeOK, WaitPoint
<1> QED BY <1>1, <1>2, <1>3, WaitDogDeleted

\* wd_recover deletes the watchdog of a deleted thread that still owns it.
LEMMA RecoverStep ==
  ASSUME IInv, NEW t \in Waiters, wd_recover(t), "deleted" \notin KillAt PROVE Good
<1>1. /\ Running /\ at[t] \in KillAt /\ wd_delete(waitdog[t])
      /\ waitdog' = [waitdog EXCEPT ![t] = NoDog]
      /\ at' = [at EXCEPT ![t] = "idle"]
      /\ UNCHANGED <<parm, walk>>
  BY DEF wd_recover
<1>2. Owned(t)
  BY <1>1, ConstantsAssumption DEF Owned, ConstantsAssumption
<1>3. /\ at' \in [Waiters -> WaitPoint] /\ waitdog' \in [Waiters -> Dogs \union {NoDog}]
      /\ at'[t] \in {"idle", "deleted"}
      /\ \A w \in Waiters : w # t => at'[w] = at[w] /\ waitdog'[w] = waitdog[w]
  BY <1>1 DEF IInv, UsersTypeOK, WaitPoint
<1> QED BY <1>1, <1>2, <1>3, WaitDogDeleted

\* The thread that waited forgets its watchdog.
LEMMA WaitClearStep ==
  ASSUME IInv, NEW t \in Waiters, WaitClear(t) PROVE Good
<1>1. /\ Running /\ at[t] = "deleted"
      /\ waitdog' = [waitdog EXCEPT ![t] = NoDog]
      /\ at' = [at EXCEPT ![t] = "idle"]
      /\ UNCHANGED <<lists, pool, parm, walk>>
  BY DEF WaitClear
<1>2. /\ irq' = irq /\ walk = NoWalk /\ caller' = caller /\ calls' = calls /\ handle' = handle
  BY <1>1, RunningFacts
<1>3. InUse' = InUse
  BY <1>1 DEF InUse, pool
<1>4. ListOK' /\ NothingDue' /\ WalkOK' /\ FreeInv' /\ (active \subseteq InUse)'
  BY <1>1, <1>2, <1>3 DEF IInv, lists, pool, ListOK, NothingDue, WalkOK, FreeInv
<1>5. UsersTypeOK' /\ ControlTypeOK'
  BY <1>1, <1>2 DEF IInv, UsersTypeOK, ControlTypeOK, WaitPoint
<1>6. OwnersOK'
  <2>1. /\ waitdog \in [Waiters -> Dogs \union {NoDog}] /\ at \in [Waiters -> WaitPoint]
        /\ OwnersOK
    BY DEF IInv, UsersTypeOK
  <2>2. \A w \in Waiters : Owned(w)' => Owned(w) /\ waitdog'[w] = waitdog[w]
    BY <1>1, <2>1 DEF Owned
  <2> QED BY <1>2, <1>3, <2>1, <2>2 DEF OwnersOK
<1> QED BY <1>1, <1>4, <1>5, <1>6 DEF Good, IInv, lists

\* Every step keeps the invariant and is a step of WDogSpec or a stutter.
LEMMA NextStep ==
  ASSUME IInv, [Next]_vars, "deleted" \notin KillAt PROVE Good
<1>1. CASE UNCHANGED vars
  <2>1. UNCHANGED vars
    BY <1>1
  <2>2. InUse' = InUse
    BY <2>1 DEF InUse, vars
  <2>3. ListOK' /\ NothingDue' /\ WalkOK' /\ FreeInv' /\ (active \subseteq InUse)'
    BY <2>1, <2>2 DEF IInv, vars, ListOK, NothingDue, WalkOK, FreeInv
  <2>4. OwnersOK' /\ UsersTypeOK' /\ ControlTypeOK'
    BY <2>1, <2>2 DEF IInv, vars, OwnersOK, Owned, UsersTypeOK, ControlTypeOK
  <2> QED BY <2>1, <2>3, <2>4 DEF Good, IInv, vars
<1>2. CASE Advance
  BY <1>2, AdvanceStep
<1>3. CASE Insert
  BY <1>3, InsertStep, ConstantsAssumption
<1>4. CASE wd_timer
  BY <1>4, TimerStep
<1>5. CASE Expire
  BY <1>5, ExpireStep
<1>6. CASE FunctionReturns \/ InterruptReturns
  BY <1>6, ReturnSteps
<1>7. ASSUME NEW u \in Timers,
             \/ \E h \in BOOLEAN : TimerCreate(u, h)
             \/ \E delay \in Delays : TimerStart(u, delay)
             \/ TimerCancel(u) \/ TimerDelete(u)
      PROVE  Good
  BY <1>7, TimerCreateStep, TimerStartStep, TimerCancelStep, TimerDeleteStep
<1>8. ASSUME NEW t \in Waiters,
             \/ WaitCreate(t)
             \/ \E delay \in Delays : WaitStart(t, delay)
             \/ WaitPosted(t) \/ WaitCancel(t) \/ WaitDelete(t) \/ WaitClear(t)
             \/ wd_recover(t)
      PROVE  Good
  BY <1>8, WaitCreateStep, WaitStartStep, WaitPostedStep, WaitCancelStep, WaitDeleteStep,
     WaitClearStep, RecoverStep
<1> QED BY <1>1, <1>2, <1>3, <1>4, <1>5, <1>6, <1>7, <1>8 DEF Next

-----------------------------------------------------------------------------
(* The theorems.                                                           *)

\* If no thread is deleted between wd_delete and the assignment that forgets
\* the watchdog, the invariant holds in every state.
THEOREM Invariance ==
  ASSUME "deleted" \notin KillAt PROVE Spec => []IInv
<1>1. Init => IInv
  BY InitIInv
<1>2. IInv /\ [Next]_vars => IInv'
  BY NextStep DEF Good
<1> QED BY <1>1, <1>2, PTL DEF Spec

\* A list of distinct watchdogs of the pool is no longer than the pool.
LEMMA FreeBound ==
  ASSUME FreeInv PROVE nfree <= Cardinality(Pool)
<1>1. IsFiniteSet(Pool)
  BY ConstantsAssumption, FS_Subset DEF ConstantsAssumption, Dogs
<1>2. free \in Seq(Pool) /\ IsInjective(free) /\ nfree = Len(free) /\ Len(free) \in Nat
  BY DEF FreeInv
<1>3. free \in Injection(1 .. Len(free), Pool)
  BY <1>2 DEF Injection
<1>4. Cardinality(1 .. Len(free)) = Len(free)
  <2>1. \A n \in Nat : Cardinality(1 .. n) = n
    BY FS_Interval
  <2> QED BY <1>2, <2>1
<1> QED BY <1>1, <1>2, <1>3, <1>4, FS_Injection

\* The variables of wdog keep their types, however many watchdogs, timers and
\* threads there are.
THEOREM TypeCorrect ==
  ASSUME "deleted" \notin KillAt PROVE Spec => []TypeOK
<1>1. IInv => TypeOK
  <2> SUFFICES ASSUME IInv PROVE TypeOK
    OBVIOUS
  <2>1. /\ list \in Seq(Dogs) /\ lag \in [Dogs -> Int] /\ left \in [Dogs -> Nat \union {Off}]
        /\ active \subseteq Dogs
    BY DEF IInv, ListOK, DeltaList, ListType
  <2>2. /\ free \in Seq(Pool) /\ nfree \in Nat /\ heap \subseteq Heap /\ reserved \subseteq Pool
    BY DEF IInv, FreeInv
  <2> QED BY <2>1, <2>2 DEF IInv, UsersTypeOK, ControlTypeOK, TypeOK
<1> QED BY <1>1, Invariance, PTL

\* The watchdogs marked active are those in g_wdactivelist, each once, and in use:
\* the search in wd_cancel never runs off the list.
THEOREM ListCorrect ==
  ASSUME "deleted" \notin KillAt PROVE Spec => []ActiveExact
<1>1. IInv => ActiveExact
  <2> SUFFICES ASSUME IInv PROVE ActiveExact
    OBVIOUS
  <2>1. list \in Seq(Dogs) /\ OnceEach(list) /\ Listed(list, active) /\ active \subseteq InUse
    BY DEF IInv, ListOK, DeltaList, ListType
  <2>2. IsInjective(list)
    BY <2>1 DEF OnceEach, IsInjective
  <2>3. Range(list) = active
    BY <2>1 DEF Listed, Range
  <2> QED BY <2>1, <2>2, <2>3 DEF ActiveExact
<1> QED BY <1>1, Invariance, PTL

\* g_wdnfree counts the free list, no watchdog is freed twice, each has one owner,
\* and the assertion of wd_delete holds.
THEOREM PoolCorrect ==
  ASSUME "deleted" \notin KillAt PROVE Spec => [](FreeExact /\ FreeWithinPool)
<1>1. IInv => FreeExact /\ FreeWithinPool
  BY FreeBound DEF IInv, FreeInv, OwnersOK, FreeExact, FreeWithinPool
<1> QED BY <1>1, Invariance, PTL

\* The watchdogs that threads took from the pool and the free ones are disjoint.
ReserveInv == reserved \intersect Range(free) = {} /\ ReserveKept

\* Disjoint from a list of distinct elements of the pool, a set has at most as
\* many elements as the list leaves.
LEMMA RoomBesidesList ==
  ASSUME NEW s \in Seq(Pool), IsInjective(s), NEW R \in SUBSET Pool, R \intersect Range(s) = {}
  PROVE  /\ Cardinality(R) \in Nat /\ Cardinality(Pool) \in Nat
         /\ Cardinality(R) + Len(s) <= Cardinality(Pool)
<1>1. IsFiniteSet(Pool) /\ Cardinality(Pool) \in Nat
  BY ConstantsAssumption, FS_Subset, FS_CardinalityType DEF ConstantsAssumption, Dogs
<1>2. Range(s) \subseteq Pool
  BY DEF Range
<1>3. /\ IsFiniteSet(R) /\ IsFiniteSet(Range(s))
      /\ Cardinality(R) \in Nat /\ Cardinality(Range(s)) \in Nat
  BY <1>1, <1>2, FS_Subset, FS_CardinalityType
<1>4. Cardinality(Range(s)) = Len(s)
  <2>1. s \in Surjection(1 .. Len(s), Range(s)) /\ s \in Injection(1 .. Len(s), Range(s))
    BY DEF Surjection, Injection, Range
  <2>2. \A n \in Nat : IsFiniteSet(1 .. n) /\ Cardinality(1 .. n) = n
    BY FS_Interval
  <2>3. IsFiniteSet(1 .. Len(s)) /\ Cardinality(1 .. Len(s)) = Len(s)
    BY <2>2
  <2> QED BY <2>1, <2>3, FS_Surjection
<1>5. Cardinality(R \union Range(s)) = Cardinality(R) + Cardinality(Range(s))
  <2>1. /\ Cardinality(R \union Range(s))
             = Cardinality(R) + Cardinality(Range(s)) - Cardinality(R \cap Range(s))
        /\ R \cap Range(s) = {}
    BY <1>3, FS_Union
  <2>2. Cardinality(R \cap Range(s)) = 0
    BY <2>1, FS_EmptySet, Zenon
  <2>3. \A a, b \in Nat : a + b - 0 = a + b
    OBVIOUS
  <2>4. Cardinality(R \union Range(s)) = Cardinality(R) + Cardinality(Range(s)) - 0
    BY <2>1, <2>2, Zenon
  <2> QED BY <1>3, <2>3, <2>4, Zenon
<1>6. Cardinality(R \union Range(s)) <= Cardinality(Pool)
  BY <1>1, <1>2, FS_Subset
<1> QED BY <1>1, <1>3, <1>4, <1>5, <1>6

\* The limit of ReserveKept is an integer, not negative.
LEMMA ReserveLimit ==
  ASSUME NEW n \in Int, NEW c \in Nat
  PROVE  /\ c <= n => c <= Max({0, n})
         /\ 0 <= Max({0, n})
         /\ Max({0, n}) \in Int
<1>1. \E x \in {0, n} : \A y \in {0, n} : x >= y
  <2>1. 0 >= n \/ n >= 0
    OBVIOUS
  <2> QED BY <2>1
<1>2. Max({0, n}) \in {0, n} /\ \A y \in {0, n} : Max({0, n}) >= y
  BY <1>1 DEF Max
<1> QED BY <1>2

\* wd_create takes from the pool for a thread only what the reserve leaves.
LEMMA ReserveCreate ==
  ASSUME FreeInv, ReserveInv, NEW d \in Dogs \union {NoDog}, NEW h \in BOOLEAN, wd_create(d, h)
  PROVE  ReserveInv'
<1>1. CASE ~(nfree > INTRESERVE \/ h)
  <2>1. UNCHANGED <<free, reserved>>
    BY <1>1 DEF wd_create
  <2> QED BY <2>1 DEF ReserveInv, ReserveKept, Range
<1>2. CASE (nfree > INTRESERVE \/ h) /\ free = <<>>
  <2>1. free' = free /\ reserved' = (IF h THEN reserved ELSE reserved \union {d})
    BY <1>2 DEF wd_create
  <2>2. nfree = 0 /\ h
    BY <1>2, ConstantsAssumption DEF FreeInv, ConstantsAssumption
  <2>3. UNCHANGED <<free, reserved>>
    BY <2>1, <2>2
  <2> QED BY <2>3 DEF ReserveInv, ReserveKept, Range
<1>3. CASE (nfree > INTRESERVE \/ h) /\ free # <<>>
  <2>1. /\ d = Head(free) /\ free' = Tail(free)
        /\ reserved' = IF h THEN reserved ELSE reserved \union {d}
    BY <1>3 DEF wd_create
  <2>2. /\ Head(free) \in Pool /\ Head(free) \in Range(free)
        /\ Tail(free) \in Seq(Pool) /\ Len(Tail(free)) = Len(free) - 1
        /\ Range(Tail(free)) = Range(free) \ {Head(free)}
        /\ IsInjective(Tail(free))
    BY <1>3, TakenFromFree DEF FreeInv
  <2>3. reserved' \intersect Range(free') = {}
    BY <2>1, <2>2 DEF ReserveInv
  <2>4. CASE h
    <3>1. reserved' = reserved
      BY <2>1, <2>4
    <3> QED BY <2>3, <3>1 DEF ReserveInv, ReserveKept
  <2>5. CASE ~h
    <3>1. nfree > INTRESERVE /\ nfree = Len(free) /\ Len(free) \in Nat /\ INTRESERVE \in Nat
      BY <1>3, <2>5, ConstantsAssumption DEF FreeInv, ConstantsAssumption
    <3>2. reserved' \in SUBSET Pool
      BY <2>1, <2>2 DEF FreeInv
    <3>3. /\ Cardinality(reserved') \in Nat /\ Cardinality(Pool) \in Nat
          /\ Cardinality(reserved') + Len(free') <= Cardinality(Pool)
      BY <2>1, <2>2, <2>3, <3>2, RoomBesidesList
    <3>4. Cardinality(reserved') <= Cardinality(Pool) - INTRESERVE
      BY <2>1, <2>2, <3>1, <3>3
    <3>5. Cardinality(reserved') <= Max({0, Cardinality(Pool) - INTRESERVE})
      BY <3>1, <3>3, <3>4, ReserveLimit
    <3> QED BY <2>3, <3>5 DEF ReserveInv, ReserveKept
  <2> QED BY <2>4, <2>5
<1> QED BY <1>1, <1>2, <1>3

\* wd_delete takes nothing from the reserve.
LEMMA ReserveDelete ==
  ASSUME FreeInv, ReserveInv, NEW d \in InUse, wd_delete(d)
  PROVE  ReserveInv'
<1>1. reserved' = reserved \ {d} /\ free' = (IF d \in Pool THEN Append(free, d) ELSE free)
  BY DEF wd_delete
<1>2. d \notin Range(free)
  BY ConstantsAssumption DEF InUse, FreeInv, ConstantsAssumption, Range
<1>3. reserved' \intersect Range(free') = {}
  <2>1. CASE d \in Pool
    <3>1. Range(Append(free, d)) = Range(free) \union {d}
      BY <1>2, <2>1, GivenToFree DEF FreeInv
    <3> QED BY <1>1, <2>1, <3>1 DEF ReserveInv
  <2>2. CASE d \notin Pool
    <3>1. free' = free
      BY <1>1, <2>2
    <3> QED BY <1>1, <3>1 DEF ReserveInv
  <2> QED BY <2>1, <2>2
<1>4. Cardinality(reserved') <= Cardinality(reserved) /\ Cardinality(reserved') \in Nat /\ Cardinality(reserved) \in Nat
  <2>1. IsFiniteSet(reserved)
    BY ConstantsAssumption, FS_Subset DEF ConstantsAssumption, Dogs, FreeInv
  <2>2. reserved' \subseteq reserved
    BY <1>1
  <2> QED BY <2>1, <2>2, FS_Subset, FS_CardinalityType
<1>5. Cardinality(Pool) \in Nat
  BY ConstantsAssumption, FS_Subset, FS_CardinalityType DEF ConstantsAssumption, Dogs
<1>6. Max({0, Cardinality(Pool) - INTRESERVE}) \in Int
  <2>1. Cardinality(Pool) - INTRESERVE \in Int
    BY <1>5, ConstantsAssumption DEF ConstantsAssumption
  <2> QED BY <2>1, ReserveLimit
<1> QED BY <1>3, <1>4, <1>6 DEF ReserveInv, ReserveKept

\* Every step keeps the reserve.
LEMMA ReserveStep ==
  ASSUME IInv, ReserveInv, [Next]_vars, "deleted" \notin KillAt PROVE ReserveInv'
<1> SUFFICES ASSUME ~ UNCHANGED <<free, reserved>> PROVE ReserveInv'
  BY DEF ReserveInv, ReserveKept, Range
<1>1. ~ UNCHANGED vars
  BY DEF vars
<1>2. ~(Advance \/ Insert \/ wd_timer \/ Expire \/ FunctionReturns \/ InterruptReturns)
  BY DEF Advance, Insert, wd_timer, Expire, FunctionReturns, InterruptReturns, pool
<1>3. FreeInv
  BY DEF IInv
<1>4. ASSUME NEW u \in Timers,
             \/ \E h \in BOOLEAN : TimerCreate(u, h)
             \/ \E delay \in Delays : TimerStart(u, delay)
             \/ TimerCancel(u) \/ TimerDelete(u)
      PROVE  ReserveInv'
  <2>1. ASSUME NEW h \in BOOLEAN, TimerCreate(u, h) PROVE ReserveInv'
    BY <1>3, <2>1, ReserveCreate DEF TimerCreate
  <2>2. ~(TimerCancel(u) \/ \E delay \in Delays : TimerStart(u, delay))
    BY DEF TimerCancel, TimerStart, pool
  <2>3. ASSUME TimerDelete(u) PROVE ReserveInv'
    <3>1. handle[u] \in InUse /\ wd_delete(handle[u])
      BY <2>3 DEF TimerDelete, IInv, OwnersOK
    <3> QED BY <1>3, <3>1, ReserveDelete
  <2> QED BY <1>4, <2>1, <2>2, <2>3
<1>5. ASSUME NEW t \in Waiters,
             \/ WaitCreate(t)
             \/ \E delay \in Delays : WaitStart(t, delay)
             \/ WaitPosted(t) \/ WaitCancel(t) \/ WaitDelete(t) \/ WaitClear(t)
             \/ wd_recover(t)
      PROVE  ReserveInv'
  <2>1. ASSUME WaitCreate(t) PROVE ReserveInv'
    BY <1>3, <2>1, ReserveCreate DEF WaitCreate
  <2>2. ~(WaitPosted(t) \/ WaitCancel(t) \/ WaitClear(t) \/ \E delay \in Delays : WaitStart(t, delay))
    BY DEF WaitPosted, WaitCancel, WaitClear, WaitStart, pool
  <2>3. ASSUME WaitDelete(t) \/ wd_recover(t) PROVE ReserveInv'
    <3>1. wd_delete(waitdog[t]) /\ at[t] \notin {"idle", "deleted"}
      BY <2>3, ConstantsAssumption DEF WaitDelete, wd_recover, ConstantsAssumption
    <3>2. waitdog[t] \in InUse
      BY <3>1 DEF IInv, OwnersOK, Owned
    <3> QED BY <1>3, <3>1, <3>2, ReserveDelete
  <2> QED BY <1>5, <2>1, <2>2, <2>3
<1> QED BY <1>1, <1>2, <1>4, <1>5 DEF Next

\* Threads leave CONFIG_WDOG_INTRESERVE watchdogs of the pool to the handlers.
THEOREM ReserveCorrect ==
  ASSUME "deleted" \notin KillAt PROVE Spec => []ReserveKept
<1>1. Init => ReserveInv
  <2> SUFFICES ASSUME Init PROVE ReserveInv
    OBVIOUS
  <2>1. reserved = {} /\ Cardinality({}) = 0
    BY FS_EmptySet DEF Init
  <2>2. Cardinality(Pool) - INTRESERVE \in Int
    BY ConstantsAssumption, FS_Subset, FS_CardinalityType DEF ConstantsAssumption, Dogs
  <2>3. 0 <= Max({0, Cardinality(Pool) - INTRESERVE})
    BY <2>2, ReserveLimit
  <2> QED BY <2>1, <2>3 DEF ReserveInv, ReserveKept
<1>2. IInv /\ ReserveInv /\ [Next]_vars => ReserveInv'
  BY ReserveStep
<1>3. ReserveInv => ReserveKept
  BY DEF ReserveInv
<1> QED BY <1>1, <1>2, <1>3, Invariance, PTL DEF Spec

\* The delta list implements WDogSpec: every watchdog expires exactly at its
\* deadline, once, in the tick in which it is due, and never after a cancellation.
THEOREM Implementation ==
  ASSUME "deleted" \notin KillAt PROVE Spec => ImplementsWDogSpec
<1>1. Init => Abstract!Init
  BY DEF Init, Abstract!Init, Abstract!Off, Off
<1>2. IInv /\ [Next]_vars => [Abstract!Next]_left
  BY NextStep DEF Good
<1> QED BY <1>1, <1>2, Invariance, PTL DEF Spec, ImplementsWDogSpec, Abstract!Spec

-----------------------------------------------------------------------------
(* wd_gettime.                                                             *)

\* If some number up to n has a property, a least one has it: the induction along the list.
LEMMA FirstPosition ==
  ASSUME NEW T \in SUBSET Nat, T # {}
  PROVE  \E x \in T : \A y \in T : x <= y
<1> DEFINE R == OpToRel(<, Nat)
<1>1. \E x \in T : \A y \in T : ~ (<<y, x>> \in R)
  BY NatLessThanWellFounded, WFMin
<1>2. \A x, y \in Nat : y < x => <<y, x>> \in R
  BY DEF OpToRel
<1> HIDE DEF R
<1>3. PICK x \in T : \A y \in T : ~ (<<y, x>> \in R)
  BY <1>1
<1>4. ASSUME NEW y \in T
      PROVE  ~ (y < x)
  BY <1>2, <1>3, Zenon
<1>5. \A y \in T : x <= y
  BY <1>4
<1> QED BY <1>5

\* The sums that wd_gettime computes along the list.
Sums == CHOOSE delay : delay = [i \in 0 .. Len(list) |-> IF i = 0 THEN 0 ELSE delay[i - 1] + lag[list[i]]]

\* The sum of the lags up to a watchdog is the time that it has left.
LEMMA SumsExact ==
  ASSUME DeltaList(list, lag, left, active)
  PROVE  \A i \in 1 .. Len(list) : Sums[i] = left[list[i]]
<1> DEFINE n == Len(list)
           Step(f) == [i \in 0 .. n |-> IF i = 0 THEN 0 ELSE f[i - 1] + lag[list[i]]]
           g == [i \in 0 .. n |-> IF i = 0 THEN 0 ELSE left[list[i]]]
<1>1. n \in Nat /\ \A i \in 1 .. n : list[i] \in Dogs /\ list[i] \in active
  BY DEF DeltaList, ListType, Listed
<1>2. \A i \in 1 .. n : left[list[i]] \in Int /\ lag[list[i]] \in Int
  BY <1>1 DEF DeltaList, ListType, LeftOfActive
<1>3. \A i \in 1 .. n : lag[list[i]] = left[list[i]] - (IF i = 1 THEN 0 ELSE left[list[i - 1]])
  BY DEF DeltaList, LagsExact, Before
<1>4. ASSUME NEW i \in 1 .. n
      PROVE  g[i - 1] + lag[list[i]] = left[list[i]]
  <2>1. i - 1 \in 0 .. n /\ (i - 1 = 0 <=> i = 1) /\ (i # 1 => i - 1 \in 1 .. n)
    BY <1>1
  <2>2. g[i - 1] = IF i = 1 THEN 0 ELSE left[list[i - 1]]
    BY <2>1
  <2> HIDE DEF g
  <2> QED BY <1>2, <1>3, <2>1, <2>2
<1>5. g = Step(g)
  <2>1. \A i \in 0 .. n : i = 0 \/ i \in 1 .. n
    BY <1>1
  <2>2. \A i \in 0 .. n : g[i] = Step(g)[i]
    BY <1>4, <2>1
  <2> QED BY <2>2
<1>6. Sums = Step(Sums)
  <2>1. \E f : f = Step(f)
    BY <1>5
  <2> QED BY <2>1, Zenon DEF Sums
<1> HIDE DEF g
<1> DEFINE T == {i \in 1 .. n : Sums[i] # left[list[i]]}
<1>7. T = {}
  <2> SUFFICES ASSUME T # {} PROVE FALSE
    OBVIOUS
  <2>1. T \in SUBSET Nat
    BY <1>1
  <2> HIDE DEF T
  <2>2. PICK x \in T : \A y \in T : x <= y
    BY <2>1, FirstPosition
  <2>3. x \in 1 .. n /\ Sums[x] # left[list[x]]
    BY <2>2 DEF T
  <2>4. x - 1 \in 0 .. n /\ x \in 0 .. n /\ x # 0 /\ (x # 1 => x - 1 \in 1 .. n)
    BY <1>1, <2>3
  <2>5. Sums[x] = Sums[x - 1] + lag[list[x]] /\ Sums[0] = 0
    <3>1. 0 \in 0 .. n
      BY <1>1
    <3>2. \A i \in 0 .. n : Step(Sums)[i] = IF i = 0 THEN 0 ELSE Sums[i - 1] + lag[list[i]]
      OBVIOUS
    <3> HIDE DEF Step
    <3>3. \A i \in 0 .. n : Sums[i] = Step(Sums)[i]
      BY <1>6
    <3> QED BY <2>4, <3>1, <3>2, <3>3
  <2>6. CASE x = 1
    BY <1>2, <1>3, <2>3, <2>5, <2>6
  <2>7. CASE x # 1
    <3>1. x - 1 \in Nat /\ ~ (x <= x - 1)
      BY <2>3
    <3>2. x - 1 \notin T
      BY <2>2, <3>1
    <3>3. Sums[x - 1] = left[list[x - 1]]
      BY <2>4, <2>7, <3>2 DEF T
    <3> QED BY <1>2, <1>3, <2>3, <2>4, <2>5, <2>7, <3>3
  <2> QED BY <2>6, <2>7
<1> QED BY <1>7

\* wd_gettime returns the ticks that a watchdog has left, or zero if it is not active, also
\* between the expirations of one interrupt.
THEOREM TimeCorrect ==
  ASSUME "deleted" \notin KillAt PROVE Spec => []GetTimeExact
<1>1. IInv => GetTimeExact
  <2> SUFFICES ASSUME IInv, NEW d \in Dogs
               PROVE  wd_gettime(d) = IF left[d] = Off THEN 0 ELSE left[d]
    BY DEF GetTimeExact
  <2>1. DeltaList(list, lag, left, active)
    BY DEF IInv, ListOK
  <2>2. wd_gettime(d) = IF d \in active THEN Sums[IndexOf(d)] ELSE 0
    BY Zenon DEF wd_gettime, Sums
  <2>3. CASE d \in active
    <3>1. \E i \in 1 .. Len(list) : list[i] = d
      BY <2>1, <2>3 DEF DeltaList, Listed
    <3>2. DOMAIN list = 1 .. Len(list)
      BY <2>1 DEF DeltaList, ListType
    <3>3. IndexOf(d) \in 1 .. Len(list) /\ list[IndexOf(d)] = d
      BY <3>1, <3>2 DEF IndexOf
    <3>4. Sums[IndexOf(d)] = left[d]
      BY <2>1, <3>3, SumsExact
    <3>5. left[d] # Off
      BY <2>1, <2>3 DEF DeltaList, LeftOfActive, Off
    <3> QED BY <2>2, <2>3, <3>4, <3>5
  <2>4. CASE d \notin active
    <3>1. left[d] = Off
      BY <2>1, <2>4 DEF DeltaList, LeftOfActive
    <3> QED BY <2>2, <2>4, <3>1
  <2> QED BY <2>3, <2>4
<1> QED BY <1>1, Invariance, PTL
=============================================================================
