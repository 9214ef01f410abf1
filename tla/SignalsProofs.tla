--------------------------- MODULE SignalsProofs ----------------------------
(***************************************************************************)
(* The proofs about Signals, for any signals, masks, depth of nesting and  *)
(* number of structures.  Five invariants, each on top of the first:       *)
(*  - CoreInv: the types, and every structure is free, pending or in the   *)
(*    hands of one call (SlotsCorrect);                                    *)
(*  - OnceInv: no signal is in more structures than it may be, and the one *)
(*    that is about to be added is in at most one (PendingCorrect);        *)
(*  - MaskInv and UnmaskInv: the mask that was asked for is in force or    *)
(*    kept by the outermost call that restores one, and a signal that is   *)
(*    not masked and in as many structures as it can be is in the set of a *)
(*    call that will deliver it (MasksCorrect);                            *)
(*  - EntryInv: some call goes on with the first action that is queued     *)
(*    (with the two before, DeliveryCorrect);                              *)
(*  - OuterInv: only the outermost call waits, and keeps what ended its    *)
(*    wait (ResultCorrect).                                                *)
(***************************************************************************)
EXTENDS Signals, FiniteSetTheorems, FunctionTheorems, SequenceTheorems, WellFoundedInduction, TLAPS

-----------------------------------------------------------------------------
(* Lists.                                                                  *)

\* The list t is s without the element at position i.
DroppedAt(s, t, i) ==
  /\ Len(t) = Len(s) - 1
  /\ \A j \in 1 .. Len(t) : t[j] = IF j < i THEN s[j] ELSE s[j + 1]

Once(s) == \A i, j \in 1 .. Len(s) : s[i] = s[j] => i = j

\* A nonempty set of numbers has a least one.
LEMMA LeastNumber ==
  ASSUME NEW T \in SUBSET Nat, T # {}
  PROVE  Min(T) \in T /\ \A y \in T : Min(T) <= y
<1> DEFINE R == OpToRel(<, Nat)
<1>1. \E x \in T : \A y \in T : ~ (<<y, x>> \in R)
  BY NatLessThanWellFounded, WFMin
<1>2. \A x, y \in Nat : y < x => <<y, x>> \in R
  BY DEF OpToRel
<1> HIDE DEF R
<1>3. PICK x \in T : \A y \in T : ~ (<<y, x>> \in R)
  BY <1>1
<1>4. ASSUME NEW y \in T
      PROVE  ~ (y < x)
  BY <1>2, <1>3, Zenon
<1>5. \A y \in T : x <= y
  BY <1>4
<1> QED BY <1>5 DEF Min

\* The elements of a sequence.
LEMMA RangeIs ==
  ASSUME NEW X, NEW s \in Seq(X)
  PROVE  /\ Len(s) \in Nat /\ DOMAIN s = 1 .. Len(s)
         /\ Range(s) = {s[i] : i \in 1 .. Len(s)} /\ Range(s) \subseteq X
         /\ s # <<>> <=> Range(s) # {}
         /\ s # <<>> => Head(s) = s[1] /\ 1 \in 1 .. Len(s) /\ Head(s) \in Range(s)
BY DEF Range

\* A removal at position i.
LEMMA DropIndex ==
  ASSUME NEW X, NEW s \in Seq(X), NEW i \in 1 .. Len(s)
  PROVE  RemoveAt(s, i) \in Seq(X) /\ DroppedAt(s, RemoveAt(s, i), i)
<1> DEFINE a == SubSeq(s, 1, i - 1)
           b == SubSeq(s, i + 1, Len(s))
<1>1. a \in Seq(X) /\ Len(a) = i - 1 /\ \A j \in 1 .. i - 1 : a[j] = s[j]
  OBVIOUS
<1>2. b \in Seq(X) /\ Len(b) = Len(s) - i /\ \A j \in 1 .. Len(s) - i : b[j] = s[j + i]
  OBVIOUS
<1> HIDE DEF a, b
<1>3. \A j \in 1 .. Len(s) - 1 : (a \o b)[j] = IF j < i THEN s[j] ELSE s[j + 1]
  BY <1>1, <1>2
<1>4. a \o b \in Seq(X) /\ Len(a \o b) = Len(s) - 1
  <2>1. a \o b \in Seq(X) /\ Len(a \o b) = Len(a) + Len(b)
    BY <1>1, <1>2, ConcatProperties
  <2> QED BY <1>1, <1>2, <2>1
<1>5. DroppedAt(s, a \o b, i)
  BY <1>3, <1>4 DEF DroppedAt
<1> QED BY <1>4, <1>5 DEF a, b, RemoveAt

\* The removal of the first element.
LEMMA TailDrops ==
  ASSUME NEW X, NEW s \in Seq(X), s # <<>>
  PROVE  Tail(s) \in Seq(X) /\ DroppedAt(s, Tail(s), 1)
BY DEF DroppedAt

\* What a removal does to the elements.
LEMMA DroppedRange ==
  ASSUME NEW X, NEW s \in Seq(X), NEW t \in Seq(X), NEW i \in 1 .. Len(s), DroppedAt(s, t, i), Once(s)
  PROVE  Range(t) = Range(s) \ {s[i]} /\ Once(t)
<1>0. Len(t) = Len(s) - 1 /\ Len(s) \in Nat /\ i \in Nat
  BY DEF DroppedAt
<1>1. \A j \in 1 .. Len(t) : \E m \in 1 .. Len(s) :
        t[j] = s[m] /\ m # i /\ m = IF j < i THEN j ELSE j + 1
  BY <1>0 DEF DroppedAt
<1>m. ASSUME NEW m \in 1 .. Len(s), m # i
      PROVE  \E j \in 1 .. Len(t) : t[j] = s[m]
  <2>1. CASE m < i
    <3>1. m \in 1 .. Len(t)
      BY <1>0, <2>1
    <3> QED BY <2>1, <3>1 DEF DroppedAt
  <2>2. CASE ~ (m < i)
    <3>1. m - 1 \in 1 .. Len(t) /\ ~ (m - 1 < i) /\ (m - 1) + 1 = m
      BY <1>0, <1>m, <2>2
    <3>2. t[m - 1] = s[m]
      BY <3>1 DEF DroppedAt
    <3> QED BY <3>1, <3>2
  <2> QED BY <2>1, <2>2
<1>2. Range(s) = {s[j] : j \in 1 .. Len(s)} /\ Range(t) = {t[j] : j \in 1 .. Len(t)}
  BY RangeIs
<1>3. Range(t) \subseteq Range(s) \ {s[i]}
  BY <1>1, <1>2 DEF Once
<1>4. ASSUME NEW x \in Range(s) \ {s[i]}
      PROVE  x \in Range(t)
  <2>1. PICK m \in 1 .. Len(s) : x = s[m] /\ m # i
    BY <1>2
  <2>2. PICK j \in 1 .. Len(t) : t[j] = s[m]
    BY <1>m, <2>1
  <2> QED BY <1>2, <2>1, <2>2
<1>5. Once(t)
  <2> SUFFICES ASSUME NEW j \in 1 .. Len(t), NEW k \in 1 .. Len(t), t[j] = t[k]
               PROVE  j = k
    BY DEF Once
  <2>1. PICK m \in 1 .. Len(s) : t[j] = s[m] /\ m = IF j < i THEN j ELSE j + 1
    BY <1>1
  <2>2. PICK n \in 1 .. Len(s) : t[k] = s[n] /\ n = IF k < i THEN k ELSE k + 1
    BY <1>1
  <2>3. m = n
    BY <2>1, <2>2 DEF Once
  <2> QED BY <2>1, <2>2, <2>3
<1> QED BY <1>3, <1>4, <1>5

\* The removal of an element, as dq_rem does it.
LEMMA RemoveFirstDrops ==
  ASSUME NEW X, NEW s \in Seq(X), NEW e, e \in Range(s)
  PROVE  /\ RemoveFirst(s, e) \in Seq(X)
         /\ \E i \in 1 .. Len(s) : s[i] = e /\ RemoveFirst(s, e) = RemoveAt(s, i) /\ DroppedAt(s, RemoveFirst(s, e), i)
<1> DEFINE I == {i \in 1 .. Len(s) : s[i] = e}
<1>1. \E i \in 1 .. Len(s) : s[i] = e
  BY RangeIs
<1>2. I \in SUBSET Nat /\ I # {}
  BY <1>1
<1>3. RemoveFirst(s, e) = RemoveAt(s, Min(I))
  BY <1>1, <1>2 DEF RemoveFirst, SelectInSeq
<1>4. Min(I) \in 1 .. Len(s) /\ s[Min(I)] = e
  BY <1>2, LeastNumber
<1> HIDE DEF I
<1>5. RemoveAt(s, Min(I)) \in Seq(X) /\ DroppedAt(s, RemoveAt(s, Min(I)), Min(I))
  BY <1>4, DropIndex
<1> QED BY <1>3, <1>4, <1>5

\* The addition of an element at the end.
LEMMA AppendIs ==
  ASSUME NEW X, NEW s \in Seq(X), NEW e \in X
  PROVE  /\ Append(s, e) \in Seq(X) /\ Append(s, e) # <<>>
         /\ Len(s) \in Nat /\ Len(Append(s, e)) = Len(s) + 1
         /\ Append(s, e)[Len(s) + 1] = e
         /\ \A i \in 1 .. Len(s) : Append(s, e)[i] = s[i]
         /\ \A i \in 1 .. Len(s) + 1 : i \in 1 .. Len(s) \/ i = Len(s) + 1
<1>1. Append(s, e) \in Seq(X) /\ Len(s) \in Nat /\ Len(Append(s, e)) = Len(s) + 1
  OBVIOUS
<1>2. Append(s, e)[Len(s) + 1] = e /\ \A i \in 1 .. Len(s) : Append(s, e)[i] = s[i]
  OBVIOUS
<1>3. \A i \in 1 .. Len(s) + 1 : i \in 1 .. Len(s) \/ i = Len(s) + 1
  BY <1>1
<1>4. Append(s, e) # <<>>
  BY <1>1
<1> QED BY <1>1, <1>2, <1>3, <1>4

\* What it does to the elements.
LEMMA AppendRange ==
  ASSUME NEW X, NEW s \in Seq(X), NEW e \in X
  PROVE  /\ Range(Append(s, e)) = Range(s) \union {e}
         /\ Once(s) /\ e \notin Range(s) => Once(Append(s, e))
<1> DEFINE t == Append(s, e)
<1>1. /\ t \in Seq(X) /\ Len(s) \in Nat /\ Len(t) = Len(s) + 1 /\ t[Len(s) + 1] = e
      /\ \A i \in 1 .. Len(s) : t[i] = s[i]
      /\ \A i \in 1 .. Len(s) + 1 : i \in 1 .. Len(s) \/ i = Len(s) + 1
  BY AppendIs
<1> HIDE DEF t
<1>2. Range(s) = {s[j] : j \in 1 .. Len(s)} /\ Range(t) = {t[j] : j \in 1 .. Len(t)}
  BY <1>1, RangeIs
<1>3. Range(t) = Range(s) \union {e}
  <2>1. \A j \in 1 .. Len(s) : j \in 1 .. Len(t)
    BY <1>1
  <2>2. Len(s) + 1 \in 1 .. Len(t)
    BY <1>1
  <2> QED BY <1>1, <1>2, <2>1, <2>2
<1>4. ASSUME Once(s), e \notin Range(s)
      PROVE  Once(t)
  <2> SUFFICES ASSUME NEW i \in 1 .. Len(t), NEW j \in 1 .. Len(t), t[i] = t[j]
               PROVE  i = j
    BY DEF Once
  <2>1. (i \in 1 .. Len(s) \/ i = Len(s) + 1) /\ (j \in 1 .. Len(s) \/ j = Len(s) + 1)
    BY <1>1
  <2> QED BY <1>1, <1>2, <1>4, <2>1 DEF Once
<1> QED BY <1>3, <1>4 DEF t

-----------------------------------------------------------------------------
(* The stack of frames.                                                    *)

\* A frame is put on the stack s.
LEMMA PushIs ==
  ASSUME NEW s \in Seq(Frame), NEW f \in Frame
  PROVE  /\ Append(s, f) \in Seq(Frame) /\ Append(s, f) # <<>>
         /\ Len(s) \in Nat /\ Len(Append(s, f)) = Len(s) + 1
         /\ Append(s, f)[Len(s) + 1] = f
         /\ \A i \in 1 .. Len(s) : Append(s, f)[i] = s[i]
         /\ \A i \in 1 .. Len(s) + 1 : i \in 1 .. Len(s) \/ i = Len(s) + 1
BY AppendIs

\* The top of the stack s is changed.
LEMMA ChangeIs ==
  ASSUME NEW s \in Seq(Frame), s # <<>>, NEW f \in Frame
  PROVE  /\ [s EXCEPT ![Len(s)] = f] \in Seq(Frame) /\ [s EXCEPT ![Len(s)] = f] # <<>>
         /\ Len(s) \in Nat /\ Len(s) \in 1 .. Len(s) /\ Len([s EXCEPT ![Len(s)] = f]) = Len(s)
         /\ [s EXCEPT ![Len(s)] = f][Len(s)] = f
         /\ \A i \in 1 .. Len(s) : i # Len(s) => [s EXCEPT ![Len(s)] = f][i] = s[i]
OBVIOUS

\* The top of the stack s is taken off.
LEMMA PopIs ==
  ASSUME NEW s \in Seq(Frame), s # <<>>
  PROVE  /\ Front(s) \in Seq(Frame)
         /\ Len(s) \in Nat /\ Len(s) \in 1 .. Len(s) /\ Len(Front(s)) = Len(s) - 1
         /\ \A i \in 1 .. Len(s) - 1 : Front(s)[i] = s[i]
         /\ \A i \in 1 .. Len(s) : i \in 1 .. Len(s) - 1 \/ i = Len(s)
<1>1. Len(s) \in Nat /\ Len(s) \in 1 .. Len(s)
  OBVIOUS
<1>2. \A n \in 1 .. Len(s) : /\ SubSeq(s, 1, n - 1) \in Seq(Frame) /\ Len(SubSeq(s, 1, n - 1)) = n - 1
                              /\ \A i \in 1 .. n - 1 : SubSeq(s, 1, n - 1)[i] = s[i]
  OBVIOUS
<1>3. \A i \in 1 .. Len(s) : i \in 1 .. Len(s) - 1 \/ i = Len(s)
  BY <1>1
<1> QED BY <1>1, <1>2, <1>3 DEF Front

-----------------------------------------------------------------------------
(* The invariant.                                                          *)

\* A delivery that is about to take an action has one, and only sig_unmaskpendingsignal, and
\* sigtimedwait after it gave the structure back, name a structure.
FrameOK(f) ==
  /\ f.op = "fetched" => f.cur \in Entries
  /\ f.slot # NoSlot => f.op \in {"unmask", "return"}

WaitInv == task = "waits" => frames # <<>> /\ Top.op \in {"timedwait", "suspend"}

\* The structures in the hands of the calls on the stack fr.
HeldBy(fr, i, k) == i \in 1 .. Len(fr) /\ fr[i].op # "return" /\ fr[i].slot = k
HeldSlots(fr) == {k \in Slots : \E i \in 1 .. Len(fr) : HeldBy(fr, i, k)}
HeldOnce(fr) ==
  \A k \in Slots : \A i, j \in 1 .. Len(fr) : HeldBy(fr, i, k) /\ HeldBy(fr, j, k) => i = j

StackOK(fr) ==
  /\ fr \in Seq(Frame)
  /\ \A i \in 1 .. Len(fr) : FrameOK(fr[i])
  /\ HeldOnce(fr)

\* The lists hold structures of their own type, each once.
FreeOK(f) == \A t \in Types : Once(f[t]) /\ \A k \in Range(f[t]) : slottype[k] = t
FreeSlots(f) == {k \in Slots : k \in Range(f[slottype[k]])}

\* Every structure is in one place.
Places(f, q, fr) ==
  /\ FreeOK(f) /\ Once(q)
  /\ FreeSlots(f) \intersect Range(q) = {}
  /\ FreeSlots(f) \intersect HeldSlots(fr) = {}
  /\ Range(q) \intersect HeldSlots(fr) = {}
  /\ FreeSlots(f) \union Range(q) \union HeldSlots(fr) = Slots

SlotInv == Places(free, sigpendingq, frames)
InfoInv == \A k \in Range(sigpendingq) : info[k] \in Signals

CoreInv == TypeOK /\ StackOK(frames) /\ WaitInv /\ SlotInv /\ InfoInv

-----------------------------------------------------------------------------
(* Facts about states.                                                     *)

\* The pending signals are those in the structures of the queue.
LEMMA PendingIs ==
  ASSUME CoreInv
  PROVE  /\ pendingset = {info[k] : k \in Range(sigpendingq)}
         /\ pendingset \subseteq Signals
         /\ Range(sigpendingq) \subseteq Slots /\ FreeSlots(free) \subseteq Slots
<1>1. /\ DOMAIN sigpendingq = 1 .. Len(sigpendingq)
      /\ Range(sigpendingq) = {sigpendingq[i] : i \in 1 .. Len(sigpendingq)}
      /\ Range(sigpendingq) \subseteq Slots /\ FreeSlots(free) \subseteq Slots
  BY RangeIs DEF CoreInv, TypeOK, FreeSlots
<1>2. pendingset = {info[k] : k \in Range(sigpendingq)}
  BY <1>1 DEF pendingset
<1> QED BY <1>1, <1>2 DEF CoreInv, InfoInv

\* The lowest signal of a set is in the set.
LEMMA LowestIs ==
  ASSUME NEW S \in SUBSET Nat, S # {}
  PROVE  lowest(S) \in S
BY LeastNumber DEF lowest, Min

\* The structure that sig_removependingsignal takes for a pending signal.
LEMMA PendingSlotIs ==
  ASSUME CoreInv, NEW s \in pendingset
  PROVE  /\ PendingIndex(s) \in 1 .. Len(sigpendingq)
         /\ PendingSlot(s) \in Range(sigpendingq) /\ PendingSlot(s) \in Slots
         /\ info[PendingSlot(s)] = s
         /\ RemoveAt(sigpendingq, PendingIndex(s)) \in Seq(Slots)
         /\ Range(RemoveAt(sigpendingq, PendingIndex(s))) = Range(sigpendingq) \ {PendingSlot(s)}
         /\ Once(RemoveAt(sigpendingq, PendingIndex(s)))
<1> DEFINE I == {i \in 1 .. Len(sigpendingq) : info[sigpendingq[i]] = s}
<1>1. sigpendingq \in Seq(Slots) /\ Once(sigpendingq)
  BY DEF CoreInv, TypeOK, SlotInv, Places
<1>2. /\ DOMAIN sigpendingq = 1 .. Len(sigpendingq)
      /\ Range(sigpendingq) = {sigpendingq[i] : i \in 1 .. Len(sigpendingq)}
      /\ Range(sigpendingq) \subseteq Slots
  BY <1>1, RangeIs
<1>3. I # {} /\ I \in SUBSET Nat
  BY <1>2 DEF pendingset
<1>4. PendingIndex(s) = Min(I)
  BY <1>3 DEF PendingIndex, SelectInSeq
<1>5. Min(I) \in 1 .. Len(sigpendingq) /\ info[sigpendingq[Min(I)]] = s
  BY <1>3, LeastNumber
<1> HIDE DEF I
<1>6. PendingIndex(s) \in 1 .. Len(sigpendingq) /\ info[PendingSlot(s)] = s
  BY <1>4, <1>5 DEF PendingSlot
<1>7. PendingSlot(s) \in Range(sigpendingq)
  BY <1>2, <1>6 DEF PendingSlot
<1>8. /\ RemoveAt(sigpendingq, PendingIndex(s)) \in Seq(Slots)
      /\ DroppedAt(sigpendingq, RemoveAt(sigpendingq, PendingIndex(s)), PendingIndex(s))
  BY <1>1, <1>6, DropIndex
<1>9. /\ Range(RemoveAt(sigpendingq, PendingIndex(s))) = Range(sigpendingq) \ {PendingSlot(s)}
      /\ Once(RemoveAt(sigpendingq, PendingIndex(s)))
  BY <1>1, <1>6, <1>8, DroppedRange DEF PendingSlot
<1> QED BY <1>2, <1>6, <1>7, <1>8, <1>9

\* The structure of a new action, if there is one, is not in use.
LEMMA AllocateIs ==
  ASSUME NEW irq \in BOOLEAN
  PROVE  \/ allocatependingsigaction(irq) = NoAction
         \/ allocatependingsigaction(irq) \in Actions \ UsedIds
<1> DEFINE S == IF FreeIds("fixed") # {} THEN FreeIds("fixed") ELSE FreeIds(Other(irq))
<1>1. S \subseteq Actions \ UsedIds
  BY DEF FreeIds
<1>2. S \in SUBSET Nat
  BY <1>1, ConstantsAssumption DEF ConstantsAssumption
<1>3. allocatependingsigaction(irq) = IF S = {} THEN NoAction ELSE lowest(S)
  BY DEF allocatependingsigaction
<1> HIDE DEF S
<1>4. S # {} => lowest(S) \in S
  BY <1>2, LowestIs
<1> QED BY <1>1, <1>3, <1>4

\* The queue of actions stays one, and a new entry is behind the others.
LEMMA QueueActionIs ==
  ASSUME CoreInv, NEW s \in Signals, NEW irq \in BOOLEAN, queueaction(s, irq)
  PROVE  /\ sigpendactionq' \in Seq(Entries)
         /\ \/ sigpendactionq' = sigpendactionq
            \/ \E e \in Entries : e.id \notin UsedIds /\ sigpendactionq' = Append(sigpendactionq, e)
<1> DEFINE a == allocatependingsigaction(irq)
           e == [id |-> a, signo |-> s]
<1>1. sigpendactionq \in Seq(Entries)
  BY DEF CoreInv, TypeOK
<1>2. a = NoAction \/ a \in Actions \ UsedIds
  BY AllocateIs
<1>3. sigpendactionq' = IF s \in Caught /\ a # NoAction THEN Append(sigpendactionq, e) ELSE sigpendactionq
  BY DEF queueaction
<1> HIDE DEF a
<1>4. CASE s \in Caught /\ a # NoAction
  <2>1. e \in Entries /\ e.id \notin UsedIds
    BY <1>2, <1>4 DEF Entries
  <2>2. sigpendactionq' = Append(sigpendactionq, e)
    BY <1>3, <1>4
  <2> HIDE DEF e
  <2> QED BY <1>1, <2>1, <2>2, AppendIs
<1>5. CASE ~ (s \in Caught /\ a # NoAction)
  BY <1>1, <1>3, <1>5
<1> QED BY <1>4, <1>5

\* The frames that calls start with.
LEMMA FramesAre ==
  /\ Empty \in Frame
  /\ Empty.slot = NoSlot /\ Empty.cur = NoEntry /\ Empty.next = NoEntry
BY DEF Empty, Frame

\* The frame of a delivery.
LEMMA DeliverIs ==
  ASSUME NEW q \in Seq(Entries), NEW b \in BOOLEAN
  PROVE  /\ deliver(q, b) \in Frame
         /\ deliver(q, b).op = "deliver" /\ deliver(q, b).slot = NoSlot /\ deliver(q, b).cur = NoEntry
         /\ deliver(q, b).next = IF q = <<>> THEN NoEntry ELSE q[1]
<1> DEFINE e == IF q = <<>> THEN NoEntry ELSE Head(q)
<1>1. e \in Entries \union {NoEntry} /\ e = IF q = <<>> THEN NoEntry ELSE q[1]
  OBVIOUS
<1> HIDE DEF e
<1>2. deliver(q, b) = [Empty EXCEPT !.irqoff = b, !.next = e]
  BY DEF deliver, e
<1>3. [Empty EXCEPT !.irqoff = b, !.next = e] \in Frame
  BY <1>1, FramesAre DEF Frame
<1>4. /\ [Empty EXCEPT !.irqoff = b, !.next = e].op = "deliver"
      /\ [Empty EXCEPT !.irqoff = b, !.next = e].slot = NoSlot
      /\ [Empty EXCEPT !.irqoff = b, !.next = e].cur = NoEntry
      /\ [Empty EXCEPT !.irqoff = b, !.next = e].next = e
  BY DEF Empty
<1> QED BY <1>1, <1>2, <1>3, <1>4

-----------------------------------------------------------------------------
(* Changes of the stack.                                                   *)

\* The call holds a structure.
Holding(f) == f.op # "return" /\ f.slot # NoSlot

\* Which structures are held depends only on the frames that hold one.
LEMMA HeldSame ==
  ASSUME NEW s, NEW t, HeldOnce(s),
         \A k \in Slots : \A i : HeldBy(t, i, k) <=> HeldBy(s, i, k)
  PROVE  HeldSlots(t) = HeldSlots(s) /\ HeldOnce(t)
<1>1. \A k \in Slots : \A i : HeldBy(s, i, k) => i \in 1 .. Len(s)
  BY DEF HeldBy
<1>2. \A k \in Slots : \A i : HeldBy(t, i, k) => i \in 1 .. Len(t)
  BY DEF HeldBy
<1>3. HeldSlots(t) = HeldSlots(s)
  BY <1>1, <1>2 DEF HeldSlots
<1>4. HeldOnce(t)
  BY <1>1, <1>2 DEF HeldOnce
<1> QED BY <1>3, <1>4

\* A call that holds nothing is put on the stack.
LEMMA PushStack ==
  ASSUME NEW s, StackOK(s), NEW f \in Frame, FrameOK(f), ~ Holding(f)
  PROVE  StackOK(Append(s, f)) /\ HeldSlots(Append(s, f)) = HeldSlots(s)
<1> DEFINE t == Append(s, f)
<1>1. /\ s \in Seq(Frame) /\ t \in Seq(Frame) /\ Len(s) \in Nat /\ Len(t) = Len(s) + 1 /\ t[Len(s) + 1] = f
      /\ \A i \in 1 .. Len(s) : t[i] = s[i]
      /\ \A i \in 1 .. Len(s) + 1 : i \in 1 .. Len(s) \/ i = Len(s) + 1
  BY PushIs DEF StackOK
<1> HIDE DEF t
<1>2. \A i \in 1 .. Len(s) : i \in 1 .. Len(t)
  BY <1>1
<1>3. \A k \in Slots : k # NoSlot
  BY ConstantsAssumption DEF ConstantsAssumption
<1>4. ASSUME NEW k \in Slots, NEW i
      PROVE  HeldBy(t, i, k) <=> HeldBy(s, i, k)
  BY <1>1, <1>2, <1>3 DEF HeldBy, Holding
<1>5. HeldSlots(t) = HeldSlots(s) /\ HeldOnce(t)
  BY <1>4, HeldSame DEF StackOK
<1>6. \A i \in 1 .. Len(t) : FrameOK(t[i])
  BY <1>1 DEF StackOK
<1> QED BY <1>1, <1>5, <1>6 DEF StackOK, t

\* A call that holds nothing is taken off.
LEMMA PopStack ==
  ASSUME NEW s, StackOK(s), s # <<>>, ~ Holding(s[Len(s)])
  PROVE  StackOK(Front(s)) /\ HeldSlots(Front(s)) = HeldSlots(s)
<1> DEFINE t == Front(s)
<1>1. /\ s \in Seq(Frame) /\ t \in Seq(Frame) /\ Len(s) \in Nat /\ Len(t) = Len(s) - 1
      /\ \A i \in 1 .. Len(s) - 1 : t[i] = s[i]
      /\ \A i \in 1 .. Len(s) : i \in 1 .. Len(s) - 1 \/ i = Len(s)
  BY PopIs DEF StackOK
<1> HIDE DEF t
<1>2. \A i \in 1 .. Len(t) : i \in 1 .. Len(s)
  BY <1>1
<1>3. \A k \in Slots : k # NoSlot
  BY ConstantsAssumption DEF ConstantsAssumption
<1>4. ASSUME NEW k \in Slots, NEW i
      PROVE  HeldBy(t, i, k) <=> HeldBy(s, i, k)
  BY <1>1, <1>2, <1>3 DEF HeldBy, Holding
<1>5. HeldSlots(t) = HeldSlots(s) /\ HeldOnce(t)
  BY <1>4, HeldSame DEF StackOK
<1>6. \A i \in 1 .. Len(t) : FrameOK(t[i])
  BY <1>1, <1>2 DEF StackOK
<1> QED BY <1>1, <1>5, <1>6 DEF StackOK, t

\* The call on top changes, and holds what it held.
LEMMA ChangeStack ==
  ASSUME NEW s, StackOK(s), s # <<>>, NEW f \in Frame, FrameOK(f),
         Holding(f) <=> Holding(s[Len(s)]), Holding(f) => f.slot = s[Len(s)].slot
  PROVE  StackOK([s EXCEPT ![Len(s)] = f]) /\ HeldSlots([s EXCEPT ![Len(s)] = f]) = HeldSlots(s)
<1> DEFINE t == [s EXCEPT ![Len(s)] = f]
<1>1. /\ s \in Seq(Frame) /\ t \in Seq(Frame) /\ Len(s) \in Nat /\ Len(s) \in 1 .. Len(s) /\ Len(t) = Len(s)
      /\ t[Len(s)] = f
      /\ \A i \in 1 .. Len(s) : i # Len(s) => t[i] = s[i]
  BY ChangeIs DEF StackOK
<1> HIDE DEF t
<1>3. \A k \in Slots : k # NoSlot
  BY ConstantsAssumption DEF ConstantsAssumption
<1>4. ASSUME NEW k \in Slots, NEW i
      PROVE  HeldBy(t, i, k) <=> HeldBy(s, i, k)
  BY <1>1, <1>3 DEF HeldBy, Holding
<1>5. HeldSlots(t) = HeldSlots(s) /\ HeldOnce(t)
  BY <1>4, HeldSame DEF StackOK
<1>6. \A i \in 1 .. Len(t) : FrameOK(t[i])
  BY <1>1 DEF StackOK
<1> QED BY <1>1, <1>5, <1>6 DEF StackOK, t

\* The call on top, which holds nothing, takes a structure that nobody holds.
LEMMA GainStack ==
  ASSUME NEW s, StackOK(s), s # <<>>, ~ Holding(s[Len(s)]), NEW f \in Frame, FrameOK(f),
         Holding(f), f.slot \in Slots, f.slot \notin HeldSlots(s)
  PROVE  /\ StackOK([s EXCEPT ![Len(s)] = f])
         /\ HeldSlots([s EXCEPT ![Len(s)] = f]) = HeldSlots(s) \union {f.slot}
<1> DEFINE t == [s EXCEPT ![Len(s)] = f]
<1>1. /\ s \in Seq(Frame) /\ t \in Seq(Frame) /\ Len(s) \in Nat /\ Len(s) \in 1 .. Len(s) /\ Len(t) = Len(s)
      /\ t[Len(s)] = f
      /\ \A i \in 1 .. Len(s) : i # Len(s) => t[i] = s[i]
  BY ChangeIs DEF StackOK
<1> HIDE DEF t
<1>3. \A k \in Slots : k # NoSlot
  BY ConstantsAssumption DEF ConstantsAssumption
<1>4. \A k \in Slots : \A i \in 1 .. Len(s) :
        HeldBy(t, i, k) <=> HeldBy(s, i, k) \/ (i = Len(s) /\ k = f.slot)
  BY <1>1, <1>3 DEF HeldBy, Holding
<1>5. HeldSlots(t) = HeldSlots(s) \union {f.slot}
  BY <1>1, <1>4 DEF HeldSlots
<1>6. HeldOnce(t)
  <2>1. \A i \in 1 .. Len(s) : ~ HeldBy(s, i, f.slot)
    BY DEF HeldSlots
  <2> QED BY <1>1, <1>4, <2>1 DEF HeldOnce, StackOK
<1>7. \A i \in 1 .. Len(t) : FrameOK(t[i])
  BY <1>1 DEF StackOK
<1> QED BY <1>1, <1>5, <1>6, <1>7 DEF StackOK, t

\* The call on top gives its structure away.
LEMMA LoseStack ==
  ASSUME NEW s, StackOK(s), s # <<>>, Holding(s[Len(s)]), s[Len(s)].slot \in Slots,
         NEW f \in Frame, FrameOK(f), ~ Holding(f)
  PROVE  /\ StackOK([s EXCEPT ![Len(s)] = f]) /\ s[Len(s)].slot \in HeldSlots(s)
         /\ HeldSlots([s EXCEPT ![Len(s)] = f]) = HeldSlots(s) \ {s[Len(s)].slot}
<1> DEFINE t == [s EXCEPT ![Len(s)] = f]
           g == s[Len(s)]
<1>1. /\ s \in Seq(Frame) /\ t \in Seq(Frame) /\ Len(s) \in Nat /\ Len(s) \in 1 .. Len(s) /\ Len(t) = Len(s)
      /\ t[Len(s)] = f
      /\ \A i \in 1 .. Len(s) : i # Len(s) => t[i] = s[i]
  BY ChangeIs DEF StackOK
<1> HIDE DEF t
<1>2. HeldBy(s, Len(s), g.slot)
  BY <1>1 DEF HeldBy, Holding
<1>3. \A k \in Slots : k # NoSlot
  BY ConstantsAssumption DEF ConstantsAssumption
<1>4. \A k \in Slots : \A i \in 1 .. Len(s) : HeldBy(t, i, k) <=> HeldBy(s, i, k) /\ i # Len(s)
  BY <1>1, <1>3 DEF HeldBy, Holding
<1>5. HeldOnce(s)
  BY DEF StackOK
<1>6. g.slot \in HeldSlots(s)
  BY <1>1, <1>2 DEF HeldSlots
<1>7. HeldSlots(t) = HeldSlots(s) \ {g.slot}
  <2>1. \A i \in 1 .. Len(s) : HeldBy(s, i, g.slot) => i = Len(s)
    BY <1>1, <1>2, <1>5 DEF HeldOnce
  <2>2. \A k \in Slots : HeldBy(s, Len(s), k) => k = g.slot
    BY DEF HeldBy
  <2> QED BY <1>1, <1>4, <2>1, <2>2 DEF HeldSlots
<1>8. HeldOnce(t)
  BY <1>1, <1>4, <1>5 DEF HeldOnce
<1>9. \A i \in 1 .. Len(t) : FrameOK(t[i])
  BY <1>1 DEF StackOK
<1> QED BY <1>1, <1>6, <1>7, <1>8, <1>9 DEF StackOK, t

-----------------------------------------------------------------------------
(* The structures: every step keeps CoreInv.                               *)

\* The structures of a block, in some order.
LEMMA SetToSeqIs ==
  ASSUME NEW S, IsFiniteSet(S)
  PROVE  SetToSeq(S) \in Seq(S) /\ Once(SetToSeq(S)) /\ Range(SetToSeq(S)) = S
<1> DEFINE n == Cardinality(S)
           f == SetToSeq(S)
<1>1. IsFiniteSet(S) /\ n \in Nat
  BY FS_CardinalityType
<1>2. IsFiniteSet(1 .. n) /\ Cardinality(1 .. n) = n
  <2>1. \A m \in Nat : IsFiniteSet(1 .. m) /\ Cardinality(1 .. m) = m
    BY FS_Interval
  <2> QED BY <1>1, <2>1
<1>3. ExistsBijection(1 .. n, S)
  BY <1>1, <1>2, FS_SameCardinalityBij
<1>4. \E g \in [1 .. n -> S] : IsInjective(g)
  BY <1>3 DEF ExistsBijection, Bijection, Injection
<1>5. f \in [1 .. n -> S] /\ IsInjective(f)
  BY <1>4 DEF SetToSeq
<1> HIDE DEF f, n
<1>6. f \in Injection(1 .. n, S)
  BY <1>5 DEF Injection
<1>7. f \in Surjection(1 .. n, S)
  BY <1>1, <1>2, <1>6, FS_Injection DEF n
<1>8. f \in Seq(S) /\ Len(f) = n /\ DOMAIN f = 1 .. n
  BY <1>1, <1>5, LenProperties
<1>9. Once(f)
  BY <1>5, <1>8 DEF Once, IsInjective
<1>10. Range(f) = S
  BY <1>5, <1>7, <1>8 DEF Surjection, Range
<1> QED BY <1>8, <1>9, <1>10 DEF f

\* The first structure of a list is taken.
LEMMA FreeTakes ==
  ASSUME NEW f \in [Types -> Seq(Slots)], NEW t \in Types, f[t] # <<>>, FreeOK(f)
  PROVE  /\ [f EXCEPT ![t] = Tail(f[t])] \in [Types -> Seq(Slots)]
         /\ FreeOK([f EXCEPT ![t] = Tail(f[t])])
         /\ Head(f[t]) \in FreeSlots(f)
         /\ FreeSlots([f EXCEPT ![t] = Tail(f[t])]) = FreeSlots(f) \ {Head(f[t])}
<1> DEFINE s == f[t]
           u == Tail(s)
           k == Head(s)
           g == [f EXCEPT ![t] = u]
<1>1. s \in Seq(Slots) /\ s # <<>> /\ Once(s) /\ \A j \in Range(s) : slottype[j] = t
  BY DEF FreeOK
<1> HIDE DEF s
<1>2. k = s[1] /\ 1 \in 1 .. Len(s) /\ k \in Range(s) /\ k \in Slots
  BY <1>1, RangeIs
<1>3. u \in Seq(Slots) /\ DroppedAt(s, u, 1)
  BY <1>1, TailDrops
<1> HIDE DEF u, k
<1>4. Range(u) = Range(s) \ {k} /\ Once(u)
  BY <1>1, <1>2, <1>3, DroppedRange
<1>5. g \in [Types -> Seq(Slots)] /\ g[t] = u /\ \A v \in Types : v # t => g[v] = f[v]
  BY <1>3
<1>6. slottype[k] = t /\ k \in FreeSlots(f)
  BY <1>1, <1>2 DEF FreeSlots, s
<1> HIDE DEF g
<1>7. FreeOK(g)
  BY <1>1, <1>4, <1>5 DEF FreeOK
<1>8. \A j \in Slots : slottype[j] \in Types
  BY ConstantsAssumption DEF ConstantsAssumption
<1>9. FreeSlots(g) = FreeSlots(f) \ {k}
  BY <1>4, <1>5, <1>6, <1>8 DEF FreeSlots, s
<1> QED BY <1>5, <1>6, <1>7, <1>9 DEF g, u, k, s

\* A structure is put back into the list of its type.
LEMMA FreeGains ==
  ASSUME NEW f \in [Types -> Seq(Slots)], FreeOK(f), NEW k \in Slots, k \notin FreeSlots(f)
  PROVE  /\ [f EXCEPT ![slottype[k]] = Append(f[slottype[k]], k)] \in [Types -> Seq(Slots)]
         /\ FreeOK([f EXCEPT ![slottype[k]] = Append(f[slottype[k]], k)])
         /\ FreeSlots([f EXCEPT ![slottype[k]] = Append(f[slottype[k]], k)]) = FreeSlots(f) \union {k}
<1> DEFINE t == slottype[k]
           s == f[t]
           u == Append(s, k)
           g == [f EXCEPT ![t] = u]
<1>1. \A j \in Slots : slottype[j] \in Types
  BY ConstantsAssumption DEF ConstantsAssumption
<1>2. s \in Seq(Slots) /\ Once(s) /\ k \notin Range(s) /\ t \in Types /\ \A j \in Range(s) : slottype[j] = t
  BY <1>1 DEF FreeOK, FreeSlots
<1> HIDE DEF s
<1>3. u \in Seq(Slots) /\ Range(u) = Range(s) \union {k} /\ Once(u)
  BY <1>2, AppendIs, AppendRange
<1> HIDE DEF u
<1>4. g \in [Types -> Seq(Slots)] /\ g[t] = u /\ \A v \in Types : v # t => g[v] = f[v]
  BY <1>2, <1>3
<1> HIDE DEF g
<1>5. FreeOK(g)
  BY <1>2, <1>3, <1>4 DEF FreeOK
<1>6. FreeSlots(g) = FreeSlots(f) \union {k}
  BY <1>1, <1>2, <1>3, <1>4 DEF FreeSlots, s
<1> QED BY <1>4, <1>5, <1>6 DEF g, u, s

\* The lists at the start.
LEMMA FreeStarts ==
  ASSUME Init
  PROVE  free \in [Types -> Seq(Slots)] /\ FreeOK(free) /\ FreeSlots(free) = Slots
<1> DEFINE S(t) == {k \in Slots : slottype[k] = t}
<1>1. free = [t \in Types |-> SetToSeq(S(t))]
  BY DEF Init
<1>2. ASSUME NEW t \in Types
      PROVE  free[t] \in Seq(Slots) /\ Once(free[t]) /\ Range(free[t]) = S(t)
  <2> DEFINE T == S(t)
             u == SetToSeq(T)
  <2>1. IsFiniteSet(T)
    BY FS_Subset, ConstantsAssumption DEF ConstantsAssumption
  <2> HIDE DEF T
  <2>2. u \in Seq(T) /\ Once(u) /\ Range(u) = T
    BY <2>1, SetToSeqIs
  <2>3. free[t] = u
    BY <1>1 DEF T
  <2> HIDE DEF u
  <2>4. u \in Seq(Slots)
    <3>1. T \subseteq Slots
      BY DEF T
    <3> QED BY <2>2, <3>1
  <2> QED BY <2>2, <2>3, <2>4 DEF T
<1>3. FreeOK(free)
  BY <1>2 DEF FreeOK
<1>4. \A k \in Slots : slottype[k] \in Types
  BY ConstantsAssumption DEF ConstantsAssumption
<1>5. FreeSlots(free) = Slots
  BY <1>2, <1>4 DEF FreeSlots
<1>6. free \in [Types -> Seq(Slots)]
  BY <1>1, <1>2
<1> QED BY <1>3, <1>5, <1>6

\* The initial state.
LEMMA InitCore == Init => CoreInv
<1> SUFFICES ASSUME Init PROVE CoreInv
  OBVIOUS
<1>1. Range(<<>>) = {} /\ Once(<<>>) /\ Len(<<>>) = 0
  BY DEF Range, Once
<1>2. StackOK(frames) /\ HeldSlots(frames) = {}
  <2>1. frames = <<>> /\ frames \in Seq(Frame) /\ Len(frames) = 0
    BY DEF Init
  <2>2. \A i : ~ (i \in 1 .. Len(frames))
    BY <2>1
  <2> QED BY <2>1, <2>2 DEF StackOK, HeldSlots, HeldOnce
<1>3. SlotInv
  BY <1>1, <1>2, FreeStarts DEF Init, SlotInv, Places
<1>4. InfoInv
  BY <1>1 DEF Init, InfoInv
<1>5. TypeOK
  <2>1. <<>> \in Seq(Slots) /\ <<>> \in Seq(Entries) /\ <<>> \in Seq(Frame)
    OBVIOUS
  <2>2. info \in [Slots -> Signals \union {NoSignal}]
    BY DEF Init
  <2> QED BY <2>1, <2>2, FreeStarts DEF Init, TypeOK
<1>6. WaitInv
  BY DEF Init, WaitInv
<1> QED BY <1>2, <1>3, <1>4, <1>5, <1>6 DEF CoreInv

\* The call on top of the stack.
LEMMA TopIs ==
  ASSUME CoreInv, frames # <<>>
  PROVE  /\ Top = frames[Len(frames)] /\ Top \in Frame /\ FrameOK(Top)
         /\ Len(frames) \in Nat /\ Len(frames) \in 1 .. Len(frames)
<1>1. frames \in Seq(Frame) /\ \A i \in 1 .. Len(frames) : FrameOK(frames[i])
  BY DEF CoreInv, StackOK
<1>2. Len(frames) \in Nat /\ Len(frames) \in 1 .. Len(frames)
  BY <1>1
<1> QED BY <1>1, <1>2 DEF Top, Last

\* Signals are numbers other than those that stand for none and for a timeout.
LEMMA SignalsAre ==
  /\ Signals \subseteq Nat /\ NoSignal \notin Signals
  /\ Caught \subseteq Signals /\ ThreadSignals \subseteq Signals /\ IrqSignals \subseteq Signals
BY ConstantsAssumption DEF ConstantsAssumption, NoSignal

\* What a step leaves alone when only calls and masks change.
LEMMA CoreKept ==
  ASSUME CoreInv, UNCHANGED pending, StackOK(frames'), HeldSlots(frames') = HeldSlots(frames)
  PROVE  SlotInv' /\ InfoInv'
<1>1. free' = free /\ sigpendingq' = sigpendingq /\ info' = info
  BY DEF pending
<1> QED BY <1>1 DEF CoreInv, SlotInv, InfoInv, Places

\* The end of a wait.
LEMMA UnblockCore ==
  ASSUME CoreInv, NEW s \in Signals, Unblock(s)
  PROVE  /\ StackOK(frames') /\ HeldSlots(frames') = HeldSlots(frames) /\ WaitInv'
         /\ task' \in {"runs", "waits", "ready"} /\ sigwaitmask' \subseteq Signals
         /\ sigunbinfo' \in Signals \union {NoSignal, Timeout}
<1>1. CASE task = "waits"
  <2> DEFINE f == [Top EXCEPT !.got = s]
  <2>1. frames # <<>> /\ Top \in Frame /\ FrameOK(Top) /\ Top = frames[Len(frames)]
    BY <1>1, TopIs DEF CoreInv, WaitInv
  <2>2. f \in Frame /\ f.op = Top.op /\ f.slot = Top.slot /\ f.cur = Top.cur
    BY <2>1 DEF Frame
  <2>3. frames' = [frames EXCEPT ![Len(frames)] = f] /\ task' = "ready" /\ sigunbinfo' = s /\ sigwaitmask' = {}
    BY <1>1 DEF Unblock, Change
  <2> HIDE DEF f
  <2>4. FrameOK(f) /\ (Holding(f) <=> Holding(Top)) /\ (Holding(f) => f.slot = Top.slot)
    BY <2>1, <2>2 DEF FrameOK, Holding
  <2>5. StackOK(frames') /\ HeldSlots(frames') = HeldSlots(frames)
    BY <2>1, <2>2, <2>3, <2>4, ChangeStack DEF CoreInv
  <2> QED BY <2>3, <2>5 DEF WaitInv
<1>2. CASE task # "waits"
  <2>1. UNCHANGED <<task, sigunbinfo, sigwaitmask, frames>>
    BY <1>2 DEF Unblock
  <2> QED BY <1>2, <2>1 DEF CoreInv, TypeOK, WaitInv
<1> QED BY <1>1, <1>2

\* A signal that is not masked.
LEMMA UnmaskedCore ==
  ASSUME CoreInv, NEW s \in Signals, NEW irq \in BOOLEAN, Unmasked(s, irq)
  PROVE  CoreInv'
<1>1. /\ queueaction(s, irq) /\ Unblock(s) /\ armed' = TRUE /\ UNCHANGED pending
      /\ UNCHANGED <<sigprocmask, sender, asked>>
  BY DEF Unmasked
<1>2. sigpendactionq' \in Seq(Entries)
  BY <1>1, QueueActionIs
<1>3. /\ StackOK(frames') /\ HeldSlots(frames') = HeldSlots(frames) /\ WaitInv'
      /\ task' \in {"runs", "waits", "ready"} /\ sigwaitmask' \subseteq Signals
      /\ sigunbinfo' \in Signals \union {NoSignal, Timeout}
  BY <1>1, UnblockCore
<1>4. SlotInv' /\ InfoInv'
  BY <1>1, <1>3, CoreKept
<1>5. TypeOK'
  BY <1>1, <1>2, <1>3 DEF CoreInv, TypeOK, pending, StackOK
<1> QED BY <1>3, <1>4, <1>5 DEF CoreInv

\* The structures when one is taken from its list for a signal.
LEMMA AddsCore ==
  ASSUME CoreInv, NEW s \in Signals, NEW irq \in BOOLEAN, Adds(s, irq), frames' = frames
  PROVE  /\ SlotInv' /\ InfoInv'
         /\ free' \in [Types -> Seq(Slots)] /\ sigpendingq' \in Seq(Slots)
         /\ info' \in [Slots -> Signals \union {NoSignal}]
         /\ \E k \in Slots :
              /\ k \notin Range(sigpendingq) /\ Range(sigpendingq') = Range(sigpendingq) \union {k}
              /\ info'[k] = s
         /\ \A k \in Range(sigpendingq) : info'[k] = info[k]
<1> DEFINE t == IF free["fixed"] # <<>> THEN "fixed" ELSE Other(irq)
           k0 == Head(free[t])
           g == [free EXCEPT ![t] = Tail(free[t])]
<1>0. /\ t \in Types /\ free[t] # <<>> /\ free' = g
      /\ sigpendingq' = Append(sigpendingq, k0) /\ info' = [info EXCEPT ![k0] = s]
  BY DEF Adds, Types, Other
<1> HIDE DEF t
<1>1. /\ free \in [Types -> Seq(Slots)] /\ sigpendingq \in Seq(Slots)
      /\ info \in [Slots -> Signals \union {NoSignal}]
  BY DEF CoreInv, TypeOK
<1>2. /\ FreeOK(free) /\ Once(sigpendingq) /\ FreeSlots(free) \intersect Range(sigpendingq) = {}
      /\ FreeSlots(free) \intersect HeldSlots(frames) = {}
      /\ Range(sigpendingq) \intersect HeldSlots(frames) = {}
      /\ FreeSlots(free) \union Range(sigpendingq) \union HeldSlots(frames) = Slots
  BY DEF CoreInv, SlotInv, Places
<1>3. /\ k0 \in FreeSlots(free) /\ g \in [Types -> Seq(Slots)] /\ FreeOK(g)
      /\ FreeSlots(g) = FreeSlots(free) \ {k0}
  BY <1>0, <1>1, <1>2, FreeTakes
<1> HIDE DEF k0, g
<1>5. k0 \notin Range(sigpendingq) /\ k0 \in Slots
  BY <1>2, <1>3
<1>6. /\ Append(sigpendingq, k0) \in Seq(Slots) /\ Once(Append(sigpendingq, k0))
      /\ Range(Append(sigpendingq, k0)) = Range(sigpendingq) \union {k0}
  BY <1>1, <1>2, <1>5, AppendIs, AppendRange
<1>8. SlotInv'
  BY <1>0, <1>2, <1>3, <1>6 DEF SlotInv, Places
<1>9. /\ info' \in [Slots -> Signals \union {NoSignal}] /\ info'[k0] = s
      /\ \A k \in Range(sigpendingq) : info'[k] = info[k]
  BY <1>0, <1>1, <1>2, <1>5
<1>10. InfoInv'
  BY <1>0, <1>6, <1>9 DEF CoreInv, InfoInv
<1> QED BY <1>0, <1>3, <1>5, <1>6, <1>8, <1>9, <1>10

\* A signal that is masked, from a handler, and one that the sender adds.
LEMMA AddingCore ==
  ASSUME CoreInv, NEW s \in Signals, NEW irq \in BOOLEAN, Adds(s, irq), sender' \in Signals \union {NoSignal},
         twice' \subseteq Signals,
         UNCHANGED <<task, sigprocmask, sigwaitmask, sigunbinfo, sigpendactionq, armed, frames, asked>>
  PROVE  CoreInv'
<1>1. /\ SlotInv' /\ InfoInv' /\ free' \in [Types -> Seq(Slots)] /\ sigpendingq' \in Seq(Slots)
      /\ info' \in [Slots -> Signals \union {NoSignal}]
  BY AddsCore
<1>2. TypeOK'
  BY <1>1 DEF CoreInv, TypeOK
<1>3. WaitInv' /\ StackOK(frames')
  BY DEF CoreInv, WaitInv, Top
<1> QED BY <1>1, <1>2, <1>3 DEF CoreInv

\* The masked signals that a thread sends.
LEMMA SendMaskedCore ==
  ASSUME CoreInv, NEW s \in ThreadSignals, SendMasked(s)
  PROVE  CoreInv'
<1>1. s \in Signals /\ UNCHANGED pending /\ UNCHANGED <<sigprocmask, sigpendactionq, armed, asked>>
  BY SignalsAre DEF SendMasked
<1>2. CASE WaitsFor(s)
  <2>1. Unblock(s) /\ sender' = sender
    BY <1>2 DEF SendMasked
  <2>2. /\ StackOK(frames') /\ HeldSlots(frames') = HeldSlots(frames) /\ WaitInv'
        /\ task' \in {"runs", "waits", "ready"} /\ sigwaitmask' \subseteq Signals
        /\ sigunbinfo' \in Signals \union {NoSignal, Timeout}
    BY <1>1, <2>1, UnblockCore
  <2>3. SlotInv' /\ InfoInv'
    BY <1>1, <2>2, CoreKept
  <2>4. TypeOK'
    BY <1>1, <2>1, <2>2 DEF CoreInv, TypeOK, pending, StackOK
  <2> QED BY <2>2, <2>3, <2>4 DEF CoreInv
<1>3. CASE ~ WaitsFor(s)
  <2>1. sender' \in Signals \union {NoSignal} /\ UNCHANGED <<task, sigunbinfo, sigwaitmask, frames>>
    BY <1>1, <1>3 DEF SendMasked
  <2>2. StackOK(frames') /\ HeldSlots(frames') = HeldSlots(frames) /\ WaitInv'
    BY <2>1 DEF CoreInv, WaitInv, Top
  <2>3. SlotInv' /\ InfoInv'
    BY <1>1, <2>2, CoreKept
  <2>4. TypeOK'
    BY <1>1, <2>1 DEF CoreInv, TypeOK, pending
  <2> QED BY <2>2, <2>3, <2>4 DEF CoreInv
<1> QED BY <1>2, <1>3

\* The signals that handlers send.
LEMMA InterruptCore ==
  ASSUME CoreInv, NEW s \in IrqSignals, Interrupt(s)
  PROVE  CoreInv'
<1>1. s \in Signals
  BY SignalsAre
<1>2. CASE Unmasked(s, TRUE)
  BY <1>1, <1>2, UnmaskedCore
<1>3. CASE ~ Unmasked(s, TRUE)
  <2>1. UNCHANGED <<sigprocmask, sigpendactionq, armed, sender, asked>>
    BY <1>3 DEF Interrupt
  <2>2. CASE WaitsFor(s)
    <3>1. Unblock(s) /\ UNCHANGED pending
      BY <1>3, <2>2 DEF Interrupt
    <3>2. /\ StackOK(frames') /\ HeldSlots(frames') = HeldSlots(frames) /\ WaitInv'
          /\ task' \in {"runs", "waits", "ready"} /\ sigwaitmask' \subseteq Signals
          /\ sigunbinfo' \in Signals \union {NoSignal, Timeout}
      BY <1>1, <3>1, UnblockCore
    <3>3. SlotInv' /\ InfoInv'
      BY <3>1, <3>2, CoreKept
    <3>4. TypeOK'
      BY <2>1, <3>1, <3>2 DEF CoreInv, TypeOK, pending, StackOK
    <3> QED BY <3>2, <3>3, <3>4 DEF CoreInv
  <2>3. CASE ~ WaitsFor(s)
    <3>1. addpendingsignal(s) /\ UNCHANGED <<task, sigunbinfo, sigwaitmask, frames>>
      BY <1>3, <2>3 DEF Interrupt
    <3>2. CASE s \in pendingset
      <4>1. UNCHANGED pending
        BY <3>1, <3>2 DEF addpendingsignal
      <4>4. StackOK(frames') /\ HeldSlots(frames') = HeldSlots(frames) /\ WaitInv'
        BY <3>1 DEF CoreInv, WaitInv, Top
      <4>2. SlotInv' /\ InfoInv' /\ StackOK(frames') /\ WaitInv'
        BY <4>1, <4>4, CoreKept
      <4>3. TypeOK'
        BY <2>1, <3>1, <4>1 DEF CoreInv, TypeOK, pending
      <4> QED BY <4>2, <4>3 DEF CoreInv
    <3>3. CASE s \notin pendingset
      <4>1. Adds(s, TRUE) /\ twice' \subseteq Signals
        BY <3>1, <3>3 DEF addpendingsignal, CoreInv, TypeOK
      <4>2. sender' \in Signals \union {NoSignal}
        BY <2>1 DEF CoreInv, TypeOK
      <4> QED BY <1>1, <2>1, <3>1, <4>1, <4>2, AddingCore
    <3> QED BY <3>2, <3>3
  <2> QED BY <2>2, <2>3
<1> QED BY <1>2, <1>3

\* What is put on the stack, changed or taken off by a call of the receiver.
LEMMA StackStep ==
  ASSUME CoreInv, NEW f \in Frame, FrameOK(f)
  PROVE  /\ ~ Holding(f) => /\ StackOK(Append(frames, f))
                            /\ HeldSlots(Append(frames, f)) = HeldSlots(frames)
         /\ frames # <<>> /\ (Holding(f) <=> Holding(Top)) /\ (Holding(f) => f.slot = Top.slot) =>
              StackOK(Change(f)) /\ HeldSlots(Change(f)) = HeldSlots(frames)
<1>1. StackOK(frames) /\ (frames # <<>> => Top = frames[Len(frames)])
  BY TopIs DEF CoreInv
<1>2. ASSUME ~ Holding(f)
      PROVE  StackOK(Append(frames, f)) /\ HeldSlots(Append(frames, f)) = HeldSlots(frames)
  BY <1>1, <1>2, PushStack
<1>3. ASSUME frames # <<>>, Holding(f) <=> Holding(Top), Holding(f) => f.slot = Top.slot
      PROVE  StackOK(Change(f)) /\ HeldSlots(Change(f)) = HeldSlots(frames)
  BY <1>1, <1>3, ChangeStack DEF Change
<1> QED BY <1>2, <1>3

\* A step that changes only the stack, and with it what else is not about structures.
LEMMA StackOnly ==
  ASSUME CoreInv, UNCHANGED pending, StackOK(frames'), HeldSlots(frames') = HeldSlots(frames),
         task' \in {"runs", "ready"},
         sigprocmask' \subseteq Signals, sigwaitmask' \subseteq Signals, asked' \subseteq Signals,
         sigunbinfo' \in Signals \union {NoSignal, Timeout}, sigpendactionq' \in Seq(Entries),
         armed' \in BOOLEAN, sender' = sender
  PROVE  CoreInv'
<1>1. SlotInv' /\ InfoInv'
  BY CoreKept
<1>2. TypeOK'
  BY DEF CoreInv, TypeOK, pending, StackOK
<1>3. WaitInv'
  BY DEF WaitInv
<1> QED BY <1>1, <1>2, <1>3 DEF CoreInv

\* sig_timeout.
LEMMA TimeoutCore ==
  ASSUME CoreInv, sig_timeout
  PROVE  CoreInv'
<1> DEFINE f == [Top EXCEPT !.got = Timeout]
<1>1. /\ task = "waits" /\ task' = "ready" /\ sigunbinfo' = Timeout /\ frames' = Change(f) /\ UNCHANGED pending
      /\ UNCHANGED <<sigprocmask, sigwaitmask, sigpendactionq, armed, sender, asked>>
  BY DEF sig_timeout
<1>2. frames # <<>> /\ Top \in Frame /\ FrameOK(Top)
  BY <1>1, TopIs DEF CoreInv, WaitInv
<1>3. f \in Frame /\ f.op = Top.op /\ f.slot = Top.slot /\ f.cur = Top.cur
  BY <1>2 DEF Frame
<1> HIDE DEF f
<1>4. FrameOK(f) /\ (Holding(f) <=> Holding(Top)) /\ (Holding(f) => f.slot = Top.slot)
  BY <1>2, <1>3 DEF FrameOK, Holding
<1>5. StackOK(frames') /\ HeldSlots(frames') = HeldSlots(frames)
  BY <1>1, <1>2, <1>3, <1>4, StackStep
<1> QED BY <1>1, <1>5, StackOnly DEF CoreInv, TypeOK

\* A delivery starts.
LEMMA SigdeliverCore ==
  ASSUME CoreInv, up_sigdeliver
  PROVE  CoreInv'
<1> DEFINE f == deliver(sigpendactionq, task = "ready")
<1>1. /\ task' = "runs" /\ armed' = FALSE /\ frames' = Append(frames, f) /\ UNCHANGED pending
      /\ UNCHANGED <<sigprocmask, sigwaitmask, sigunbinfo, sigpendactionq, sender, asked>>
  BY DEF up_sigdeliver
<1>2. f \in Frame /\ f.op = "deliver" /\ f.slot = NoSlot
  BY DeliverIs DEF CoreInv, TypeOK
<1> HIDE DEF f
<1>3. FrameOK(f) /\ ~ Holding(f)
  BY <1>2 DEF FrameOK, Holding
<1>4. StackOK(frames') /\ HeldSlots(frames') = HeldSlots(frames)
  BY <1>1, <1>2, <1>3, StackStep
<1> QED BY <1>1, <1>4, StackOnly DEF CoreInv, TypeOK

\* The entry behind another one is an entry.
LEMMA FlinkIs ==
  ASSUME CoreInv, NEW e
  PROVE  flink(e) \in Entries \union {NoEntry}
<1> DEFINE i == SelectInSeq(sigpendactionq, LAMBDA x : x = e)
<1>1. sigpendactionq \in Seq(Entries)
  BY DEF CoreInv, TypeOK
<1>2. flink(e) = IF i \in 1 .. Len(sigpendactionq) - 1 THEN sigpendactionq[i + 1] ELSE NoEntry
  BY DEF flink
<1> HIDE DEF i
<1>3. i \in 1 .. Len(sigpendactionq) - 1 => sigpendactionq[i + 1] \in Entries
  BY <1>1
<1> QED BY <1>2, <1>3

\* What Continues says.
LEMMA ContinuesIs ==
  ASSUME CoreInv, NEW op, Continues(op)
  PROVE  /\ frames # <<>> /\ Top \in Frame /\ FrameOK(Top) /\ Top = frames[Len(frames)] /\ Top.op = op
         /\ task' = "runs" /\ sender = NoSignal /\ armed = FALSE /\ task # "waits"
<1>1. /\ frames # <<>> /\ Top.op = op /\ task' = "runs" /\ sender = NoSignal /\ ~ armed /\ task # "waits"
  BY DEF Continues
<1>2. armed \in BOOLEAN
  BY DEF CoreInv, TypeOK
<1> QED BY <1>1, <1>2, TopIs

\* A call that holds nothing returns.
LEMMA ReturnStack ==
  ASSUME CoreInv, frames # <<>>, ~ Holding(Top)
  PROVE  StackOK(Front(frames)) /\ HeldSlots(Front(frames)) = HeldSlots(frames)
BY TopIs, PopStack DEF CoreInv

\* The head of the loop of sig_deliver.
LEMMA FetchCore ==
  ASSUME CoreInv, DeliverFetch
  PROVE  CoreInv'
<1>1. /\ frames # <<>> /\ Top \in Frame /\ FrameOK(Top) /\ Top = frames[Len(frames)] /\ Top.op = "deliver"
      /\ task' = "runs"
  BY ContinuesIs DEF DeliverFetch
<1>2. ~ Holding(Top) /\ Top.slot = NoSlot
  BY <1>1 DEF FrameOK, Holding
<1>3. /\ UNCHANGED pending
      /\ UNCHANGED <<sigprocmask, sigwaitmask, sigunbinfo, sigpendactionq, armed, sender, asked>>
  BY DEF DeliverFetch
<1>4. CASE Top.next = NoEntry
  <2>1. frames' = Front(frames)
    BY <1>4 DEF DeliverFetch
  <2>2. StackOK(frames') /\ HeldSlots(frames') = HeldSlots(frames)
    BY <1>1, <1>2, <2>1, ReturnStack
  <2> QED BY <1>1, <1>3, <2>2, StackOnly DEF CoreInv, TypeOK
<1>5. CASE Top.next # NoEntry
  <2> DEFINE f == [Top EXCEPT !.op = "fetched", !.cur = Top.next, !.next = flink(Top.next)]
  <2>1. frames' = Change(f)
    BY <1>5 DEF DeliverFetch
  <2>2. Top.next \in Entries
    BY <1>1, <1>5 DEF Frame
  <2>3. flink(Top.next) \in Entries \union {NoEntry}
    BY FlinkIs
  <2>4. f \in Frame /\ f.op = "fetched" /\ f.slot = NoSlot /\ f.cur = Top.next
    BY <1>1, <1>2, <2>2, <2>3 DEF Frame
  <2> HIDE DEF f
  <2>5. FrameOK(f) /\ ~ Holding(f)
    BY <2>2, <2>4 DEF FrameOK, Holding
  <2>6. StackOK(frames') /\ HeldSlots(frames') = HeldSlots(frames)
    BY <1>1, <1>2, <2>1, <2>4, <2>5, StackStep
  <2> QED BY <1>1, <1>3, <2>6, StackOnly DEF CoreInv, TypeOK
<1> QED BY <1>4, <1>5

\* An action is taken off the queue.
LEMMA RemovedEntries ==
  ASSUME CoreInv, NEW e
  PROVE  RemoveFirst(sigpendactionq, e) \in Seq(Entries)
<1>1. sigpendactionq \in Seq(Entries)
  BY DEF CoreInv, TypeOK
<1>2. CASE e \in Range(sigpendactionq)
  BY <1>1, <1>2, RemoveFirstDrops
<1>3. CASE e \notin Range(sigpendactionq)
  <2>1. ~ \E i \in 1 .. Len(sigpendactionq) : sigpendactionq[i] = e
    BY <1>1, <1>3, RangeIs
  <2> QED BY <1>1, <2>1 DEF RemoveFirst
<1> QED BY <1>2, <1>3

\* The handler is called.
LEMMA TakeCore ==
  ASSUME CoreInv, DeliverTake
  PROVE  CoreInv'
<1> DEFINE f == [Top EXCEPT !.op = "handler", !.saved = sigprocmask]
<1>1. /\ frames # <<>> /\ Top \in Frame /\ FrameOK(Top) /\ Top = frames[Len(frames)] /\ Top.op = "fetched"
      /\ task' = "runs"
  BY ContinuesIs DEF DeliverTake
<1>2. ~ Holding(Top) /\ Top.slot = NoSlot /\ Top.cur \in Entries
  BY <1>1 DEF FrameOK, Holding
<1>3. /\ UNCHANGED pending /\ frames' = Change(f)
      /\ UNCHANGED <<sigwaitmask, sigunbinfo, armed, sender, asked>>
      /\ sigpendactionq' = RemoveFirst(sigpendactionq, Top.cur)
      /\ sigprocmask' = sigprocmask \union sa_mask[Top.cur.signo] \union {Top.cur.signo}
  BY DEF DeliverTake
<1>4. sigprocmask \in SUBSET Signals
  BY DEF CoreInv, TypeOK
<1>5. sigprocmask' \subseteq Signals
  <2>1. Top.cur.signo \in Caught
    BY <1>2 DEF Entries
  <2>2. sa_mask[Top.cur.signo] \subseteq Signals
    BY <2>1, ConstantsAssumption DEF ConstantsAssumption
  <2> QED BY <1>3, <1>4, <2>1, <2>2, SignalsAre
<1>6. f \in Frame /\ f.op = "handler" /\ f.slot = NoSlot
  BY <1>1, <1>2, <1>4 DEF Frame
<1> HIDE DEF f
<1>7. FrameOK(f) /\ ~ Holding(f)
  BY <1>6 DEF FrameOK, Holding
<1>8. StackOK(frames') /\ HeldSlots(frames') = HeldSlots(frames)
  BY <1>1, <1>2, <1>3, <1>6, <1>7, StackStep
<1>9. sigpendactionq' \in Seq(Entries)
  BY <1>3, RemovedEntries
<1> QED BY <1>1, <1>3, <1>5, <1>8, <1>9, StackOnly DEF CoreInv, TypeOK

\* The handler returns.
LEMMA HandlerCore ==
  ASSUME CoreInv, HandlerReturns
  PROVE  CoreInv'
<1> DEFINE f == [Top EXCEPT !.op = "unmask", !.sigs = pendingset \ Top.saved]
<1>1. /\ frames # <<>> /\ Top \in Frame /\ FrameOK(Top) /\ Top = frames[Len(frames)] /\ Top.op = "handler"
      /\ task' = "runs"
  BY ContinuesIs DEF HandlerReturns
<1>2. ~ Holding(Top) /\ Top.slot = NoSlot /\ Top.saved \subseteq Signals
  BY <1>1 DEF FrameOK, Holding, Frame
<1>3. /\ UNCHANGED pending /\ frames' = Change(f) /\ sigprocmask' = Top.saved
      /\ UNCHANGED <<sigwaitmask, sigunbinfo, sigpendactionq, armed, sender, asked>>
  BY DEF HandlerReturns
<1>4. pendingset \ Top.saved \subseteq Signals
  BY PendingIs
<1>5. f \in Frame /\ f.op = "unmask" /\ f.slot = NoSlot
  BY <1>1, <1>2, <1>4 DEF Frame
<1> HIDE DEF f
<1>6. FrameOK(f) /\ ~ Holding(f)
  BY <1>5 DEF FrameOK, Holding
<1>7. StackOK(frames') /\ HeldSlots(frames') = HeldSlots(frames)
  BY <1>1, <1>2, <1>3, <1>5, <1>6, StackStep
<1> QED BY <1>1, <1>2, <1>3, <1>7, StackOnly DEF CoreInv, TypeOK

\* sig_unmaskpendingsignal takes a signal.
LEMMA UnmaskNextCore ==
  ASSUME CoreInv, UnmaskNext
  PROVE  CoreInv'
<1> DEFINE s == lowest(Top.sigs)
           f == [Top EXCEPT !.sigs = @ \ {s}]
<1>1. /\ frames # <<>> /\ Top \in Frame /\ FrameOK(Top) /\ Top = frames[Len(frames)] /\ Top.op = "unmask"
      /\ task' = "runs"
  BY ContinuesIs DEF UnmaskNext
<1>2. /\ Top.slot = NoSlot /\ Top.sigs # {}
      /\ UNCHANGED <<sigprocmask, sigwaitmask, sigunbinfo, info, free, armed, sender, asked, twice>>
  BY DEF UnmaskNext
<1>3. ~ Holding(Top) /\ Top.sigs \in SUBSET Signals
  BY <1>1, <1>2 DEF Holding, Frame
<1>4. s \in Top.sigs /\ s \in Signals
  <2>1. Top.sigs \in SUBSET Nat
    BY <1>3, SignalsAre
  <2> QED BY <1>2, <1>3, <2>1, LowestIs
<1>5. IF s \in pendingset
      THEN /\ removependingsignal(s)
           /\ queueaction(s, FALSE)
           /\ frames' = Append(Change([f EXCEPT !.slot = PendingSlot(s)]), deliver(sigpendactionq', TRUE))
      ELSE /\ frames' = Change(f)
           /\ UNCHANGED <<sigpendingq, sigpendactionq>>
  BY Zenon DEF UnmaskNext
<1> HIDE DEF s
<1>6. f \in Frame /\ f.op = "unmask" /\ f.slot = NoSlot
  BY <1>1, <1>2, <1>3 DEF Frame
<1> HIDE DEF f
<1>7. CASE s \notin pendingset
  <2>1. FrameOK(f) /\ ~ Holding(f)
    BY <1>6 DEF FrameOK, Holding
  <2>2. frames' = Change(f) /\ UNCHANGED <<sigpendingq, sigpendactionq>>
    BY <1>5, <1>7
  <2>3. StackOK(frames') /\ HeldSlots(frames') = HeldSlots(frames)
    BY <1>1, <1>3, <1>6, <2>1, <2>2, StackStep
  <2>4. UNCHANGED pending
    BY <1>2, <2>2 DEF pending
  <2> QED BY <1>1, <1>2, <2>2, <2>3, <2>4, StackOnly DEF CoreInv, TypeOK
<1>8. CASE s \in pendingset
  <2> DEFINE k == PendingSlot(s)
             g == [f EXCEPT !.slot = k]
             h == deliver(sigpendactionq', TRUE)
             q == RemoveAt(sigpendingq, PendingIndex(s))
  <2>1. sigpendingq' = q /\ queueaction(s, FALSE) /\ frames' = Append(Change(g), h)
    BY <1>5, <1>8 DEF removependingsignal
  <2>2. /\ k \in Range(sigpendingq) /\ k \in Slots /\ q \in Seq(Slots) /\ Once(q)
        /\ Range(q) = Range(sigpendingq) \ {k}
    BY <1>8, PendingSlotIs
  <2>3. sigpendactionq' \in Seq(Entries)
    BY <1>4, <2>1, QueueActionIs
  <2> HIDE DEF k, q
  <2>4. k # NoSlot
    BY <2>2, ConstantsAssumption DEF ConstantsAssumption
  <2>5. g \in Frame /\ g.op = "unmask" /\ g.slot = k
    BY <1>6, <2>2 DEF Frame
  <2>6. h \in Frame /\ h.op = "deliver" /\ h.slot = NoSlot
    BY <2>3, DeliverIs
  <2> HIDE DEF g, h
  <2>7. FrameOK(g) /\ Holding(g) /\ FrameOK(h) /\ ~ Holding(h)
    BY <2>4, <2>5, <2>6 DEF FrameOK, Holding
  <2>8. /\ FreeOK(free) /\ Once(sigpendingq) /\ FreeSlots(free) \intersect Range(sigpendingq) = {}
        /\ FreeSlots(free) \intersect HeldSlots(frames) = {}
        /\ Range(sigpendingq) \intersect HeldSlots(frames) = {}
        /\ FreeSlots(free) \union Range(sigpendingq) \union HeldSlots(frames) = Slots
    BY DEF CoreInv, SlotInv, Places
  <2>9. k \notin HeldSlots(frames)
    BY <2>2, <2>8
  <2>10. StackOK(Change(g)) /\ HeldSlots(Change(g)) = HeldSlots(frames) \union {k}
    BY <1>1, <1>3, <2>2, <2>5, <2>7, <2>9, GainStack DEF CoreInv, Change
  <2>11. StackOK(frames') /\ HeldSlots(frames') = HeldSlots(frames) \union {k}
    BY <2>1, <2>6, <2>7, <2>10, PushStack
  <2>12. SlotInv'
    BY <1>2, <2>1, <2>2, <2>8, <2>11 DEF SlotInv, Places
  <2>13. InfoInv'
    BY <1>2, <2>1, <2>2 DEF CoreInv, InfoInv
  <2>14. TypeOK'
    BY <1>1, <1>2, <2>1, <2>2, <2>3, <2>11 DEF CoreInv, TypeOK, StackOK
  <2>15. WaitInv'
    BY <1>1 DEF WaitInv
  <2> QED BY <2>11, <2>12, <2>13, <2>14, <2>15 DEF CoreInv
<1> QED BY <1>7, <1>8

\* sig_releasependingsignal.
LEMMA ReleaseCore ==
  ASSUME CoreInv, UnmaskRelease
  PROVE  CoreInv'
<1> DEFINE f == [Top EXCEPT !.slot = NoSlot]
           k == Top.slot
<1>1. /\ frames # <<>> /\ Top \in Frame /\ FrameOK(Top) /\ Top = frames[Len(frames)] /\ Top.op = "unmask"
      /\ task' = "runs"
  BY ContinuesIs DEF UnmaskRelease
<1>2. /\ k # NoSlot /\ frames' = Change(f) /\ free' = [free EXCEPT ![slottype[k]] = Append(free[slottype[k]], k)]
      /\ info' = [info EXCEPT ![k] = NoSignal] /\ sigpendingq' = sigpendingq
      /\ UNCHANGED <<sigprocmask, sigwaitmask, sigunbinfo, sigpendactionq, armed, sender, asked, twice>>
  BY DEF UnmaskRelease, releasependingsignal
<1>3. Holding(Top) /\ k \in Slots
  BY <1>1, <1>2 DEF Holding, Frame
<1>4. f \in Frame /\ f.op = "unmask" /\ f.slot = NoSlot
  BY <1>1 DEF Frame
<1> HIDE DEF f
<1>5. FrameOK(f) /\ ~ Holding(f)
  BY <1>4 DEF FrameOK, Holding
<1>6. /\ StackOK(frames') /\ k \in HeldSlots(frames) /\ HeldSlots(frames') = HeldSlots(frames) \ {k}
  BY <1>1, <1>2, <1>3, <1>4, <1>5, LoseStack DEF CoreInv, Change
<1>7. /\ FreeOK(free) /\ Once(sigpendingq) /\ FreeSlots(free) \intersect Range(sigpendingq) = {}
      /\ FreeSlots(free) \intersect HeldSlots(frames) = {}
      /\ Range(sigpendingq) \intersect HeldSlots(frames) = {}
      /\ FreeSlots(free) \union Range(sigpendingq) \union HeldSlots(frames) = Slots
  BY DEF CoreInv, SlotInv, Places
<1>8. free \in [Types -> Seq(Slots)] /\ info \in [Slots -> Signals \union {NoSignal}]
  BY DEF CoreInv, TypeOK
<1> HIDE DEF k
<1>9. k \notin FreeSlots(free) /\ k \notin Range(sigpendingq)
  BY <1>6, <1>7
<1>10. free' \in [Types -> Seq(Slots)] /\ FreeOK(free') /\ FreeSlots(free') = FreeSlots(free) \union {k}
  BY <1>2, <1>3, <1>7, <1>8, <1>9, FreeGains
<1>11. SlotInv'
  BY <1>2, <1>6, <1>7, <1>9, <1>10 DEF SlotInv, Places
<1>12. info' \in [Slots -> Signals \union {NoSignal}] /\ \A j \in Range(sigpendingq) : info'[j] = info[j]
  <2>1. Range(sigpendingq) \subseteq Slots
    BY <1>7
  <2> QED BY <1>2, <1>3, <1>8, <1>9, <2>1
<1>13. InfoInv'
  BY <1>2, <1>12 DEF CoreInv, InfoInv
<1>14. TypeOK'
  BY <1>1, <1>2, <1>6, <1>10, <1>12 DEF CoreInv, TypeOK, StackOK
<1>15. WaitInv'
  BY <1>1 DEF WaitInv
<1> QED BY <1>6, <1>11, <1>13, <1>14, <1>15 DEF CoreInv

\* sig_unmaskpendingsignal ends.
LEMMA UnmaskDoneCore ==
  ASSUME CoreInv, UnmaskDone
  PROVE  CoreInv'
<1>1. /\ frames # <<>> /\ Top \in Frame /\ FrameOK(Top) /\ Top = frames[Len(frames)] /\ Top.op = "unmask"
      /\ task' = "runs"
  BY ContinuesIs DEF UnmaskDone
<1>2. ~ Holding(Top) /\ Top.slot = NoSlot
  BY DEF UnmaskDone, Holding
<1>3. /\ UNCHANGED pending
      /\ UNCHANGED <<sigprocmask, sigwaitmask, sigunbinfo, sigpendactionq, armed, sender, asked>>
  BY DEF UnmaskDone
<1>4. CASE Top.cur = NoEntry
  <2>1. frames' = Front(frames)
    BY <1>4 DEF UnmaskDone
  <2>2. StackOK(frames') /\ HeldSlots(frames') = HeldSlots(frames)
    BY <1>1, <1>2, <2>1, ReturnStack
  <2> QED BY <1>1, <1>3, <2>2, StackOnly DEF CoreInv, TypeOK
<1>5. CASE Top.cur # NoEntry
  <2> DEFINE f == [Top EXCEPT !.op = "deliver", !.cur = NoEntry, !.saved = {}]
  <2>1. frames' = Change(f)
    BY <1>5 DEF UnmaskDone
  <2>4. f \in Frame /\ f.op = "deliver" /\ f.slot = NoSlot
    BY <1>1, <1>2 DEF Frame
  <2> HIDE DEF f
  <2>5. FrameOK(f) /\ ~ Holding(f)
    BY <2>4 DEF FrameOK, Holding
  <2>6. StackOK(frames') /\ HeldSlots(frames') = HeldSlots(frames)
    BY <1>1, <1>2, <2>1, <2>4, <2>5, StackStep
  <2> QED BY <1>1, <1>3, <2>6, StackOnly DEF CoreInv, TypeOK
<1> QED BY <1>4, <1>5

\* sigprocmask.
LEMMA SetMaskCore ==
  ASSUME CoreInv, NEW set \in SUBSET Signals, SetMask(set)
  PROVE  CoreInv' /\ frames' = Append(frames, [Empty EXCEPT !.op = "unmask", !.sigs = pendingset \ set])
<1> DEFINE f == [Empty EXCEPT !.op = "unmask", !.sigs = pendingset \ set]
<1>1. /\ frames = <<>> /\ frames' = <<f>> /\ sigprocmask' = set /\ asked' = set /\ UNCHANGED pending
      /\ UNCHANGED <<task, sigwaitmask, sigunbinfo, sigpendactionq, armed, sender>>
  BY DEF SetMask, InUser
<1>2. task \in {"runs", "ready"}
  BY <1>1 DEF CoreInv, TypeOK, WaitInv
<1>3. f \in Frame /\ f.op = "unmask" /\ f.slot = NoSlot
  <2>1. pendingset \ set \subseteq Signals
    BY PendingIs
  <2> QED BY <2>1, FramesAre DEF Frame
<1> HIDE DEF f
<1>4. FrameOK(f) /\ ~ Holding(f)
  BY <1>3 DEF FrameOK, Holding
<1>5. frames' = Append(frames, f)
  BY <1>1
<1>6. StackOK(frames') /\ HeldSlots(frames') = HeldSlots(frames)
  BY <1>3, <1>4, <1>5, StackStep
<1>7. CoreInv'
  BY <1>1, <1>2, <1>6, StackOnly DEF CoreInv, TypeOK
<1> QED BY <1>5, <1>7 DEF f

\* A structure goes from the pending signals back to the free ones.
LEMMA GivenBack ==
  ASSUME CoreInv, NEW S \in SUBSET pendingset, S # {}, TakePending(S), HeldSlots(frames') = HeldSlots(frames)
  PROVE  /\ SlotInv' /\ free' \in [Types -> Seq(Slots)] /\ sigpendingq' \in Seq(Slots)
         /\ lowest(S) \in S /\ lowest(S) \in Signals
         /\ PendingSlot(lowest(S)) \in Slots /\ info[PendingSlot(lowest(S))] = lowest(S)
         /\ PendingSlot(lowest(S)) \in Range(sigpendingq)
         /\ Range(sigpendingq') = Range(sigpendingq) \ {PendingSlot(lowest(S))}
<1>1. lowest(S) \in S /\ lowest(S) \in Signals
  <2>1. S \in SUBSET Nat /\ S \subseteq Signals
    BY PendingIs, SignalsAre
  <2> QED BY <2>1, LowestIs
<1> DEFINE s == lowest(S)
           k == PendingSlot(s)
           q == RemoveAt(sigpendingq, PendingIndex(s))
<1>2. sigpendingq' = q /\ free' = [free EXCEPT ![slottype[k]] = Append(free[slottype[k]], k)]
  BY DEF TakePending, removependingsignal, releasependingsignal
<1>3. s \in pendingset
  BY <1>1
<1> HIDE DEF s
<1>4. /\ k \in Range(sigpendingq) /\ k \in Slots /\ q \in Seq(Slots) /\ Once(q) /\ info[k] = s
      /\ Range(q) = Range(sigpendingq) \ {k}
  BY <1>3, PendingSlotIs
<1> HIDE DEF k, q
<1>5. /\ FreeOK(free) /\ Once(sigpendingq) /\ FreeSlots(free) \intersect Range(sigpendingq) = {}
      /\ FreeSlots(free) \intersect HeldSlots(frames) = {}
      /\ Range(sigpendingq) \intersect HeldSlots(frames) = {}
      /\ FreeSlots(free) \union Range(sigpendingq) \union HeldSlots(frames) = Slots
  BY DEF CoreInv, SlotInv, Places
<1>6. free \in [Types -> Seq(Slots)] /\ k \notin FreeSlots(free)
  BY <1>4, <1>5 DEF CoreInv, TypeOK
<1>7. free' \in [Types -> Seq(Slots)] /\ FreeOK(free') /\ FreeSlots(free') = FreeSlots(free) \union {k}
  BY <1>2, <1>4, <1>5, <1>6, FreeGains
<1>8. SlotInv'
  BY <1>2, <1>4, <1>5, <1>7 DEF SlotInv, Places
<1> QED BY <1>1, <1>2, <1>4, <1>7, <1>8 DEF s, k

\* sigtimedwait of a pending signal.
LEMMA TimedwaitPendingCore ==
  ASSUME CoreInv, NEW set \in SUBSET Signals, TimedwaitPending(set)
  PROVE  CoreInv'
<1> DEFINE S == set \intersect pendingset
           f == [Empty EXCEPT !.op = "return", !.got = lowest(S), !.slot = PendingSlot(lowest(S))]
<1>1. /\ S # {} /\ TakePending(S) /\ info' = info /\ frames' = Append(frames, f) /\ task = "runs"
      /\ UNCHANGED <<task, sigprocmask, sigwaitmask, sigunbinfo, sigpendactionq, armed, sender, asked, twice>>
  BY DEF TimedwaitPending, MayWait
<1>2. lowest(S) \in pendingset /\ lowest(S) \in Signals
  <2>1. S \in SUBSET Nat /\ S \subseteq Signals /\ S \subseteq pendingset
    BY PendingIs, SignalsAre
  <2> QED BY <1>1, <2>1, LowestIs
<1>3. PendingSlot(lowest(S)) \in Slots
  BY <1>2, PendingSlotIs
<1>4. S \in SUBSET pendingset
  OBVIOUS
<1> HIDE DEF S
<1>5. f \in Frame /\ f.op = "return"
  BY <1>2, <1>3, FramesAre DEF Frame
<1> HIDE DEF f
<1>6. FrameOK(f) /\ ~ Holding(f)
  BY <1>5 DEF FrameOK, Holding
<1>7. StackOK(frames') /\ HeldSlots(frames') = HeldSlots(frames)
  BY <1>1, <1>5, <1>6, StackStep
<1>8. /\ SlotInv' /\ free' \in [Types -> Seq(Slots)] /\ sigpendingq' \in Seq(Slots)
      /\ Range(sigpendingq') = Range(sigpendingq) \ {PendingSlot(lowest(S))}
  BY <1>1, <1>4, <1>7, GivenBack
<1>9. InfoInv'
  BY <1>1, <1>8 DEF CoreInv, InfoInv
<1>10. TypeOK'
  BY <1>1, <1>7, <1>8 DEF CoreInv, TypeOK, StackOK
<1>11. WaitInv'
  BY <1>1 DEF WaitInv
<1> QED BY <1>7, <1>8, <1>9, <1>10, <1>11 DEF CoreInv

\* sigsuspend with a pending signal.
LEMMA SuspendPendingCore ==
  ASSUME CoreInv, NEW set \in SUBSET Signals, SuspendPending(set)
  PROVE  CoreInv'
<1> DEFINE S == pendingset \ set
           k == PendingSlot(lowest(S))
<1>1. /\ S # {} /\ TakePending(S) /\ info' = [info EXCEPT ![k] = NoSignal] /\ frames' = frames
      /\ UNCHANGED <<task, sigprocmask, sigwaitmask, sigunbinfo, sigpendactionq, armed, frames, sender, asked, twice>>
  BY DEF SuspendPending
<1>2. S \in SUBSET pendingset
  OBVIOUS
<1> HIDE DEF S
<1>3. StackOK(frames') /\ HeldSlots(frames') = HeldSlots(frames) /\ WaitInv'
  BY <1>1 DEF CoreInv, WaitInv, Top
<1>4. /\ SlotInv' /\ free' \in [Types -> Seq(Slots)] /\ sigpendingq' \in Seq(Slots) /\ k \in Slots
      /\ Range(sigpendingq') = Range(sigpendingq) \ {k}
  BY <1>1, <1>2, <1>3, GivenBack
<1>5. info \in [Slots -> Signals \union {NoSignal}] /\ Range(sigpendingq) \subseteq Slots
  BY PendingIs DEF CoreInv, TypeOK
<1> HIDE DEF k
<1>6. info' \in [Slots -> Signals \union {NoSignal}] /\ \A j \in Range(sigpendingq') : info'[j] = info[j]
  BY <1>1, <1>4, <1>5
<1>7. InfoInv'
  BY <1>4, <1>6 DEF CoreInv, InfoInv
<1>8. TypeOK'
  BY <1>1, <1>4, <1>6 DEF CoreInv, TypeOK
<1> QED BY <1>3, <1>4, <1>7, <1>8 DEF CoreInv

\* A wait starts: the call on top is the one that waits.
LEMMA WaitStarts ==
  ASSUME CoreInv, NEW f \in Frame, f.op \in {"timedwait", "suspend"}, f.slot = NoSlot,
         frames' = Append(frames, f), UNCHANGED pending, task' \in {"runs", "waits"},
         sigprocmask' \subseteq Signals, sigwaitmask' \subseteq Signals,
         UNCHANGED <<sigunbinfo, sigpendactionq, armed, sender, asked>>
  PROVE  CoreInv'
<1>1. FrameOK(f) /\ ~ Holding(f)
  BY DEF FrameOK, Holding
<1>2. StackOK(frames') /\ HeldSlots(frames') = HeldSlots(frames)
  BY <1>1, StackStep
<1>3. SlotInv' /\ InfoInv'
  BY <1>2, CoreKept
<1>4. TypeOK'
  BY <1>2 DEF CoreInv, TypeOK, pending, StackOK
<1>5. frames' # <<>> /\ Len(frames') = Len(frames) + 1 /\ frames'[Len(frames) + 1] = f
  BY PushIs DEF CoreInv, TypeOK
<1>6. WaitInv'
  BY <1>5 DEF WaitInv, Top, Last
<1> QED BY <1>2, <1>3, <1>4, <1>6 DEF CoreInv

\* sigtimedwait when nothing is pending.
LEMMA TimedwaitBlocksCore ==
  ASSUME CoreInv, NEW set \in SUBSET Signals, TimedwaitBlocks(set)
  PROVE  CoreInv'
<1> DEFINE f == [Empty EXCEPT !.op = "timedwait", !.irqoff = TRUE, !.sigs = set]
<1>1. /\ frames' = Append(frames, f) /\ task' \in {"runs", "waits"} /\ UNCHANGED pending
      /\ sigwaitmask' = IF task' = "waits" THEN set ELSE sigwaitmask
      /\ UNCHANGED <<sigprocmask, sigunbinfo, sigpendactionq, armed, sender, asked>>
  BY DEF TimedwaitBlocks
<1>2. f \in Frame /\ f.op = "timedwait" /\ f.slot = NoSlot
  BY FramesAre DEF Frame
<1> HIDE DEF f
<1>3. sigprocmask' \subseteq Signals /\ sigwaitmask' \subseteq Signals
  BY <1>1 DEF CoreInv, TypeOK
<1> QED BY <1>1, <1>2, <1>3, WaitStarts

\* sigsuspend when nothing is pending.
LEMMA SuspendBlocksCore ==
  ASSUME CoreInv, NEW set \in SUBSET Signals, SuspendBlocks(set)
  PROVE  CoreInv' /\ frames' = Append(frames, [Empty EXCEPT !.op = "suspend", !.irqoff = TRUE, !.saved = sigprocmask])
<1> DEFINE f == [Empty EXCEPT !.op = "suspend", !.irqoff = TRUE, !.saved = sigprocmask]
<1>1. /\ frames = <<>> /\ frames' = <<f>> /\ task' = "waits" /\ UNCHANGED pending
      /\ sigprocmask' = set /\ sigwaitmask' = {}
      /\ UNCHANGED <<sigunbinfo, sigpendactionq, armed, sender, asked>>
  BY DEF SuspendBlocks, InUser
<1>2. sigprocmask \in SUBSET Signals
  BY DEF CoreInv, TypeOK
<1>3. f \in Frame /\ f.op = "suspend" /\ f.slot = NoSlot
  BY <1>2, FramesAre DEF Frame
<1> HIDE DEF f
<1>4. frames' = Append(frames, f)
  BY <1>1
<1>5. CoreInv'
  BY <1>1, <1>3, <1>4, WaitStarts
<1> QED BY <1>4, <1>5 DEF f

\* sigtimedwait returns.
LEMMA TimedwaitReturnsCore ==
  ASSUME CoreInv, TimedwaitReturns
  PROVE  CoreInv' /\ \A j \in Range(sigpendingq) : info'[j] = info[j]
<1>1. /\ frames # <<>> /\ Top \in Frame /\ FrameOK(Top) /\ Top.op \in {"timedwait", "return"}
      /\ task' = "runs"
  BY ContinuesIs DEF TimedwaitReturns
<1>2. /\ frames' = Front(frames) /\ sigwaitmask' = IF Top.op = "timedwait" THEN {} ELSE sigwaitmask
      /\ info' = [k \in Slots |-> IF k = Top.slot /\ Contains(free[slottype[k]], k) THEN NoSignal ELSE info[k]]
      /\ UNCHANGED <<sigprocmask, sigunbinfo, sigpendingq, free, sigpendactionq, armed, sender, asked, twice>>
  BY DEF TimedwaitReturns
<1>3. ~ Holding(Top)
  BY <1>1 DEF FrameOK, Holding
<1>4. StackOK(frames') /\ HeldSlots(frames') = HeldSlots(frames)
  BY <1>1, <1>2, <1>3, ReturnStack
<1>5. /\ free \in [Types -> Seq(Slots)] /\ info \in [Slots -> Signals \union {NoSignal}]
      /\ Range(sigpendingq) \subseteq Slots
      /\ FreeSlots(free) \intersect Range(sigpendingq) = {}
  BY PendingIs DEF CoreInv, TypeOK, SlotInv, Places
<1>6. \A k \in Range(sigpendingq) : ~ Contains(free[slottype[k]], k)
  <2> SUFFICES ASSUME NEW k \in Range(sigpendingq) PROVE ~ Contains(free[slottype[k]], k)
    OBVIOUS
  <2>1. k \in Slots /\ slottype[k] \in Types /\ k \notin FreeSlots(free)
    BY <1>5, ConstantsAssumption DEF ConstantsAssumption
  <2> DEFINE u == free[slottype[k]]
  <2>2. u \in Seq(Slots) /\ k \notin Range(u)
    BY <1>5, <2>1 DEF FreeSlots
  <2> HIDE DEF u
  <2>3. \A i \in 1 .. Len(u) : u[i] \in Range(u)
    BY <2>2, RangeIs
  <2>4. ~ Contains(u, k)
    BY <2>2, <2>3 DEF Contains
  <2> QED BY <2>4 DEF u
<1>7. info' \in [Slots -> Signals \union {NoSignal}]
  BY <1>2, <1>5
<1>8. \A k \in Range(sigpendingq) : info'[k] = info[k]
  BY <1>2, <1>5, <1>6
<1>9. SlotInv'
  BY <1>2, <1>4 DEF CoreInv, SlotInv, Places
<1>10. InfoInv'
  BY <1>2, <1>8 DEF CoreInv, InfoInv
<1>11. TypeOK'
  BY <1>1, <1>2, <1>4, <1>7 DEF CoreInv, TypeOK, StackOK
<1>12. WaitInv'
  BY <1>1 DEF WaitInv
<1> QED BY <1>4, <1>8, <1>9, <1>10, <1>11, <1>12 DEF CoreInv

\* sigsuspend goes on.
LEMMA SuspendReturnsCore ==
  ASSUME CoreInv, SuspendReturns
  PROVE  CoreInv'
<1> DEFINE f == [Top EXCEPT !.op = "unmask", !.irqoff = FALSE, !.saved = {}, !.got = NoSignal,
                            !.sigs = pendingset \ Top.saved]
<1>1. /\ frames # <<>> /\ Top \in Frame /\ FrameOK(Top) /\ Top = frames[Len(frames)] /\ Top.op = "suspend"
      /\ task' = "runs"
  BY ContinuesIs DEF SuspendReturns
<1>2. ~ Holding(Top) /\ Top.slot = NoSlot /\ Top.saved \subseteq Signals
  BY <1>1 DEF FrameOK, Holding, Frame
<1>3. /\ UNCHANGED pending /\ frames' = Change(f) /\ sigprocmask' = Top.saved
      /\ UNCHANGED <<sigwaitmask, sigunbinfo, sigpendactionq, armed, sender, asked>>
  BY DEF SuspendReturns
<1>4. pendingset \ Top.saved \subseteq Signals
  BY PendingIs
<1>5. f \in Frame /\ f.op = "unmask" /\ f.slot = NoSlot
  BY <1>1, <1>2, <1>4 DEF Frame
<1> HIDE DEF f
<1>6. FrameOK(f) /\ ~ Holding(f)
  BY <1>5 DEF FrameOK, Holding
<1>7. StackOK(frames') /\ HeldSlots(frames') = HeldSlots(frames)
  BY <1>1, <1>2, <1>3, <1>5, <1>6, StackStep
<1> QED BY <1>1, <1>2, <1>3, <1>7, StackOnly DEF CoreInv, TypeOK

\* Every step keeps CoreInv.
LEMMA CoreNext == CoreInv /\ [Next]_vars => CoreInv'
<1> SUFFICES ASSUME CoreInv, [Next]_vars PROVE CoreInv'
  OBVIOUS
<1>1. ASSUME NEW s \in ThreadSignals, SendUnmasked(s) PROVE CoreInv'
  BY <1>1, UnmaskedCore, SignalsAre DEF SendUnmasked
<1>2. ASSUME NEW s \in ThreadSignals, SendMasked(s) PROVE CoreInv'
  BY <1>2, SendMaskedCore
<1>3. CASE SendAdds
  <2>1. /\ sender \in Signals /\ Adds(sender, FALSE) /\ sender' \in Signals \union {NoSignal}
        /\ twice' \subseteq Signals
    BY <1>3 DEF SendAdds, CoreInv, TypeOK
  <2>2. UNCHANGED <<task, sigprocmask, sigwaitmask, sigunbinfo, sigpendactionq, armed, frames, asked>>
    BY <1>3 DEF SendAdds
  <2> QED BY <2>1, <2>2, AddingCore
<1>4. ASSUME NEW s \in IrqSignals, Interrupt(s) PROVE CoreInv'
  BY <1>4, InterruptCore
<1>5. CASE sig_timeout
  BY <1>5, TimeoutCore
<1>6. CASE Delivers
  BY <1>6, SigdeliverCore, FetchCore, TakeCore, HandlerCore, UnmaskNextCore, ReleaseCore, UnmaskDoneCore,
     TimedwaitReturnsCore, SuspendReturnsCore DEF Delivers
<1>7. CASE Calls
  <2>1. PICK set \in SUBSET Signals :
          \/ SetMask(set)
          \/ TimedwaitPending(set) \/ TimedwaitBlocks(set)
          \/ SuspendPending(set) \/ SuspendBlocks(set)
    BY <1>7 DEF Calls
  <2> QED BY <2>1, SetMaskCore, TimedwaitPendingCore, TimedwaitBlocksCore, SuspendPendingCore, SuspendBlocksCore
<1>8. CASE UNCHANGED vars
  BY <1>8 DEF vars, CoreInv, TypeOK, WaitInv, Top, SlotInv, InfoInv
<1> QED BY <1>1, <1>2, <1>3, <1>4, <1>5, <1>6, <1>7, <1>8 DEF Next

\* The inductive invariant of the structures, for every sequence of sends, interrupts, calls and
\* nested deliveries.
THEOREM Invariance == Spec => []CoreInv
BY InitCore, CoreNext, PTL DEF Spec

\* The variables of the signals keep their types.
THEOREM TypeCorrect == Spec => []TypeOK
<1>1. CoreInv => TypeOK
  BY DEF CoreInv
<1> QED BY <1>1, Invariance, PTL

\* The positions at which a list has an element, if none occurs twice.
LEMMA CountOnce ==
  ASSUME NEW X, NEW s \in Seq(X), Once(s), NEW k
  PROVE  Cardinality({i \in DOMAIN s : s[i] = k}) = IF k \in Range(s) THEN 1 ELSE 0
<1>1. DOMAIN s = 1 .. Len(s) /\ Range(s) = {s[i] : i \in 1 .. Len(s)}
  BY RangeIs
<1>2. CASE k \in Range(s)
  <2>1. PICK i \in 1 .. Len(s) : s[i] = k
    BY <1>1, <1>2
  <2>2. {j \in DOMAIN s : s[j] = k} = {i}
    BY <1>1, <2>1 DEF Once
  <2> QED BY <1>2, <2>2, FS_Singleton
<1>3. CASE k \notin Range(s)
  <2>1. {j \in DOMAIN s : s[j] = k} = {}
    BY <1>1, <1>3
  <2> QED BY <1>3, <2>1, FS_EmptySet
<1> QED BY <1>2, <1>3

\* The frames that hold a structure.
LEMMA CountHeld ==
  ASSUME CoreInv, NEW k \in Slots
  PROVE  Cardinality({i \in Held : frames[i].slot = k}) = IF k \in HeldSlots(frames) THEN 1 ELSE 0
<1>1. DOMAIN frames = 1 .. Len(frames) /\ HeldOnce(frames)
  BY DEF CoreInv, StackOK
<1>2. k # NoSlot
  BY ConstantsAssumption DEF ConstantsAssumption
<1>3. \A i : i \in {j \in Held : frames[j].slot = k} <=> i \in 1 .. Len(frames) /\ HeldBy(frames, i, k)
  BY <1>1, <1>2 DEF Held, HeldBy
<1>4. CASE k \in HeldSlots(frames)
  <2>1. PICK i \in 1 .. Len(frames) : HeldBy(frames, i, k)
    BY <1>4 DEF HeldSlots
  <2>2. {j \in Held : frames[j].slot = k} = {i}
    BY <1>1, <1>3, <2>1 DEF HeldOnce
  <2> QED BY <1>4, <2>2, FS_Singleton
<1>5. CASE k \notin HeldSlots(frames)
  <2>1. {j \in Held : frames[j].slot = k} = {}
    BY <1>3, <1>5 DEF HeldSlots
  <2> QED BY <1>5, <2>1, FS_EmptySet
<1> QED BY <1>4, <1>5

\* Every structure of a pending signal is free, pending, or in the hands of one call of
\* sig_unmaskpendingsignal, however deep deliveries are nested (sig_unmaskpendingsignal,
\* sig_removependingsignal and sig_releasependingsignal).
THEOREM SlotsCorrect == Spec => []SlotsExact
<1>1. ASSUME CoreInv PROVE SlotsExact
  <2> SUFFICES ASSUME NEW k \in Slots
               PROVE  Cardinality({i \in DOMAIN free[slottype[k]] : free[slottype[k]][i] = k})
                      + Cardinality({i \in DOMAIN sigpendingq : sigpendingq[i] = k})
                      + Cardinality({i \in Held : frames[i].slot = k}) = 1
    BY DEF SlotsExact
  <2>1. /\ free \in [Types -> Seq(Slots)] /\ sigpendingq \in Seq(Slots)
        /\ FreeOK(free) /\ Once(sigpendingq) /\ FreeSlots(free) \intersect Range(sigpendingq) = {}
        /\ FreeSlots(free) \intersect HeldSlots(frames) = {}
        /\ Range(sigpendingq) \intersect HeldSlots(frames) = {}
        /\ FreeSlots(free) \union Range(sigpendingq) \union HeldSlots(frames) = Slots
    BY <1>1 DEF CoreInv, TypeOK, SlotInv, Places
  <2>2. Cardinality({i \in DOMAIN free[slottype[k]] : free[slottype[k]][i] = k}) = IF k \in FreeSlots(free) THEN 1 ELSE 0
    <3> DEFINE u == free[slottype[k]]
    <3>1. slottype[k] \in Types
      BY ConstantsAssumption DEF ConstantsAssumption
    <3>2. u \in Seq(Slots) /\ Once(u) /\ (k \in FreeSlots(free) <=> k \in Range(u))
      BY <2>1, <3>1 DEF FreeOK, FreeSlots
    <3> HIDE DEF u
    <3>3. Cardinality({i \in DOMAIN u : u[i] = k}) = IF k \in Range(u) THEN 1 ELSE 0
      BY <3>2, CountOnce
    <3> QED BY <3>2, <3>3 DEF u
  <2>3. Cardinality({i \in DOMAIN sigpendingq : sigpendingq[i] = k}) = IF k \in Range(sigpendingq) THEN 1 ELSE 0
    BY <2>1, CountOnce
  <2>4. Cardinality({i \in Held : frames[i].slot = k}) = IF k \in HeldSlots(frames) THEN 1 ELSE 0
    BY <1>1, CountHeld
  <2> QED BY <2>1, <2>2, <2>3, <2>4
<1> QED BY <1>1, Invariance, PTL

-----------------------------------------------------------------------------
(* The pending signals: how often one is pending.                          *)

\* The structures in the queue q that carry the signal s, and their number.
CopySet(q, in, s) == {k \in Range(q) : in[k] = s}
Num(q, in, s) == Cardinality(CopySet(q, in, s))

\* Limit, when the signals tw were added twice, and the signals that are pending as often as
\* they may be.
Most(tw, s) == IF s \in tw THEN 2 ELSE 1
Crowd(q, in, tw) == {s \in Signals : Num(q, in, s) >= Most(tw, s)}
Crowded == Crowd(sigpendingq, info, twice)

\* No signal is pending too often, and what the sender is about to add is pending at most once,
\* and only if handlers send it too.
OnceInv ==
  /\ twice \subseteq Shared
  /\ \A s \in Signals : Num(sigpendingq, info, s) <= Most(twice, s)
  /\ sender # NoSignal => /\ sender \in ThreadSignals /\ sender \in sigprocmask
                          /\ Num(sigpendingq, info, sender) <= 1
                          /\ Num(sigpendingq, info, sender) = 1 => sender \in IrqSignals

\* The structures of a signal can be counted.
LEMMA NumIs ==
  ASSUME NEW q, Range(q) \subseteq Slots, NEW in, NEW s
  PROVE  /\ IsFiniteSet(CopySet(q, in, s)) /\ Num(q, in, s) \in Nat
         /\ Num(q, in, s) = 0 <=> CopySet(q, in, s) = {}
<1>1. CopySet(q, in, s) \subseteq Slots
  BY DEF CopySet
<1>2. IsFiniteSet(CopySet(q, in, s))
  BY <1>1, FS_Subset, ConstantsAssumption DEF ConstantsAssumption
<1> QED BY <1>2, FS_CardinalityType, FS_EmptySet DEF Num

\* The lists of structures before and after a step.
LEMMA QueuesAre ==
  ASSUME CoreInv, CoreInv'
  PROVE  Range(sigpendingq) \subseteq Slots /\ Range(sigpendingq') \subseteq Slots
BY RangeIs DEF CoreInv, TypeOK

\* What is pending as often as it may be is pending.
LEMMA CrowdedPending ==
  ASSUME CoreInv
  PROVE  Crowded \subseteq pendingset /\ \A s : s \notin pendingset => Num(sigpendingq, info, s) = 0
<1>1. Range(sigpendingq) \subseteq Slots /\ pendingset = {info[k] : k \in Range(sigpendingq)}
  BY PendingIs
<1>2. ASSUME NEW s, s \notin pendingset PROVE Num(sigpendingq, info, s) = 0 /\ s \notin Crowded
  <2>1. CopySet(sigpendingq, info, s) = {}
    BY <1>1, <1>2 DEF CopySet
  <2>2. Num(sigpendingq, info, s) = 0
    BY <1>1, <2>1, NumIs
  <2> QED BY <2>2 DEF Crowded, Crowd, Most
<1> QED BY <1>2

\* What is pending has a structure.
LEMMA PendingCopies ==
  ASSUME CoreInv, NEW s \in pendingset
  PROVE  Num(sigpendingq, info, s) \in Nat \ {0}
<1>1. Range(sigpendingq) \subseteq Slots /\ pendingset = {info[k] : k \in Range(sigpendingq)}
  BY PendingIs
<1>2. CopySet(sigpendingq, info, s) # {}
  BY <1>1 DEF CopySet
<1> QED BY <1>1, <1>2, NumIs

\* A signal is added.
LEMMA AddsOnce ==
  ASSUME CoreInv, NEW s \in Signals, NEW irq \in BOOLEAN, Adds(s, irq), frames' = frames
  PROVE  /\ Num(sigpendingq', info', s) = Num(sigpendingq, info, s) + 1
         /\ \A r : r # s => Num(sigpendingq', info', r) = Num(sigpendingq, info, r)
<1>1. PICK k \in Slots : /\ k \notin Range(sigpendingq) /\ Range(sigpendingq') = Range(sigpendingq) \union {k}
                         /\ info'[k] = s
  BY AddsCore
<1>2. \A j \in Range(sigpendingq) : info'[j] = info[j]
  BY AddsCore
<1>3. /\ CopySet(sigpendingq', info', s) = CopySet(sigpendingq, info, s) \union {k}
      /\ k \notin CopySet(sigpendingq, info, s)
  BY <1>1, <1>2 DEF CopySet
<1>4. \A r : r # s => CopySet(sigpendingq', info', r) = CopySet(sigpendingq, info, r)
  BY <1>1, <1>2 DEF CopySet
<1>5. IsFiniteSet(CopySet(sigpendingq, info, s))
  BY PendingIs, NumIs
<1>6. Cardinality(CopySet(sigpendingq', info', s)) = Cardinality(CopySet(sigpendingq, info, s)) + 1
  BY <1>3, <1>5, FS_AddElement
<1> QED BY <1>4, <1>6 DEF Num

\* No structure is added.
Shrinks ==
  /\ twice' = twice
  /\ Range(sigpendingq') \subseteq Range(sigpendingq)
  /\ \A k \in Range(sigpendingq') : info'[k] = info[k]

\* Steps that leave the structures of the pending signals alone.
LEMMA SameShrinks ==
  ASSUME UNCHANGED pending
  PROVE  Shrinks
BY DEF pending, Shrinks

\* What is pending, when no structure is added.
LEMMA ShrinksNum ==
  ASSUME CoreInv, CoreInv', Shrinks
  PROVE  /\ \A s : Num(sigpendingq', info', s) <= Num(sigpendingq, info, s)
         /\ Crowded' \subseteq Crowded
<1>1. Range(sigpendingq) \subseteq Slots /\ Range(sigpendingq') \subseteq Slots
  BY QueuesAre
<1>2. ASSUME NEW s PROVE Num(sigpendingq', info', s) <= Num(sigpendingq, info, s)
  <2>1. CopySet(sigpendingq', info', s) \subseteq CopySet(sigpendingq, info, s)
    BY DEF CopySet, Shrinks
  <2>2. IsFiniteSet(CopySet(sigpendingq, info, s))
    BY <1>1, NumIs
  <2> QED BY <2>1, <2>2, FS_Subset DEF Num
<1>3. ASSUME NEW s \in Signals, Num(sigpendingq', info', s) >= Most(twice, s)
      PROVE  Num(sigpendingq, info, s) >= Most(twice, s)
  <2>1. Num(sigpendingq, info, s) \in Nat /\ Num(sigpendingq', info', s) \in Nat
    BY <1>1, NumIs
  <2> QED BY <1>2, <1>3, <2>1 DEF Most
<1>4. twice' = twice
  BY DEF Shrinks
<1> QED BY <1>2, <1>3, <1>4 DEF Crowded, Crowd

LEMMA OnceKept ==
  ASSUME CoreInv, CoreInv', OnceInv, Shrinks,
         sender' = NoSignal \/ (sender' = sender /\ sigprocmask' = sigprocmask)
  PROVE  OnceInv' /\ Crowded' \subseteq Crowded
<1>1. /\ \A s : Num(sigpendingq', info', s) <= Num(sigpendingq, info, s)
      /\ Crowded' \subseteq Crowded
  BY ShrinksNum
<1>2. \A s : Num(sigpendingq, info, s) \in Nat /\ Num(sigpendingq', info', s) \in Nat
  BY QueuesAre, NumIs
<1>3. \A s \in Signals : Num(sigpendingq', info', s) <= Most(twice, s)
  BY <1>1, <1>2 DEF OnceInv, Most
<1>4. ASSUME sender' # NoSignal
      PROVE  /\ sender' \in ThreadSignals /\ sender' \in sigprocmask'
             /\ Num(sigpendingq', info', sender') <= 1
             /\ Num(sigpendingq', info', sender') = 1 => sender' \in IrqSignals
  <2> DEFINE r == sender
             m == Num(sigpendingq, info, r)
             n == Num(sigpendingq', info', r)
  <2>1. sender' = r /\ r # NoSignal /\ sigprocmask' = sigprocmask /\ n <= m /\ m \in Nat /\ n \in Nat
    BY <1>1, <1>2, <1>4
  <2>2. r \in ThreadSignals /\ r \in sigprocmask /\ m <= 1 /\ (m = 1 => r \in IrqSignals)
    BY <2>1 DEF OnceInv
  <2> HIDE DEF r, m
  <2>3. n <= 1 /\ (n = 1 => m = 1)
    BY <2>1, <2>2
  <2> QED BY <2>1, <2>2, <2>3
<1>5. twice' = twice
  BY DEF Shrinks
<1> QED BY <1>1, <1>3, <1>4, <1>5 DEF OnceInv

\* sig_removependingsignal adds no structure.
LEMMA RemoveShrinks ==
  ASSUME CoreInv, NEW s \in pendingset, removependingsignal(s), twice' = twice,
         \A k \in Range(sigpendingq) : k = PendingSlot(s) \/ info'[k] = info[k]
  PROVE  Shrinks /\ Range(sigpendingq') = Range(sigpendingq) \ {PendingSlot(s)}
<1>1. Range(sigpendingq') = Range(sigpendingq) \ {PendingSlot(s)}
  BY PendingSlotIs DEF removependingsignal
<1> QED BY <1>1 DEF Shrinks

\* The deliveries and returns of the receiver add no pending signal.
LEMMA DeliversShrink ==
  ASSUME CoreInv, Delivers
  PROVE  Shrinks /\ sender = NoSignal /\ sender' = NoSignal /\ asked' = asked
<1>1. CASE up_sigdeliver \/ DeliverFetch \/ DeliverTake \/ HandlerReturns \/ UnmaskDone \/ SuspendReturns
  <2>1. UNCHANGED pending /\ sender = NoSignal /\ sender' = sender /\ asked' = asked
    BY <1>1 DEF up_sigdeliver, DeliverFetch, DeliverTake, HandlerReturns, UnmaskDone, SuspendReturns, Continues
  <2> QED BY <2>1, SameShrinks
<1>2. CASE UnmaskNext
  <2> DEFINE s == lowest(Top.sigs)
  <2>1. sender = NoSignal /\ sender' = sender /\ asked' = asked /\ info' = info /\ twice' = twice
    BY <1>2 DEF UnmaskNext, Continues
  <2>2. IF s \in pendingset THEN removependingsignal(s) ELSE sigpendingq' = sigpendingq
    BY <1>2, Zenon DEF UnmaskNext
  <2> HIDE DEF s
  <2>3. Shrinks
    BY <2>1, <2>2, RemoveShrinks DEF Shrinks
  <2> QED BY <2>1, <2>3
<1>3. CASE UnmaskRelease
  <2> DEFINE k == Top.slot
  <2>1. /\ sender = NoSignal /\ sender' = sender /\ asked' = asked /\ sigpendingq' = sigpendingq
        /\ info' = [info EXCEPT ![k] = NoSignal] /\ twice' = twice
    BY <1>3 DEF UnmaskRelease, Continues
  <2>2. /\ frames # <<>> /\ Top \in Frame /\ Top.op = "unmask" /\ Top = frames[Len(frames)]
        /\ Len(frames) \in 1 .. Len(frames) /\ k # NoSlot
    BY <1>3, ContinuesIs, TopIs DEF UnmaskRelease
  <2>3. k \in Slots
    BY <2>2 DEF Frame
  <2>4. k \in HeldSlots(frames)
    BY <2>2, <2>3 DEF HeldSlots, HeldBy
  <2>5. k \notin Range(sigpendingq) /\ Range(sigpendingq) \subseteq Slots
    BY <2>4 DEF CoreInv, SlotInv, Places
  <2>6. info \in [Slots -> Signals \union {NoSignal}]
    BY DEF CoreInv, TypeOK
  <2>7. Shrinks
    BY <2>1, <2>5, <2>6 DEF Shrinks
  <2> QED BY <2>1, <2>7
<1>4. CASE TimedwaitReturns
  <2>1. /\ sender = NoSignal /\ sender' = sender /\ asked' = asked
        /\ sigpendingq' = sigpendingq /\ twice' = twice
    BY <1>4 DEF TimedwaitReturns, Continues
  <2>2. \A j \in Range(sigpendingq) : info'[j] = info[j]
    BY <1>4, TimedwaitReturnsCore
  <2> QED BY <2>1, <2>2 DEF Shrinks
<1> QED BY <1>1, <1>2, <1>3, <1>4 DEF Delivers

\* The calls of the receiver add no pending signal.
LEMMA CallsShrink ==
  ASSUME CoreInv, Calls
  PROVE  Shrinks /\ sender = NoSignal /\ sender' = NoSignal
<1>1. PICK set \in SUBSET Signals :
        \/ SetMask(set)
        \/ TimedwaitPending(set) \/ TimedwaitBlocks(set)
        \/ SuspendPending(set) \/ SuspendBlocks(set)
  BY DEF Calls
<1>2. sender = NoSignal /\ sender' = NoSignal
  BY <1>1 DEF SetMask, TimedwaitPending, TimedwaitBlocks, SuspendPending, SuspendBlocks, InUser, MayWait
<1>3. CASE SetMask(set) \/ TimedwaitBlocks(set) \/ SuspendBlocks(set)
  <2>1. UNCHANGED pending
    BY <1>3 DEF SetMask, TimedwaitBlocks, SuspendBlocks
  <2> QED BY <1>2, <2>1, SameShrinks
<1>4. \A S \in SUBSET pendingset : S # {} => lowest(S) \in pendingset
  <2>1. pendingset \subseteq Nat
    BY PendingIs, SignalsAre
  <2> QED BY <2>1, LowestIs
<1>5. CASE TimedwaitPending(set)
  <2> DEFINE S == set \intersect pendingset
  <2>1. S # {} /\ TakePending(S) /\ info' = info /\ twice' = twice
    BY <1>5 DEF TimedwaitPending
  <2>2. lowest(S) \in pendingset
    BY <1>4, <2>1
  <2> HIDE DEF S
  <2>3. removependingsignal(lowest(S))
    BY <2>1 DEF TakePending
  <2> QED BY <1>2, <2>1, <2>2, <2>3, RemoveShrinks
<1>6. CASE SuspendPending(set)
  <2> DEFINE S == pendingset \ set
  <2>1. /\ S # {} /\ TakePending(S) /\ twice' = twice
        /\ info' = [info EXCEPT ![PendingSlot(lowest(S))] = NoSignal]
    BY <1>6 DEF SuspendPending
  <2>2. lowest(S) \in pendingset
    BY <1>4, <2>1
  <2> HIDE DEF S
  <2>3. removependingsignal(lowest(S))
    BY <2>1 DEF TakePending
  <2>4. \A k \in Range(sigpendingq) : k = PendingSlot(lowest(S)) \/ info'[k] = info[k]
    BY <2>1, PendingIs DEF CoreInv, TypeOK
  <2>5. twice' = twice
    BY <2>1
  <2> QED BY <1>2, <2>2, <2>3, <2>4, <2>5, RemoveShrinks
<1> QED BY <1>1, <1>3, <1>5, <1>6

\* Every step keeps each signal pending no more often than it may be.
LEMMA OnceNext ==
  ASSUME CoreInv, CoreInv', OnceInv, [Next]_vars
  PROVE  OnceInv'
<1>0. \A s : Num(sigpendingq, info, s) \in Nat /\ Num(sigpendingq', info', s) \in Nat
  BY QueuesAre, NumIs
<1>1. ASSUME NEW s \in ThreadSignals, SendUnmasked(s) PROVE OnceInv'
  <2>1. UNCHANGED pending /\ sender' = sender /\ sigprocmask' = sigprocmask
    BY <1>1 DEF SendUnmasked, Unmasked
  <2> QED BY <2>1, SameShrinks, OnceKept
<1>2. ASSUME NEW s \in ThreadSignals, SendMasked(s) PROVE OnceInv'
  <2>1. /\ UNCHANGED <<sigpendingq, info, twice>> /\ sigprocmask' = sigprocmask /\ s \in sigprocmask
        /\ sender' = sender \/ sender' = IF s \in pendingset THEN NoSignal ELSE s
    BY <1>2 DEF SendMasked, pending
  <2>2. s \notin pendingset => Num(sigpendingq, info, s) = 0
    BY CrowdedPending
  <2> QED BY <2>1, <2>2 DEF OnceInv
<1>3. CASE SendAdds
  <2>1. sender \in Signals /\ Adds(sender, FALSE) /\ sender' = NoSignal /\ frames' = frames /\ sender # NoSignal
    BY <1>3 DEF SendAdds, CoreInv, TypeOK
  <2> DEFINE r == sender
  <2>2. /\ r \in ThreadSignals /\ Num(sigpendingq, info, r) \in {0, 1}
        /\ Num(sigpendingq, info, r) = 1 => r \in IrqSignals
        /\ r \in pendingset \/ Num(sigpendingq, info, r) = 0
    BY <1>0, <2>1, CrowdedPending DEF OnceInv
  <2>3. /\ Num(sigpendingq', info', r) = Num(sigpendingq, info, r) + 1
        /\ \A q : q # r => Num(sigpendingq', info', q) = Num(sigpendingq, info, q)
    BY <2>1, AddsOnce
  <2>4. twice' = IF r \in pendingset THEN twice \union {r} ELSE twice \ {r}
    BY <1>3 DEF SendAdds
  <2>5. r \in pendingset => Num(sigpendingq, info, r) = 1
    BY <2>1, <2>2, PendingCopies
  <2> HIDE DEF r
  <2>6. Num(sigpendingq', info', r) <= Most(twice', r) /\ twice' \subseteq Shared
    BY <2>2, <2>3, <2>4, <2>5 DEF OnceInv, Most, Shared
  <2>7. \A q \in Signals : Num(sigpendingq', info', q) <= Most(twice', q)
    BY <2>3, <2>4, <2>6 DEF OnceInv, Most
  <2> QED BY <2>1, <2>6, <2>7 DEF OnceInv
<1>4. ASSUME NEW s \in IrqSignals, Interrupt(s) PROVE OnceInv'
  <2>1. sender' = sender /\ sigprocmask' = sigprocmask
    BY <1>4 DEF Interrupt, Unmasked
  <2>2. CASE UNCHANGED pending
    BY <2>1, <2>2, SameShrinks, OnceKept
  <2>3. CASE ~ UNCHANGED pending
    <3>1. addpendingsignal(s) /\ frames' = frames /\ s \notin pendingset
      BY <1>4, <2>3 DEF Interrupt, Unmasked, addpendingsignal
    <3>2. Adds(s, TRUE) /\ s \in Signals /\ twice' = twice \ {s}
      BY <3>1, SignalsAre DEF addpendingsignal
    <3>3. /\ Num(sigpendingq', info', s) = Num(sigpendingq, info, s) + 1
          /\ \A r : r # s => Num(sigpendingq', info', r) = Num(sigpendingq, info, r)
      BY <3>1, <3>2, AddsOnce
    <3>4. Num(sigpendingq', info', s) = 1
      BY <3>1, <3>3, CrowdedPending
    <3>5. \A r \in Signals : Num(sigpendingq', info', r) <= Most(twice', r)
      BY <3>2, <3>3, <3>4 DEF OnceInv, Most
    <3>6. ASSUME sender # NoSignal
          PROVE  /\ Num(sigpendingq', info', sender) <= 1
                 /\ Num(sigpendingq', info', sender) = 1 => sender \in IrqSignals
      <4>1. CASE sender = s
        BY <3>4, <4>1
      <4>2. CASE sender # s
        BY <3>3, <3>6, <4>2 DEF OnceInv
      <4> QED BY <4>1, <4>2
    <3> QED BY <2>1, <3>2, <3>5, <3>6 DEF OnceInv
  <2> QED BY <2>2, <2>3
<1>5. CASE sig_timeout
  <2>1. UNCHANGED pending /\ sender' = sender /\ sigprocmask' = sigprocmask
    BY <1>5 DEF sig_timeout
  <2> QED BY <2>1, SameShrinks, OnceKept
<1>6. CASE Delivers
  BY <1>6, DeliversShrink, OnceKept
<1>7. CASE Calls
  BY <1>7, CallsShrink, OnceKept
<1>8. CASE UNCHANGED vars
  BY <1>8 DEF vars, OnceInv
<1> QED BY <1>1, <1>2, <1>3, <1>4, <1>5, <1>6, <1>7, <1>8 DEF Next

\* The initial state.
LEMMA InitOnce == Init => OnceInv
<1> SUFFICES ASSUME Init PROVE OnceInv
  OBVIOUS
<1>1. \A s : CopySet(sigpendingq, info, s) = {}
  BY DEF Init, CopySet, Range
<1>2. \A s : Num(sigpendingq, info, s) = 0
  BY <1>1, FS_EmptySet DEF Num
<1> QED BY <1>2 DEF Init, OnceInv, Most

\* Every signal is pending at most once, or twice if a handler added it between the look of a
\* thread and its addition, which are two critical sections of sig_addpendingsignal; only
\* signals that both a thread and handlers send are ever added so.
THEOREM PendingCorrect == Spec => []PendingOnce
<1>1. Init => CoreInv /\ OnceInv
  BY InitCore, InitOnce
<1>2. (CoreInv /\ OnceInv) /\ [Next]_vars => (CoreInv /\ OnceInv)'
  BY CoreNext, OnceNext
<1>3. CoreInv /\ OnceInv => PendingOnce
  BY DEF OnceInv, PendingOnce, Copies, Num, CopySet, Limit, Most
<1> QED BY <1>1, <1>2, <1>3, PTL DEF Spec

-----------------------------------------------------------------------------
(* What others do to the calls of the receiver: they only end its wait.    *)

Keeps(f, g) ==
  g.op = f.op /\ g.cur = f.cur /\ g.next = f.next /\ g.saved = f.saved /\ g.sigs = f.sigs

SameCalls ==
  /\ Len(frames') = Len(frames)
  /\ \A i \in 1 .. Len(frames) : Keeps(frames[i], frames'[i])

\* The sender, the handlers and the watchdog.
Others ==
  \/ \E s \in ThreadSignals : SendUnmasked(s) \/ SendMasked(s)
  \/ SendAdds
  \/ \E s \in IrqSignals : Interrupt(s)
  \/ sig_timeout

\* The end of a wait changes what the call on top got.
LEMMA EndsSame ==
  ASSUME CoreInv, frames # <<>>, NEW s \in Signals \union {NoSignal, Timeout},
         frames' = Change([Top EXCEPT !.got = s])
  PROVE  SameCalls /\ frames'[Len(frames)].got = s
<1> DEFINE f == [Top EXCEPT !.got = s]
<1>1. Top = frames[Len(frames)] /\ Top \in Frame
  BY TopIs
<1>2. f \in Frame /\ Keeps(Top, f) /\ f.got = s
  BY <1>1 DEF Frame, Keeps
<1> HIDE DEF f
<1>3. frames' = [frames EXCEPT ![Len(frames)] = f]
  BY DEF Change, f
<1>4. /\ Len(frames) \in Nat /\ Len(frames') = Len(frames) /\ frames'[Len(frames)] = f
      /\ \A i \in 1 .. Len(frames) : i # Len(frames) => frames'[i] = frames[i]
  <2>1. frames \in Seq(Frame) /\ frames # <<>>
    BY DEF CoreInv, TypeOK
  <2> QED BY <1>2, <1>3, <2>1, ChangeIs
<1> QED BY <1>1, <1>2, <1>4 DEF SameCalls, Keeps

\* Unblock as the receiver sees it.
LEMMA UnblockSame ==
  ASSUME CoreInv, NEW s \in Signals, Unblock(s)
  PROVE  SameCalls
<1>1. CASE task = "waits"
  <2>1. frames # <<>> /\ frames' = Change([Top EXCEPT !.got = s])
    BY <1>1 DEF CoreInv, WaitInv, Unblock
  <2> QED BY <2>1, EndsSame
<1>2. CASE task # "waits"
  BY <1>2 DEF Unblock, SameCalls, Keeps
<1> QED BY <1>1, <1>2

\* The others change neither the calls nor the mask.
LEMMA OthersSame ==
  ASSUME CoreInv, Others
  PROVE  SameCalls /\ sigprocmask' = sigprocmask /\ asked' = asked
<1>1. ASSUME NEW s \in ThreadSignals, SendUnmasked(s)
      PROVE  SameCalls /\ sigprocmask' = sigprocmask /\ asked' = asked
  BY <1>1, UnblockSame, SignalsAre DEF SendUnmasked, Unmasked
<1>2. ASSUME NEW s \in ThreadSignals, SendMasked(s)
      PROVE  SameCalls /\ sigprocmask' = sigprocmask /\ asked' = asked
  <2>1. sigprocmask' = sigprocmask /\ asked' = asked /\ (Unblock(s) \/ frames' = frames)
    BY <1>2 DEF SendMasked
  <2> QED BY <2>1, UnblockSame, SignalsAre DEF SameCalls, Keeps
<1>3. CASE SendAdds
  BY <1>3 DEF SendAdds, SameCalls, Keeps
<1>4. ASSUME NEW s \in IrqSignals, Interrupt(s)
      PROVE  SameCalls /\ sigprocmask' = sigprocmask /\ asked' = asked
  <2>1. sigprocmask' = sigprocmask /\ asked' = asked /\ (Unblock(s) \/ frames' = frames)
    BY <1>4 DEF Interrupt, Unmasked
  <2> QED BY <2>1, UnblockSame, SignalsAre DEF SameCalls, Keeps
<1>5. CASE sig_timeout
  <2>1. /\ frames # <<>> /\ frames' = Change([Top EXCEPT !.got = Timeout])
        /\ sigprocmask' = sigprocmask /\ asked' = asked
    BY <1>5 DEF sig_timeout, CoreInv, WaitInv
  <2> QED BY <2>1, EndsSame
<1> QED BY <1>1, <1>2, <1>3, <1>4, <1>5 DEF Others

\* What the others add to the pending signals is masked.
LEMMA OthersPending ==
  ASSUME CoreInv, CoreInv', OnceInv, Others
  PROVE  Crowded' \subseteq Crowded \union sigprocmask
<1>1. ASSUME UNCHANGED pending
      PROVE  Crowded' \subseteq Crowded \union sigprocmask
  BY <1>1 DEF pending, Crowded
<1>2. ASSUME NEW s \in sigprocmask, twice' \in {twice \union {s}, twice \ {s}},
             \A r : r # s => Num(sigpendingq', info', r) = Num(sigpendingq, info, r)
      PROVE  Crowded' \subseteq Crowded \union sigprocmask
  <2> SUFFICES ASSUME NEW r \in Crowded', r # s PROVE r \in Crowded
    OBVIOUS
  <2>1. r \in Signals /\ Num(sigpendingq', info', r) >= Most(twice', r)
    BY DEF Crowded, Crowd
  <2>2. Most(twice', r) = Most(twice, r) /\ Num(sigpendingq', info', r) = Num(sigpendingq, info, r)
    BY <1>2 DEF Most
  <2> QED BY <2>1, <2>2 DEF Crowded, Crowd
<1>3. CASE SendAdds
  <2>1. sender \in Signals /\ Adds(sender, FALSE) /\ frames' = frames /\ sender \in sigprocmask
    BY <1>3 DEF SendAdds, CoreInv, TypeOK, OnceInv
  <2>2. \A r : r # sender => Num(sigpendingq', info', r) = Num(sigpendingq, info, r)
    BY <2>1, AddsOnce
  <2>3. twice' \in {twice \union {sender}, twice \ {sender}}
    BY <1>3 DEF SendAdds
  <2> QED BY <1>2, <2>1, <2>2, <2>3
<1>4. ASSUME NEW s \in IrqSignals, Interrupt(s), ~ UNCHANGED pending
      PROVE  Crowded' \subseteq Crowded \union sigprocmask
  <2>1. addpendingsignal(s) /\ frames' = frames /\ s \notin pendingset /\ s \in sigprocmask
    BY <1>4 DEF Interrupt, Unmasked, addpendingsignal
  <2>2. Adds(s, TRUE) /\ s \in Signals /\ twice' = twice \ {s}
    BY <2>1, SignalsAre DEF addpendingsignal
  <2>3. \A r : r # s => Num(sigpendingq', info', r) = Num(sigpendingq, info, r)
    BY <2>1, <2>2, AddsOnce
  <2> QED BY <1>2, <2>1, <2>2, <2>3
<1>5. CASE ~ UNCHANGED pending
  <2>1. SendAdds \/ \E s \in IrqSignals : Interrupt(s)
    BY <1>5 DEF Others, SendUnmasked, Unmasked, SendMasked, sig_timeout
  <2> QED BY <1>3, <1>4, <1>5, <2>1
<1> QED BY <1>1, <1>5

-----------------------------------------------------------------------------
(* The mask.                                                               *)

\* Calls that restore the mask.
Restores(f) == f.op \in {"handler", "suspend"}

\* The mask that the receiver asked for is in force, or kept by the outermost call that will
\* restore one.
MaskOK(mask, ask, fr) ==
  \/ mask = ask /\ \A i \in 1 .. Len(fr) : ~ Restores(fr[i])
  \/ \E r \in 1 .. Len(fr) :
       /\ Restores(fr[r]) /\ fr[r].saved = ask
       /\ \A i \in 1 .. r - 1 : ~ Restores(fr[i])
MaskInv == MaskOK(sigprocmask, asked, frames)

\* A call that restores nothing is put on the stack.
LEMMA MaskPush ==
  ASSUME NEW s \in Seq(Frame), NEW f \in Frame, ~ Restores(f), NEW mask, NEW ask, MaskOK(mask, ask, s)
  PROVE  MaskOK(mask, ask, Append(s, f))
<1> DEFINE t == Append(s, f)
<1>1. /\ Len(s) \in Nat /\ Len(t) = Len(s) + 1 /\ t[Len(s) + 1] = f
      /\ \A i \in 1 .. Len(s) : t[i] = s[i]
      /\ \A i \in 1 .. Len(s) + 1 : i \in 1 .. Len(s) \/ i = Len(s) + 1
  BY PushIs
<1> HIDE DEF t
<1>2. CASE mask = ask /\ \A i \in 1 .. Len(s) : ~ Restores(s[i])
  BY <1>1, <1>2 DEF MaskOK, t
<1>3. ASSUME NEW r \in 1 .. Len(s), Restores(s[r]), s[r].saved = ask, \A i \in 1 .. r - 1 : ~ Restores(s[i])
      PROVE  MaskOK(mask, ask, t)
  <2>1. r \in 1 .. Len(t) /\ \A i \in 1 .. r - 1 : i \in 1 .. Len(s)
    BY <1>1
  <2> QED BY <1>1, <1>3, <2>1 DEF MaskOK
<1> QED BY <1>2, <1>3 DEF MaskOK, t

\* A call that restores nothing is taken off.
LEMMA MaskPop ==
  ASSUME NEW s \in Seq(Frame), s # <<>>, ~ Restores(s[Len(s)]), NEW mask, NEW ask, MaskOK(mask, ask, s)
  PROVE  MaskOK(mask, ask, Front(s))
<1> DEFINE t == Front(s)
<1>1. /\ Len(s) \in Nat /\ Len(t) = Len(s) - 1
      /\ \A i \in 1 .. Len(s) - 1 : t[i] = s[i]
      /\ \A i \in 1 .. Len(s) : i \in 1 .. Len(s) - 1 \/ i = Len(s)
  BY PopIs
<1> HIDE DEF t
<1>2. CASE mask = ask /\ \A i \in 1 .. Len(s) : ~ Restores(s[i])
  <2>1. \A i \in 1 .. Len(t) : i \in 1 .. Len(s)
    BY <1>1
  <2> QED BY <1>1, <1>2, <2>1 DEF MaskOK, t
<1>3. ASSUME NEW r \in 1 .. Len(s), Restores(s[r]), s[r].saved = ask, \A i \in 1 .. r - 1 : ~ Restores(s[i])
      PROVE  MaskOK(mask, ask, t)
  <2>1. r \in 1 .. Len(t) /\ \A i \in 1 .. r - 1 : i \in 1 .. Len(s) - 1
    BY <1>1, <1>3
  <2> QED BY <1>1, <1>3, <2>1 DEF MaskOK
<1> QED BY <1>2, <1>3 DEF MaskOK, t

\* The call on top goes on, and neither saves nor restores.
LEMMA MaskChange ==
  ASSUME NEW s \in Seq(Frame), s # <<>>, NEW f \in Frame, ~ Restores(f), ~ Restores(s[Len(s)]),
         NEW mask, NEW ask, MaskOK(mask, ask, s)
  PROVE  MaskOK(mask, ask, [s EXCEPT ![Len(s)] = f])
<1> DEFINE t == [s EXCEPT ![Len(s)] = f]
<1>1. /\ Len(s) \in Nat /\ Len(t) = Len(s) /\ t[Len(s)] = f
      /\ \A i \in 1 .. Len(s) : i # Len(s) => t[i] = s[i]
  BY ChangeIs
<1> HIDE DEF t
<1>2. CASE mask = ask /\ \A i \in 1 .. Len(s) : ~ Restores(s[i])
  BY <1>1, <1>2 DEF MaskOK, t
<1>3. ASSUME NEW r \in 1 .. Len(s), Restores(s[r]), s[r].saved = ask, \A i \in 1 .. r - 1 : ~ Restores(s[i])
      PROVE  MaskOK(mask, ask, t)
  <2>1. r # Len(s) /\ \A i \in 1 .. r - 1 : i \in 1 .. Len(s) /\ i # Len(s)
    BY <1>1, <1>3
  <2> QED BY <1>1, <1>3, <2>1 DEF MaskOK
<1> QED BY <1>2, <1>3 DEF MaskOK, t

\* The call on top saves the mask, and another one is in force.
LEMMA MaskSave ==
  ASSUME NEW s \in Seq(Frame), s # <<>>, NEW f \in Frame, ~ Restores(s[Len(s)]), Restores(f),
         NEW mask, NEW ask, MaskOK(mask, ask, s), f.saved = mask, NEW new
  PROVE  MaskOK(new, ask, [s EXCEPT ![Len(s)] = f])
<1> DEFINE t == [s EXCEPT ![Len(s)] = f]
<1>1. /\ Len(s) \in Nat /\ Len(t) = Len(s) /\ t[Len(s)] = f /\ Len(s) \in 1 .. Len(s)
      /\ \A i \in 1 .. Len(s) : i # Len(s) => t[i] = s[i]
  BY ChangeIs
<1> HIDE DEF t
<1>2. CASE mask = ask /\ \A i \in 1 .. Len(s) : ~ Restores(s[i])
  <2>1. \A i \in 1 .. Len(s) - 1 : ~ Restores(t[i])
    BY <1>1, <1>2
  <2>2. Restores(t[Len(s)]) /\ t[Len(s)].saved = ask /\ Len(s) \in 1 .. Len(t)
    BY <1>1, <1>2
  <2>3. \E r \in 1 .. Len(t) : /\ Restores(t[r]) /\ t[r].saved = ask
                                /\ \A i \in 1 .. r - 1 : ~ Restores(t[i])
    BY <2>1, <2>2
  <2> QED BY <2>3 DEF MaskOK, t
<1>3. ASSUME NEW r \in 1 .. Len(s), Restores(s[r]), s[r].saved = ask, \A i \in 1 .. r - 1 : ~ Restores(s[i])
      PROVE  MaskOK(new, ask, t)
  <2>1. r # Len(s) /\ \A i \in 1 .. r - 1 : i \in 1 .. Len(s) /\ i # Len(s)
    BY <1>1, <1>3
  <2> QED BY <1>1, <1>3, <2>1 DEF MaskOK
<1> QED BY <1>2, <1>3 DEF MaskOK, t

\* The call on top restores the mask.
LEMMA MaskRestore ==
  ASSUME NEW s \in Seq(Frame), s # <<>>, NEW f \in Frame, Restores(s[Len(s)]), ~ Restores(f),
         NEW mask, NEW ask, MaskOK(mask, ask, s)
  PROVE  MaskOK(s[Len(s)].saved, ask, [s EXCEPT ![Len(s)] = f])
<1> DEFINE t == [s EXCEPT ![Len(s)] = f]
           new == s[Len(s)].saved
<1>1. /\ Len(s) \in Nat /\ Len(t) = Len(s) /\ t[Len(s)] = f /\ Len(s) \in 1 .. Len(s)
      /\ \A i \in 1 .. Len(s) : i # Len(s) => t[i] = s[i]
  BY ChangeIs
<1> HIDE DEF t
<1>2. PICK r \in 1 .. Len(s) : Restores(s[r]) /\ s[r].saved = ask /\ \A i \in 1 .. r - 1 : ~ Restores(s[i])
  BY <1>1 DEF MaskOK
<1>3. CASE r = Len(s)
  <2>1. \A i \in 1 .. Len(t) : ~ Restores(t[i])
    BY <1>1, <1>2, <1>3
  <2>2. new = ask
    BY <1>2, <1>3
  <2> QED BY <2>1, <2>2 DEF MaskOK, t
<1>4. CASE r # Len(s)
  <2>1. \A i \in 1 .. r - 1 : i \in 1 .. Len(s) /\ i # Len(s)
    BY <1>1, <1>4
  <2>2. r \in 1 .. Len(t) /\ Restores(t[r]) /\ t[r].saved = ask /\ \A i \in 1 .. r - 1 : ~ Restores(t[i])
    BY <1>1, <1>2, <1>4, <2>1
  <2> HIDE DEF new
  <2>3. MaskOK(new, ask, t)
    BY <2>2 DEF MaskOK
  <2> QED BY <2>3 DEF t, new
<1> QED BY <1>3, <1>4

\* A frame that a call starts with, changes or takes off, for MaskOK of the receiver.
LEMMA MaskStep ==
  ASSUME CoreInv, MaskInv, NEW f \in Frame
  PROVE  /\ ~ Restores(f) => MaskOK(sigprocmask, asked, Append(frames, f))
         /\ frames # <<>> /\ ~ Restores(Top) => MaskOK(sigprocmask, asked, Front(frames))
         /\ frames # <<>> /\ ~ Restores(Top) /\ ~ Restores(f) => MaskOK(sigprocmask, asked, Change(f))
<1>1. frames \in Seq(Frame) /\ (frames # <<>> => Top = frames[Len(frames)])
  BY TopIs DEF CoreInv, TypeOK
<1>2. MaskOK(sigprocmask, asked, frames)
  BY DEF MaskInv
<1>3. ASSUME ~ Restores(f) PROVE MaskOK(sigprocmask, asked, Append(frames, f))
  BY <1>1, <1>2, <1>3, MaskPush
<1>4. ASSUME frames # <<>>, ~ Restores(Top) PROVE MaskOK(sigprocmask, asked, Front(frames))
  BY <1>1, <1>2, <1>4, MaskPop
<1>5. ASSUME frames # <<>>, ~ Restores(Top), ~ Restores(f) PROVE MaskOK(sigprocmask, asked, Change(f))
  BY <1>1, <1>2, <1>5, MaskChange DEF Change
<1> QED BY <1>3, <1>4, <1>5

\* Deliveries and returns keep MaskInv.
LEMMA MaskDelivers ==
  ASSUME CoreInv, MaskInv, Delivers
  PROVE  MaskInv'
<1>1. frames \in Seq(Frame) /\ sigpendactionq \in Seq(Entries)
  BY DEF CoreInv, TypeOK
<1>2. CASE up_sigdeliver
  <2> DEFINE f == deliver(sigpendactionq, task = "ready")
  <2>1. frames' = Append(frames, f) /\ sigprocmask' = sigprocmask /\ asked' = asked
    BY <1>2 DEF up_sigdeliver
  <2>2. f \in Frame /\ f.op = "deliver"
    BY <1>1, DeliverIs
  <2> HIDE DEF f
  <2> QED BY <2>1, <2>2, MaskStep DEF MaskInv, Restores
<1>3. CASE DeliverFetch
  <2>1. frames # <<>> /\ Top \in Frame /\ Top.op = "deliver"
    BY <1>3, ContinuesIs DEF DeliverFetch
  <2>2. sigprocmask' = sigprocmask /\ asked' = asked /\ ~ Restores(Top)
    BY <1>3, <2>1 DEF DeliverFetch, Restores
  <2>3. CASE Top.next = NoEntry
    <3>1. frames' = Front(frames)
      BY <1>3, <2>3 DEF DeliverFetch
    <3> QED BY <2>1, <2>2, <3>1, MaskStep DEF MaskInv
  <2>4. CASE Top.next # NoEntry
    <3> DEFINE f == [Top EXCEPT !.op = "fetched", !.cur = Top.next, !.next = flink(Top.next)]
    <3>1. frames' = Change(f)
      BY <1>3, <2>4 DEF DeliverFetch
    <3>2. Top.next \in Entries /\ flink(Top.next) \in Entries \union {NoEntry}
      BY <2>1, <2>4, FlinkIs DEF Frame
    <3>3. f \in Frame /\ f.op = "fetched"
      BY <2>1, <3>2 DEF Frame
    <3> HIDE DEF f
    <3> QED BY <2>1, <2>2, <3>1, <3>3, MaskStep DEF MaskInv, Restores
  <2> QED BY <2>3, <2>4
<1>4. CASE DeliverTake
  <2> DEFINE f == [Top EXCEPT !.op = "handler", !.saved = sigprocmask]
  <2>1. frames # <<>> /\ Top \in Frame /\ Top.op = "fetched" /\ Top = frames[Len(frames)]
    BY <1>4, ContinuesIs DEF DeliverTake
  <2>2. frames' = [frames EXCEPT ![Len(frames)] = f] /\ asked' = asked
    BY <1>4 DEF DeliverTake, Change
  <2>3. f \in Frame /\ f.op = "handler" /\ f.saved = sigprocmask
    <3>1. sigprocmask \in SUBSET Signals
      BY DEF CoreInv, TypeOK
    <3> QED BY <2>1, <3>1 DEF Frame
  <2> HIDE DEF f
  <2>4. Restores(f) /\ ~ Restores(Top)
    BY <2>1, <2>3 DEF Restores
  <2> QED BY <1>1, <2>1, <2>2, <2>3, <2>4, MaskSave DEF MaskInv
<1>5. CASE HandlerReturns
  <2> DEFINE f == [Top EXCEPT !.op = "unmask", !.sigs = pendingset \ Top.saved]
  <2>1. frames # <<>> /\ Top \in Frame /\ Top.op = "handler" /\ Top = frames[Len(frames)]
    BY <1>5, ContinuesIs DEF HandlerReturns
  <2>2. frames' = [frames EXCEPT ![Len(frames)] = f] /\ asked' = asked /\ sigprocmask' = frames[Len(frames)].saved
    BY <1>5, <2>1 DEF HandlerReturns, Change
  <2>3. f \in Frame /\ f.op = "unmask"
    <3>1. pendingset \ Top.saved \subseteq Signals
      BY PendingIs
    <3> QED BY <2>1, <3>1 DEF Frame
  <2> HIDE DEF f
  <2>4. ~ Restores(f) /\ Restores(frames[Len(frames)])
    BY <2>1, <2>3 DEF Restores
  <2> QED BY <1>1, <2>1, <2>2, <2>3, <2>4, MaskRestore DEF MaskInv
<1>6. CASE UnmaskNext
  <2> DEFINE s == lowest(Top.sigs)
             f == [Top EXCEPT !.sigs = @ \ {s}]
             g == [f EXCEPT !.slot = PendingSlot(s)]
             h == deliver(sigpendactionq', TRUE)
  <2>1. frames # <<>> /\ Top \in Frame /\ Top.op = "unmask"
    BY <1>6, ContinuesIs DEF UnmaskNext
  <2>2. asked' = asked /\ sigprocmask' = sigprocmask /\ ~ Restores(Top)
    BY <1>6, <2>1 DEF UnmaskNext, Restores
  <2>3. IF s \in pendingset
        THEN queueaction(s, FALSE) /\ frames' = Append(Change(g), h)
        ELSE frames' = Change(f)
    BY <1>6, Zenon DEF UnmaskNext
  <2>4. Top.sigs \subseteq Signals
    BY <2>1 DEF Frame
  <2> HIDE DEF s
  <2>5. f \in Frame /\ f.op = "unmask"
    BY <2>1, <2>4 DEF Frame
  <2> HIDE DEF f
  <2>6. CASE s \notin pendingset
    BY <2>1, <2>2, <2>3, <2>5, <2>6, MaskStep DEF MaskInv, Restores
  <2>7. CASE s \in pendingset
    <3>1. PendingSlot(s) \in Slots /\ s \in Signals
      BY <2>7, PendingSlotIs, PendingIs
    <3>2. g \in Frame /\ g.op = "unmask"
      BY <2>5, <3>1 DEF Frame
    <3>3. sigpendactionq' \in Seq(Entries)
      BY <2>3, <2>7, <3>1, QueueActionIs
    <3>4. h \in Frame /\ h.op = "deliver"
      BY <3>3, DeliverIs
    <3> HIDE DEF g, h
    <3>5. MaskOK(sigprocmask, asked, Change(g))
      BY <2>1, <2>2, <3>2, MaskStep DEF Restores
    <3>6. Change(g) \in Seq(Frame)
      BY <1>1, <2>1, <3>2, ChangeIs DEF Change
    <3>7. MaskOK(sigprocmask, asked, Append(Change(g), h))
      BY <3>4, <3>5, <3>6, MaskPush DEF Restores
    <3> QED BY <2>2, <2>3, <2>7, <3>7 DEF MaskInv
  <2> QED BY <2>6, <2>7
<1>7. CASE UnmaskRelease
  <2> DEFINE f == [Top EXCEPT !.slot = NoSlot]
  <2>1. frames # <<>> /\ Top \in Frame /\ Top.op = "unmask"
    BY <1>7, ContinuesIs DEF UnmaskRelease
  <2>2. frames' = Change(f) /\ asked' = asked /\ sigprocmask' = sigprocmask
    BY <1>7 DEF UnmaskRelease
  <2>3. f \in Frame /\ f.op = "unmask"
    BY <2>1 DEF Frame
  <2> HIDE DEF f
  <2> QED BY <2>1, <2>2, <2>3, MaskStep DEF MaskInv, Restores
<1>8. CASE UnmaskDone
  <2> DEFINE f == [Top EXCEPT !.op = "deliver", !.cur = NoEntry, !.saved = {}]
  <2>1. frames # <<>> /\ Top \in Frame /\ Top.op = "unmask"
    BY <1>8, ContinuesIs DEF UnmaskDone
  <2>2. /\ asked' = asked /\ sigprocmask' = sigprocmask
        /\ frames' = IF Top.cur # NoEntry THEN Change(f) ELSE Front(frames)
    BY <1>8 DEF UnmaskDone
  <2>3. f \in Frame /\ f.op = "deliver"
    BY <2>1 DEF Frame
  <2> HIDE DEF f
  <2> QED BY <2>1, <2>2, <2>3, MaskStep DEF MaskInv, Restores
<1>9. CASE TimedwaitReturns
  <2>1. frames # <<>> /\ Top \in Frame /\ Top.op \in {"timedwait", "return"}
    BY <1>9, ContinuesIs DEF TimedwaitReturns
  <2>2. frames' = Front(frames) /\ asked' = asked /\ sigprocmask' = sigprocmask
    BY <1>9 DEF TimedwaitReturns
  <2> QED BY <2>1, <2>2, MaskStep DEF MaskInv, Restores
<1>10. CASE SuspendReturns
  <2> DEFINE f == [Top EXCEPT !.op = "unmask", !.irqoff = FALSE, !.saved = {}, !.got = NoSignal,
                              !.sigs = pendingset \ Top.saved]
  <2>1. frames # <<>> /\ Top \in Frame /\ Top.op = "suspend" /\ Top = frames[Len(frames)]
    BY <1>10, ContinuesIs DEF SuspendReturns
  <2>2. frames' = [frames EXCEPT ![Len(frames)] = f] /\ asked' = asked /\ sigprocmask' = frames[Len(frames)].saved
    BY <1>10, <2>1 DEF SuspendReturns, Change
  <2>3. f \in Frame /\ f.op = "unmask"
    <3>1. pendingset \ Top.saved \subseteq Signals
      BY PendingIs
    <3> QED BY <2>1, <3>1 DEF Frame
  <2> HIDE DEF f
  <2>4. ~ Restores(f) /\ Restores(frames[Len(frames)])
    BY <2>1, <2>3 DEF Restores
  <2> QED BY <1>1, <2>1, <2>2, <2>3, <2>4, MaskRestore DEF MaskInv
<1> QED BY <1>2, <1>3, <1>4, <1>5, <1>6, <1>7, <1>8, <1>9, <1>10 DEF Delivers

\* Without a call, the mask is the one that was asked for.
LEMMA MaskInUser ==
  ASSUME CoreInv, MaskInv, frames = <<>>
  PROVE  sigprocmask = asked
<1>1. Len(frames) = 0
  OBVIOUS
<1>2. \A r : ~ (r \in 1 .. Len(frames))
  BY <1>1
<1> QED BY <1>2 DEF MaskInv, MaskOK

\* The calls of the receiver keep MaskInv.
LEMMA MaskCalls ==
  ASSUME CoreInv, MaskInv, Calls
  PROVE  MaskInv'
<1>1. PICK set \in SUBSET Signals :
        \/ SetMask(set)
        \/ TimedwaitPending(set) \/ TimedwaitBlocks(set)
        \/ SuspendPending(set) \/ SuspendBlocks(set)
  BY DEF Calls
<1>2. CASE SetMask(set)
  <2> DEFINE f == [Empty EXCEPT !.op = "unmask", !.sigs = pendingset \ set]
  <2>1. frames' = <<f>> /\ sigprocmask' = asked'
    BY <1>2 DEF SetMask
  <2>2. f.op = "unmask"
    BY DEF Empty
  <2> HIDE DEF f
  <2>3. Len(frames') = 1 /\ frames'[1] = f
    BY <2>1
  <2>4. \A i \in 1 .. Len(frames') : ~ Restores(frames'[i])
    BY <2>2, <2>3 DEF Restores
  <2> QED BY <2>1, <2>4 DEF MaskInv, MaskOK
<1>3. CASE TimedwaitPending(set)
  <2> DEFINE S == set \intersect pendingset
             f == [Empty EXCEPT !.op = "return", !.got = lowest(S), !.slot = PendingSlot(lowest(S))]
  <2>1. S # {} /\ frames' = Append(frames, f) /\ sigprocmask' = sigprocmask /\ asked' = asked
    BY <1>3 DEF TimedwaitPending
  <2>2. lowest(S) \in pendingset /\ lowest(S) \in Signals
    <3>1. S \in SUBSET Nat /\ S \subseteq Signals /\ S \subseteq pendingset
      BY PendingIs, SignalsAre
    <3> QED BY <2>1, <3>1, LowestIs
  <2>3. PendingSlot(lowest(S)) \in Slots
    BY <2>2, PendingSlotIs
  <2> HIDE DEF S
  <2>4. f \in Frame /\ f.op = "return"
    BY <2>2, <2>3, FramesAre DEF Frame
  <2> HIDE DEF f
  <2> QED BY <2>1, <2>4, MaskStep DEF MaskInv, Restores
<1>4. CASE TimedwaitBlocks(set)
  <2> DEFINE f == [Empty EXCEPT !.op = "timedwait", !.irqoff = TRUE, !.sigs = set]
  <2>1. frames' = Append(frames, f) /\ sigprocmask' = sigprocmask /\ asked' = asked
    BY <1>4 DEF TimedwaitBlocks
  <2>2. f \in Frame /\ f.op = "timedwait"
    BY FramesAre DEF Frame
  <2> HIDE DEF f
  <2> QED BY <2>1, <2>2, MaskStep DEF MaskInv, Restores
<1>5. CASE SuspendPending(set)
  BY <1>5 DEF SuspendPending, MaskInv
<1>6. CASE SuspendBlocks(set)
  <2> DEFINE f == [Empty EXCEPT !.op = "suspend", !.irqoff = TRUE, !.saved = sigprocmask]
  <2>1. frames' = <<f>> /\ asked' = asked /\ frames = <<>>
    BY <1>6 DEF SuspendBlocks, InUser
  <2>2. f.op = "suspend" /\ f.saved = sigprocmask
    BY DEF Empty
  <2> HIDE DEF f
  <2>3. sigprocmask = asked
    BY <2>1, MaskInUser
  <2>4. Len(frames') = 1 /\ frames'[1] = f
    BY <2>1
  <2>5. 1 \in 1 .. Len(frames') /\ Restores(frames'[1]) /\ frames'[1].saved = asked'
        /\ \A i \in 1 .. 1 - 1 : ~ Restores(frames'[i])
    BY <2>1, <2>2, <2>3, <2>4 DEF Restores
  <2> QED BY <2>5 DEF MaskInv, MaskOK
<1> QED BY <1>1, <1>2, <1>3, <1>4, <1>5, <1>6

\* Every step keeps MaskInv.
LEMMA MaskNext ==
  ASSUME CoreInv, MaskInv, [Next]_vars
  PROVE  MaskInv'
<1>1. CASE Others
  <2>1. SameCalls /\ sigprocmask' = sigprocmask /\ asked' = asked
    BY <1>1, OthersSame
  <2>2. Len(frames) \in Nat /\ Len(frames') = Len(frames)
        /\ \A i \in 1 .. Len(frames) : frames'[i].op = frames[i].op /\ frames'[i].saved = frames[i].saved
    BY <2>1 DEF SameCalls, Keeps, CoreInv, TypeOK
  <2>3. \A i \in 1 .. Len(frames) : Restores(frames'[i]) <=> Restores(frames[i])
    BY <2>2 DEF Restores
  <2>4. CASE sigprocmask = asked /\ \A i \in 1 .. Len(frames) : ~ Restores(frames[i])
    BY <2>1, <2>2, <2>3, <2>4 DEF MaskInv, MaskOK
  <2>5. ASSUME NEW r \in 1 .. Len(frames), Restores(frames[r]), frames[r].saved = asked,
               \A i \in 1 .. r - 1 : ~ Restores(frames[i])
        PROVE  MaskInv'
    <3>1. \A i \in 1 .. r - 1 : i \in 1 .. Len(frames)
      BY <2>2
    <3>2. r \in 1 .. Len(frames') /\ Restores(frames'[r]) /\ frames'[r].saved = asked'
          /\ \A i \in 1 .. r - 1 : ~ Restores(frames'[i])
      BY <2>1, <2>2, <2>3, <2>5, <3>1
    <3> QED BY <3>2 DEF MaskInv, MaskOK
  <2> QED BY <2>4, <2>5 DEF MaskInv, MaskOK
<1>2. CASE Delivers
  BY <1>2, MaskDelivers
<1>3. CASE Calls
  BY <1>3, MaskCalls
<1>4. CASE UNCHANGED vars
  BY <1>4 DEF vars, MaskInv
<1> QED BY <1>1, <1>2, <1>3, <1>4 DEF Next, Others

-----------------------------------------------------------------------------
(* What the steps of the receiver do to the stack.                         *)

\* sig_deliver starts.
LEMMA SigdeliverIs ==
  ASSUME CoreInv, up_sigdeliver
  PROVE  /\ armed /\ armed' = FALSE /\ sigpendactionq' = sigpendactionq /\ sigprocmask' = sigprocmask
         /\ sigunbinfo' = sigunbinfo /\ task # "waits" /\ task' = "runs"
         /\ \E f \in Frame : /\ frames' = Append(frames, f) /\ f.op = "deliver"
                             /\ f.next = IF sigpendactionq = <<>> THEN NoEntry ELSE sigpendactionq[1]
<1> DEFINE f == deliver(sigpendactionq, task = "ready")
<1>1. f \in Frame /\ f.op = "deliver" /\ f.next = IF sigpendactionq = <<>> THEN NoEntry ELSE sigpendactionq[1]
  BY DeliverIs DEF CoreInv, TypeOK
<1>2. frames' = Append(frames, f)
  BY DEF up_sigdeliver
<1> HIDE DEF f
<1>3. \E g \in Frame : /\ frames' = Append(frames, g) /\ g.op = "deliver"
                       /\ g.next = IF sigpendactionq = <<>> THEN NoEntry ELSE sigpendactionq[1]
  BY <1>1, <1>2
<1> QED BY <1>3 DEF up_sigdeliver

\* The head of its loop.
LEMMA FetchIs ==
  ASSUME CoreInv, DeliverFetch
  PROVE  /\ frames # <<>> /\ Top \in Frame /\ Top.op = "deliver"
         /\ UNCHANGED <<sigprocmask, sigunbinfo, sigpendingq, info, sigpendactionq, armed>>
         /\ task # "waits" /\ task' = "runs" /\ armed = FALSE
         /\ \/ Top.next = NoEntry /\ frames' = Front(frames)
            \/ /\ Top.next \in Entries
               /\ \E f \in Frame : /\ frames' = Change(f) /\ f.op = "fetched"
                                   /\ f.cur = Top.next /\ f.next = flink(Top.next)
<1>1. /\ frames # <<>> /\ Top \in Frame /\ Top.op = "deliver"
      /\ task # "waits" /\ task' = "runs" /\ armed = FALSE
  BY ContinuesIs DEF DeliverFetch
<1>2. UNCHANGED <<sigprocmask, sigunbinfo, sigpendingq, info, sigpendactionq, armed>>
  BY DEF DeliverFetch, pending
<1>3. CASE Top.next = NoEntry
  BY <1>1, <1>2, <1>3 DEF DeliverFetch
<1>4. CASE Top.next # NoEntry
  <2> DEFINE f == [Top EXCEPT !.op = "fetched", !.cur = Top.next, !.next = flink(Top.next)]
  <2>1. frames' = Change(f)
    BY <1>4 DEF DeliverFetch
  <2>2. Top.next \in Entries /\ flink(Top.next) \in Entries \union {NoEntry}
    BY <1>1, <1>4, FlinkIs DEF Frame
  <2>3. f \in Frame /\ f.op = "fetched" /\ f.cur = Top.next /\ f.next = flink(Top.next)
    BY <1>1, <2>2 DEF Frame
  <2> HIDE DEF f
  <2> QED BY <1>1, <1>2, <2>1, <2>2, <2>3
<1> QED BY <1>3, <1>4

\* An action is taken, and its handler called.
LEMMA TakeIs ==
  ASSUME CoreInv, DeliverTake
  PROVE  /\ frames # <<>> /\ Top \in Frame /\ Top.op = "fetched"
         /\ UNCHANGED <<sigunbinfo, sigpendingq, info, armed>>
         /\ task # "waits" /\ task' = "runs" /\ armed = FALSE
         /\ sigprocmask \subseteq sigprocmask'
         /\ sigpendactionq' = RemoveFirst(sigpendactionq, Top.cur)
         /\ \E f \in Frame : frames' = Change(f) /\ f.op = "handler" /\ f.next = Top.next /\ f.cur = Top.cur
<1> DEFINE f == [Top EXCEPT !.op = "handler", !.saved = sigprocmask]
<1>1. /\ frames # <<>> /\ Top \in Frame /\ Top.op = "fetched"
      /\ task # "waits" /\ task' = "runs" /\ armed = FALSE
  BY ContinuesIs DEF DeliverTake
<1>2. /\ UNCHANGED <<sigunbinfo, sigpendingq, info, armed>> /\ frames' = Change(f)
      /\ sigprocmask \subseteq sigprocmask'
      /\ sigpendactionq' = RemoveFirst(sigpendactionq, Top.cur)
  BY DEF DeliverTake, pending
<1>3. sigprocmask \in SUBSET Signals
  BY DEF CoreInv, TypeOK
<1>4. f \in Frame /\ f.op = "handler" /\ f.next = Top.next /\ f.cur = Top.cur
  BY <1>1, <1>3 DEF Frame
<1> HIDE DEF f
<1> QED BY <1>1, <1>2, <1>4

\* The mask is restored, and the signals that it lets through are looked for.
LEMMA RestoreIs ==
  ASSUME CoreInv, HandlerReturns \/ SuspendReturns
  PROVE  /\ frames # <<>> /\ Top \in Frame /\ Top.op \in {"handler", "suspend"}
         /\ UNCHANGED <<sigunbinfo, sigpendingq, info, sigpendactionq, armed>>
         /\ task # "waits" /\ task' = "runs" /\ armed = FALSE
         /\ \E f \in Frame : /\ frames' = Change(f) /\ f.op = "unmask" /\ f.next = Top.next
                             /\ f.sigs = pendingset \ sigprocmask' /\ f.cur = Top.cur
<1>1. pendingset \ Top.saved \subseteq Signals
  BY PendingIs
<1>2. CASE HandlerReturns
  <2> DEFINE f == [Top EXCEPT !.op = "unmask", !.sigs = pendingset \ Top.saved]
  <2>1. /\ frames # <<>> /\ Top \in Frame /\ Top.op = "handler"
        /\ task # "waits" /\ task' = "runs" /\ armed = FALSE
    BY <1>2, ContinuesIs DEF HandlerReturns
  <2>2. /\ UNCHANGED <<sigunbinfo, sigpendingq, info, sigpendactionq, armed>>
        /\ frames' = Change(f) /\ sigprocmask' = Top.saved
    BY <1>2 DEF HandlerReturns, pending
  <2>3. f \in Frame /\ f.op = "unmask" /\ f.next = Top.next /\ f.sigs = pendingset \ Top.saved /\ f.cur = Top.cur
    BY <1>1, <2>1 DEF Frame
  <2> HIDE DEF f
  <2> QED BY <2>1, <2>2, <2>3
<1>3. CASE SuspendReturns
  <2> DEFINE f == [Top EXCEPT !.op = "unmask", !.irqoff = FALSE, !.saved = {}, !.got = NoSignal,
                              !.sigs = pendingset \ Top.saved]
  <2>1. /\ frames # <<>> /\ Top \in Frame /\ Top.op = "suspend"
        /\ task # "waits" /\ task' = "runs" /\ armed = FALSE
    BY <1>3, ContinuesIs DEF SuspendReturns
  <2>2. /\ UNCHANGED <<sigunbinfo, sigpendingq, info, sigpendactionq, armed>>
        /\ frames' = Change(f) /\ sigprocmask' = Top.saved
    BY <1>3 DEF SuspendReturns, pending
  <2>3. f \in Frame /\ f.op = "unmask" /\ f.next = Top.next /\ f.sigs = pendingset \ Top.saved /\ f.cur = Top.cur
    BY <1>1, <2>1 DEF Frame
  <2> HIDE DEF f
  <2> QED BY <2>1, <2>2, <2>3
<1> QED BY <1>2, <1>3

\* sig_unmaskpendingsignal takes a signal, and delivers it if it is still pending.
LEMMA UnmaskNextIs ==
  ASSUME CoreInv, UnmaskNext
  PROVE  /\ frames # <<>> /\ Top \in Frame /\ Top.op = "unmask"
         /\ UNCHANGED <<sigprocmask, sigunbinfo, info, armed, twice>>
         /\ task # "waits" /\ task' = "runs" /\ armed = FALSE
         /\ \E s \in Top.sigs : \E f \in Frame :
              /\ s \in Signals /\ f.op = "unmask" /\ f.sigs = Top.sigs \ {s} /\ f.next = Top.next /\ f.cur = Top.cur
              /\ \/ /\ s \notin pendingset /\ frames' = Change(f)
                    /\ UNCHANGED <<sigpendingq, sigpendactionq>>
                 \/ /\ s \in pendingset /\ removependingsignal(s) /\ queueaction(s, FALSE)
                    /\ \E h \in Frame :
                         /\ frames' = Append(Change(f), h) /\ h.op = "deliver"
                         /\ h.next = IF sigpendactionq' = <<>> THEN NoEntry ELSE sigpendactionq'[1]
<1> DEFINE s == lowest(Top.sigs)
           f == [Top EXCEPT !.sigs = @ \ {s}]
           g == [f EXCEPT !.slot = PendingSlot(s)]
           h == deliver(sigpendactionq', TRUE)
<1>1. /\ frames # <<>> /\ Top \in Frame /\ Top.op = "unmask" /\ Top.sigs # {}
      /\ task # "waits" /\ task' = "runs" /\ armed = FALSE
  BY ContinuesIs DEF UnmaskNext
<1>2. UNCHANGED <<sigprocmask, sigunbinfo, info, armed, twice>>
  BY DEF UnmaskNext
<1>3. IF s \in pendingset
      THEN removependingsignal(s) /\ queueaction(s, FALSE) /\ frames' = Append(Change(g), h)
      ELSE frames' = Change(f) /\ UNCHANGED <<sigpendingq, sigpendactionq>>
  BY Zenon DEF UnmaskNext
<1>4. s \in Top.sigs /\ s \in Signals
  <2>1. Top.sigs \in SUBSET Nat /\ Top.sigs \subseteq Signals
    BY <1>1, SignalsAre DEF Frame
  <2> QED BY <1>1, <2>1, LowestIs
<1> HIDE DEF s
<1>5. f \in Frame /\ f.op = "unmask" /\ f.sigs = Top.sigs \ {s} /\ f.next = Top.next /\ f.cur = Top.cur
  BY <1>1 DEF Frame
<1> HIDE DEF f
<1>6. CASE s \notin pendingset
  BY <1>1, <1>2, <1>3, <1>4, <1>5, <1>6
<1>7. CASE s \in pendingset
  <2>1. PendingSlot(s) \in Slots
    BY <1>7, PendingSlotIs
  <2>2. g \in Frame /\ g.op = "unmask" /\ g.sigs = Top.sigs \ {s} /\ g.next = Top.next /\ g.cur = Top.cur
    BY <1>5, <2>1 DEF Frame
  <2>3. sigpendactionq' \in Seq(Entries)
    BY <1>3, <1>4, <1>7, QueueActionIs
  <2>4. /\ h \in Frame /\ h.op = "deliver"
        /\ h.next = IF sigpendactionq' = <<>> THEN NoEntry ELSE sigpendactionq'[1]
    BY <2>3, DeliverIs
  <2> HIDE DEF g, h
  <2>5. removependingsignal(s) /\ queueaction(s, FALSE) /\ frames' = Append(Change(g), h)
    BY <1>3, <1>7
  <2>6. \E hh \in Frame :
          /\ frames' = Append(Change(g), hh) /\ hh.op = "deliver"
          /\ hh.next = IF sigpendactionq' = <<>> THEN NoEntry ELSE sigpendactionq'[1]
    BY <2>4, <2>5
  <2> QED BY <1>1, <1>2, <1>4, <1>7, <2>2, <2>5, <2>6, Zenon
<1> QED BY <1>6, <1>7

\* The end of sig_unmaskpendingsignal, and the release of a structure.
LEMMA UnmaskEndIs ==
  ASSUME CoreInv, UnmaskRelease \/ UnmaskDone
  PROVE  /\ frames # <<>> /\ Top \in Frame /\ Top.op = "unmask"
         /\ UNCHANGED <<sigprocmask, sigunbinfo, sigpendactionq, armed>>
         /\ task # "waits" /\ task' = "runs" /\ armed = FALSE
         /\ \/ \E f \in Frame : /\ frames' = Change(f) /\ f.op = "unmask"
                                /\ f.sigs = Top.sigs /\ f.next = Top.next /\ f.cur = Top.cur
            \/ /\ Top.sigs = {}
               /\ \E f \in Frame : frames' = Change(f) /\ f.op = "deliver" /\ f.next = Top.next
            \/ Top.sigs = {} /\ frames' = Front(frames) /\ Top.cur = NoEntry
<1>1. CASE UnmaskRelease
  <2> DEFINE f == [Top EXCEPT !.slot = NoSlot]
  <2>1. /\ frames # <<>> /\ Top \in Frame /\ Top.op = "unmask"
        /\ task # "waits" /\ task' = "runs" /\ armed = FALSE
    BY <1>1, ContinuesIs DEF UnmaskRelease
  <2>2. UNCHANGED <<sigprocmask, sigunbinfo, sigpendactionq, armed>> /\ frames' = Change(f)
    BY <1>1 DEF UnmaskRelease
  <2>3. f \in Frame /\ f.op = "unmask" /\ f.sigs = Top.sigs /\ f.next = Top.next /\ f.cur = Top.cur
    BY <2>1 DEF Frame
  <2> HIDE DEF f
  <2> QED BY <2>1, <2>2, <2>3
<1>2. CASE UnmaskDone
  <2> DEFINE f == [Top EXCEPT !.op = "deliver", !.cur = NoEntry, !.saved = {}]
  <2>1. /\ frames # <<>> /\ Top \in Frame /\ Top.op = "unmask"
        /\ task # "waits" /\ task' = "runs" /\ armed = FALSE
    BY <1>2, ContinuesIs DEF UnmaskDone
  <2>2. /\ UNCHANGED <<sigprocmask, sigunbinfo, sigpendactionq, armed>> /\ Top.sigs = {}
        /\ frames' = IF Top.cur # NoEntry THEN Change(f) ELSE Front(frames)
    BY <1>2 DEF UnmaskDone
  <2>3. f \in Frame /\ f.op = "deliver" /\ f.next = Top.next
    BY <2>1 DEF Frame
  <2> HIDE DEF f
  <2> QED BY <2>1, <2>2, <2>3
<1> QED BY <1>1, <1>2

\* sigtimedwait returns.
LEMMA TimedwaitReturnsIs ==
  ASSUME CoreInv, TimedwaitReturns
  PROVE  /\ frames # <<>> /\ Top \in Frame /\ Top.op \in {"timedwait", "return"} /\ frames' = Front(frames)
         /\ UNCHANGED <<sigprocmask, sigunbinfo, sigpendactionq, armed>>
         /\ task # "waits" /\ task' = "runs" /\ armed = FALSE
<1>1. /\ frames # <<>> /\ Top \in Frame /\ Top.op \in {"timedwait", "return"}
      /\ task # "waits" /\ task' = "runs" /\ armed = FALSE
  BY ContinuesIs DEF TimedwaitReturns
<1> QED BY <1>1 DEF TimedwaitReturns

\* sigtimedwait is called.
LEMMA TimedwaitIs ==
  ASSUME CoreInv, NEW set \in SUBSET Signals, TimedwaitPending(set) \/ TimedwaitBlocks(set)
  PROVE  /\ UNCHANGED <<sigprocmask, sigunbinfo, sigpendactionq, armed, asked>>
         /\ ~ armed /\ task = "runs" /\ (frames # <<>> => HandlersWait /\ Top.op = "handler")
         /\ \E f \in Frame : /\ frames' = Append(frames, f) /\ f.next = NoEntry
                             /\ f.op = "return" \/ (f.op = "timedwait" /\ (task' = "waits" \/ WatchdogsRunOut))
<1>1. /\ UNCHANGED <<sigprocmask, sigunbinfo, sigpendactionq, armed, asked>>
      /\ ~ armed /\ task = "runs" /\ (frames # <<>> => HandlersWait /\ Top.op = "handler")
  BY DEF TimedwaitPending, TimedwaitBlocks, MayWait
<1>2. CASE TimedwaitPending(set)
  <2> DEFINE S == set \intersect pendingset
             f == [Empty EXCEPT !.op = "return", !.got = lowest(S), !.slot = PendingSlot(lowest(S))]
  <2>1. S # {} /\ frames' = Append(frames, f)
    BY <1>2 DEF TimedwaitPending
  <2>2. lowest(S) \in pendingset /\ lowest(S) \in Signals
    <3>1. S \in SUBSET Nat /\ S \subseteq Signals /\ S \subseteq pendingset
      BY PendingIs, SignalsAre
    <3> QED BY <2>1, <3>1, LowestIs
  <2>3. PendingSlot(lowest(S)) \in Slots
    BY <2>2, PendingSlotIs
  <2> HIDE DEF S
  <2>4. f \in Frame /\ f.op = "return" /\ f.next = NoEntry
    BY <2>2, <2>3, FramesAre DEF Frame
  <2> HIDE DEF f
  <2> QED BY <1>1, <2>1, <2>4
<1>3. CASE TimedwaitBlocks(set)
  <2> DEFINE f == [Empty EXCEPT !.op = "timedwait", !.irqoff = TRUE, !.sigs = set]
  <2>1. frames' = Append(frames, f) /\ (task' = "waits" \/ WatchdogsRunOut)
    BY <1>3 DEF TimedwaitBlocks
  <2>2. f \in Frame /\ f.op = "timedwait" /\ f.next = NoEntry
    BY FramesAre DEF Frame
  <2> HIDE DEF f
  <2> QED BY <1>1, <2>1, <2>2
<1> QED BY <1>2, <1>3

\* The calls of the receiver that it makes only in its own code.
LEMMA UserCallIs ==
  ASSUME CoreInv, NEW set \in SUBSET Signals, SetMask(set) \/ SuspendBlocks(set)
  PROVE  /\ UNCHANGED <<sigunbinfo, sigpendingq, info, sigpendactionq, armed>>
         /\ ~ armed /\ frames = <<>> /\ sigprocmask' = set
         /\ \E f \in Frame : /\ frames' = Append(frames, f) /\ f.next = NoEntry
                             /\ \/ f.op = "unmask" /\ f.sigs = pendingset \ set
                                \/ f.op = "suspend" /\ pendingset \ set = {}
<1>1. /\ UNCHANGED <<sigunbinfo, sigpendingq, info, sigpendactionq, armed>>
      /\ ~ armed /\ frames = <<>> /\ sigprocmask' = set
  BY DEF SetMask, SuspendBlocks, InUser, pending
<1>2. CASE SetMask(set)
  <2> DEFINE f == [Empty EXCEPT !.op = "unmask", !.sigs = pendingset \ set]
  <2>1. frames' = Append(frames, f)
    BY <1>2, SetMaskCore
  <2>2. f \in Frame /\ f.op = "unmask" /\ f.next = NoEntry /\ f.sigs = pendingset \ set
    <3>1. pendingset \ set \subseteq Signals
      BY PendingIs
    <3> QED BY <3>1, FramesAre DEF Frame
  <2> HIDE DEF f
  <2> QED BY <1>1, <2>1, <2>2
<1>3. CASE SuspendBlocks(set)
  <2> DEFINE f == [Empty EXCEPT !.op = "suspend", !.irqoff = TRUE, !.saved = sigprocmask]
  <2>1. frames' = Append(frames, f) /\ pendingset \ set = {}
    BY <1>3, SuspendBlocksCore DEF SuspendBlocks
  <2>2. f \in Frame /\ f.op = "suspend" /\ f.next = NoEntry
    <3>1. sigprocmask \in SUBSET Signals
      BY DEF CoreInv, TypeOK
    <3> QED BY <3>1, FramesAre DEF Frame
  <2> HIDE DEF f
  <2> QED BY <1>1, <2>1, <2>2
<1> QED BY <1>2, <1>3

-----------------------------------------------------------------------------
(* Signals that are pending though they are not masked.                    *)

\* Some call on the stack is about to deliver them.
Covered(S, fr) == \A s \in S : \E i \in 1 .. Len(fr) : fr[i].op = "unmask" /\ s \in fr[i].sigs
UnmaskInv == Covered(Crowded \ sigprocmask, frames)

\* A call is put on the stack.
LEMMA CoveredPush ==
  ASSUME NEW s \in Seq(Frame), NEW f \in Frame, NEW S, NEW T \in SUBSET S, Covered(S, s)
  PROVE  Covered(T, Append(s, f))
<1> DEFINE t == Append(s, f)
<1>1. Len(s) \in Nat /\ Len(t) = Len(s) + 1 /\ \A i \in 1 .. Len(s) : t[i] = s[i]
  BY PushIs
<1> HIDE DEF t
<1>2. \A i \in 1 .. Len(s) : i \in 1 .. Len(t)
  BY <1>1
<1> QED BY <1>1, <1>2 DEF Covered, t

\* A call that has nothing more to deliver is taken off.
LEMMA CoveredPop ==
  ASSUME NEW s \in Seq(Frame), s # <<>>, NEW S, NEW T \in SUBSET S, Covered(S, s),
         s[Len(s)].op = "unmask" => s[Len(s)].sigs = {}
  PROVE  Covered(T, Front(s))
<1> DEFINE t == Front(s)
<1>1. /\ Len(s) \in Nat /\ Len(t) = Len(s) - 1 /\ \A i \in 1 .. Len(s) - 1 : t[i] = s[i]
      /\ \A i \in 1 .. Len(s) : i \in 1 .. Len(s) - 1 \/ i = Len(s)
  BY PopIs
<1> HIDE DEF t
<1>2. ASSUME NEW r \in T PROVE \E i \in 1 .. Len(t) : t[i].op = "unmask" /\ r \in t[i].sigs
  <2>1. PICK i \in 1 .. Len(s) : s[i].op = "unmask" /\ r \in s[i].sigs
    BY DEF Covered
  <2>2. i \in 1 .. Len(s) - 1
    BY <1>1, <2>1
  <2> QED BY <1>1, <2>1, <2>2
<1> QED BY <1>2 DEF Covered, t

\* The call on top goes on, and is about to deliver what it was.
LEMMA CoveredChange ==
  ASSUME NEW s \in Seq(Frame), s # <<>>, NEW f \in Frame, NEW S, NEW T \in SUBSET S, Covered(S, s),
         s[Len(s)].op = "unmask" => s[Len(s)].sigs \intersect T = {}
                                    \/ (f.op = "unmask" /\ s[Len(s)].sigs \intersect T \subseteq f.sigs)
  PROVE  Covered(T, [s EXCEPT ![Len(s)] = f])
<1> DEFINE t == [s EXCEPT ![Len(s)] = f]
<1>1. /\ Len(s) \in Nat /\ Len(t) = Len(s) /\ t[Len(s)] = f
      /\ \A i \in 1 .. Len(s) : i # Len(s) => t[i] = s[i]
  BY ChangeIs
<1> HIDE DEF t
<1>2. ASSUME NEW r \in T PROVE \E i \in 1 .. Len(t) : t[i].op = "unmask" /\ r \in t[i].sigs
  <2>1. PICK i \in 1 .. Len(s) : s[i].op = "unmask" /\ r \in s[i].sigs
    BY DEF Covered
  <2> QED BY <1>1, <2>1
<1> QED BY <1>2 DEF Covered, t

\* The call on top is about to deliver all of them.
LEMMA CoveredTop ==
  ASSUME NEW s \in Seq(Frame), s # <<>>, NEW f \in Frame, NEW S, f.op = "unmask", S \subseteq f.sigs
  PROVE  Covered(S, [s EXCEPT ![Len(s)] = f])
<1>1. /\ Len([s EXCEPT ![Len(s)] = f]) = Len(s) /\ [s EXCEPT ![Len(s)] = f][Len(s)] = f
      /\ Len(s) \in 1 .. Len(s)
  BY ChangeIs
<1> QED BY <1>1 DEF Covered

\* A signal whose structure is taken is not pending as often as it may be.
LEMMA RemovedSignal ==
  ASSUME CoreInv, CoreInv', OnceInv, NEW s \in pendingset, removependingsignal(s), info' = info, twice' = twice
  PROVE  s \notin Crowded'
<1>1. /\ Range(sigpendingq') = Range(sigpendingq) \ {PendingSlot(s)}
      /\ PendingSlot(s) \in Range(sigpendingq) /\ info[PendingSlot(s)] = s
  BY PendingSlotIs DEF removependingsignal
<1>2. /\ CopySet(sigpendingq', info', s) = CopySet(sigpendingq, info, s) \ {PendingSlot(s)}
      /\ PendingSlot(s) \in CopySet(sigpendingq, info, s)
  BY <1>1 DEF CopySet
<1>3. /\ IsFiniteSet(CopySet(sigpendingq, info, s)) /\ Num(sigpendingq, info, s) \in Nat
      /\ s \in Signals
  BY PendingIs, NumIs
<1>4. Num(sigpendingq', info', s) = Num(sigpendingq, info, s) - 1
  BY <1>2, <1>3, FS_RemoveElement DEF Num
<1>5. Num(sigpendingq, info, s) <= Most(twice, s)
  BY <1>3 DEF OnceInv
<1> QED BY <1>3, <1>4, <1>5 DEF Crowded, Crowd, Most

\* Deliveries and returns keep UnmaskInv.
LEMMA UnmaskDelivers ==
  ASSUME CoreInv, CoreInv', OnceInv, UnmaskInv, Delivers
  PROVE  UnmaskInv'
<1>1. frames \in Seq(Frame) /\ (frames # <<>> => Top = frames[Len(frames)])
  BY TopIs DEF CoreInv, TypeOK
<1>2. Crowded' \subseteq Crowded /\ Crowded \subseteq pendingset
  BY DeliversShrink, OnceKept, CrowdedPending
<1> DEFINE S == Crowded \ sigprocmask
           T == Crowded' \ sigprocmask'
<1>3. Covered(S, frames)
  BY DEF UnmaskInv
<1>4. SUFFICES Covered(T, frames')
  BY DEF UnmaskInv
<1>5. CASE up_sigdeliver
  <2>1. PICK f \in Frame : frames' = Append(frames, f)
    BY <1>5, SigdeliverIs
  <2>2. T \in SUBSET S
    BY <1>2, <1>5, SigdeliverIs
  <2> HIDE DEF S, T
  <2> QED BY <1>1, <1>3, <2>1, <2>2, CoveredPush
<1>6. CASE DeliverFetch
  <2>1. T \in SUBSET S /\ frames # <<>> /\ Top.op = "deliver"
    BY <1>2, <1>6, FetchIs
  <2> HIDE DEF S, T
  <2>2. CASE frames' = Front(frames)
    BY <1>1, <1>3, <2>1, <2>2, CoveredPop
  <2>3. CASE ~ (frames' = Front(frames))
    <3>1. PICK f \in Frame : frames' = Change(f)
      BY <1>6, <2>3, FetchIs
    <3> QED BY <1>1, <1>3, <2>1, <3>1, CoveredChange DEF Change
  <2> QED BY <2>2, <2>3
<1>7. CASE DeliverTake
  <2>1. T \in SUBSET S /\ frames # <<>> /\ Top.op = "fetched"
    BY <1>2, <1>7, TakeIs
  <2>2. PICK f \in Frame : frames' = Change(f)
    BY <1>7, TakeIs
  <2> HIDE DEF S, T
  <2> QED BY <1>1, <1>3, <2>1, <2>2, CoveredChange DEF Change
<1>8. CASE HandlerReturns \/ SuspendReturns
  <2>1. frames # <<>>
    BY <1>8, RestoreIs
  <2>2. PICK f \in Frame : frames' = Change(f) /\ f.op = "unmask" /\ f.sigs = pendingset \ sigprocmask'
    BY <1>8, RestoreIs
  <2>3. T \subseteq f.sigs
    BY <1>2, <2>2
  <2> HIDE DEF S, T
  <2> QED BY <1>1, <2>1, <2>2, <2>3, CoveredTop DEF Change
<1>9. CASE UnmaskNext
  <2>1. T \in SUBSET S /\ frames # <<>> /\ Top.op = "unmask" /\ info' = info /\ twice' = twice
    BY <1>2, <1>9, UnmaskNextIs
  <2>2. PICK s \in Top.sigs : \E f \in Frame :
              /\ s \in Signals /\ f.op = "unmask" /\ f.sigs = Top.sigs \ {s} /\ f.next = Top.next
              /\ \/ /\ s \notin pendingset /\ frames' = Change(f)
                    /\ UNCHANGED <<sigpendingq, sigpendactionq>>
                 \/ /\ s \in pendingset /\ removependingsignal(s) /\ queueaction(s, FALSE)
                    /\ \E h \in Frame :
                         /\ frames' = Append(Change(f), h) /\ h.op = "deliver"
                         /\ h.next = IF sigpendactionq' = <<>> THEN NoEntry ELSE sigpendactionq'[1]
    BY <1>9, UnmaskNextIs
  <2>3. PICK f \in Frame :
              /\ s \in Signals /\ f.op = "unmask" /\ f.sigs = Top.sigs \ {s}
              /\ \/ s \notin pendingset /\ frames' = Change(f)
                 \/ /\ s \in pendingset /\ removependingsignal(s)
                    /\ \E h \in Frame : frames' = Append(Change(f), h)
    BY <2>2
  <2>4. s \notin Crowded'
    BY <1>2, <2>1, <2>3, RemovedSignal
  <2>5. s \notin T
    BY <2>4
  <2> HIDE DEF S, T
  <2>6. Covered(T, Change(f))
    BY <1>1, <1>3, <2>1, <2>3, <2>5, CoveredChange DEF Change
  <2>7. CASE frames' = Change(f)
    BY <2>6, <2>7
  <2>8. ASSUME NEW h \in Frame, frames' = Append(Change(f), h) PROVE Covered(T, frames')
    <3>1. Change(f) \in Seq(Frame)
      BY <1>1, <2>1, ChangeIs DEF Change
    <3>2. Covered(T, Append(Change(f), h))
      BY <2>6, <3>1, CoveredPush
    <3> QED BY <2>8, <3>2
  <2> QED BY <2>3, <2>7, <2>8
<1>10. CASE UnmaskRelease \/ UnmaskDone
  <2>1. T \in SUBSET S /\ frames # <<>> /\ Top.op = "unmask"
    BY <1>2, <1>10, UnmaskEndIs
  <2> HIDE DEF S, T
  <2>2. ASSUME NEW f \in Frame, frames' = Change(f), Top.sigs = {} \/ (f.op = "unmask" /\ f.sigs = Top.sigs)
        PROVE  Covered(T, frames')
    BY <1>1, <1>3, <2>1, <2>2, CoveredChange DEF Change
  <2>3. ASSUME Top.sigs = {}, frames' = Front(frames)
        PROVE  Covered(T, frames')
    BY <1>1, <1>3, <2>1, <2>3, CoveredPop
  <2> QED BY <1>10, <2>2, <2>3, UnmaskEndIs
<1>11. CASE TimedwaitReturns
  <2>1. T \in SUBSET S /\ frames # <<>> /\ Top.op # "unmask" /\ frames' = Front(frames)
    BY <1>2, <1>11, TimedwaitReturnsIs
  <2> HIDE DEF S, T
  <2> QED BY <1>1, <1>3, <2>1, CoveredPop
<1> QED BY <1>5, <1>6, <1>7, <1>8, <1>9, <1>10, <1>11 DEF Delivers

\* Every step keeps UnmaskInv.
LEMMA UnmaskInvNext ==
  ASSUME CoreInv, CoreInv', OnceInv, UnmaskInv, [Next]_vars
  PROVE  UnmaskInv'
<1> DEFINE S == Crowded \ sigprocmask
           T == Crowded' \ sigprocmask'
<1>1. Covered(S, frames) /\ frames \in Seq(Frame)
  BY DEF UnmaskInv, CoreInv, TypeOK
<1>2. CASE Others
  <2>1. T \in SUBSET S
    BY <1>2, OthersSame, OthersPending
  <2>2. Len(frames') = Len(frames) /\ \A i \in 1 .. Len(frames) : Keeps(frames[i], frames'[i])
    BY <1>2, OthersSame DEF SameCalls
  <2> HIDE DEF S, T
  <2>3. Covered(T, frames')
    BY <1>1, <2>1, <2>2 DEF Covered, Keeps
  <2> QED BY <2>3 DEF UnmaskInv, T
<1>3. CASE Delivers
  BY <1>3, UnmaskDelivers
<1>4. CASE Calls
  <2>1. PICK set \in SUBSET Signals :
          \/ SetMask(set) \/ SuspendBlocks(set)
          \/ TimedwaitPending(set) \/ TimedwaitBlocks(set)
          \/ SuspendPending(set)
    BY <1>4 DEF Calls
  <2>2. Crowded' \subseteq Crowded /\ Crowded \subseteq pendingset
    BY <1>4, CallsShrink, OnceKept, CrowdedPending
  <2>3. CASE SetMask(set) \/ SuspendBlocks(set)
    <3>1. PICK f \in Frame : /\ frames' = Append(frames, f)
                             /\ \/ f.op = "unmask" /\ f.sigs = pendingset \ set
                                \/ pendingset \ set = {}
      BY <2>3, UserCallIs
    <3>2. sigprocmask' = set
      BY <2>3, UserCallIs
    <3>3. T \subseteq pendingset \ set
      BY <2>2, <3>2
    <3>4. Len(frames') = Len(frames) + 1 /\ Len(frames) \in Nat /\ frames'[Len(frames) + 1] = f
      BY <1>1, <3>1, PushIs
    <3>5. Len(frames) + 1 \in 1 .. Len(frames')
      BY <3>4
    <3> HIDE DEF T
    <3>6. Covered(T, frames')
      BY <3>1, <3>3, <3>4, <3>5 DEF Covered
    <3> QED BY <3>6 DEF UnmaskInv, T
  <2>4. CASE TimedwaitPending(set) \/ TimedwaitBlocks(set)
    <3>1. PICK f \in Frame : frames' = Append(frames, f)
      BY <2>4, TimedwaitIs
    <3>2. T \in SUBSET S
      BY <2>2, <2>4, TimedwaitIs
    <3> HIDE DEF S, T
    <3>3. Covered(T, frames')
      BY <1>1, <3>1, <3>2, CoveredPush
    <3> QED BY <3>3 DEF UnmaskInv, T
  <2>5. CASE SuspendPending(set)
    <3>1. frames' = frames /\ sigprocmask' = sigprocmask
      BY <2>5 DEF SuspendPending
    <3> QED BY <1>1, <2>2, <3>1 DEF UnmaskInv, Covered
  <2> QED BY <2>1, <2>3, <2>4, <2>5
<1>5. CASE UNCHANGED vars
  BY <1>5 DEF vars, UnmaskInv, Crowded
<1> QED BY <1>2, <1>3, <1>4, <1>5 DEF Next, Others

\* In its own code, the receiver has the mask that it set, and what is pending is masked, up
\* to the second copy of a signal.
MasksExact == InUser => (\A s \in Signals \ sigprocmask : Copies(s) < Limit(s)) /\ sigprocmask = asked

LEMMA MasksCorrect == Spec => []MasksExact
<1> DEFINE I == CoreInv /\ OnceInv /\ MaskInv /\ UnmaskInv
<1>1. Init => I
  <2> SUFFICES ASSUME Init PROVE I
    OBVIOUS
  <2>1. CoreInv /\ OnceInv
    BY InitCore, InitOnce
  <2>2. pendingset = {} /\ Len(frames) = 0 /\ sigprocmask = asked
    BY DEF Init, pendingset
  <2>3. \A i : ~ (i \in 1 .. Len(frames))
    BY <2>2
  <2>4. Crowded = {}
    BY <2>1, <2>2, CrowdedPending
  <2>5. MaskInv /\ UnmaskInv
    BY <2>2, <2>3, <2>4 DEF MaskInv, MaskOK, UnmaskInv, Covered
  <2> QED BY <2>1, <2>5
<1>2. I /\ [Next]_vars => I'
  BY CoreNext, OnceNext, MaskNext, UnmaskInvNext
<1>3. I => MasksExact
  <2> SUFFICES ASSUME I, InUser
               PROVE  (\A s \in Signals \ sigprocmask : Copies(s) < Limit(s)) /\ sigprocmask = asked
    BY DEF MasksExact
  <2>1. frames = <<>> /\ Len(frames) = 0
    BY DEF InUser
  <2>2. \A i : ~ (i \in 1 .. Len(frames))
    BY <2>1
  <2>3. Crowded \subseteq sigprocmask
    BY <2>2 DEF UnmaskInv, Covered
  <2>4. ASSUME NEW s \in Signals \ sigprocmask PROVE Copies(s) < Limit(s)
    <3>1. ~ (Num(sigpendingq, info, s) >= Most(twice, s)) /\ Limit(s) = Most(twice, s)
      BY <2>3 DEF Crowded, Crowd, Limit, Most
    <3>2. Num(sigpendingq, info, s) \in Nat /\ Most(twice, s) \in {1, 2}
      BY PendingIs, NumIs DEF Most
    <3>3. Copies(s) = Num(sigpendingq, info, s)
      BY DEF Copies, Num, CopySet
    <3> QED BY <3>1, <3>2, <3>3
  <2> QED BY <2>1, <2>4, MaskInUser
<1> QED BY <1>1, <1>2, <1>3, PTL DEF Spec

-----------------------------------------------------------------------------
(* The actions.                                                            *)

\* What the call with frame f points to when it will go on with the first action of the queue q:
\* it is about to take that one, and will go on with the one behind it, or about to fetch it.
Second(q) == IF Len(q) > 1 THEN q[2] ELSE NoEntry
Walks(f, q) == IF f.op = "fetched" THEN f.cur = q[1] /\ f.next = Second(q) ELSE f.next = q[1]
Walked(fr, q) == q # <<>> => \E i \in 1 .. Len(fr) : Walks(fr[i], q)

\* EntriesLive, for the stack fr and the queue q.
Live(fr, q) ==
  \A i \in 1 .. Len(fr) :
    /\ fr[i].next \in Range(q) \union {NoEntry}
    /\ fr[i].op = "fetched" => fr[i].cur \in Range(q)

\* A call that is not a sig_deliver points to no action.
LinkOK(f) ==
  /\ f.op # "deliver" /\ f.cur = NoEntry => f.next = NoEntry
  /\ f.op \in {"timedwait", "return"} => f.next = NoEntry
LinksOK(fr) == \A i \in 1 .. Len(fr) : LinkOK(fr[i])

\* While actions are queued, the receiver is to continue in up_sigdeliver, or some call on the
\* stack goes on with the first one, unless a nested delivery took what a call points to.
EntryInv ==
  /\ Once(sigpendactionq)
  /\ LinksOK(frames)
  /\ ~ armed /\ Live(frames, sigpendactionq) => Walked(frames, sigpendactionq)

\* No entry is the one that stands for none.
LEMMA EntryIs == NoEntry \notin Entries
BY ConstantsAssumption DEF ConstantsAssumption, NoEntry, Entries

LEMMA LiveIs ==
  ASSUME CoreInv
  PROVE  EntriesLive <=> Live(frames, sigpendactionq)
<1>1. DOMAIN frames = 1 .. Len(frames) /\ Queued = Range(sigpendactionq)
  BY DEF CoreInv, TypeOK, Queued, Range
<1> QED BY <1>1 DEF EntriesLive, Live

\* A call is put on the stack, changed or taken off.
LEMMA LinksStep ==
  ASSUME NEW s \in Seq(Frame), LinksOK(s)
  PROVE  /\ \A f \in Frame : LinkOK(f) => LinksOK(Append(s, f))
         /\ s # <<>> => /\ \A f \in Frame : LinkOK(f) => LinksOK([s EXCEPT ![Len(s)] = f])
                        /\ LinksOK(Front(s)) /\ LinkOK(s[Len(s)])
<1>1. ASSUME NEW f \in Frame, LinkOK(f) PROVE LinksOK(Append(s, f))
  BY <1>1, PushIs DEF LinksOK
<1>2. ASSUME s # <<>>, NEW f \in Frame, LinkOK(f) PROVE LinksOK([s EXCEPT ![Len(s)] = f])
  BY <1>2, ChangeIs DEF LinksOK
<1>3. ASSUME s # <<>> PROVE LinksOK(Front(s)) /\ LinkOK(s[Len(s)])
  <2>1. /\ Len(s) \in Nat /\ Len(Front(s)) = Len(s) - 1 /\ \A i \in 1 .. Len(s) - 1 : Front(s)[i] = s[i]
        /\ Len(s) \in 1 .. Len(s)
    BY <1>3, PopIs
  <2>2. \A i \in 1 .. Len(s) - 1 : i \in 1 .. Len(s)
    BY <2>1
  <2> QED BY <2>1, <2>2 DEF LinksOK
<1> QED BY <1>1, <1>2, <1>3

\* The call that goes on with the first action stays when another one is put on the stack,
\* when the top changes to one that goes on with it if the old top did, and when one returns
\* that points to nothing.
LEMMA WalkedPush ==
  ASSUME NEW s \in Seq(Frame), NEW q, NEW f \in Frame, Walked(s, q) \/ (q # <<>> => Walks(f, q))
  PROVE  Walked(Append(s, f), q)
<1>1. /\ Len(s) \in Nat /\ Len(Append(s, f)) = Len(s) + 1 /\ Append(s, f)[Len(s) + 1] = f
      /\ \A i \in 1 .. Len(s) : Append(s, f)[i] = s[i]
  BY PushIs
<1>2. \A i \in 1 .. Len(s) : i \in 1 .. Len(s) + 1
  BY <1>1
<1>3. Len(s) + 1 \in 1 .. Len(s) + 1
  BY <1>1
<1> QED BY <1>1, <1>2, <1>3 DEF Walked

LEMMA WalkedChange ==
  ASSUME NEW s \in Seq(Frame), s # <<>>, NEW q, NEW f \in Frame, Walked(s, q),
         q # <<>> /\ Walks(s[Len(s)], q) => Walks(f, q)
  PROVE  Walked([s EXCEPT ![Len(s)] = f], q)
<1> DEFINE t == [s EXCEPT ![Len(s)] = f]
<1>1. /\ Len(s) \in 1 .. Len(s) /\ Len(t) = Len(s) /\ t[Len(s)] = f
      /\ \A i \in 1 .. Len(s) : i # Len(s) => t[i] = s[i]
  BY ChangeIs
<1> HIDE DEF t
<1>2. Walked(t, q)
  <2> SUFFICES ASSUME q # <<>> PROVE \E i \in 1 .. Len(t) : Walks(t[i], q)
    BY DEF Walked
  <2>1. PICK i \in 1 .. Len(s) : Walks(s[i], q)
    BY DEF Walked
  <2>2. Walks(t[i], q)
    BY <1>1, <2>1
  <2> QED BY <1>1, <2>2
<1> QED BY <1>2 DEF t

LEMMA WalkedPop ==
  ASSUME NEW s \in Seq(Frame), s # <<>>, NEW q \in Seq(Entries), Walked(s, q),
         s[Len(s)].op # "fetched", s[Len(s)].next = NoEntry
  PROVE  Walked(Front(s), q)
<1> SUFFICES ASSUME q # <<>> PROVE \E i \in 1 .. Len(Front(s)) : Walks(Front(s)[i], q)
  BY DEF Walked
<1>1. PICK i \in 1 .. Len(s) : Walks(s[i], q)
  BY DEF Walked
<1>2. q[1] \in Entries
  OBVIOUS
<1>3. i # Len(s)
  BY <1>1, <1>2, EntryIs DEF Walks
<1>4. i \in 1 .. Len(Front(s)) /\ Front(s)[i] = s[i]
  BY <1>3, PopIs
<1> QED BY <1>1, <1>4

\* A new action is not in the queue.
LEMMA QueueActionOnce ==
  ASSUME CoreInv, Once(sigpendactionq), NEW s \in Signals, NEW irq \in BOOLEAN, queueaction(s, irq)
  PROVE  Once(sigpendactionq')
<1>1. sigpendactionq \in Seq(Entries)
  BY DEF CoreInv, TypeOK
<1>2. ASSUME NEW e \in Entries, e.id \notin UsedIds, sigpendactionq' = Append(sigpendactionq, e)
      PROVE  Once(sigpendactionq')
  <2>1. e \notin Range(sigpendactionq)
    BY <1>2 DEF UsedIds, Range
  <2> QED BY <1>1, <1>2, <2>1, AppendRange
<1> QED BY <1>2, QueueActionIs

\* The entry behind the first one.
LEMMA FlinkFirst ==
  ASSUME CoreInv, sigpendactionq # <<>>
  PROVE  flink(sigpendactionq[1]) = Second(sigpendactionq)
<1> DEFINE q == sigpendactionq
           I == {i \in 1 .. Len(q) : q[i] = q[1]}
<1>1. q \in Seq(Entries) /\ Len(q) \in Nat /\ Len(q) > 0
  BY DEF CoreInv, TypeOK
<1>2. 1 \in I /\ I \in SUBSET Nat /\ \A i \in I : i >= 1
  BY <1>1
<1>3. SelectInSeq(q, LAMBDA x : x = q[1]) = Min(I)
  BY <1>2 DEF SelectInSeq
<1> HIDE DEF I
<1>4. Min(I) = 1
  <2>1. Min(I) \in I /\ \A y \in I : Min(I) <= y
    BY <1>2, LeastNumber
  <2> DEFINE m == Min(I)
  <2> HIDE DEF m
  <2>2. m \in Nat /\ m <= 1 /\ m >= 1
    BY <1>2, <2>1 DEF m
  <2>3. m = 1
    BY <2>2
  <2> QED BY <2>3 DEF m
<1>5. flink(q[1]) = IF 1 \in 1 .. Len(q) - 1 THEN q[1 + 1] ELSE NoEntry
  BY <1>3, <1>4 DEF flink
<1> HIDE DEF q
<1>6. 1 \in 1 .. Len(q) - 1 <=> Len(q) > 1
  BY <1>1
<1>7. flink(q[1]) = Second(q)
  BY <1>5, <1>6 DEF Second
<1> QED BY <1>7 DEF q

\* An action is taken: the call on top goes on with the first action of the rest if it did
\* with the first one, and so does any other call that points to actions of the rest only.
LEMMA WalkedTake ==
  ASSUME NEW s \in Seq(Frame), s # <<>>, NEW q \in Seq(Entries), Once(q), NEW f \in Frame,
         s[Len(s)].op = "fetched", s[Len(s)].cur \in Range(q), f.op = "handler", f.next = s[Len(s)].next,
         Walked(s, q), Live([s EXCEPT ![Len(s)] = f], RemoveFirst(q, s[Len(s)].cur))
  PROVE  Walked([s EXCEPT ![Len(s)] = f], RemoveFirst(q, s[Len(s)].cur))
<1> DEFINE e == s[Len(s)].cur
           t == [s EXCEPT ![Len(s)] = f]
           r == RemoveFirst(q, e)
<1>1. /\ Len(s) \in 1 .. Len(s) /\ Len(t) = Len(s) /\ t[Len(s)] = f
      /\ \A i \in 1 .. Len(s) : i # Len(s) => t[i] = s[i]
  BY ChangeIs
<1>2. r \in Seq(Entries) /\ e \in Range(q)
  BY RemoveFirstDrops
<1>3. PICK m \in 1 .. Len(q) : q[m] = e /\ DroppedAt(q, r, m)
  BY <1>2, RemoveFirstDrops
<1>4. Live(t, r) /\ s[Len(s)].cur = e
  OBVIOUS
<1> HIDE DEF e, t, r
<1>5. Range(r) = Range(q) \ {e}
  BY <1>2, <1>3, DroppedRange
<1>6. /\ Len(q) \in Nat /\ Len(r) = Len(q) - 1 /\ m \in Nat /\ m >= 1
      /\ \A j \in 1 .. Len(r) : r[j] = IF j < m THEN q[j] ELSE q[j + 1]
  BY <1>3 DEF DroppedAt
<1>7. Walked(t, r)
  <2> SUFFICES ASSUME r # <<>> PROVE \E i \in 1 .. Len(t) : Walks(t[i], r)
    BY DEF Walked
  <2>1. Len(r) >= 1 /\ Len(q) >= 2 /\ q # <<>>
    BY <1>2, <1>6
  <2>2. PICK i \in 1 .. Len(s) : Walks(s[i], q)
    BY <2>1 DEF Walked
  <2>3. CASE i = Len(s)
    <3>1. e = q[1] /\ f.next = q[2]
      BY <1>4, <2>1, <2>2, <2>3 DEF Walks, Second
    <3>2. m = 1
      BY <1>3, <2>1, <3>1, <1>6 DEF Once
    <3>3. r[1] = q[2]
      BY <1>6, <2>1, <3>2
    <3>4. Walks(t[i], r)
      BY <1>1, <2>3, <3>1, <3>3 DEF Walks
    <3> QED BY <1>1, <3>4
  <2>4. CASE i # Len(s)
    <3>1. t[i] = s[i] /\ i \in 1 .. Len(t)
      BY <1>1, <2>4
    <3>2. /\ s[i].next \in Range(r) \union {NoEntry}
          /\ s[i].op = "fetched" => s[i].cur \in Range(r)
      BY <1>4, <3>1 DEF Live
    <3>3. q[1] \in Entries /\ q[2] \in Entries
      BY <2>1
    <3>4. q[1] # e
      <4>1. CASE s[i].op = "fetched"
        BY <1>5, <2>2, <3>2, <4>1 DEF Walks
      <4>2. CASE s[i].op # "fetched"
        BY <1>5, <2>2, <3>2, <3>3, <4>2, EntryIs DEF Walks
      <4> QED BY <4>1, <4>2
    <3>5. m >= 2 /\ r[1] = q[1]
      <4>1. m # 1
        BY <1>3, <3>4
      <4> QED BY <1>6, <2>1, <4>1
    <3>6. CASE s[i].op # "fetched"
      BY <2>2, <3>1, <3>5, <3>6 DEF Walks
    <3>7. CASE s[i].op = "fetched"
      <4>1. s[i].cur = q[1] /\ s[i].next = q[2]
        BY <2>1, <2>2, <3>7 DEF Walks, Second
      <4>2. q[2] # e
        BY <1>5, <3>2, <3>3, <4>1, EntryIs
      <4>3. m >= 3
        <5>1. m # 2
          BY <1>3, <4>2
        <5> QED BY <1>6, <3>5, <5>1
      <4>4. Len(q) >= 3
        BY <1>6, <4>3
      <4>5. r[2] = q[2] /\ Len(r) > 1
        BY <1>6, <4>3, <4>4
      <4>6. Walks(s[i], r)
        BY <3>5, <3>7, <4>1, <4>5 DEF Walks, Second
      <4> QED BY <3>1, <4>6
    <3> QED BY <3>6, <3>7
  <2> QED BY <2>3, <2>4
<1> QED BY <1>7 DEF e, t, r

\* Deliveries and returns keep EntryInv.
LEMMA EntryDelivers ==
  ASSUME CoreInv, CoreInv', EntryInv, Delivers
  PROVE  EntryInv'
<1>1. /\ frames \in Seq(Frame) /\ sigpendactionq \in Seq(Entries) /\ Once(sigpendactionq) /\ LinksOK(frames)
      /\ (frames # <<>> => Top = frames[Len(frames)] /\ LinkOK(Top))
  BY TopIs, LinksStep DEF CoreInv, TypeOK, EntryInv
<1>2. EntriesLive
  BY DEF Delivers, up_sigdeliver, DeliverFetch, DeliverTake, HandlerReturns, UnmaskNext, UnmaskRelease,
         UnmaskDone, TimedwaitReturns, SuspendReturns, Continues
<1>3. ~ armed => Walked(frames, sigpendactionq)
  BY <1>2, LiveIs DEF EntryInv
<1>4. ASSUME ~ armed, frames # <<>>, sigpendactionq' = sigpendactionq, frames' = Front(frames),
             Top.op # "fetched", Top.next = NoEntry
      PROVE  EntryInv'
  <2>1. LinksOK(frames')
    BY <1>1, <1>4, LinksStep
  <2>2. Walked(frames', sigpendactionq')
    BY <1>1, <1>3, <1>4, WalkedPop
  <2> QED BY <1>1, <1>4, <2>1, <2>2 DEF EntryInv
<1>5. ASSUME ~ armed, frames # <<>>, sigpendactionq' = sigpendactionq, NEW f \in Frame, frames' = Change(f),
             LinkOK(f), Top.op # "fetched", f.op # "fetched", f.next = Top.next
      PROVE  EntryInv'
  <2>1. LinksOK(frames')
    BY <1>1, <1>5, LinksStep DEF Change
  <2>2. Walks(Top, sigpendactionq) => Walks(f, sigpendactionq)
    BY <1>5 DEF Walks
  <2>3. Walked(frames', sigpendactionq')
    BY <1>1, <1>3, <1>5, <2>2, WalkedChange DEF Change
  <2> QED BY <1>1, <1>5, <2>1, <2>3 DEF EntryInv
<1>6. CASE up_sigdeliver
  <2>1. PICK f \in Frame : /\ frames' = Append(frames, f) /\ f.op = "deliver"
                           /\ f.next = IF sigpendactionq = <<>> THEN NoEntry ELSE sigpendactionq[1]
    BY <1>6, SigdeliverIs
  <2>2. sigpendactionq' = sigpendactionq
    BY <1>6, SigdeliverIs
  <2>3. LinkOK(f) /\ (sigpendactionq # <<>> => Walks(f, sigpendactionq))
    BY <2>1 DEF LinkOK, Walks
  <2>4. LinksOK(frames')
    BY <1>1, <2>1, <2>3, LinksStep
  <2>5. Walked(frames', sigpendactionq')
    BY <1>1, <2>1, <2>2, <2>3, WalkedPush
  <2> QED BY <1>1, <2>2, <2>4, <2>5 DEF EntryInv
<1>7. CASE DeliverFetch
  <2>1. frames # <<>> /\ Top.op = "deliver" /\ sigpendactionq' = sigpendactionq /\ ~ armed
    BY <1>7, FetchIs
  <2>2. CASE Top.next = NoEntry /\ frames' = Front(frames)
    BY <1>4, <2>1, <2>2
  <2>3. ASSUME Top.next \in Entries, NEW f \in Frame, frames' = Change(f), f.op = "fetched",
               f.cur = Top.next, f.next = flink(Top.next)
        PROVE  EntryInv'
    <3>1. LinkOK(f)
      BY <2>3, EntryIs DEF LinkOK
    <3>2. LinksOK(frames')
      BY <1>1, <2>1, <2>3, <3>1, LinksStep DEF Change
    <3>3. sigpendactionq # <<>> /\ Walks(Top, sigpendactionq) => Walks(f, sigpendactionq)
      BY <2>1, <2>3, FlinkFirst DEF Walks
    <3>4. Walked(frames', sigpendactionq')
      BY <1>1, <1>3, <2>1, <2>3, <3>3, WalkedChange DEF Change
    <3> QED BY <1>1, <2>1, <3>2, <3>4 DEF EntryInv
  <2> QED BY <1>7, <2>2, <2>3, FetchIs
<1>8. CASE DeliverTake
  <2>1. /\ frames # <<>> /\ Top \in Frame /\ Top.op = "fetched" /\ ~ armed
        /\ sigpendactionq' = RemoveFirst(sigpendactionq, Top.cur)
    BY <1>8, TakeIs
  <2>2. PICK f \in Frame : frames' = Change(f) /\ f.op = "handler" /\ f.next = Top.next /\ f.cur = Top.cur
    BY <1>8, TakeIs
  <2>3. Top.cur \in Range(sigpendactionq)
    <3>1. Len(frames) \in 1 .. Len(frames)
      BY <1>1, <2>1
    <3> QED BY <1>1, <1>2, <2>1, <3>1, LiveIs DEF Live
  <2>4. Once(sigpendactionq')
    <3>1. PICK i \in 1 .. Len(sigpendactionq) : DroppedAt(sigpendactionq, sigpendactionq', i)
      BY <1>1, <2>1, <2>3, RemoveFirstDrops
    <3>2. sigpendactionq' \in Seq(Entries)
      BY DEF CoreInv, TypeOK
    <3> QED BY <1>1, <3>1, <3>2, DroppedRange
  <2>5. LinkOK(f)
    BY <1>1, <2>1, <2>2 DEF LinkOK
  <2>6. LinksOK(frames')
    BY <1>1, <2>1, <2>2, <2>5, LinksStep DEF Change
  <2>7. Live(frames', sigpendactionq') => Walked(frames', sigpendactionq')
    BY <1>1, <1>3, <2>1, <2>2, <2>3, WalkedTake DEF Change
  <2> QED BY <2>4, <2>6, <2>7 DEF EntryInv
<1>9. CASE HandlerReturns \/ SuspendReturns
  <2>1. frames # <<>> /\ Top.op \in {"handler", "suspend"} /\ sigpendactionq' = sigpendactionq /\ ~ armed
    BY <1>9, RestoreIs
  <2>2. PICK f \in Frame : frames' = Change(f) /\ f.op = "unmask" /\ f.next = Top.next /\ f.cur = Top.cur
    BY <1>9, RestoreIs
  <2>3. LinkOK(f)
    BY <1>1, <2>1, <2>2 DEF LinkOK
  <2> QED BY <1>5, <2>1, <2>2, <2>3
<1>10. CASE UnmaskNext
  <2>1. frames # <<>> /\ Top.op = "unmask" /\ ~ armed
    BY <1>10, UnmaskNextIs
  <2>2. PICK s \in Signals : \E f \in Frame :
          /\ f.op = "unmask" /\ f.next = Top.next /\ f.cur = Top.cur
          /\ \/ frames' = Change(f) /\ sigpendactionq' = sigpendactionq
             \/ /\ queueaction(s, FALSE)
                /\ \E h \in Frame : /\ frames' = Append(Change(f), h) /\ h.op = "deliver"
                                    /\ h.next = IF sigpendactionq' = <<>> THEN NoEntry ELSE sigpendactionq'[1]
    BY <1>10, UnmaskNextIs
  <2>3. PICK f \in Frame :
          /\ f.op = "unmask" /\ f.next = Top.next /\ f.cur = Top.cur
          /\ \/ frames' = Change(f) /\ sigpendactionq' = sigpendactionq
             \/ /\ queueaction(s, FALSE)
                /\ \E h \in Frame : /\ frames' = Append(Change(f), h) /\ h.op = "deliver"
                                    /\ h.next = IF sigpendactionq' = <<>> THEN NoEntry ELSE sigpendactionq'[1]
    BY <2>2
  <2>4. LinkOK(f)
    BY <1>1, <2>1, <2>3 DEF LinkOK
  <2>5. CASE frames' = Change(f) /\ sigpendactionq' = sigpendactionq
    BY <1>5, <2>1, <2>3, <2>4, <2>5
  <2>6. ASSUME queueaction(s, FALSE), NEW h \in Frame, frames' = Append(Change(f), h), h.op = "deliver",
               h.next = IF sigpendactionq' = <<>> THEN NoEntry ELSE sigpendactionq'[1]
        PROVE  EntryInv'
    <3>1. Change(f) \in Seq(Frame) /\ LinksOK(Change(f))
      BY <1>1, <2>1, <2>4, LinksStep, ChangeIs DEF Change
    <3>2. LinkOK(h) /\ (sigpendactionq' # <<>> => Walks(h, sigpendactionq'))
      BY <2>6 DEF LinkOK, Walks
    <3>3. LinksOK(frames')
      BY <2>6, <3>1, <3>2, LinksStep
    <3>4. Walked(frames', sigpendactionq')
      BY <2>6, <3>1, <3>2, WalkedPush
    <3>5. Once(sigpendactionq')
      BY <1>1, <2>6, QueueActionOnce
    <3> QED BY <3>3, <3>4, <3>5 DEF EntryInv
  <2> QED BY <2>3, <2>5, <2>6
<1>11. CASE UnmaskRelease \/ UnmaskDone
  <2>1. frames # <<>> /\ Top.op = "unmask" /\ sigpendactionq' = sigpendactionq /\ ~ armed
    BY <1>11, UnmaskEndIs
  <2>2. \/ \E f \in Frame : frames' = Change(f) /\ f.op = "unmask" /\ f.next = Top.next /\ f.cur = Top.cur
        \/ \E f \in Frame : frames' = Change(f) /\ f.op = "deliver" /\ f.next = Top.next
        \/ frames' = Front(frames) /\ Top.cur = NoEntry
    BY <1>11, UnmaskEndIs
  <2>3. ASSUME NEW f \in Frame, frames' = Change(f), f.next = Top.next,
               f.op = "deliver" \/ (f.op = "unmask" /\ f.cur = Top.cur)
        PROVE  EntryInv'
    <3>1. LinkOK(f)
      BY <1>1, <2>1, <2>3 DEF LinkOK
    <3> QED BY <1>5, <2>1, <2>3, <3>1
  <2>4. CASE frames' = Front(frames) /\ Top.cur = NoEntry
    <3>1. Top.next = NoEntry
      BY <1>1, <2>1, <2>4 DEF LinkOK
    <3> QED BY <1>4, <2>1, <2>4, <3>1
  <2> QED BY <2>2, <2>3, <2>4
<1>12. CASE TimedwaitReturns
  <2>1. /\ frames # <<>> /\ Top.op \in {"timedwait", "return"} /\ sigpendactionq' = sigpendactionq /\ ~ armed
        /\ frames' = Front(frames)
    BY <1>12, TimedwaitReturnsIs
  <2>2. Top.next = NoEntry
    BY <1>1, <2>1 DEF LinkOK
  <2> QED BY <1>4, <2>1, <2>2
<1> QED BY <1>6, <1>7, <1>8, <1>9, <1>10, <1>11, <1>12 DEF Delivers

\* So do the sender, the handlers and the watchdog.
LEMMA EntryOthers ==
  ASSUME CoreInv, EntryInv, Others
  PROVE  EntryInv'
<1>1. SameCalls
  BY OthersSame
<1>2. LinksOK(frames')
  BY <1>1 DEF EntryInv, LinksOK, LinkOK, SameCalls, Keeps
<1>3. ASSUME UNCHANGED <<sigpendactionq, armed>>
      PROVE  EntryInv'
  <2>1. Live(frames', sigpendactionq) <=> Live(frames, sigpendactionq)
    BY <1>1 DEF Live, SameCalls, Keeps
  <2>2. Walked(frames', sigpendactionq) <=> Walked(frames, sigpendactionq)
    BY <1>1 DEF Walked, Walks, SameCalls, Keeps
  <2> QED BY <1>2, <1>3, <2>1, <2>2 DEF EntryInv
<1>4. ASSUME NEW s \in Signals, NEW irq \in BOOLEAN, Unmasked(s, irq)
      PROVE  EntryInv'
  <2>1. armed' /\ queueaction(s, irq)
    BY <1>4 DEF Unmasked
  <2>2. Once(sigpendactionq')
    BY <2>1, QueueActionOnce DEF EntryInv
  <2> QED BY <1>2, <2>1, <2>2 DEF EntryInv
<1>5. \/ UNCHANGED <<sigpendactionq, armed>>
      \/ \E s \in Signals, irq \in BOOLEAN : Unmasked(s, irq)
  BY SignalsAre DEF Others, SendUnmasked, SendMasked, SendAdds, Interrupt, sig_timeout
<1> QED BY <1>3, <1>4, <1>5

\* Every step keeps EntryInv.
LEMMA EntryNext ==
  ASSUME CoreInv, CoreInv', EntryInv, [Next]_vars
  PROVE  EntryInv'
<1>1. CASE Delivers
  BY <1>1, EntryDelivers
<1>2. CASE Others
  BY <1>2, EntryOthers
<1>3. CASE Calls
  <2>1. PICK set \in SUBSET Signals :
          \/ SetMask(set) \/ SuspendBlocks(set)
          \/ TimedwaitPending(set) \/ TimedwaitBlocks(set)
          \/ SuspendPending(set)
    BY <1>3 DEF Calls
  <2>2. CASE SuspendPending(set)
    BY <2>2 DEF SuspendPending, EntryInv
  <2>3. CASE ~ SuspendPending(set)
    <3>1. EntriesLive
      <4>1. frames = <<>> => EntriesLive
        BY DEF EntriesLive
      <4> QED BY <2>1, <2>3, <4>1 DEF SetMask, SuspendBlocks, InUser, TimedwaitPending, TimedwaitBlocks, MayWait
    <3>2. ~ armed /\ sigpendactionq' = sigpendactionq
      BY <2>1, <2>3, UserCallIs, TimedwaitIs
    <3>3. PICK f \in Frame : frames' = Append(frames, f) /\ f.next = NoEntry
      BY <2>1, <2>3, UserCallIs, TimedwaitIs
    <3>4. frames \in Seq(Frame) /\ LinksOK(frames) /\ LinkOK(f) /\ Walked(frames, sigpendactionq)
      BY <3>1, <3>2, <3>3, LiveIs DEF CoreInv, TypeOK, EntryInv, LinkOK
    <3>5. LinksOK(frames') /\ Walked(frames', sigpendactionq')
      BY <3>2, <3>3, <3>4, LinksStep, WalkedPush
    <3> QED BY <3>2, <3>5 DEF EntryInv
  <2> QED BY <2>2, <2>3
<1>4. CASE UNCHANGED vars
  BY <1>4 DEF vars, EntryInv
<1> QED BY <1>1, <1>2, <1>3, <1>4 DEF Next, Others

\* The initial state.
LEMMA InitEntry == Init => EntryInv
<1> SUFFICES ASSUME Init PROVE EntryInv
  OBVIOUS
<1>1. sigpendactionq = <<>> /\ frames = <<>> /\ Len(frames) = 0 /\ Len(sigpendactionq) = 0
  BY DEF Init
<1>2. \A i : ~ (i \in 1 .. Len(frames)) /\ ~ (i \in 1 .. Len(sigpendactionq))
  BY <1>1
<1> QED BY <1>1, <1>2 DEF EntryInv, Once, LinksOK, Walked

\* When the receiver is back in its own code, every action was run, however many were queued,
\* its mask is the one that it set, and every signal that is not masked was delivered, up to the
\* second copy of one that a thread and a handler added (sig_deliver, sig_unmaskpendingsignal,
\* sigsuspend).
THEOREM DeliveryCorrect == Spec => []NothingForgotten
<1>1. Spec => []MasksExact
  BY MasksCorrect
<1>2. Init => CoreInv /\ EntryInv
  BY InitCore, InitEntry
<1>3. (CoreInv /\ EntryInv) /\ [Next]_vars => (CoreInv /\ EntryInv)'
  BY CoreNext, EntryNext
<1>4. CoreInv /\ EntryInv /\ MasksExact => NothingForgotten
  <2> SUFFICES ASSUME CoreInv, EntryInv, InUser PROVE sigpendactionq = <<>>
    BY DEF NothingForgotten, MasksExact
  <2>1. ~ armed /\ Len(frames) = 0
    BY DEF InUser
  <2>2. \A i : ~ (i \in 1 .. Len(frames))
    BY <2>1
  <2>3. Live(frames, sigpendactionq)
    BY <2>2 DEF Live
  <2> QED BY <2>1, <2>2, <2>3 DEF EntryInv, Walked
<1> QED BY <1>1, <1>2, <1>3, <1>4, PTL DEF Spec

-----------------------------------------------------------------------------
(* The result of sigtimedwait.                                             *)

\* Handlers do not wait for signals, and there is a watchdog for every timed wait.
WaitsOutside == HandlersWait = FALSE /\ WatchdogsRunOut = FALSE

\* Only the outermost call waits, and what it got is what sigunbinfo says until it returns.
OuterOnly(fr) == \A i \in 1 .. Len(fr) : fr[i].op \in {"timedwait", "suspend"} => i = 1
Result(fr, unb) == fr # <<>> /\ fr[1].op = "timedwait" => unb = fr[1].got
OuterInv ==
  /\ OuterOnly(frames)
  /\ task # "waits" => Result(frames, sigunbinfo)

\* A call that does not wait is put on the stack, or the call on top becomes or was one.
LEMMA OuterStep ==
  ASSUME NEW s \in Seq(Frame), OuterOnly(s), NEW unb, Result(s, unb),
         NEW f \in Frame, f.op \notin {"timedwait", "suspend"}
  PROVE  /\ OuterOnly(Append(s, f)) /\ Result(Append(s, f), unb)
         /\ s # <<>> => OuterOnly([s EXCEPT ![Len(s)] = f]) /\ Result([s EXCEPT ![Len(s)] = f], unb)
         /\ s # <<>> => OuterOnly(Front(s)) /\ Result(Front(s), unb)
<1>1. OuterOnly(Append(s, f)) /\ Result(Append(s, f), unb)
  <2> DEFINE t == Append(s, f)
  <2>1. /\ Len(s) \in Nat /\ Len(t) = Len(s) + 1 /\ t[Len(s) + 1] = f
        /\ \A i \in 1 .. Len(s) : t[i] = s[i]
        /\ \A i \in 1 .. Len(s) + 1 : i \in 1 .. Len(s) \/ i = Len(s) + 1
    BY PushIs
  <2> HIDE DEF t
  <2>2. OuterOnly(t)
    BY <2>1 DEF OuterOnly
  <2>3. CASE s = <<>>
    <3>1. t[1] = f
      BY <2>1, <2>3
    <3> QED BY <2>2, <3>1 DEF Result, t
  <2>4. CASE s # <<>>
    <3>1. 1 \in 1 .. Len(s)
      BY <2>4
    <3>2. t[1] = s[1]
      BY <2>1, <3>1
    <3> QED BY <2>2, <2>4, <3>2 DEF Result, t
  <2> QED BY <2>3, <2>4
<1>2. ASSUME s # <<>> PROVE OuterOnly([s EXCEPT ![Len(s)] = f]) /\ Result([s EXCEPT ![Len(s)] = f], unb)
  <2> DEFINE t == [s EXCEPT ![Len(s)] = f]
  <2>1. /\ Len(s) \in Nat /\ Len(t) = Len(s) /\ t[Len(s)] = f /\ Len(s) \in 1 .. Len(s)
        /\ \A i \in 1 .. Len(s) : i # Len(s) => t[i] = s[i]
    BY <1>2, ChangeIs
  <2> HIDE DEF t
  <2>2. OuterOnly(t)
    BY <2>1 DEF OuterOnly
  <2>3. t[1] = f \/ t[1] = s[1]
    <3>1. 1 \in 1 .. Len(s)
      BY <2>1
    <3> QED BY <2>1, <3>1
  <2> QED BY <1>2, <2>2, <2>3 DEF Result, t
<1>3. ASSUME s # <<>> PROVE OuterOnly(Front(s)) /\ Result(Front(s), unb)
  <2> DEFINE t == Front(s)
  <2>1. /\ t \in Seq(Frame) /\ Len(s) \in Nat /\ Len(t) = Len(s) - 1
        /\ \A i \in 1 .. Len(s) - 1 : t[i] = s[i]
    BY <1>3, PopIs
  <2> HIDE DEF t
  <2>2. \A i \in 1 .. Len(t) : i \in 1 .. Len(s) /\ t[i] = s[i]
    BY <2>1
  <2>3. OuterOnly(t)
    BY <2>2 DEF OuterOnly
  <2>4. t # <<>> => t[1] = s[1]
    <3>1. t # <<>> => 1 \in 1 .. Len(t)
      BY <2>1
    <3> QED BY <2>2, <3>1
  <2> QED BY <1>3, <2>3, <2>4 DEF Result, t
<1> QED BY <1>1, <1>2, <1>3

\* The call that ends its wait is the outermost one.
LEMMA OuterEnds ==
  ASSUME CoreInv, OuterInv, task = "waits", NEW s \in Signals \union {NoSignal, Timeout},
         frames' = Change([Top EXCEPT !.got = s]), sigunbinfo' = s
  PROVE  OuterInv'
<1>1. frames # <<>> /\ Top.op \in {"timedwait", "suspend"}
  BY DEF CoreInv, WaitInv
<1>2. Top = frames[Len(frames)] /\ Len(frames) \in 1 .. Len(frames)
  BY <1>1, TopIs
<1>3. Len(frames) = 1
  BY <1>1, <1>2 DEF OuterInv, OuterOnly
<1>4. SameCalls /\ frames'[Len(frames)].got = s
  BY <1>1, EndsSame
<1>5. OuterOnly(frames')
  BY <1>4 DEF OuterInv, OuterOnly, SameCalls, Keeps
<1>6. frames'[1].got = s
  BY <1>3, <1>4
<1> QED BY <1>5, <1>6 DEF OuterInv, Result

\* Every step keeps OuterInv.
LEMMA OuterNext ==
  ASSUME WaitsOutside, CoreInv, OuterInv, [Next]_vars
  PROVE  OuterInv'
<1>1. frames \in Seq(Frame) /\ OuterOnly(frames)
  BY DEF CoreInv, TypeOK, OuterInv
<1>2. ASSUME task # "waits", NEW f \in Frame, f.op \notin {"timedwait", "suspend"}, sigunbinfo' = sigunbinfo,
             frames' = Append(frames, f) \/ (frames # <<>> /\ (frames' = Change(f) \/ frames' = Front(frames)))
      PROVE  OuterInv'
  <2>1. Result(frames, sigunbinfo)
    BY <1>2 DEF OuterInv
  <2>2. OuterOnly(frames') /\ Result(frames', sigunbinfo)
    BY <1>1, <1>2, <2>1, OuterStep DEF Change
  <2> QED BY <1>2, <2>2 DEF OuterInv
<1>3. ASSUME NEW s \in Signals, Unblock(s) PROVE OuterInv'
  <2>1. CASE task = "waits"
    BY <1>3, <2>1, OuterEnds DEF Unblock
  <2>2. CASE task # "waits"
    BY <1>3, <2>2 DEF Unblock, OuterInv
  <2> QED BY <2>1, <2>2
<1>4. ASSUME UNCHANGED <<task, frames, sigunbinfo>> PROVE OuterInv'
  BY <1>4 DEF OuterInv
<1>5. CASE Others
  <2>1. ASSUME NEW s \in ThreadSignals, SendUnmasked(s) PROVE OuterInv'
    BY <1>3, <2>1, SignalsAre DEF SendUnmasked, Unmasked
  <2>2. ASSUME NEW s \in ThreadSignals, SendMasked(s) PROVE OuterInv'
    <3>1. Unblock(s) \/ UNCHANGED <<task, frames, sigunbinfo>>
      BY <2>2 DEF SendMasked
    <3> QED BY <1>3, <1>4, <3>1, SignalsAre
  <2>3. CASE SendAdds
    BY <1>4, <2>3 DEF SendAdds
  <2>4. ASSUME NEW s \in IrqSignals, Interrupt(s) PROVE OuterInv'
    <3>1. Unblock(s) \/ UNCHANGED <<task, frames, sigunbinfo>>
      BY <2>4 DEF Interrupt, Unmasked
    <3> QED BY <1>3, <1>4, <3>1, SignalsAre
  <2>5. CASE sig_timeout
    BY <2>5, OuterEnds DEF sig_timeout
  <2> QED BY <1>5, <2>1, <2>2, <2>3, <2>4, <2>5 DEF Others
<1>6. Empty \in Frame /\ Empty.op = "deliver"
  BY FramesAre DEF Empty
<1>7. CASE Delivers
  <2>1. CASE up_sigdeliver
    BY <1>2, <2>1, SigdeliverIs
  <2>2. CASE DeliverFetch
    BY <1>2, <1>6, <2>2, FetchIs
  <2>3. CASE DeliverTake
    BY <1>2, <2>3, TakeIs
  <2>4. CASE HandlerReturns \/ SuspendReturns
    BY <1>2, <2>4, RestoreIs
  <2>5. CASE UnmaskNext
    <3>1. frames # <<>> /\ task # "waits" /\ sigunbinfo' = sigunbinfo /\ task' = "runs"
      BY <2>5, UnmaskNextIs
    <3>2. PICK f \in Frame : /\ f.op = "unmask"
                             /\ \/ frames' = Change(f)
                                \/ \E h \in Frame : frames' = Append(Change(f), h) /\ h.op = "deliver"
      BY <2>5, UnmaskNextIs
    <3>3. Result(frames, sigunbinfo)
      BY <3>1 DEF OuterInv
    <3>4. Change(f) \in Seq(Frame) /\ OuterOnly(Change(f)) /\ Result(Change(f), sigunbinfo)
      BY <1>1, <3>1, <3>2, <3>3, OuterStep, ChangeIs DEF Change
    <3>5. ASSUME NEW h \in Frame, h.op = "deliver"
          PROVE  OuterOnly(Append(Change(f), h)) /\ Result(Append(Change(f), h), sigunbinfo)
      BY <3>4, <3>5, OuterStep
    <3>6. OuterOnly(frames') /\ Result(frames', sigunbinfo)
      BY <3>2, <3>4, <3>5
    <3> QED BY <3>1, <3>6 DEF OuterInv
  <2>6. CASE UnmaskRelease \/ UnmaskDone
    <3>1. frames # <<>> /\ task # "waits" /\ sigunbinfo' = sigunbinfo
      BY <2>6, UnmaskEndIs
    <3>2. \/ \E f \in Frame : frames' = Change(f) /\ f.op \in {"unmask", "deliver"}
          \/ frames' = Front(frames)
      BY <2>6, UnmaskEndIs
    <3> QED BY <1>2, <1>6, <3>1, <3>2
  <2>7. CASE TimedwaitReturns
    BY <1>2, <1>6, <2>7, TimedwaitReturnsIs
  <2> QED BY <1>7, <2>1, <2>2, <2>3, <2>4, <2>5, <2>6, <2>7 DEF Delivers
<1>8. CASE Calls
  <2>1. PICK set \in SUBSET Signals :
          \/ SetMask(set) \/ SuspendBlocks(set)
          \/ TimedwaitPending(set) \/ TimedwaitBlocks(set)
          \/ SuspendPending(set)
    BY <1>8 DEF Calls
  <2>2. CASE SuspendPending(set)
    BY <1>4, <2>2 DEF SuspendPending
  <2>3. CASE ~ SuspendPending(set)
    <3>1. frames = <<>> /\ sigunbinfo' = sigunbinfo
      BY <2>1, <2>3, UserCallIs, TimedwaitIs DEF WaitsOutside
    <3>2. PICK f \in Frame : frames' = Append(frames, f)
      BY <2>1, <2>3, UserCallIs, TimedwaitIs
    <3>3. Len(frames') = 1 /\ frames'[1] = f
      BY <3>1, <3>2
    <3>4. OuterOnly(frames')
      BY <3>3 DEF OuterOnly
    <3>5. task' = "waits" \/ f.op # "timedwait"
      <4>1. CASE SetMask(set)
        <5>1. frames' = <<[Empty EXCEPT !.op = "unmask", !.sigs = pendingset \ set]>>
          BY <4>1 DEF SetMask
        <5>2. [Empty EXCEPT !.op = "unmask", !.sigs = pendingset \ set].op = "unmask"
          BY DEF Empty
        <5> QED BY <3>3, <5>1, <5>2
      <4>2. CASE SuspendBlocks(set)
        BY <4>2 DEF SuspendBlocks
      <4>3. CASE TimedwaitPending(set) \/ TimedwaitBlocks(set)
        <5>1. PICK g \in Frame : /\ frames' = Append(frames, g)
                                 /\ g.op = "return" \/ (g.op = "timedwait" /\ (task' = "waits" \/ WatchdogsRunOut))
          BY <4>3, TimedwaitIs
        <5>2. g = f
          BY <3>1, <3>3, <5>1
        <5> QED BY <5>1, <5>2 DEF WaitsOutside
      <4> QED BY <2>1, <2>3, <4>1, <4>2, <4>3
    <3> QED BY <3>3, <3>4, <3>5 DEF OuterInv, Result
  <2> QED BY <2>2, <2>3
<1>9. CASE UNCHANGED vars
  BY <1>4, <1>9 DEF vars
<1> QED BY <1>5, <1>7, <1>8, <1>9 DEF Next, Others

\* If handlers do not wait themselves and no wait lacks a watchdog: what sigtimedwait returns is
\* what ended its wait, although other signals, the timeout and handlers come before the receiver
\* runs again (sig_timedwait.c, sig_timeout and sig_tcbdispatch).
THEOREM ResultCorrect ==
  ASSUME WaitsOutside
  PROVE  Spec => []ResultExact
<1>1. Init => CoreInv /\ OuterInv
  <2> SUFFICES ASSUME Init PROVE OuterInv
    BY InitCore
  <2>1. frames = <<>> /\ Len(frames) = 0
    BY DEF Init
  <2>2. \A i : ~ (i \in 1 .. Len(frames))
    BY <2>1
  <2> QED BY <2>1, <2>2 DEF OuterInv, OuterOnly, Result
<1>2. (CoreInv /\ OuterInv) /\ [Next]_vars => (CoreInv /\ OuterInv)'
  BY CoreNext, OuterNext
<1>3. CoreInv /\ OuterInv => ResultExact
  <2> SUFFICES ASSUME CoreInv, OuterInv, frames # <<>>, task # "waits", Top.op = "timedwait"
               PROVE  sigunbinfo = Top.got
    BY DEF ResultExact
  <2>1. Top = frames[Len(frames)] /\ Len(frames) \in 1 .. Len(frames)
    BY TopIs
  <2>2. Len(frames) = 1
    BY <2>1 DEF OuterInv, OuterOnly
  <2> QED BY <2>1, <2>2 DEF OuterInv, Result
<1> QED BY <1>1, <1>2, <1>3, PTL DEF Spec
=============================================================================
