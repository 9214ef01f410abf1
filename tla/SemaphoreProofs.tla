-------------------------- MODULE SemaphoreProofs --------------------------
(***************************************************************************)
(* Proofs about Semaphore for any number of threads and semaphores, any    *)
(* priorities, and any number of holder containers.                        *)
(*                                                                         *)
(* The theorems assume that no thread signals or deletes another one       *)
(* (Signallers = {}): waits end by a post, a timeout or a signal from an   *)
(* interrupt handler, and threads may exit at any time.  Without that      *)
(* assumption they are false, see README.md, section 3.2.                  *)
(*                                                                         *)
(* Priorities decide who runs and who is woken, and holder lists decide    *)
(* priorities; the counts do not depend on either.  So each action is      *)
(* first reduced to its effect on the variables of the wait and post       *)
(* protocol, and ProtocolInv is proved of these effects.  On top of it     *)
(* come HoldersInv (what the holder lists charge, while containers         *)
(* suffice), InheritInv (types and order of the priorities) and PairInv    *)
(* (the priorities of two threads that share a lock).                      *)
(***************************************************************************)
EXTENDS Semaphore, FiniteSetTheorems, SequenceTheorems, WellFoundedInduction, TLAPS

-----------------------------------------------------------------------------
(* The inductive invariant.                                                *)

\* A waiting thread is in sem_wait for the semaphore its TCB names, its errno
\* is still clear, and it does not own what it waits for.
WaitConsistent ==
  /\ \A t \in Tasks : cont[t].kind # "cancel"
  /\ \A t \in Tasks :
       cont[t].kind = "wait" => cont[t].sem \in Sems /\ cont[t].sem \notin locks[t]
  /\ \A t \in Tasks :
       task_state[t] = "WAIT_SEM" =>
         /\ waitsem[t] \in Sems
         /\ cont[t].kind = "wait"
         /\ cont[t].sem = waitsem[t]
         /\ pterrno[t] = "OK"

ProtocolInv ==
  /\ ProtocolTypeOK
  /\ WaitConsistent
  /\ CountMatchesWaiters
  /\ CountsConserved

-----------------------------------------------------------------------------
(* The effects of the actions on the protocol variables.                   *)

EffTake(t, s) ==
  /\ cont[t] = NoCont /\ Ready(t)
  /\ s \notin locks[t]
  /\ semcount[s] > 0
  /\ semcount' = [semcount EXCEPT ![s] = @ - 1]
  /\ waitsem' = [waitsem EXCEPT ![t] = NoSem]
  /\ locks' = OwnLock(t, s)
  /\ UNCHANGED <<task_state, pterrno, waitdog, cont>>

EffBlock(t, s) ==
  /\ cont[t] = NoCont /\ Ready(t)
  /\ s \notin locks[t]
  /\ semcount[s] <= 0
  /\ semcount' = [semcount EXCEPT ![s] = @ - 1]
  /\ waitsem' = [waitsem EXCEPT ![t] = s]
  /\ pterrno' = [pterrno EXCEPT ![t] = "OK"]
  /\ task_state' = [task_state EXCEPT ![t] = "WAIT_SEM"]
  /\ waitdog' \in {waitdog, waitdog \union {t}}
  /\ cont' = [cont EXCEPT ![t] = [kind |-> "wait", sem |-> s]]
  /\ UNCHANGED locks

EffReturn(t) ==
  /\ Ready(t)
  /\ cont[t].kind = "wait"
  /\ waitdog' = waitdog \ {t}
  /\ locks' = IF pterrno[t] = "OK" THEN OwnLock(t, cont[t].sem) ELSE locks
  /\ cont' = [cont EXCEPT ![t] = NoCont]
  /\ UNCHANGED <<task_state, waitsem, pterrno, semcount>>

\* A post that leaves the count free; a post by a thread also gives up a lock.
EffCount(s) ==
  /\ Waiters(s) = {} \/ semcount[s] >= 0
  /\ semcount[s] < SEM_VALUE_MAX
  /\ semcount' = [semcount EXCEPT ![s] = @ + 1]
  /\ UNCHANGED <<task_state, waitsem, pterrno, waitdog, cont>>

EffWake(s, w) ==
  /\ semcount[s] < 0
  /\ w \in Waiters(s)
  /\ semcount[s] < SEM_VALUE_MAX
  /\ semcount' = [semcount EXCEPT ![s] = @ + 1]
  /\ task_state' = [task_state EXCEPT ![w] = "READY"]
  /\ waitsem' = [waitsem EXCEPT ![w] = NoSem]
  /\ UNCHANGED <<pterrno, waitdog>>

EffPost(r, s) ==
  /\ cont[r] = NoCont /\ Ready(r)
  /\ s \in LockSems => s \in locks[r]
  /\ locks' = DropLock(r, s)
  /\ \/ EffCount(s)
     \/ /\ \E w \in Tasks : EffWake(s, w)
        /\ \E b \in BOOLEAN :
             cont' \in {cont, [cont EXCEPT ![r] = [kind |-> "post", sem |-> s, wipe |-> b]]}

EffInject(s) ==
  /\ s \notin LockSems
  /\ UNCHANGED locks
  /\ \/ EffCount(s)
     \/ (\E w \in Tasks : EffWake(s, w)) /\ UNCHANGED cont

EffResume(r) ==
  /\ cont[r].kind = "post"
  /\ cont' = [cont EXCEPT ![r] = NoCont]
  /\ UNCHANGED <<task_state, waitsem, pterrno, waitdog, semcount, locks>>

EffCancel(w) ==
  /\ task_state[w] = "WAIT_SEM"
  /\ waitdog' \in {waitdog, waitdog \ {w}}
  /\ semcount' = [semcount EXCEPT ![waitsem[w]] = @ + 1]
  /\ waitsem' = [waitsem EXCEPT ![w] = NoSem]
  /\ task_state' = [task_state EXCEPT ![w] = "READY"]
  /\ \E err \in {"EINTR", "ETIMEDOUT"} : pterrno' = [pterrno EXCEPT ![w] = err]
  /\ UNCHANGED <<cont, locks>>

EffDie(w) ==
  /\ Ready(w)
  /\ task_state' = [task_state EXCEPT ![w] = "DEAD"]
  /\ waitdog' = waitdog \ {w}
  /\ UNCHANGED <<waitsem, pterrno, semcount, cont, locks>>

EffNone ==
  /\ waitdog' \in SUBSET waitdog
  /\ UNCHANGED <<task_state, waitsem, pterrno, semcount, cont, locks>>

\* The effect of each action, when no thread signals another.
LEMMA ActionEffects ==
  ASSUME ProtocolInv, Signallers = {}
  PROVE  /\ \A t \in Tasks, s \in Sems :
              /\ Take(t, s) \/ TakeIsr(t, s) => EffTake(t, s)
              /\ Block(t, s, FALSE) \/ Block(t, s, TRUE) \/ BlockIsr(t, s) => EffBlock(t, s)
              /\ Post(t, s) => EffPost(t, s)
         /\ \A r \in Tasks \union {NoTask}, s \in Sems : IrqPost(r, s) => EffInject(s)
         /\ \A s \in Sems : PostFromIsr(s) => EffInject(s)
         /\ \A t \in Tasks : /\ WaitReturn(t) => EffReturn(t)
                             /\ PostResume(t) => EffResume(t)
                             /\ ~ CancelResume(t)
         /\ \A w \in Tasks : /\ Timeout(w) => EffCancel(w) \/ EffNone
                             /\ SignalIrq(w) => EffCancel(w)
                             /\ Die(w) => EffDie(w)
         /\ \A r \in Tasks, w \in Tasks : ~ SignalTask(r, w) /\ ~ KillWaiter(r, w)
<1>1. ASSUME NEW t \in Tasks, NEW s \in Sems, Take(t, s)
      PROVE  EffTake(t, s)
  BY <1>1 DEF Take, EffTake, Free, Running, MayWait
<1>2. ASSUME NEW t \in Tasks, NEW s \in Sems, NEW timed \in BOOLEAN, Block(t, s, timed)
      PROVE  EffBlock(t, s)
  BY <1>2 DEF Block, EffBlock, Free, Running, MayWait
<1>3. ASSUME NEW t \in Tasks, NEW s \in Sems, TakeIsr(t, s)
      PROVE  EffTake(t, s)
  <2>1. s \notin LockSems
    BY <1>3, ConstantsAssumption DEF TakeIsr
  <2> QED
    BY <1>3, <2>1 DEF TakeIsr, EffTake, Free, Running, MayWait, OwnLock
<1>4. ASSUME NEW t \in Tasks, NEW s \in Sems, BlockIsr(t, s)
      PROVE  EffBlock(t, s)
  BY <1>4 DEF BlockIsr, EffBlock, Free, Running, MayWait
<1>5. ASSUME NEW t \in Tasks, NEW s \in Sems, Post(t, s)
      PROVE  EffPost(t, s)
  <2>1. CASE PostCount(t, s)
    BY <1>5, <2>1 DEF Post, PostCount, EffPost, EffCount, CanPost, Free, Running
  <2>2. ASSUME NEW w \in Tasks, PostWake(t, s, w)
        PROVE  EffPost(t, s)
    <3>1. /\ semcount[s] < 0
          /\ w \in Waiters(s)
          /\ task_state' = [task_state EXCEPT ![w] = "READY"]
          /\ waitsem' = [waitsem EXCEPT ![w] = NoSem]
      BY <2>2 DEF PostWake, FirstWaiter
    <3>2. \E b \in BOOLEAN :
             cont' \in {cont, [cont EXCEPT ![t] = [kind |-> "post", sem |-> s, wipe |-> b]]}
      BY <2>2 DEF PostWake, ToBase
    <3> QED
      BY <1>5, <3>1, <3>2 DEF Post, EffPost, EffWake, CanPost, Free, Running
  <2> QED
    BY <1>5, <2>1, <2>2 DEF Post
<1>6. ASSUME NEW r \in Tasks \union {NoTask}, NEW s \in Sems, IrqPost(r, s)
      PROVE  EffInject(s)
  BY <1>6 DEF IrqPost, EffInject, EffCount, EffWake, CanPost, FirstWaiter
<1>7. ASSUME NEW s \in Sems, PostFromIsr(s)
      PROVE  EffInject(s)
  BY <1>7, ConstantsAssumption
  DEF PostFromIsr, EffInject, EffCount, EffWake, CanPost, FirstWaiter
<1>8. ASSUME NEW t \in Tasks, WaitReturn(t)
      PROVE  EffReturn(t)
  BY <1>8 DEF WaitReturn, EffReturn, Running
<1>9. ASSUME NEW t \in Tasks, PostResume(t)
      PROVE  EffResume(t)
  BY <1>9 DEF PostResume, EffResume
<1>10. ASSUME NEW t \in Tasks, CancelResume(t)
       PROVE  FALSE
  BY <1>10 DEF CancelResume, ProtocolInv, WaitConsistent
<1>11. ASSUME NEW w \in Tasks, NEW err \in {"EINTR", "ETIMEDOUT"}, CancelIrq(w, err),
              task_state[w] = "WAIT_SEM", waitdog' \in {waitdog, waitdog \ {w}}
       PROVE  EffCancel(w)
  BY <1>11 DEF CancelIrq, EndWait, EffCancel
<1>12. ASSUME NEW w \in Tasks, Timeout(w)
       PROVE  EffCancel(w) \/ EffNone
  BY <1>11, <1>12 DEF Timeout, EffNone
<1>13. ASSUME NEW w \in Tasks, SignalIrq(w)
       PROVE  EffCancel(w)
  BY <1>11, <1>13 DEF SignalIrq
<1>14. ASSUME NEW w \in Tasks, Die(w)
       PROVE  EffDie(w)
  BY <1>14 DEF Die, EffDie, Free, Running
<1>15. ASSUME NEW r \in Tasks, NEW w \in Tasks, SignalTask(r, w) \/ KillWaiter(r, w)
       PROVE  FALSE
  BY <1>15 DEF SignalTask, KillWaiter
<1> QED
  BY <1>1, <1>2, <1>3, <1>4, <1>5, <1>6, <1>7, <1>8, <1>9, <1>10, <1>12, <1>13, <1>14,
     <1>15

\* Every step has one of these effects.
LEMMA StepEffects ==
  ASSUME ProtocolInv, Next, Signallers = {}
  PROVE  \/ \E t \in Tasks, s \in Sems : EffTake(t, s) \/ EffBlock(t, s) \/ EffPost(t, s)
         \/ \E s \in Sems : EffInject(s)
         \/ \E t \in Tasks : EffReturn(t) \/ EffResume(t) \/ EffCancel(t) \/ EffDie(t)
         \/ EffNone
BY ActionEffects DEF Next

-----------------------------------------------------------------------------
(* The invariant.                                                          *)

LEMMA WaitersOwnersFinite ==
  ASSUME NEW s
  PROVE  /\ IsFiniteSet(Waiters(s)) /\ Cardinality(Waiters(s)) \in Nat
         /\ IsFiniteSet(Owners(s)) /\ Cardinality(Owners(s)) \in Nat
<1>1. Waiters(s) \in SUBSET Tasks /\ Owners(s) \in SUBSET Tasks
  BY DEF Waiters, Owners, Granted
<1>2. IsFiniteSet(Waiters(s)) /\ IsFiniteSet(Owners(s))
  BY <1>1, ConstantsAssumption, FS_Subset
<1> QED
  BY <1>2, FS_CardinalityType

LEMMA LockCounts ==
  ASSUME NEW s \in LockSems
  PROVE  s \in Sems /\ InitCount[s] \in Nat
<1>1. s \in Sems
  BY ConstantsAssumption
<1>2. InitCount[s] \in 0 .. SEM_VALUE_MAX
  BY <1>1, ConstantsAssumption
<1>3. SEM_VALUE_MAX \in Nat
  BY ConstantsAssumption
<1> QED
  BY <1>1, <1>2, <1>3

\* CountMatchesWaiters says that a negative count means a waiter.
LEMMA NegativeMeansWaiter ==
  ASSUME CountMatchesWaiters, NEW s \in Sems, semcount[s] \in Int
  PROVE  semcount[s] < 0 <=> Waiters(s) # {}
<1>1. Cardinality(Waiters(s)) = IF semcount[s] < 0 THEN -semcount[s] ELSE 0
  BY DEF CountMatchesWaiters
<1>2. Cardinality(Waiters(s)) = 0 <=> Waiters(s) = {}
  BY WaitersOwnersFinite, FS_EmptySet
<1> QED
  BY <1>1, <1>2

LEMMA TakeKeeps ==
  ASSUME ProtocolInv, NEW t \in Tasks, NEW s \in Sems, EffTake(t, s)
  PROVE  ProtocolInv'
<1> USE DEF ProtocolInv, EffTake, Ready, OwnLock, NoCont
<1>1. ProtocolTypeOK'
  BY ConstantsAssumption DEF ProtocolTypeOK
<1>2. WaitConsistent'
  BY DEF WaitConsistent, ProtocolTypeOK
<1>3. \A q \in Sems : Waiters(q)' = Waiters(q)
  BY DEF Waiters, ProtocolTypeOK
<1>4. CountMatchesWaiters'
  BY <1>3 DEF CountMatchesWaiters, ProtocolTypeOK
<1>5. CountsConserved'
  <2> SUFFICES ASSUME NEW q \in LockSems
               PROVE  Cardinality(Owners(q)') +
                      (IF semcount'[q] > 0 THEN semcount'[q] ELSE 0) = InitCount[q]
    BY DEF CountsConserved
  <2>0. q \in Sems /\ InitCount[q] \in Nat /\ semcount[q] \in Int
    BY LockCounts DEF ProtocolTypeOK
  <2>1. CASE q # s
    <3>1. Owners(q)' = Owners(q)
      BY <2>1 DEF Owners, Granted, ProtocolTypeOK
    <3> QED
      BY <2>0, <2>1, <3>1 DEF CountsConserved, ProtocolTypeOK
  <2>2. CASE q = s
    <3>1. Owners(s)' = Owners(s) \union {t} /\ t \notin Owners(s)
      BY <2>2 DEF Owners, Granted, ProtocolTypeOK
    <3>2. Cardinality(Owners(s)') = Cardinality(Owners(s)) + 1
      BY <3>1, WaitersOwnersFinite, FS_AddElement
    <3> QED
      BY <2>0, <2>2, <3>2, WaitersOwnersFinite DEF CountsConserved, ProtocolTypeOK
  <2> QED
    BY <2>1, <2>2
<1> QED
  BY <1>1, <1>2, <1>4, <1>5

LEMMA BlockKeeps ==
  ASSUME ProtocolInv, NEW t \in Tasks, NEW s \in Sems, EffBlock(t, s)
  PROVE  ProtocolInv'
<1> USE DEF ProtocolInv, EffBlock, Ready, NoCont
<1>1. ProtocolTypeOK'
  <2>1. cont' \in [Tasks -> Continuation]
    BY DEF ProtocolTypeOK, Continuation
  <2> QED
    BY <2>1, ConstantsAssumption DEF ProtocolTypeOK
<1>2. WaitConsistent'
  BY DEF WaitConsistent, ProtocolTypeOK
<1>3. CountMatchesWaiters'
  <2> SUFFICES ASSUME NEW q \in Sems
               PROVE  Cardinality(Waiters(q)') =
                        IF semcount'[q] < 0 THEN -semcount'[q] ELSE 0
    BY DEF CountMatchesWaiters
  <2>1. CASE q # s
    <3>1. Waiters(q)' = Waiters(q)
      BY <2>1 DEF Waiters, ProtocolTypeOK
    <3> QED
      BY <2>1, <3>1 DEF CountMatchesWaiters, ProtocolTypeOK
  <2>2. CASE q = s
    <3>1. Waiters(s)' = Waiters(s) \union {t} /\ t \notin Waiters(s)
      BY DEF Waiters, ProtocolTypeOK
    <3>2. Cardinality(Waiters(s)') = Cardinality(Waiters(s)) + 1
      BY <3>1, WaitersOwnersFinite, FS_AddElement
    <3> QED
      BY <2>2, <3>2, WaitersOwnersFinite DEF CountMatchesWaiters, ProtocolTypeOK
  <2> QED
    BY <2>1, <2>2
<1>4. CountsConserved'
  <2>1. \A q \in Sems : Owners(q)' = Owners(q)
    BY DEF Owners, Granted, ProtocolTypeOK
  <2> QED
    BY <2>1, ConstantsAssumption DEF CountsConserved, ProtocolTypeOK
<1> QED
  BY <1>1, <1>2, <1>3, <1>4

LEMMA ReturnKeeps ==
  ASSUME ProtocolInv, NEW t \in Tasks, EffReturn(t)
  PROVE  ProtocolInv'
<1> USE DEF ProtocolInv, EffReturn, Ready, NoCont, OwnLock
<1>1. ProtocolTypeOK'
  <2>1. cont' \in [Tasks -> Continuation]
    BY DEF ProtocolTypeOK, Continuation
  <2> QED
    BY <2>1, ConstantsAssumption DEF ProtocolTypeOK, WaitConsistent
<1>2. WaitConsistent'
  BY DEF WaitConsistent, ProtocolTypeOK
<1>3. \A q \in Sems : Waiters(q)' = Waiters(q)
  BY DEF Waiters, ProtocolTypeOK
<1>4. \A q \in LockSems : Owners(q)' = Owners(q)
  BY DEF Owners, Granted, ProtocolTypeOK, WaitConsistent
<1> QED
  BY <1>1, <1>2, <1>3, <1>4 DEF CountMatchesWaiters, CountsConserved

LEMMA ResumeKeeps ==
  ASSUME ProtocolInv, NEW r \in Tasks, EffResume(r)
  PROVE  ProtocolInv'
<1> USE DEF ProtocolInv, EffResume, NoCont
<1>1. ProtocolTypeOK'
  BY DEF ProtocolTypeOK, Continuation
<1>2. WaitConsistent'
  BY DEF WaitConsistent, ProtocolTypeOK
<1>3. \A q \in Sems : Waiters(q)' = Waiters(q)
  BY DEF Waiters
<1>4. \A q \in LockSems : Owners(q)' = Owners(q)
  BY DEF Owners, Granted, ProtocolTypeOK
<1> QED
  BY <1>1, <1>2, <1>3, <1>4 DEF CountMatchesWaiters, CountsConserved

LEMMA DieKeeps ==
  ASSUME ProtocolInv, NEW w \in Tasks, EffDie(w)
  PROVE  ProtocolInv'
<1> USE DEF ProtocolInv, EffDie, Ready
<1>1. ProtocolTypeOK'
  BY DEF ProtocolTypeOK
<1>2. WaitConsistent'
  BY DEF WaitConsistent, ProtocolTypeOK
<1>3. \A q \in Sems : Waiters(q)' = Waiters(q)
  BY DEF Waiters, ProtocolTypeOK
<1>4. \A q \in LockSems : Owners(q)' = Owners(q)
  BY DEF Owners, Granted, ProtocolTypeOK
<1> QED
  BY <1>1, <1>2, <1>3, <1>4 DEF CountMatchesWaiters, CountsConserved

LEMMA NoneKeeps ==
  ASSUME ProtocolInv, EffNone
  PROVE  ProtocolInv'
<1> USE DEF ProtocolInv, EffNone
<1>1. ProtocolTypeOK'
  BY DEF ProtocolTypeOK
<1>2. WaitConsistent'
  BY DEF WaitConsistent
<1>3. \A q \in Sems : Waiters(q)' = Waiters(q)
  BY DEF Waiters
<1>4. \A q \in LockSems : Owners(q)' = Owners(q)
  BY DEF Owners, Granted
<1> QED
  BY <1>1, <1>2, <1>3, <1>4 DEF CountMatchesWaiters, CountsConserved

\* One thread w stops waiting for s and the count of s goes up by one: the
\* counts still match the waiters.  A post and a cancelled wait have this form.
LEMMA OneWaiterLess ==
  ASSUME ProtocolInv, NEW w \in Tasks, NEW s \in Sems, w \in Waiters(s),
         semcount' = [semcount EXCEPT ![s] = @ + 1],
         waitsem' = [waitsem EXCEPT ![w] = NoSem],
         task_state' = [task_state EXCEPT ![w] = "READY"]
  PROVE  CountMatchesWaiters' /\ semcount[s] < 0
<1> USE DEF ProtocolInv
<1>1. ASSUME NEW q \in Sems, q # s
      PROVE  Waiters(q)' = Waiters(q)
  BY <1>1 DEF Waiters, ProtocolTypeOK
<1>2. Waiters(s)' = Waiters(s) \ {w}
  BY DEF Waiters, ProtocolTypeOK
<1>3. Cardinality(Waiters(s)') = Cardinality(Waiters(s)) - 1
  BY <1>2, WaitersOwnersFinite, FS_RemoveElement
<1>4. semcount[s] \in Int /\ semcount[s] < 0
  BY NegativeMeansWaiter DEF ProtocolTypeOK
<1>5. Cardinality(Waiters(s)') = IF semcount'[s] < 0 THEN -semcount'[s] ELSE 0
  BY <1>3, <1>4 DEF CountMatchesWaiters, ProtocolTypeOK
<1> QED
  BY <1>1, <1>4, <1>5 DEF CountMatchesWaiters, ProtocolTypeOK

LEMMA CancelKeeps ==
  ASSUME ProtocolInv, NEW w \in Tasks, EffCancel(w)
  PROVE  ProtocolInv'
<1> USE DEF ProtocolInv, EffCancel
<1>0. waitsem[w] \in Sems /\ w \in Waiters(waitsem[w])
  BY DEF WaitConsistent, Waiters
<1>1. CountMatchesWaiters' /\ semcount[waitsem[w]] < 0
  BY <1>0, OneWaiterLess
<1>2. ProtocolTypeOK'
  BY <1>0, <1>1, ConstantsAssumption DEF ProtocolTypeOK
<1>3. WaitConsistent'
  BY DEF WaitConsistent, ProtocolTypeOK
<1>4. \A q \in LockSems : Owners(q)' = Owners(q)
  BY DEF Owners, Granted, ProtocolTypeOK
<1>5. ASSUME NEW q \in LockSems
      PROVE  (IF semcount'[q] > 0 THEN semcount'[q] ELSE 0) =
             (IF semcount[q] > 0 THEN semcount[q] ELSE 0)
  BY <1>0, <1>1, LockCounts DEF ProtocolTypeOK
<1>6. CountsConserved'
  BY <1>4, <1>5 DEF CountsConserved
<1> QED
  BY <1>1, <1>2, <1>3, <1>6

\* A post that leaves the count free finds the count not negative.
LEMMA CountIsFree ==
  ASSUME ProtocolInv, NEW s \in Sems, EffCount(s)
  PROVE  semcount[s] >= 0 /\ CountMatchesWaiters' /\ semcount[s] \in Int
<1> USE DEF ProtocolInv, EffCount
<1>1. semcount[s] \in Int /\ semcount[s] >= 0
  BY NegativeMeansWaiter DEF ProtocolTypeOK
<1>2. \A q \in Sems : Waiters(q)' = Waiters(q)
  BY DEF Waiters
<1> QED
  BY <1>1, <1>2 DEF CountMatchesWaiters, ProtocolTypeOK

LEMMA InjectKeeps ==
  ASSUME ProtocolInv, NEW s \in Sems, EffInject(s)
  PROVE  ProtocolInv'
<1> USE DEF ProtocolInv, EffInject
<1>1. CASE EffCount(s)
  <2>1. ProtocolTypeOK'
    BY <1>1, ConstantsAssumption DEF EffCount, ProtocolTypeOK
  <2>2. WaitConsistent'
    BY <1>1 DEF EffCount, WaitConsistent
  <2>3. \A q \in LockSems : Owners(q)' = Owners(q) /\ semcount'[q] = semcount[q]
    BY <1>1, LockCounts DEF EffCount, Owners, Granted, ProtocolTypeOK
  <2> QED
    BY <1>1, <2>1, <2>2, <2>3, CountIsFree DEF CountsConserved
<1>2. ASSUME NEW w \in Tasks, EffWake(s, w), UNCHANGED cont
      PROVE  ProtocolInv'
  <2>1. ProtocolTypeOK'
    BY <1>2, ConstantsAssumption DEF EffWake, ProtocolTypeOK
  <2>2. WaitConsistent'
    BY <1>2 DEF EffWake, WaitConsistent, ProtocolTypeOK
  <2>3. \A q \in LockSems : Owners(q)' = Owners(q) /\ semcount'[q] = semcount[q]
    BY <1>2, LockCounts DEF EffWake, Owners, Granted, ProtocolTypeOK, WaitConsistent, Waiters
  <2>4. CountMatchesWaiters'
    BY <1>2, OneWaiterLess DEF EffWake
  <2> QED
    BY <2>1, <2>2, <2>3, <2>4 DEF CountsConserved
<1> QED
  BY <1>1, <1>2

\* The owners after a post by the owner r: r leaves, and a woken waiter w joins.
LEMMA OwnersAfterPost ==
  ASSUME ProtocolInv, NEW r \in Tasks, NEW s \in Sems, EffPost(r, s), NEW q \in LockSems
  PROVE  /\ q # s => Owners(q)' = Owners(q)
         /\ q = s => r \in Owners(s)
         /\ q = s /\ EffCount(s) => Owners(s)' = Owners(s) \ {r}
         /\ \A w \in Tasks : q = s /\ EffWake(s, w) =>
              Owners(s)' = (Owners(s) \ {r}) \union {w} /\ w \notin Owners(s)
<1> USE DEF ProtocolInv, EffPost, Ready, DropLock, NoCont
<1>1. CASE EffCount(s)
  <2>1. ASSUME NEW w \in Tasks, EffWake(s, w)
        PROVE  FALSE
    BY <1>1, <2>1, CountIsFree DEF EffWake, ProtocolTypeOK
  <2> QED
    BY <1>1, <2>1 DEF EffCount, Owners, Granted, ProtocolTypeOK
<1>2. ASSUME NEW w \in Tasks, EffWake(s, w), NEW b \in BOOLEAN,
             cont' \in {cont, [cont EXCEPT ![r] = [kind |-> "post", sem |-> s, wipe |-> b]]}
      PROVE  /\ q # s => Owners(q)' = Owners(q)
             /\ q = s => r \in Owners(s)
             /\ q = s => Owners(s)' = (Owners(s) \ {r}) \union {w} /\ w \notin Owners(s)
  BY <1>2 DEF EffWake, Owners, Granted, ProtocolTypeOK, WaitConsistent, Waiters
<1>3. ASSUME NEW w \in Tasks, EffWake(s, w), NEW v \in Tasks, EffWake(s, v)
      PROVE  v = w
  BY <1>3 DEF EffWake, Waiters, ProtocolTypeOK
<1>4. ASSUME NEW w \in Tasks, EffWake(s, w)
      PROVE  ~EffCount(s)
  BY <1>4, CountIsFree DEF EffWake, ProtocolTypeOK
<1> QED
  BY <1>1, <1>2, <1>3, <1>4

LEMMA PostKeeps ==
  ASSUME ProtocolInv, NEW r \in Tasks, NEW s \in Sems, EffPost(r, s)
  PROVE  ProtocolInv'
<1> USE DEF ProtocolInv
<1>1. CASE EffCount(s)
  <2>1. ProtocolTypeOK'
    BY <1>1, ConstantsAssumption DEF EffPost, DropLock, EffCount, ProtocolTypeOK
  <2>2. WaitConsistent'
    BY <1>1 DEF EffPost, DropLock, EffCount, WaitConsistent, ProtocolTypeOK
  <2>3. CountMatchesWaiters' /\ semcount[s] >= 0
    BY <1>1, CountIsFree
  <2>4. ASSUME NEW q \in LockSems
        PROVE  Cardinality(Owners(q)') +
                 (IF semcount'[q] > 0 THEN semcount'[q] ELSE 0) = InitCount[q]
    <3>1. CASE q # s
      BY <3>1, <1>1, OwnersAfterPost, LockCounts DEF EffCount, CountsConserved, ProtocolTypeOK
    <3>2. CASE q = s
      <4>1. Owners(s)' = Owners(s) \ {r} /\ r \in Owners(s)
        BY <1>1, <3>2, OwnersAfterPost
      <4>2. Cardinality(Owners(s)') = Cardinality(Owners(s)) - 1
        BY <4>1, WaitersOwnersFinite, FS_RemoveElement
      <4>3. InitCount[s] \in Nat /\ Cardinality(Owners(s)) \in Nat
        BY <3>2, LockCounts, WaitersOwnersFinite
      <4> QED
        BY <1>1, <2>3, <3>2, <4>2, <4>3 DEF EffCount, CountsConserved, ProtocolTypeOK
    <3> QED
      BY <3>1, <3>2
  <2> QED
    BY <2>1, <2>2, <2>3, <2>4 DEF CountsConserved
<1>2. ASSUME NEW w \in Tasks, EffWake(s, w), NEW b \in BOOLEAN,
             cont' \in {cont, [cont EXCEPT ![r] = [kind |-> "post", sem |-> s, wipe |-> b]]}
      PROVE  ProtocolInv'
  <2>1. ProtocolTypeOK'
    <3>1. cont' \in [Tasks -> Continuation]
      BY <1>2 DEF ProtocolTypeOK, Continuation
    <3>2. semcount' \in [Sems -> Int] /\ \A q \in Sems : semcount'[q] <= SEM_VALUE_MAX
      BY <1>2, ConstantsAssumption DEF EffWake, ProtocolTypeOK
    <3>3. locks' \in [Tasks -> SUBSET LockSems]
      BY DEF EffPost, DropLock, ProtocolTypeOK
    <3> QED
      BY <1>2, <3>1, <3>2, <3>3 DEF EffWake, ProtocolTypeOK
  <2>2. WaitConsistent'
    <3> USE <1>2 DEF EffPost, DropLock, EffWake, WaitConsistent, ProtocolTypeOK, NoCont, Ready
    <3>1. \A t \in Tasks : cont'[t].kind # "cancel"
      OBVIOUS
    <3>2. ASSUME NEW t \in Tasks, cont'[t].kind = "wait"
          PROVE  cont'[t].sem \in Sems /\ cont'[t].sem \notin locks'[t]
      <4>1. cont'[t] = cont[t]
        BY <3>2
      <4> QED BY <3>2, <4>1
    <3>3. ASSUME NEW t \in Tasks, task_state'[t] = "WAIT_SEM"
          PROVE  /\ waitsem'[t] \in Sems /\ cont'[t].kind = "wait"
                 /\ cont'[t].sem = waitsem'[t] /\ pterrno'[t] = "OK"
      <4>1. t # w /\ t # r /\ task_state[t] = "WAIT_SEM"
        BY <3>3
      <4> QED BY <4>1
    <3> QED BY <3>1, <3>2, <3>3
  <2>3. CountMatchesWaiters' /\ semcount[s] < 0 /\ semcount[s] \in Int
    BY <1>2, OneWaiterLess DEF EffWake, ProtocolTypeOK
  <2>4. ASSUME NEW q \in LockSems
        PROVE  Cardinality(Owners(q)') = Cardinality(Owners(q))
    <3>1. CASE q # s
      BY <3>1, OwnersAfterPost
    <3>2. CASE q = s
      <4>1. /\ Owners(s)' = (Owners(s) \ {r}) \union {w}
            /\ r \in Owners(s) /\ w \notin Owners(s)
        BY <1>2, <3>2, OwnersAfterPost
      <4>2. /\ IsFiniteSet(Owners(s) \ {r})
            /\ Cardinality(Owners(s) \ {r}) = Cardinality(Owners(s)) - 1
        BY <4>1, WaitersOwnersFinite, FS_RemoveElement
      <4>3. Cardinality((Owners(s) \ {r}) \union {w}) = Cardinality(Owners(s) \ {r}) + 1
        BY <4>1, <4>2, FS_AddElement
      <4> QED
        BY <3>2, <4>1, <4>2, <4>3, WaitersOwnersFinite
    <3> QED
      BY <3>1, <3>2
  <2>5. ASSUME NEW q \in LockSems
        PROVE  (IF semcount'[q] > 0 THEN semcount'[q] ELSE 0) =
               (IF semcount[q] > 0 THEN semcount[q] ELSE 0)
    BY <1>2, <2>3, LockCounts DEF EffWake, ProtocolTypeOK
  <2> QED
    BY <2>1, <2>2, <2>3, <2>4, <2>5 DEF CountsConserved
<1> QED
  BY <1>1, <1>2 DEF EffPost

LEMMA InitEstablishes ==
  Init => ProtocolInv
<1> SUFFICES ASSUME Init PROVE ProtocolInv
  OBVIOUS
<1> USE DEF Init, NoCont
<1>1. /\ InitCount \in [Sems -> Int]
      /\ \A s \in Sems : InitCount[s] >= 0 /\ InitCount[s] <= SEM_VALUE_MAX
  BY ConstantsAssumption
<1>2. ProtocolTypeOK
  BY <1>1 DEF ProtocolTypeOK, Continuation
<1>3. WaitConsistent
  BY DEF WaitConsistent
<1>4. \A s \in Sems : Waiters(s) = {} /\ Owners(s) = {}
  BY DEF Waiters, Owners, Granted
<1>4a. \A s \in Sems : Cardinality(Waiters(s)) = 0 /\ Cardinality(Owners(s)) = 0
  BY <1>4, FS_EmptySet
<1>5. CountMatchesWaiters
  BY <1>1, <1>4a DEF CountMatchesWaiters
<1>6. CountsConserved
  <2> SUFFICES ASSUME NEW s \in LockSems
               PROVE  Cardinality(Owners(s)) +
                      (IF semcount[s] > 0 THEN semcount[s] ELSE 0) = InitCount[s]
    BY DEF CountsConserved
  <2> QED
    BY <1>1, <1>4a, LockCounts
<1> QED
  BY <1>2, <1>3, <1>5, <1>6 DEF ProtocolInv

LEMMA NextKeeps ==
  ASSUME ProtocolInv, [Next]_vars, Signallers = {}
  PROVE  ProtocolInv'
<1>1. CASE Next
  BY <1>1, StepEffects, TakeKeeps, BlockKeeps, PostKeeps, InjectKeeps, ReturnKeeps,
     ResumeKeeps, CancelKeeps, DieKeeps, NoneKeeps
<1>2. CASE UNCHANGED vars
  BY <1>2, NoneKeeps DEF vars, EffNone
<1> QED
  BY <1>1, <1>2

\* The inductive invariant holds in every reachable state.
THEOREM ProtocolInvariant ==
  ASSUME Signallers = {}
  PROVE  Spec => []ProtocolInv
<1>1. ProtocolInv /\ [Next]_vars => ProtocolInv'
  BY NextKeeps
<1> QED
  BY <1>1, InitEstablishes, PTL DEF Spec

\* The variables of the wait and post protocol keep their types; no count ever
\* passes SEM_VALUE_MAX, even when timeouts give counts back.
THEOREM ProtocolTypes ==
  ASSUME Signallers = {}
  PROVE  Spec => []ProtocolTypeOK
<1>1. ProtocolInv => ProtocolTypeOK
  BY DEF ProtocolInv
<1> QED
  BY <1>1, ProtocolInvariant, PTL

\* sem_post finds a waiting thread exactly when it leaves the count at zero or
\* below: the count is minus the number of waiters.
THEOREM CountTheorem ==
  ASSUME Signallers = {}
  PROVE  Spec => []CountMatchesWaiters
<1>1. ProtocolInv => CountMatchesWaiters
  BY DEF ProtocolInv
<1> QED
  BY <1>1, ProtocolInvariant, PTL

\* Mutual exclusion: the owners of a lock and its free counts add up to its
\* initial count, whatever timeouts and signals race with the posts.
THEOREM ConservationTheorem ==
  ASSUME Signallers = {}
  PROVE  Spec => []CountsConserved
<1>1. ProtocolInv => CountsConserved
  BY DEF ProtocolInv
<1> QED
  BY <1>1, ProtocolInvariant, PTL

-----------------------------------------------------------------------------
(* The semaphores used as locks implement LockSpec.                        *)

FreeCounts == [s \in LockSems |-> IF semcount[s] > 0 THEN semcount[s] ELSE 0]
WaiterSets == [s \in LockSems |-> Waiters(s)]
OwnerSets == [s \in LockSems |-> Owners(s)]

LEMMA TakeRefines ==
  ASSUME ProtocolInv, NEW t \in Tasks, NEW s \in Sems, EffTake(t, s)
  PROVE  (s \in LockSems /\ Abs!Acquire(t, s)) \/ UNCHANGED Abs!vars
<1> USE DEF ProtocolInv, EffTake, Ready, OwnLock, NoCont
<1>1. \A q \in LockSems : Waiters(q)' = Waiters(q)
  BY DEF Waiters, ProtocolTypeOK
<1>2. \A q \in LockSems \ {s} : Owners(q)' = Owners(q) /\ semcount'[q] = semcount[q]
  BY LockCounts DEF Owners, Granted, ProtocolTypeOK
<1>3. CASE s \notin LockSems
  BY <1>1, <1>2, <1>3 DEF Abs!vars
<1>4. CASE s \in LockSems
  <2>1. Owners(s)' = Owners(s) \union {t} /\ t \notin Owners(s)
    BY <1>4 DEF Owners, Granted, ProtocolTypeOK
  <2>2. Waiters(s) = {}
    BY NegativeMeansWaiter DEF ProtocolTypeOK
  <2>3. semcount[s] \in Int /\ semcount'[s] = semcount[s] - 1
    BY DEF ProtocolTypeOK
  <2>4. FreeCounts' = [FreeCounts EXCEPT ![s] = @ - 1]
    <3>1. (IF semcount'[s] > 0 THEN semcount'[s] ELSE 0) =
          (IF semcount[s] > 0 THEN semcount[s] ELSE 0) - 1
      BY <2>3
    <3> QED
      BY <1>2, <1>4, <3>1 DEF FreeCounts
  <2>5. OwnerSets' = [OwnerSets EXCEPT ![s] = @ \union {t}]
    BY <1>2, <1>4, <2>1 DEF OwnerSets
  <2>6. WaiterSets' = WaiterSets
    BY <1>1 DEF WaiterSets
  <2> QED
    BY <1>4, <2>1, <2>2, <2>3, <2>4, <2>5, <2>6
    DEF Abs!Acquire, FreeCounts, OwnerSets, WaiterSets
<1> QED
  BY <1>3, <1>4

LEMMA BlockRefines ==
  ASSUME ProtocolInv, NEW t \in Tasks, NEW s \in Sems, EffBlock(t, s)
  PROVE  (s \in LockSems /\ Abs!Wait(t, s)) \/ UNCHANGED Abs!vars
<1> USE DEF ProtocolInv, EffBlock, Ready, NoCont
<1>1. \A q \in LockSems : Owners(q)' = Owners(q)
  BY LockCounts DEF Owners, Granted, ProtocolTypeOK
<1>2. \A q \in LockSems \ {s} : Waiters(q)' = Waiters(q) /\ semcount'[q] = semcount[q]
  BY LockCounts DEF Waiters, ProtocolTypeOK
<1>3. CASE s \notin LockSems
  BY <1>1, <1>2, <1>3 DEF Abs!vars
<1>4. CASE s \in LockSems
  <2>1. Waiters(s)' = Waiters(s) \union {t} /\ t \notin Owners(s)
    BY <1>4 DEF Waiters, Owners, Granted, ProtocolTypeOK
  <2>2. semcount[s] \in Int /\ semcount'[s] = semcount[s] - 1
    BY DEF ProtocolTypeOK
  <2>3. (IF semcount'[s] > 0 THEN semcount'[s] ELSE 0) = 0
    BY <2>2
  <2>4. (IF semcount[s] > 0 THEN semcount[s] ELSE 0) = 0
    BY <2>2
  <2>5. FreeCounts' = FreeCounts
    BY <1>2, <2>3, <2>4 DEF FreeCounts
  <2>6. WaiterSets' = [WaiterSets EXCEPT ![s] = @ \union {t}]
    BY <1>2, <1>4, <2>1 DEF WaiterSets
  <2>7. OwnerSets' = OwnerSets
    BY <1>1 DEF OwnerSets
  <2> QED
    BY <1>4, <2>1, <2>4, <2>5, <2>6, <2>7
    DEF Abs!Wait, FreeCounts, OwnerSets, WaiterSets
<1> QED
  BY <1>3, <1>4

LEMMA CancelRefines ==
  ASSUME ProtocolInv, NEW w \in Tasks, EffCancel(w)
  PROVE  (waitsem[w] \in LockSems /\ Abs!GiveUp(w, waitsem[w])) \/ UNCHANGED Abs!vars
<1> USE DEF ProtocolInv, EffCancel
<1>0. PICK s \in Sems : s = waitsem[w] /\ w \in Waiters(s)
  BY DEF WaitConsistent, Waiters
<1>1. semcount[s] < 0 /\ semcount[s] \in Int
  BY <1>0, OneWaiterLess DEF ProtocolTypeOK
<1>2. \A q \in LockSems : Owners(q)' = Owners(q)
  BY DEF Owners, Granted, ProtocolTypeOK
<1>3. \A q \in LockSems \ {s} : Waiters(q)' = Waiters(q) /\ semcount'[q] = semcount[q]
  BY <1>0, LockCounts DEF Waiters, ProtocolTypeOK
<1>4. CASE s \notin LockSems
  BY <1>2, <1>3, <1>4 DEF Abs!vars
<1>5. CASE s \in LockSems
  <2>1. Waiters(s)' = Waiters(s) \ {w}
    BY <1>0, <1>5 DEF Waiters, ProtocolTypeOK
  <2>2. semcount'[s] = semcount[s] + 1
    BY <1>0 DEF ProtocolTypeOK
  <2>3. (IF semcount'[s] > 0 THEN semcount'[s] ELSE 0) =
        (IF semcount[s] > 0 THEN semcount[s] ELSE 0)
    BY <1>1, <2>2
  <2>4. FreeCounts' = FreeCounts
    BY <1>3, <2>3 DEF FreeCounts
  <2>5. WaiterSets' = [WaiterSets EXCEPT ![s] = @ \ {w}]
    BY <1>3, <1>5, <2>1 DEF WaiterSets
  <2>6. OwnerSets' = OwnerSets
    BY <1>2 DEF OwnerSets
  <2> QED
    BY <1>0, <1>5, <2>4, <2>5, <2>6 DEF Abs!GiveUp, FreeCounts, OwnerSets, WaiterSets
<1> QED
  BY <1>0, <1>4, <1>5

LEMMA PostRefines ==
  ASSUME ProtocolInv, NEW r \in Tasks, NEW s \in Sems, EffPost(r, s)
  PROVE  \/ s \in LockSems /\ Abs!Release(r, s)
         \/ s \in LockSems /\ \E w \in Tasks : Abs!HandOver(r, s, w)
         \/ UNCHANGED Abs!vars
<1> USE DEF ProtocolInv
<1>1. \A q \in LockSems \ {s} : Owners(q)' = Owners(q)
  BY OwnersAfterPost
<1>2. \A q \in LockSems \ {s} : Waiters(q)' = Waiters(q) /\ semcount'[q] = semcount[q]
  BY LockCounts DEF EffPost, EffCount, EffWake, Waiters, ProtocolTypeOK
<1>3. CASE s \notin LockSems
  BY <1>1, <1>2, <1>3 DEF Abs!vars
<1>4. CASE s \in LockSems /\ EffCount(s)
  <2>1. Owners(s)' = Owners(s) \ {r} /\ r \in Owners(s)
    BY <1>4, OwnersAfterPost
  <2>2. semcount[s] \in Int /\ semcount[s] >= 0 /\ semcount'[s] = semcount[s] + 1
    BY <1>4, CountIsFree DEF EffCount, ProtocolTypeOK
  <2>3. Waiters(s)' = Waiters(s) /\ Waiters(s) = {}
    BY <1>4, <2>2, NegativeMeansWaiter DEF EffCount, Waiters
  <2>4. (IF semcount'[s] > 0 THEN semcount'[s] ELSE 0) =
        (IF semcount[s] > 0 THEN semcount[s] ELSE 0) + 1
    BY <2>2
  <2>5. FreeCounts' = [FreeCounts EXCEPT ![s] = @ + 1]
    <3>1. FreeCounts'[s] = FreeCounts[s] + 1
      BY <1>4, <2>4 DEF FreeCounts
    <3>2. \A q \in LockSems \ {s} : FreeCounts'[q] = FreeCounts[q]
      BY <1>2 DEF FreeCounts
    <3>3. /\ FreeCounts = [q \in LockSems |-> FreeCounts[q]]
          /\ FreeCounts' = [q \in LockSems |-> FreeCounts'[q]]
      BY DEF FreeCounts
    <3> HIDE DEF FreeCounts
    <3> QED
      BY <1>4, <3>1, <3>2, <3>3
  <2>6. OwnerSets' = [OwnerSets EXCEPT ![s] = @ \ {r}]
    BY <1>1, <1>4, <2>1 DEF OwnerSets
  <2>7. WaiterSets' = WaiterSets
    BY <1>2, <2>3 DEF WaiterSets
  <2> QED
    BY <1>4, <2>1, <2>3, <2>5, <2>6, <2>7
    DEF Abs!Release, FreeCounts, OwnerSets, WaiterSets
<1>5. ASSUME s \in LockSems, NEW w \in Tasks, EffWake(s, w)
      PROVE  Abs!HandOver(r, s, w)
  <2>1. Owners(s)' = (Owners(s) \ {r}) \union {w} /\ r \in Owners(s)
    BY <1>5, OwnersAfterPost
  <2>2. semcount[s] \in Int /\ semcount[s] < 0 /\ semcount'[s] = semcount[s] + 1
    BY <1>5 DEF EffWake, ProtocolTypeOK
  <2>3. Waiters(s)' = Waiters(s) \ {w} /\ w \in Waiters(s)
    BY <1>5 DEF EffWake, Waiters, ProtocolTypeOK
  <2>4. (IF semcount'[s] > 0 THEN semcount'[s] ELSE 0) =
        (IF semcount[s] > 0 THEN semcount[s] ELSE 0)
    BY <2>2
  <2>5. FreeCounts' = FreeCounts
    BY <1>2, <2>4 DEF FreeCounts
  <2>6. OwnerSets' = [OwnerSets EXCEPT ![s] = (@ \ {r}) \union {w}]
    BY <1>1, <1>5, <2>1 DEF OwnerSets
  <2>7. WaiterSets' = [WaiterSets EXCEPT ![s] = @ \ {w}]
    BY <1>2, <1>5, <2>3 DEF WaiterSets
  <2> QED
    BY <1>5, <2>1, <2>3, <2>5, <2>6, <2>7
    DEF Abs!HandOver, FreeCounts, OwnerSets, WaiterSets
<1> QED
  BY <1>3, <1>4, <1>5 DEF EffPost

\* The other effects leave free counts, waiters and owners of locks alone.
LEMMA OthersStutter ==
  ASSUME ProtocolInv,
         \/ \E s \in Sems : EffInject(s)
         \/ \E t \in Tasks : EffReturn(t) \/ EffResume(t) \/ EffDie(t)
         \/ EffNone
  PROVE  UNCHANGED Abs!vars
<1> USE DEF ProtocolInv
<1>1. ASSUME \A q \in LockSems : /\ semcount'[q] = semcount[q]
                                 /\ Waiters(q)' = Waiters(q)
                                 /\ Owners(q)' = Owners(q)
      PROVE  UNCHANGED Abs!vars
  BY <1>1 DEF Abs!vars
<1>2. ASSUME NEW s \in Sems, EffInject(s)
      PROVE  UNCHANGED Abs!vars
  <2>1. ASSUME NEW q \in LockSems
        PROVE  semcount'[q] = semcount[q] /\ Waiters(q)' = Waiters(q)
    BY <1>2, LockCounts DEF EffInject, EffCount, EffWake, Waiters, ProtocolTypeOK
  <2>2. ASSUME NEW q \in LockSems
        PROVE  Owners(q)' = Owners(q)
    BY <1>2, LockCounts
    DEF EffInject, EffCount, EffWake, Waiters, Owners, Granted, ProtocolTypeOK, WaitConsistent
  <2> QED
    BY <1>1, <2>1, <2>2
<1>3. ASSUME NEW t \in Tasks, EffReturn(t)
      PROVE  UNCHANGED Abs!vars
  <2>1. \A q \in LockSems : Owners(q)' = Owners(q)
    BY <1>3 DEF EffReturn, Ready, NoCont, OwnLock, Owners, Granted, ProtocolTypeOK,
                WaitConsistent
  <2> QED
    BY <1>1, <1>3, <2>1 DEF EffReturn, Waiters
<1>4. ASSUME NEW t \in Tasks, EffResume(t)
      PROVE  UNCHANGED Abs!vars
  BY <1>1, <1>4 DEF EffResume, NoCont, Waiters, Owners, Granted, ProtocolTypeOK
<1>5. ASSUME NEW t \in Tasks, EffDie(t)
      PROVE  UNCHANGED Abs!vars
  BY <1>1, <1>5 DEF EffDie, Ready, Waiters, Owners, Granted, ProtocolTypeOK
<1>6. ASSUME EffNone
      PROVE  UNCHANGED Abs!vars
  BY <1>1, <1>6 DEF EffNone, Waiters, Owners, Granted
<1> QED
  BY <1>2, <1>3, <1>4, <1>5, <1>6

LEMMA InitRefines ==
  Init => Abs!Init
<1> SUFFICES ASSUME Init PROVE Abs!Init
  OBVIOUS
<1>1. \A s \in LockSems : Waiters(s) = {} /\ Owners(s) = {}
  BY DEF Init, NoCont, Waiters, Owners, Granted
<1>2. \A s \in LockSems : (IF semcount[s] > 0 THEN semcount[s] ELSE 0) = InitCount[s]
  BY LockCounts DEF Init
<1> QED
  BY <1>1, <1>2 DEF Abs!Init

LEMMA NextRefines ==
  ASSUME ProtocolInv, [Next]_vars, Signallers = {}
  PROVE  [Abs!Next]_(Abs!vars)
<1>1. CASE Next
  BY <1>1, StepEffects, TakeRefines, BlockRefines, PostRefines, CancelRefines, OthersStutter,
     LockCounts DEF Abs!Next
<1>2. CASE UNCHANGED vars
  BY <1>2, OthersStutter DEF vars, EffNone
<1> QED
  BY <1>1, <1>2

\* Semaphores used as locks implement LockSpec, for any number of threads and
\* locks: no permit is lost or made, none stays free while a thread waits.
THEOREM RefinementTheorem ==
  ASSUME Signallers = {}
  PROVE  Spec => ImplementsLockSpec
<1>1. ProtocolInv /\ [Next]_vars => [Abs!Next]_(Abs!vars)
  BY NextRefines
<1> QED
  BY <1>1, InitRefines, ProtocolInvariant, PTL DEF Spec, ImplementsLockSpec, Abs!Spec

-----------------------------------------------------------------------------
(* What the operations on a holder list do.                                *)

\* A set of numbers has a least one: the induction along a list.
LEMMA LeastNumber ==
  ASSUME NEW T \in SUBSET Nat, T # {}
  PROVE  \E x \in T : \A y \in T : x <= y
<1> DEFINE R == OpToRel(<, Nat)
<1>1. \E x \in T : \A y \in T : ~ (<<y, x>> \in R)
  BY NatLessThanWellFounded, WFMin
<1>2. \A x, y \in Nat : y < x => <<y, x>> \in R
  BY DEF OpToRel
<1> HIDE DEF R
<1>3. PICK x \in T : \A y \in T : ~ (<<y, x>> \in R)
  BY <1>1
<1>4. ASSUME NEW y \in T
      PROVE  ~ (y < x)
  BY <1>2, <1>3, Zenon
<1> QED BY <1>4

\* A list of holder containers: at most one for each thread.
HolderRecord == [htcb : Tasks, counts : Nat]
HolderList(hs) ==
  /\ hs \in Seq(HolderRecord)
  /\ \A j, k \in 1 .. Len(hs) : hs[j].htcb = hs[k].htcb => j = k

\* The counts that a list charges to t.
Charged(hs, t) == IF t \in HolderTasks(hs) THEN hs[Position(hs, t)].counts ELSE 0

LEMMA PositionIs ==
  ASSUME NEW hs, HolderList(hs), NEW t \in HolderTasks(hs)
  PROVE  /\ t \in Tasks
         /\ Position(hs, t) \in 1 .. Len(hs) /\ hs[Position(hs, t)].htcb = t
         /\ \A k \in 1 .. Len(hs) : hs[k].htcb = t => k = Position(hs, t)
<1>1. DOMAIN hs = 1 .. Len(hs) /\ \A k \in 1 .. Len(hs) : hs[k] \in HolderRecord
  BY DEF HolderList
<1>2. \E k \in DOMAIN hs : hs[k].htcb = t
  BY DEF HolderTasks
<1>3. Position(hs, t) \in DOMAIN hs /\ hs[Position(hs, t)].htcb = t
  BY <1>2 DEF Position
<1> QED BY <1>1, <1>3 DEF HolderList, HolderRecord

\* The charges of a list, read from its containers.
LEMMA ChargedIs ==
  ASSUME NEW hs, HolderList(hs), NEW k \in 1 .. Len(hs)
  PROVE  /\ hs[k].htcb \in HolderTasks(hs) /\ hs[k].htcb \in Tasks
         /\ Charged(hs, hs[k].htcb) = hs[k].counts /\ hs[k].counts \in Nat
<1>1. DOMAIN hs = 1 .. Len(hs) /\ hs[k] \in HolderRecord
  BY DEF HolderList
<1>2. hs[k].htcb \in HolderTasks(hs)
  BY <1>1 DEF HolderTasks
<1>3. k = Position(hs, hs[k].htcb)
  BY <1>2, PositionIs
<1> QED BY <1>1, <1>2, <1>3 DEF Charged, HolderRecord

LEMMA HolderAt ==
  ASSUME NEW hs, HolderList(hs), NEW t \in HolderTasks(hs)
  PROVE  \E k \in 1 .. Len(hs) : hs[k].htcb = t /\ hs[k].counts = Charged(hs, t)
BY PositionIs DEF Charged

\* The threads and the charges of a list follow from its containers.
LEMMA SameContainers ==
  ASSUME NEW hs, NEW gs, HolderList(hs), HolderList(gs), NEW G,
         \A i \in 1 .. Len(gs) : \E j \in 1 .. Len(hs) : gs[i] = hs[j] /\ hs[j].htcb \notin G,
         \A j \in 1 .. Len(hs) : hs[j].htcb \notin G => \E i \in 1 .. Len(gs) : gs[i] = hs[j]
  PROVE  /\ HolderTasks(gs) = HolderTasks(hs) \ G
         /\ \A t \in Tasks \ G : Charged(gs, t) = Charged(hs, t)
<1>1. ASSUME NEW t \in HolderTasks(gs)
      PROVE  t \in HolderTasks(hs) \ G
  <2>1. PICK i \in 1 .. Len(gs) : gs[i].htcb = t /\ gs[i].counts = Charged(gs, t)
    BY HolderAt, Zenon
  <2>2. PICK j \in 1 .. Len(hs) : gs[i] = hs[j] /\ hs[j].htcb \notin G
    BY <2>1
  <2> QED BY <2>1, <2>2, ChargedIs
<1>2. ASSUME NEW t \in HolderTasks(hs), t \notin G
      PROVE  t \in HolderTasks(gs) /\ Charged(gs, t) = Charged(hs, t)
  <2>1. PICK j \in 1 .. Len(hs) : hs[j].htcb = t /\ hs[j].counts = Charged(hs, t)
    BY HolderAt
  <2>2. PICK i \in 1 .. Len(gs) : gs[i] = hs[j]
    BY <1>2, <2>1
  <2>3. gs[i].htcb \in HolderTasks(gs) /\ Charged(gs, gs[i].htcb) = gs[i].counts
    BY ChargedIs
  <2> QED BY <2>1, <2>2, <2>3
<1>3. HolderTasks(gs) = HolderTasks(hs) \ G
  BY <1>1, <1>2
<1> QED BY <1>2, <1>3 DEF Charged

\* The walk of Without: what is left after the first k containers.
Left(hs, gone, p, k) == IF hs[k].htcb \in gone THEN p ELSE Append(p, hs[k])
Walk(hs, gone, f, n) == [k \in 0 .. n |-> IF k = 0 THEN <<>> ELSE Left(hs, gone, f[k - 1], k)]

LEMMA WalkExists ==
  ASSUME NEW hs, NEW gone, NEW n \in Nat
  PROVE  \E f : f = Walk(hs, gone, f, n)
<1> DEFINE T == {m \in Nat : ~ \E f : f = Walk(hs, gone, f, m)}
<1> SUFFICES T = {}
  OBVIOUS
<1> SUFFICES ASSUME T # {} PROVE FALSE
  OBVIOUS
<1>1. PICK x \in T : \A y \in T : x <= y
  <2>1. T \in SUBSET Nat
    OBVIOUS
  <2> HIDE DEF T
  <2> QED BY <2>1, LeastNumber
<1>2. x \in Nat
  BY <1>1
<1>3. CASE x = 0
  <2> DEFINE f == [k \in 0 .. 0 |-> <<>>]
  <2>1. f = Walk(hs, gone, f, 0)
    BY DEF Walk
  <2> QED BY <1>1, <1>3, <2>1
<1>4. CASE x # 0
  <2>1. x - 1 \in Nat /\ ~ (x <= x - 1)
    BY <1>2, <1>4
  <2>2. x - 1 \notin T
    BY <1>1, <2>1
  <2>3. PICK f : f = Walk(hs, gone, f, x - 1)
    BY <2>1, <2>2
  <2> DEFINE g == [k \in 0 .. x |-> IF k = x THEN Left(hs, gone, f[x - 1], x) ELSE f[k]]
  <2>4. ASSUME NEW k \in 0 .. x
        PROVE  g[k] = IF k = 0 THEN <<>> ELSE Left(hs, gone, g[k - 1], k)
    <3>1. CASE k = 0
      BY <1>2, <1>4, <2>1, <2>3, <3>1 DEF Walk
    <3>2. CASE k = x
      <4>1. x - 1 \in 0 .. x /\ x - 1 # x
        BY <1>2, <1>4
      <4> QED BY <1>4, <3>2, <4>1
    <3>3. CASE k # 0 /\ k # x
      <4>1. k - 1 \in 0 .. x /\ k - 1 # x /\ k \in 0 .. x - 1
        BY <1>2, <3>3
      <4>2. g[k] = f[k] /\ g[k - 1] = f[k - 1]
        BY <3>3, <4>1
      <4>3. f[k] = Left(hs, gone, f[k - 1], k)
        <5>1. Walk(hs, gone, f, x - 1)[k] = IF k = 0 THEN <<>> ELSE Left(hs, gone, f[k - 1], k)
          BY <4>1 DEF Walk
        <5> QED BY <2>3, <3>3, <5>1
      <4> QED BY <3>3, <4>2, <4>3
    <3> QED BY <3>1, <3>2, <3>3
  <2>5. g = Walk(hs, gone, g, x)
    <3>1. g = [k \in 0 .. x |-> g[k]]
      OBVIOUS
    <3> HIDE DEF g
    <3> QED BY <2>4, <3>1 DEF Walk
  <2> HIDE DEF g
  <2> QED BY <1>1, <2>5
<1> QED BY <1>3, <1>4

\* sem_freeholder takes out the containers of the threads in gone, no other.
LEMMA WithoutIs ==
  ASSUME NEW hs, HolderList(hs), NEW gone
  PROVE  /\ HolderList(Without(hs, gone))
         /\ HolderTasks(Without(hs, gone)) = HolderTasks(hs) \ gone
         /\ \A t \in Tasks \ gone : Charged(Without(hs, gone), t) = Charged(hs, t)
<1> DEFINE n == Len(hs)
           f == CHOOSE rest : rest = Walk(hs, gone, rest, n)
<1>1. n \in Nat /\ DOMAIN hs = 1 .. n /\ \A k \in 1 .. n : hs[k] \in HolderRecord
  BY DEF HolderList
<1>2. f = Walk(hs, gone, f, n)
  <2>1. \E g : g = Walk(hs, gone, g, n)
    BY <1>1, WalkExists
  <2> QED BY <2>1, Zenon
<1>3. Without(hs, gone) = f[n]
  BY DEF Without, Walk, Left
<1> HIDE DEF f
<1>4. /\ f[0] = <<>>
      /\ \A k \in 1 .. n : f[k] = Left(hs, gone, f[k - 1], k)
  <2>1. \A k \in 0 .. n : Walk(hs, gone, f, n)[k] = IF k = 0 THEN <<>> ELSE Left(hs, gone, f[k - 1], k)
    BY DEF Walk
  <2>2. \A k \in 0 .. n : f[k] = IF k = 0 THEN <<>> ELSE Left(hs, gone, f[k - 1], k)
    BY <1>2, <2>1, Zenon
  <2> QED BY <1>1, <2>2
<1> DEFINE Kept(k) ==
             /\ HolderList(f[k])
             /\ \A i \in 1 .. Len(f[k]) : \E j \in 1 .. k : f[k][i] = hs[j] /\ hs[j].htcb \notin gone
             /\ \A j \in 1 .. k : hs[j].htcb \notin gone => \E i \in 1 .. Len(f[k]) : f[k][i] = hs[j]
           T == {k \in 0 .. n : ~ Kept(k)}
<1>5. ASSUME NEW k \in 1 .. n, Kept(k - 1)
      PROVE  Kept(k)
  <2> DEFINE p == f[k - 1]
  <2>1. k - 1 \in Nat /\ \A j : j \in 1 .. k <=> (j \in 1 .. k - 1 \/ j = k)
    BY <1>1
  <2>2. CASE hs[k].htcb \in gone
    <3>1. f[k] = p
      BY <1>4, <2>2 DEF Left
    <3> QED BY <1>5, <2>1, <2>2, <3>1
  <2>3. CASE hs[k].htcb \notin gone
    <3>1. f[k] = Append(p, hs[k])
      BY <1>4, <2>3 DEF Left
    <3>2. p \in Seq(HolderRecord) /\ hs[k] \in HolderRecord /\ Len(p) \in Nat
      BY <1>1, <1>5 DEF HolderList
    <3>3. /\ f[k] \in Seq(HolderRecord) /\ Len(f[k]) = Len(p) + 1
          /\ \A i \in 1 .. Len(p) : f[k][i] = p[i]
          /\ f[k][Len(p) + 1] = hs[k]
      BY <3>1, <3>2
    <3>4. \A i : i \in 1 .. Len(f[k]) <=> (i \in 1 .. Len(p) \/ i = Len(p) + 1)
      BY <3>2, <3>3
    <3>5. ASSUME NEW i \in 1 .. Len(p)
          PROVE  p[i].htcb # hs[k].htcb
      <4>1. PICK j \in 1 .. k - 1 : p[i] = hs[j]
        BY <1>5
      <4>2. j \in 1 .. n /\ j # k
        BY <1>1, <2>1, <4>1
      <4> QED BY <4>1, <4>2 DEF HolderList
    <3> HIDE DEF p
    <3>6. HolderList(f[k])
      <4> SUFFICES ASSUME NEW i \in 1 .. Len(f[k]), NEW m \in 1 .. Len(f[k]),
                          f[k][i].htcb = f[k][m].htcb
                   PROVE  i = m
        BY <3>3 DEF HolderList
      <4>1. \A a, b \in 1 .. Len(p) : p[a].htcb = p[b].htcb => a = b
        BY <1>5 DEF HolderList, p
      <4> QED BY <3>3, <3>4, <3>5, <4>1
    <3>7. ASSUME NEW i \in 1 .. Len(f[k])
          PROVE  \E j \in 1 .. k : f[k][i] = hs[j] /\ hs[j].htcb \notin gone
      <4>1. CASE i \in 1 .. Len(p)
        <5>1. PICK j \in 1 .. k - 1 : p[i] = hs[j] /\ hs[j].htcb \notin gone
          BY <1>5, <4>1 DEF p
        <5> QED BY <2>1, <3>3, <4>1, <5>1
      <4>2. CASE i = Len(p) + 1
        BY <2>1, <2>3, <3>3, <4>2
      <4> QED BY <3>4, <4>1, <4>2
    <3>8. ASSUME NEW j \in 1 .. k, hs[j].htcb \notin gone
          PROVE  \E i \in 1 .. Len(f[k]) : f[k][i] = hs[j]
      <4>1. CASE j \in 1 .. k - 1
        <5>1. PICK i \in 1 .. Len(p) : p[i] = hs[j]
          BY <1>5, <3>8, <4>1 DEF p
        <5> QED BY <3>3, <3>4, <5>1
      <4>2. CASE j = k
        BY <3>3, <3>4, <4>2
      <4> QED BY <2>1, <4>1, <4>2
    <3> QED BY <3>6, <3>7, <3>8
  <2> QED BY <2>2, <2>3
<1>6. Kept(0)
  BY <1>4 DEF HolderList
<1> HIDE DEF Kept
<1>7. T = {}
  <2> SUFFICES ASSUME T # {} PROVE FALSE
    OBVIOUS
  <2>1. T \in SUBSET Nat
    BY <1>1
  <2> HIDE DEF T
  <2>2. PICK x \in T : \A y \in T : x <= y
    BY <2>1, LeastNumber
  <2>3. x \in 0 .. n /\ ~ Kept(x)
    BY <2>2 DEF T
  <2>4. x # 0
    BY <1>6, <2>3
  <2>5. x \in 1 .. n /\ x - 1 \in 0 .. n /\ ~ (x <= x - 1)
    BY <1>1, <2>3, <2>4
  <2>6. Kept(x - 1)
    BY <2>2, <2>5 DEF T
  <2> QED BY <1>5, <2>3, <2>5, <2>6
<1>8. Kept(n)
  BY <1>1, <1>7
<1> DEFINE g == f[n]
<1>9. /\ HolderList(g)
      /\ \A i \in 1 .. Len(g) : \E j \in 1 .. Len(hs) : g[i] = hs[j] /\ hs[j].htcb \notin gone
      /\ \A j \in 1 .. Len(hs) : hs[j].htcb \notin gone => \E i \in 1 .. Len(g) : g[i] = hs[j]
  BY <1>8 DEF Kept
<1> HIDE DEF g
<1>10. /\ HolderTasks(g) = HolderTasks(hs) \ gone
       /\ \A t \in Tasks \ gone : Charged(g, t) = Charged(hs, t)
  BY <1>9, SameContainers
<1> QED BY <1>3, <1>9, <1>10 DEF g

\* FreeStale and FreeIfEmpty in these terms.
LEMMA FreeStaleIs ==
  ASSUME NEW hs, HolderList(hs)
  PROVE  /\ HolderList(FreeStale(hs))
         /\ HolderTasks(FreeStale(hs)) = {t \in HolderTasks(hs) : Alive(t)}
         /\ \A t \in Tasks : Alive(t) => Charged(FreeStale(hs), t) = Charged(hs, t)
<1> DEFINE D == {t \in Tasks : ~ Alive(t)}
<1>1. FreeStale(hs) = Without(hs, D)
  BY DEF FreeStale
<1>2. HolderTasks(hs) \subseteq Tasks
  BY PositionIs
<1>3. HolderTasks(hs) \ D = {t \in HolderTasks(hs) : Alive(t)}
  BY <1>2
<1>4. \A t \in Tasks : Alive(t) => t \in Tasks \ D
  OBVIOUS
<1> HIDE DEF D
<1> QED BY <1>1, <1>3, <1>4, WithoutIs

LEMMA FreeIfEmptyIs ==
  ASSUME NEW hs, HolderList(hs), NEW t \in Tasks
  PROVE  /\ HolderList(FreeIfEmpty(hs, t))
         /\ HolderTasks(FreeIfEmpty(hs, t)) =
              IF Charged(hs, t) = 0 THEN HolderTasks(hs) \ {t} ELSE HolderTasks(hs)
         /\ \A u \in Tasks : Charged(FreeIfEmpty(hs, t), u) = Charged(hs, u)
<1>1. CASE t \in HolderTasks(hs) /\ hs[Position(hs, t)].counts = 0
  <2>1. FreeIfEmpty(hs, t) = Without(hs, {t}) /\ Charged(hs, t) = 0
    BY <1>1 DEF FreeIfEmpty, Charged
  <2>2. /\ HolderList(Without(hs, {t}))
        /\ HolderTasks(Without(hs, {t})) = HolderTasks(hs) \ {t}
        /\ \A u \in Tasks \ {t} : Charged(Without(hs, {t}), u) = Charged(hs, u)
    BY WithoutIs
  <2>3. Charged(Without(hs, {t}), t) = 0
    BY <2>2 DEF Charged
  <2> QED BY <2>1, <2>2, <2>3
<1>2. CASE ~ (t \in HolderTasks(hs) /\ hs[Position(hs, t)].counts = 0)
  <2>1. FreeIfEmpty(hs, t) = hs
    BY <1>2 DEF FreeIfEmpty
  <2>2. Charged(hs, t) = 0 => t \notin HolderTasks(hs)
    BY <1>2 DEF Charged
  <2> QED BY <2>1, <2>2
<1> QED BY <1>1, <1>2

\* Another count for the container at place k.
LEMMA SetCounts ==
  ASSUME NEW hs, HolderList(hs), NEW k \in 1 .. Len(hs), NEW n \in Nat
  PROVE  LET gs == [hs EXCEPT ![k].counts = n] IN
         /\ HolderList(gs)
         /\ HolderTasks(gs) = HolderTasks(hs)
         /\ Charged(gs, hs[k].htcb) = n
         /\ \A u \in Tasks \ {hs[k].htcb} : Charged(gs, u) = Charged(hs, u)
<1> DEFINE gs == [hs EXCEPT ![k].counts = n]
<1>1. DOMAIN hs = 1 .. Len(hs) /\ Len(hs) \in Nat /\ \A i \in 1 .. Len(hs) : hs[i] \in HolderRecord
  BY DEF HolderList
<1>2. /\ gs \in Seq(HolderRecord) /\ Len(gs) = Len(hs)
      /\ \A i \in 1 .. Len(hs) : gs[i].htcb = hs[i].htcb /\ gs[i] \in HolderRecord
      /\ \A i \in 1 .. Len(hs) : i # k => gs[i] = hs[i]
      /\ gs[k].counts = n
  <2>1. gs = [i \in 1 .. Len(hs) |-> IF i = k THEN [hs[i] EXCEPT !.counts = n] ELSE hs[i]]
    BY <1>1
  <2>2. [hs[k] EXCEPT !.counts = n] \in HolderRecord /\ [hs[k] EXCEPT !.counts = n].htcb = hs[k].htcb
        /\ [hs[k] EXCEPT !.counts = n].counts = n
    BY <1>1 DEF HolderRecord
  <2>3. /\ \A i \in 1 .. Len(hs) : gs[i].htcb = hs[i].htcb /\ gs[i] \in HolderRecord
        /\ \A i \in 1 .. Len(hs) : i # k => gs[i] = hs[i]
        /\ gs[k].counts = n
    BY <1>1, <2>1, <2>2
  <2>4. gs \in Seq(HolderRecord) /\ Len(gs) = Len(hs)
    <3>1. gs \in [1 .. Len(hs) -> HolderRecord]
      BY <2>1, <2>3
    <3> HIDE DEF gs
    <3> QED BY <1>1, <3>1
  <2> QED BY <2>3, <2>4
<1> HIDE DEF gs
<1>3. HolderList(gs)
  BY <1>2 DEF HolderList
<1>4. HolderTasks(gs) = HolderTasks(hs)
  <2>1. DOMAIN gs = 1 .. Len(hs)
    BY <1>2
  <2> QED BY <1>1, <1>2, <2>1 DEF HolderTasks
<1>5. Charged(gs, hs[k].htcb) = n
  BY <1>2, <1>3, ChargedIs
<1>6. ASSUME NEW u \in Tasks, u # hs[k].htcb
      PROVE  Charged(gs, u) = Charged(hs, u)
  <2>1. CASE u \in HolderTasks(hs)
    <3>1. PICK i \in 1 .. Len(hs) : hs[i].htcb = u /\ hs[i].counts = Charged(hs, u)
      BY <2>1, HolderAt
    <3>2. gs[i] = hs[i] /\ i \in 1 .. Len(gs)
      BY <1>2, <1>6, <3>1
    <3> QED BY <1>3, <3>1, <3>2, ChargedIs
  <2>2. CASE u \notin HolderTasks(hs)
    BY <1>4, <2>2 DEF Charged
  <2> QED BY <2>1, <2>2
<1> QED BY <1>3, <1>4, <1>5, <1>6 DEF gs

LEMMA ReleaseIs ==
  ASSUME NEW hs, HolderList(hs), NEW t
  PROVE  LET gs == sem_releaseholder(hs, t) IN
         /\ HolderList(gs)
         /\ HolderTasks(gs) = HolderTasks(hs)
         /\ Charged(gs, t) = IF Charged(hs, t) > 0 THEN Charged(hs, t) - 1 ELSE 0
         /\ \A u \in Tasks \ {t} : Charged(gs, u) = Charged(hs, u)
<1> DEFINE k == Position(hs, t)
<1>1. CASE t \in HolderTasks(hs) /\ hs[k].counts > 0
  <2>1. k \in 1 .. Len(hs) /\ hs[k].htcb = t /\ hs[k].counts = Charged(hs, t) /\ hs[k].counts \in Nat
    BY <1>1, PositionIs, ChargedIs
  <2> DEFINE n == hs[k].counts - 1
  <2>2. n \in Nat
    BY <1>1, <2>1
  <2>3. sem_releaseholder(hs, t) = [hs EXCEPT ![k].counts = n]
    BY <1>1 DEF sem_releaseholder
  <2>4. n = IF Charged(hs, t) > 0 THEN Charged(hs, t) - 1 ELSE 0
    BY <1>1, <2>1
  <2> DEFINE gs == [hs EXCEPT ![k].counts = n]
  <2> HIDE DEF n, k
  <2>5. /\ HolderList(gs)
        /\ HolderTasks(gs) = HolderTasks(hs)
        /\ Charged(gs, hs[k].htcb) = n
        /\ \A u \in Tasks \ {hs[k].htcb} : Charged(gs, u) = Charged(hs, u)
    BY <2>1, <2>2, SetCounts
  <2> HIDE DEF gs
  <2> QED BY <2>1, <2>2, <2>3, <2>4, <2>5 DEF gs
<1>2. CASE ~ (t \in HolderTasks(hs) /\ hs[k].counts > 0)
  <2>1. sem_releaseholder(hs, t) = hs
    BY <1>2 DEF sem_releaseholder
  <2>2. Charged(hs, t) = 0
    <3>1. CASE t \in HolderTasks(hs)
      BY <1>2, <3>1, PositionIs, ChargedIs DEF Charged
    <3>2. CASE t \notin HolderTasks(hs)
      BY <3>2 DEF Charged
    <3> QED BY <3>1, <3>2
  <2> QED BY <2>1, <2>2
<1> QED BY <1>1, <1>2

\* A count of s for t, when a container is there for it.
LEMMA AddIs ==
  ASSUME NEW s, s \notin NoInherit, NEW hs, HolderList(hs), NEW t \in Tasks,
         t \in HolderTasks(hs) \/ Cardinality(AllHolders) < SEM_PREALLOCHOLDERS
  PROVE  LET gs == sem_addholder_tcb(s, hs, t) IN
         /\ HolderList(gs)
         /\ HolderTasks(gs) = HolderTasks(hs) \union {t}
         /\ Charged(gs, t) = Charged(hs, t) + 1
         /\ \A u \in Tasks \ {t} : Charged(gs, u) = Charged(hs, u)
<1>1. CASE t \in HolderTasks(hs)
  <2> DEFINE k == Position(hs, t)
  <2>1. k \in 1 .. Len(hs) /\ hs[k].htcb = t /\ hs[k].counts = Charged(hs, t) /\ hs[k].counts \in Nat
    BY <1>1, PositionIs, ChargedIs
  <2> DEFINE n == hs[k].counts + 1
  <2>2. n \in Nat
    BY <2>1
  <2>6. n = Charged(hs, t) + 1
    BY <2>1
  <2>3. sem_addholder_tcb(s, hs, t) = [hs EXCEPT ![k].counts = n]
    BY <1>1 DEF sem_addholder_tcb
  <2>4. HolderTasks(hs) = HolderTasks(hs) \union {t}
    BY <1>1
  <2> DEFINE gs == [hs EXCEPT ![k].counts = n]
  <2> HIDE DEF n, k
  <2>5. /\ HolderList(gs)
        /\ HolderTasks(gs) = HolderTasks(hs)
        /\ Charged(gs, hs[k].htcb) = n
        /\ \A u \in Tasks \ {hs[k].htcb} : Charged(gs, u) = Charged(hs, u)
    BY <2>1, <2>2, SetCounts
  <2> HIDE DEF gs
  <2> QED BY <2>1, <2>3, <2>4, <2>5, <2>6 DEF gs
<1>2. CASE t \notin HolderTasks(hs)
  <2> DEFINE gs == <<Holder(t, 1)>> \o hs
  <2>1. sem_addholder_tcb(s, hs, t) = gs
    BY <1>2 DEF sem_addholder_tcb
  <2>2. /\ hs \in Seq(HolderRecord) /\ Len(hs) \in Nat /\ DOMAIN hs = 1 .. Len(hs)
        /\ Holder(t, 1) \in HolderRecord /\ Holder(t, 1).htcb = t /\ Holder(t, 1).counts = 1
    BY DEF HolderList, HolderRecord, Holder
  <2>3. /\ gs \in Seq(HolderRecord) /\ Len(gs) = Len(hs) + 1
        /\ gs[1] = Holder(t, 1)
        /\ \A i \in 1 .. Len(hs) : gs[i + 1] = hs[i]
    <3> HIDE DEF Holder
    <3>1. <<Holder(t, 1)>> \in Seq(HolderRecord) /\ Len(<<Holder(t, 1)>>) = 1
          /\ <<Holder(t, 1)>>[1] = Holder(t, 1)
      BY <2>2
    <3> QED BY <2>2, <3>1, ConcatProperties
  <2>4. \A i : i \in 1 .. Len(gs) <=> (i = 1 \/ (i - 1 \in 1 .. Len(hs) /\ i = (i - 1) + 1))
    BY <2>2, <2>3
  <2> HIDE DEF gs
  <2>5. \A i \in 1 .. Len(hs) : hs[i].htcb # t
    BY <1>2, ChargedIs
  <2>6. HolderList(gs)
    <3> SUFFICES ASSUME NEW i \in 1 .. Len(gs), NEW j \in 1 .. Len(gs), gs[i].htcb = gs[j].htcb
                 PROVE  i = j
      BY <2>3 DEF HolderList
    <3>1. \A a, b \in 1 .. Len(hs) : hs[a].htcb = hs[b].htcb => a = b
      BY DEF HolderList
    <3>2. i = 1 \/ (i - 1 \in 1 .. Len(hs) /\ gs[i] = hs[i - 1])
      BY <2>3, <2>4
    <3>3. j = 1 \/ (j - 1 \in 1 .. Len(hs) /\ gs[j] = hs[j - 1])
      BY <2>3, <2>4
    <3>4. CASE i = 1
      BY <2>2, <2>3, <2>5, <3>3, <3>4
    <3>5. CASE j = 1
      BY <2>2, <2>3, <2>5, <3>2, <3>5
    <3>6. CASE i # 1 /\ j # 1
      <4>1. i - 1 = j - 1
        BY <3>1, <3>2, <3>3, <3>6
      <4> QED BY <4>1, <2>3
    <3> QED BY <3>4, <3>5, <3>6
  <2>7. t \in HolderTasks(gs) /\ Charged(gs, t) = 1 /\ Charged(hs, t) = 0
    <3>1. 1 \in 1 .. Len(gs)
      BY <2>2, <2>3
    <3>2. Charged(hs, t) = 0
      BY <1>2 DEF Charged
    <3> QED BY <2>2, <2>3, <2>6, <3>1, <3>2, ChargedIs
  <2> DEFINE G == {t}
  <2>8. \A i \in 1 .. Len(gs) : gs[i].htcb \notin G => \E j \in 1 .. Len(hs) : hs[j] = gs[i]
    BY <2>2, <2>3, <2>4
  <2>9. \A j \in 1 .. Len(hs) : \E i \in 1 .. Len(gs) : hs[j] = gs[i] /\ gs[i].htcb \notin G
    <3>1. \A j \in 1 .. Len(hs) : j + 1 \in 1 .. Len(gs)
      BY <2>2, <2>3
    <3> QED BY <2>3, <2>5, <3>1
  <2> HIDE DEF G
  <2>10. /\ HolderTasks(hs) = HolderTasks(gs) \ G
         /\ \A u \in Tasks \ G : Charged(hs, u) = Charged(gs, u)
    BY <2>6, <2>8, <2>9, SameContainers
  <2> USE DEF G
  <2> QED BY <2>1, <2>6, <2>7, <2>10
<1> QED BY <1>1, <1>2

-----------------------------------------------------------------------------
(* The holder lists of the locks.                                          *)

\* The containers that threads may need: one for each semaphore that a thread
\* waits for and that takes part in priority inheritance.
Chargeable ==
  {p \in Sems \X Tasks : p[1] \in Uses[p[2]] \ (NoInherit \union IsrSems)}

\* There are enough of them.
EnoughContainers ==
  IsFiniteSet(Chargeable) /\ Cardinality(Chargeable) <= SEM_PREALLOCHOLDERS

Inherited == LockSems \ NoInherit

\* A list has a container only for a thread that waits for the semaphore.
HolderLists ==
  /\ DOMAIN holders = Sems /\ holders = [s \in Sems |-> holders[s]]
  /\ \A s \in Sems : HolderList(holders[s])
  /\ \A s \in Sems : \A t \in HolderTasks(holders[s]) :
       s \in Uses[t] \ (NoInherit \union IsrSems)

\* A call that was switched out is about a semaphore its thread uses, and a
\* post about one that the thread has given up.
CallsConsistent ==
  \A t \in Tasks :
    /\ cont[t].kind = "wait" => cont[t].sem \in Uses[t]
    /\ cont[t].kind = "post" => cont[t].sem \in Sems /\ cont[t].sem \notin locks[t]

ExactAt(s, t) ==
  /\ Charged(holders[s], t) = IF t \in Owners(s) THEN 1 ELSE 0
  /\ t \in HolderTasks(holders[s]) /\ t \notin Owners(s) =>
       cont[t].kind = "post" /\ cont[t].sem = s

LocksCharged == \A s \in Inherited, t \in Tasks : Alive(t) => ExactAt(s, t)

HoldersInv ==
  /\ HolderLists
  /\ CallsConsistent
  /\ LocksCharged

\* HoldersExact says the same of the lists.
LEMMA ChargedMeansExact ==
  ASSUME HolderLists, LocksCharged
  PROVE  HoldersExact
<1> SUFFICES ASSUME NEW s \in LockSems \ NoInherit, NEW t \in Tasks, Alive(t)
             PROVE  /\ HeldBy(s, t) = IF t \in Owners(s) THEN 1 ELSE 0
                    /\ t \in HolderTasks(holders[s]) /\ t \notin Owners(s) =>
                         cont[t].kind = "post" /\ cont[t].sem = s
  BY DEF HoldersExact
<1>1. ExactAt(s, t)
  BY DEF LocksCharged, Inherited
<1>2. HolderList(holders[s])
  BY LockCounts DEF HolderLists
<1> DEFINE hs == holders[s]
           at == {k \in DOMAIN hs : hs[k].htcb = t}
<1>3. HeldBy(s, t) = Charged(hs, t)
  <2>1. DOMAIN hs = 1 .. Len(hs)
    BY <1>2 DEF HolderList
  <2>2. CASE t \in HolderTasks(hs)
    <3>1. at = {Position(hs, t)}
      BY <1>2, <2>1, <2>2, PositionIs
    <3>2. (CHOOSE k \in at : TRUE) = Position(hs, t)
      BY <3>1
    <3>3. at # {}
      BY <3>1
    <3> HIDE DEF at
    <3>4. HeldBy(s, t) = hs[CHOOSE k \in at : TRUE].counts
      BY <3>3 DEF HeldBy, at
    <3> QED BY <2>2, <3>2, <3>4 DEF Charged
  <2>3. CASE t \notin HolderTasks(hs)
    <3>1. at = {}
      BY <2>3 DEF HolderTasks
    <3> QED BY <2>3, <3>1 DEF HeldBy, Charged
  <2> QED BY <2>2, <2>3
<1> QED BY <1>1, <1>3 DEF ExactAt

\* While a thread may need a container, one is left.
LEMMA ContainerLeft ==
  ASSUME HolderLists, EnoughContainers, NEW s \in Sems, NEW t \in Tasks,
         s \in Uses[t] \ (NoInherit \union IsrSems), t \notin HolderTasks(holders[s])
  PROVE  Cardinality(AllHolders) < SEM_PREALLOCHOLDERS
<1> DEFINE C == Chargeable \ {<<s, t>>}
           f == [p \in AllHolders |-> <<p[1], holders[p[1]][p[2]].htcb>>]
<1>1. <<s, t>> \in Chargeable
  BY DEF Chargeable
<1>2. IsFiniteSet(C) /\ Cardinality(C) = Cardinality(Chargeable) - 1
  BY <1>1, FS_RemoveElement DEF EnoughContainers
<1>3. ASSUME NEW p \in AllHolders
      PROVE  /\ \E q \in Sems, k \in Nat : k \in 1 .. Len(holders[q]) /\ p = <<q, k>>
             /\ f[p] \in C
  <2>1. PICK q \in Sems : \E k \in DOMAIN holders[q] : p = <<q, k>>
    BY DEF AllHolders
  <2>2. PICK k \in DOMAIN holders[q] : p = <<q, k>>
    BY <2>1
  <2>3. HolderList(holders[q]) /\ DOMAIN holders[q] = 1 .. Len(holders[q])
    BY DEF HolderLists, HolderList
  <2>4. holders[q][k].htcb \in HolderTasks(holders[q]) /\ holders[q][k].htcb \in Tasks
    BY <2>3, ChargedIs
  <2>5. q \in Uses[holders[q][k].htcb] \ (NoInherit \union IsrSems)
    BY <2>4 DEF HolderLists
  <2>6. <<q, holders[q][k].htcb>> \in Chargeable
    BY <2>4, <2>5 DEF Chargeable
  <2>7. <<q, holders[q][k].htcb>> # <<s, t>>
    BY <2>4
  <2> QED BY <2>2, <2>3, <2>6, <2>7
<1>4. f \in Injection(AllHolders, C)
  <2>1. f \in [AllHolders -> C]
    BY <1>3
  <2>2. ASSUME NEW a \in AllHolders, NEW b \in AllHolders, f[a] = f[b]
        PROVE  a = b
    <3>1. PICK q \in Sems, k \in Nat : k \in 1 .. Len(holders[q]) /\ a = <<q, k>>
      BY <1>3
    <3>2. PICK r \in Sems, m \in Nat : m \in 1 .. Len(holders[r]) /\ b = <<r, m>>
      BY <1>3
    <3>3. q = r /\ holders[q][k].htcb = holders[r][m].htcb
      BY <2>2, <3>1, <3>2
    <3>4. k = m
      BY <3>1, <3>2, <3>3 DEF HolderLists, HolderList
    <3> QED BY <3>1, <3>2, <3>3, <3>4
  <2> HIDE DEF f, C
  <2> QED BY <2>1, <2>2 DEF Injection, IsInjective
<1> HIDE DEF f
<1>5. Cardinality(AllHolders) <= Cardinality(C) /\ IsFiniteSet(AllHolders)
  BY <1>2, <1>4, FS_Injection
<1>6. Cardinality(AllHolders) \in Nat /\ Cardinality(C) \in Nat /\ Cardinality(Chargeable) \in Nat
  BY <1>2, <1>5, FS_CardinalityType DEF EnoughContainers
<1> QED BY <1>2, <1>5, <1>6, ConstantsAssumption DEF EnoughContainers

\* The owners of the locks, after each effect.
LEMMA OwnersAfterTake ==
  ASSUME ProtocolInv, NEW t \in Tasks, NEW s \in Sems, EffTake(t, s)
  PROVE  /\ s \in LockSems => Owners(s)' = Owners(s) \union {t} /\ t \notin Owners(s)
         /\ \A q \in LockSems \ {s} : Owners(q)' = Owners(q)
<1> USE DEF ProtocolInv, EffTake, Ready, OwnLock, NoCont
<1>1. s \in LockSems => Owners(s)' = Owners(s) \union {t} /\ t \notin Owners(s)
  BY DEF Owners, Granted, ProtocolTypeOK
<1>2. \A q \in LockSems \ {s} : Owners(q)' = Owners(q)
  BY DEF Owners, Granted, ProtocolTypeOK
<1> QED BY <1>1, <1>2

LEMMA OwnersStay ==
  ASSUME ProtocolInv,
         \/ \E t \in Tasks, s \in Sems : EffBlock(t, s)
         \/ \E s \in Sems : EffInject(s)
         \/ \E t \in Tasks : EffReturn(t) \/ EffResume(t) \/ EffCancel(t) \/ EffDie(t)
         \/ EffNone
  PROVE  \A q \in LockSems : Owners(q)' = Owners(q)
<1> USE DEF ProtocolInv
<1>1. ASSUME NEW t \in Tasks, NEW s \in Sems, EffBlock(t, s)
      PROVE  \A q \in LockSems : Owners(q)' = Owners(q)
  BY <1>1 DEF EffBlock, Ready, NoCont, Owners, Granted, ProtocolTypeOK
<1>2. ASSUME NEW s \in Sems, EffInject(s)
      PROVE  \A q \in LockSems : Owners(q)' = Owners(q)
  BY <1>2, LockCounts
  DEF EffInject, EffCount, EffWake, Waiters, Owners, Granted, ProtocolTypeOK, WaitConsistent
<1>3. ASSUME NEW t \in Tasks, EffReturn(t)
      PROVE  \A q \in LockSems : Owners(q)' = Owners(q)
  BY <1>3 DEF EffReturn, Ready, NoCont, OwnLock, Owners, Granted, ProtocolTypeOK, WaitConsistent
<1>4. ASSUME NEW t \in Tasks, EffResume(t)
      PROVE  \A q \in LockSems : Owners(q)' = Owners(q)
  BY <1>4 DEF EffResume, NoCont, Owners, Granted, ProtocolTypeOK
<1>5. ASSUME NEW t \in Tasks, EffCancel(t)
      PROVE  \A q \in LockSems : Owners(q)' = Owners(q)
  BY <1>5 DEF EffCancel, Owners, Granted, ProtocolTypeOK
<1>6. ASSUME NEW t \in Tasks, EffDie(t)
      PROVE  \A q \in LockSems : Owners(q)' = Owners(q)
  BY <1>6 DEF EffDie, Ready, Owners, Granted, ProtocolTypeOK
<1>7. ASSUME EffNone
      PROVE  \A q \in LockSems : Owners(q)' = Owners(q)
  BY <1>7 DEF EffNone, Owners, Granted
<1> QED BY <1>1, <1>2, <1>3, <1>4, <1>5, <1>6, <1>7

\* One list is replaced.
LEMMA ListReplaced ==
  ASSUME HolderLists, NEW s \in Sems, NEW gs, HolderList(gs),
         \A t \in HolderTasks(gs) : s \in Uses[t] \ (NoInherit \union IsrSems),
         holders' = [holders EXCEPT ![s] = gs]
  PROVE  HolderLists' /\ holders'[s] = gs /\ \A q \in Sems \ {s} : holders'[q] = holders[q]
<1>1. holders'[s] = gs /\ \A q \in Sems \ {s} : holders'[q] = holders[q]
  BY DEF HolderLists
<1>2. DOMAIN holders' = Sems /\ holders' = [q \in Sems |-> holders'[q]]
  BY DEF HolderLists
<1>3. ASSUME NEW q \in Sems
      PROVE  /\ HolderList(holders'[q])
             /\ \A t \in HolderTasks(holders'[q]) : q \in Uses[t] \ (NoInherit \union IsrSems)
  <2>1. CASE q = s
    BY <1>1, <2>1
  <2>2. CASE q # s
    BY <1>1, <2>2 DEF HolderLists
  <2> QED BY <2>1, <2>2
<1>4. \A q \in Sems : (HolderList(holders[q]))' <=> HolderList(holders'[q])
  BY DEF HolderList, HolderRecord
<1>5. \A q \in Sems : (HolderTasks(holders[q]))' = HolderTasks(holders'[q])
  BY DEF HolderTasks
<1> QED BY <1>1, <1>2, <1>3, <1>4, <1>5 DEF HolderLists

LEMMA ListsUnchanged ==
  ASSUME HolderLists, UNCHANGED holders
  PROVE  HolderLists'
<1>1. \A q \in Sems : (HolderList(holders[q]))' <=> HolderList(holders[q])
  BY DEF HolderList, HolderRecord
<1>2. \A q \in Sems : (HolderTasks(holders[q]))' = HolderTasks(holders[q])
  BY DEF HolderTasks
<1> QED BY <1>1, <1>2 DEF HolderLists

\* A step that leaves the owners of the locks and the charges of living threads
\* alone, and adds no container for them.
LEMMA ChargesStay ==
  ASSUME HoldersInv, HolderLists', CallsConsistent',
         \A q \in Inherited : Owners(q)' = Owners(q),
         \A t \in Tasks : task_state'[t] # "DEAD" => Alive(t),
         \A t \in Tasks : cont'[t] = cont[t] \/ cont[t].kind # "post",
         \A q \in Inherited, t \in Tasks :
           Alive(t) => /\ Charged(holders'[q], t) = Charged(holders[q], t)
                       /\ t \in HolderTasks(holders'[q]) => t \in HolderTasks(holders[q])
  PROVE  HoldersInv'
<1> SUFFICES ASSUME NEW q \in Inherited, NEW t \in Tasks, task_state'[t] # "DEAD"
             PROVE  /\ Charged(holders'[q], t) = IF t \in Owners(q)' THEN 1 ELSE 0
                    /\ t \in HolderTasks(holders'[q]) /\ t \notin Owners(q)' =>
                         cont'[t].kind = "post" /\ cont'[t].sem = q
  BY DEF HoldersInv, LocksCharged, ExactAt, Alive, Charged, HolderTasks, Position
<1>1. Alive(t) /\ ExactAt(q, t)
  BY DEF HoldersInv, LocksCharged
<1> QED BY <1>1 DEF ExactAt

\* The same for the calls that are switched out.
LEMMA CallsStay ==
  ASSUME ProtocolInv, CallsConsistent,
         \/ \E t \in Tasks, s \in Sems :
              EffTake(t, s) \/ (EffBlock(t, s) /\ s \in Uses[t]) \/ EffPost(t, s)
         \/ \E s \in Sems : EffInject(s)
         \/ \E t \in Tasks : EffReturn(t) \/ EffResume(t) \/ EffCancel(t) \/ EffDie(t)
         \/ EffNone
  PROVE  CallsConsistent'
<1> USE DEF ProtocolInv
<1>1. ASSUME NEW t \in Tasks, NEW s \in Sems, EffTake(t, s)
      PROVE  CallsConsistent'
  BY <1>1 DEF EffTake, OwnLock, NoCont, CallsConsistent, ProtocolTypeOK
<1>2. ASSUME NEW t \in Tasks, NEW s \in Sems, EffBlock(t, s), s \in Uses[t]
      PROVE  CallsConsistent'
  BY <1>2 DEF EffBlock, CallsConsistent, ProtocolTypeOK
<1>3. ASSUME NEW t \in Tasks, NEW s \in Sems, EffPost(t, s)
      PROVE  CallsConsistent'
  BY <1>3 DEF EffPost, EffCount, EffWake, DropLock, NoCont, CallsConsistent, ProtocolTypeOK
<1>4. ASSUME NEW s \in Sems, EffInject(s)
      PROVE  CallsConsistent'
  BY <1>4 DEF EffInject, EffCount, EffWake, CallsConsistent
<1>5. ASSUME NEW t \in Tasks, EffReturn(t)
      PROVE  CallsConsistent'
  BY <1>5 DEF EffReturn, OwnLock, NoCont, CallsConsistent, ProtocolTypeOK
<1>6. ASSUME NEW t \in Tasks, EffResume(t)
      PROVE  CallsConsistent'
  BY <1>6 DEF EffResume, NoCont, CallsConsistent, ProtocolTypeOK
<1>7. ASSUME NEW t \in Tasks, EffCancel(t)
      PROVE  CallsConsistent'
  BY <1>7 DEF EffCancel, CallsConsistent
<1>8. ASSUME NEW t \in Tasks, EffDie(t)
      PROVE  CallsConsistent'
  BY <1>8 DEF EffDie, CallsConsistent
<1>9. ASSUME EffNone
      PROVE  CallsConsistent'
  BY <1>9 DEF EffNone, CallsConsistent
<1> QED BY <1>1, <1>2, <1>3, <1>4, <1>5, <1>6, <1>7, <1>8, <1>9

\* The removal of stale containers from one list.
LEMMA StaleFreed ==
  ASSUME HolderLists, NEW s \in Sems, holders' = [holders EXCEPT ![s] = FreeStale(@)]
  PROVE  /\ HolderLists'
         /\ \A q \in Sems, t \in Tasks :
              Alive(t) => /\ Charged(holders'[q], t) = Charged(holders[q], t)
                          /\ t \in HolderTasks(holders'[q]) => t \in HolderTasks(holders[q])
<1>1. HolderList(holders[s])
  BY DEF HolderLists
<1> DEFINE gs == FreeStale(holders[s])
<1>2. holders' = [holders EXCEPT ![s] = gs]
  OBVIOUS
<1>3. /\ HolderList(gs)
      /\ HolderTasks(gs) \subseteq HolderTasks(holders[s])
      /\ \A t \in Tasks : Alive(t) => Charged(gs, t) = Charged(holders[s], t)
  BY <1>1, FreeStaleIs
<1> HIDE DEF gs
<1>4. \A t \in HolderTasks(gs) : s \in Uses[t] \ (NoInherit \union IsrSems)
  BY <1>3 DEF HolderLists
<1>5. HolderLists' /\ holders'[s] = gs /\ \A q \in Sems \ {s} : holders'[q] = holders[q]
  BY <1>2, <1>3, <1>4, ListReplaced
<1> QED BY <1>3, <1>5

\* The actions that leave the owners alone.
LEMMA OthersCharge ==
  ASSUME ProtocolInv, HoldersInv, Signallers = {},
         \/ \E t \in Tasks, s \in Sems :
              TakeIsr(t, s) \/ Block(t, s, FALSE) \/ Block(t, s, TRUE) \/ BlockIsr(t, s)
         \/ \E s \in Sems : PostFromIsr(s)
         \/ \E t \in Tasks : WaitReturn(t) \/ Timeout(t) \/ SignalIrq(t) \/ Die(t)
         \/ UNCHANGED vars
  PROVE  HoldersInv'
<1> USE DEF HoldersInv
<1>1. ASSUME UNCHANGED holders
      PROVE  /\ HolderLists'
             /\ \A q \in Inherited, t \in Tasks :
                  Alive(t) => /\ Charged(holders'[q], t) = Charged(holders[q], t)
                              /\ t \in HolderTasks(holders'[q]) => t \in HolderTasks(holders[q])
  BY <1>1, ListsUnchanged
<1>2. ASSUME NEW s \in Sems, holders' = [holders EXCEPT ![s] = FreeStale(@)]
      PROVE  /\ HolderLists'
             /\ \A q \in Inherited, t \in Tasks :
                  Alive(t) => /\ Charged(holders'[q], t) = Charged(holders[q], t)
                              /\ t \in HolderTasks(holders'[q]) => t \in HolderTasks(holders[q])
  BY <1>2, StaleFreed, LockCounts DEF Inherited
<1>3. ASSUME NEW t \in Tasks, NEW s \in Sems, TakeIsr(t, s)
      PROVE  HoldersInv'
  <2>1. EffTake(t, s) /\ s \notin LockSems
    BY <1>3, ActionEffects, ConstantsAssumption DEF TakeIsr
  <2>2. \A q \in Inherited : Owners(q)' = Owners(q)
    BY <2>1, OwnersAfterTake DEF Inherited
  <2>3. CallsConsistent'
    BY <2>1, CallsStay
  <2> QED BY <1>1, <1>3, <2>2, <2>3, ChargesStay DEF TakeIsr, Alive
<1>4. ASSUME NEW t \in Tasks, NEW s \in Sems,
             Block(t, s, FALSE) \/ Block(t, s, TRUE) \/ BlockIsr(t, s)
      PROVE  HoldersInv'
  <2>1. EffBlock(t, s) /\ s \in Uses[t]
    BY <1>4, ActionEffects DEF Block, BlockIsr, MayWait
  <2>2. \A q \in Inherited : Owners(q)' = Owners(q)
    BY <2>1, OwnersStay DEF Inherited
  <2>3. CallsConsistent'
    BY <2>1, CallsStay
  <2>4. holders' = [holders EXCEPT ![s] = FreeStale(@)] \/ UNCHANGED holders
    BY <1>4 DEF Block, BlockIsr
  <2>5. \A u \in Tasks : /\ task_state'[u] # "DEAD" => Alive(u)
                         /\ cont'[u] = cont[u] \/ cont[u].kind # "post"
    BY <2>1 DEF EffBlock, NoCont, Ready, Alive, ProtocolInv, ProtocolTypeOK
  <2> QED BY <1>1, <1>2, <2>2, <2>3, <2>4, <2>5, ChargesStay
<1>5. ASSUME NEW s \in Sems, PostFromIsr(s)
      PROVE  HoldersInv'
  <2>1. EffInject(s)
    BY <1>5, ActionEffects
  <2>2. \A q \in Inherited : Owners(q)' = Owners(q)
    BY <2>1, OwnersStay DEF Inherited
  <2>3. CallsConsistent'
    BY <2>1, CallsStay
  <2>4. \A u \in Tasks : /\ task_state'[u] # "DEAD" => Alive(u)
                         /\ cont'[u] = cont[u]
    BY <2>1 DEF EffInject, EffCount, EffWake, Waiters, Alive, ProtocolInv, ProtocolTypeOK
  <2> QED BY <1>1, <1>5, <2>2, <2>3, <2>4, ChargesStay DEF PostFromIsr
<1>6. ASSUME NEW t \in Tasks, WaitReturn(t)
      PROVE  HoldersInv'
  <2>1. EffReturn(t)
    BY <1>6, ActionEffects
  <2>2. \A q \in Inherited : Owners(q)' = Owners(q)
    BY <2>1, OwnersStay DEF Inherited
  <2>3. CallsConsistent'
    BY <2>1, CallsStay
  <2>4. \A u \in Tasks : /\ task_state'[u] # "DEAD" => Alive(u)
                         /\ cont'[u] = cont[u] \/ cont[u].kind # "post"
    BY <2>1 DEF EffReturn, Alive, ProtocolInv, ProtocolTypeOK
  <2> QED BY <1>1, <1>6, <2>2, <2>3, <2>4, ChargesStay DEF WaitReturn
<1>7. ASSUME NEW t \in Tasks, Timeout(t) \/ SignalIrq(t)
      PROVE  HoldersInv'
  <2>1. EffCancel(t) \/ EffNone
    BY <1>7, ActionEffects
  <2>2. \A q \in Inherited : Owners(q)' = Owners(q)
    BY <2>1, OwnersStay DEF Inherited
  <2>3. CallsConsistent'
    BY <2>1, CallsStay
  <2>4. \A u \in Tasks : /\ task_state'[u] # "DEAD" => Alive(u)
                         /\ cont'[u] = cont[u]
    BY <2>1 DEF EffCancel, EffNone, Alive, ProtocolInv, ProtocolTypeOK
  <2>5. \/ UNCHANGED holders
        \/ \E s \in Sems : holders' = [holders EXCEPT ![s] = FreeStale(@)]
    BY <1>7 DEF Timeout, SignalIrq, CancelIrq, ProtocolInv, WaitConsistent
  <2> QED BY <1>1, <1>2, <2>2, <2>3, <2>4, <2>5, ChargesStay
<1>8. ASSUME NEW t \in Tasks, Die(t)
      PROVE  HoldersInv'
  <2>1. EffDie(t)
    BY <1>8, ActionEffects
  <2>2. \A q \in Inherited : Owners(q)' = Owners(q)
    BY <2>1, OwnersStay DEF Inherited
  <2>3. CallsConsistent'
    BY <2>1, CallsStay
  <2>4. \A u \in Tasks : /\ task_state'[u] # "DEAD" => Alive(u)
                         /\ cont'[u] = cont[u]
    BY <2>1 DEF EffDie, Alive, ProtocolInv, ProtocolTypeOK
  <2> QED BY <1>1, <1>8, <2>2, <2>3, <2>4, ChargesStay DEF Die
<1>9. ASSUME UNCHANGED vars
      PROVE  HoldersInv'
  <2>1. EffNone
    BY <1>9 DEF vars, EffNone
  <2>2. \A q \in Inherited : Owners(q)' = Owners(q)
    BY <2>1, OwnersStay DEF Inherited
  <2>3. CallsConsistent'
    BY <2>1, CallsStay
  <2> QED BY <1>1, <1>9, <2>2, <2>3, ChargesStay DEF vars, Alive
<1> QED BY <1>3, <1>4, <1>5, <1>6, <1>7, <1>8, <1>9

LEMMA TakeCharges ==
  ASSUME ProtocolInv, HoldersInv, EnoughContainers, Signallers = {},
         NEW t \in Tasks, NEW s \in Sems, Take(t, s)
  PROVE  HoldersInv'
<1> USE DEF HoldersInv
<1>1. EffTake(t, s)
  BY ActionEffects
<1>2. CallsConsistent'
  BY <1>1, CallsStay
<1>3. s \in Uses[t] /\ s \notin IsrSems /\ cont[t] = NoCont /\ UNCHANGED <<task_state, cont>>
  BY DEF Take, MayWait, Free
<1>4. HolderList(holders[s])
  BY DEF HolderLists
<1>5. CASE s \in NoInherit
  <2>1. holders' = holders
    BY <1>5 DEF Take, sem_addholder_tcb, HolderLists
  <2>2. \A q \in Inherited : Owners(q)' = Owners(q)
    BY <1>1, <1>5, OwnersAfterTake DEF Inherited
  <2>3. HolderLists'
    BY <2>1, ListsUnchanged
  <2> QED BY <1>2, <1>3, <2>1, <2>2, <2>3, ChargesStay DEF Alive
<1>6. CASE s \notin NoInherit
  <2> DEFINE gs == sem_addholder_tcb(s, holders[s], t)
  <2>1. holders' = [holders EXCEPT ![s] = gs]
    BY DEF Take
  <2>2. t \in HolderTasks(holders[s]) \/ Cardinality(AllHolders) < SEM_PREALLOCHOLDERS
    BY <1>3, <1>6, ContainerLeft
  <2>3. /\ HolderList(gs) /\ HolderTasks(gs) = HolderTasks(holders[s]) \union {t}
        /\ Charged(gs, t) = Charged(holders[s], t) + 1
        /\ \A u \in Tasks \ {t} : Charged(gs, u) = Charged(holders[s], u)
    BY <1>4, <1>6, <2>2, AddIs
  <2> HIDE DEF gs
  <2>4. \A u \in HolderTasks(gs) : s \in Uses[u] \ (NoInherit \union IsrSems)
    BY <1>3, <1>6, <2>3 DEF HolderLists
  <2>5. HolderLists' /\ holders'[s] = gs /\ \A q \in Sems \ {s} : holders'[q] = holders[q]
    BY <2>1, <2>3, <2>4, ListReplaced
  <2>6. ASSUME NEW q \in Inherited, NEW u \in Tasks, Alive(u)
        PROVE  /\ Charged(holders'[q], u) = IF u \in Owners(q)' THEN 1 ELSE 0
               /\ u \in HolderTasks(holders'[q]) /\ u \notin Owners(q)' =>
                    cont'[u].kind = "post" /\ cont'[u].sem = q
    <3>1. ExactAt(q, u) /\ q \in LockSems /\ q \in Sems
      BY <2>6, LockCounts DEF LocksCharged, Inherited
    <3>2. CASE q # s
      <4>1. holders'[q] = holders[q] /\ Owners(q)' = Owners(q)
        BY <1>1, <2>5, <3>1, <3>2, OwnersAfterTake
      <4> QED BY <1>3, <3>1, <4>1 DEF ExactAt
    <3>3. CASE q = s
      <4>1. Owners(s)' = Owners(s) \union {t} /\ t \notin Owners(s)
        BY <1>1, <3>1, <3>3, OwnersAfterTake
      <4> QED BY <1>3, <2>3, <2>5, <3>1, <3>3, <4>1 DEF ExactAt
    <3> QED BY <3>2, <3>3
  <2>7. LocksCharged'
    BY <1>3, <2>6 DEF LocksCharged, ExactAt, Alive, Charged, HolderTasks, Position
  <2> QED BY <1>2, <2>5, <2>7
<1> QED BY <1>5, <1>6

LEMMA ResumeCharges ==
  ASSUME ProtocolInv, HoldersInv, Signallers = {}, NEW r \in Tasks, PostResume(r)
  PROVE  HoldersInv'
<1> USE DEF HoldersInv
<1> DEFINE s == cont[r].sem
           gs == FreeIfEmpty(holders[s], r)
<1>1. EffResume(r)
  BY ActionEffects
<1>2. CallsConsistent'
  BY <1>1, CallsStay
<1>3. /\ cont[r].kind = "post" /\ s \in Sems /\ s \notin locks[r]
      /\ UNCHANGED task_state /\ \A u \in Tasks \ {r} : cont'[u] = cont[u]
  BY DEF PostResume, CallsConsistent, ProtocolInv, ProtocolTypeOK
<1>4. HolderList(holders[s])
  BY <1>3 DEF HolderLists
<1>5. holders' = [holders EXCEPT ![s] = gs]
  BY DEF PostResume
<1>6. /\ HolderList(gs)
      /\ HolderTasks(gs) = IF Charged(holders[s], r) = 0
                           THEN HolderTasks(holders[s]) \ {r} ELSE HolderTasks(holders[s])
      /\ \A u \in Tasks : Charged(gs, u) = Charged(holders[s], u)
  BY <1>4, FreeIfEmptyIs
<1> HIDE DEF gs, s
<1>7. \A u \in HolderTasks(gs) : s \in Uses[u] \ (NoInherit \union IsrSems)
  BY <1>3, <1>6 DEF HolderLists
<1>8. HolderLists' /\ holders'[s] = gs /\ \A q \in Sems \ {s} : holders'[q] = holders[q]
  BY <1>3, <1>5, <1>6, <1>7, ListReplaced
<1>9. ASSUME NEW q \in Inherited, NEW u \in Tasks, Alive(u)
      PROVE  /\ Charged(holders'[q], u) = IF u \in Owners(q)' THEN 1 ELSE 0
             /\ u \in HolderTasks(holders'[q]) /\ u \notin Owners(q)' =>
                  cont'[u].kind = "post" /\ cont'[u].sem = q
  <2>1. ExactAt(q, u) /\ q \in LockSems /\ q \in Sems /\ Owners(q)' = Owners(q)
    BY <1>1, <1>9, LockCounts, OwnersStay DEF LocksCharged, Inherited
  <2>2. CASE q # s
    BY <1>3, <1>8, <2>1, <2>2 DEF ExactAt, s
  <2>3. CASE q = s
    <3>1. r \notin Owners(s)
      BY <1>3 DEF Owners, Granted
    <3> QED BY <1>3, <1>6, <1>8, <2>1, <2>3, <3>1 DEF ExactAt
  <2> QED BY <2>2, <2>3
<1>10. LocksCharged'
  BY <1>3, <1>9 DEF LocksCharged, ExactAt, Alive, Charged, HolderTasks, Position
<1> QED BY <1>2, <1>8, <1>10

\* The list of s after a post by r that gives the count to w.
LEMMA HandedOver ==
  ASSUME ProtocolInv, HoldersInv, EnoughContainers, NEW s \in Sems, s \notin IsrSems,
         NEW r, NEW w \in Tasks, w \in Waiters(s)
  PROVE  LET hs == sem_addholder_tcb(s, sem_releaseholder(holders[s], r), w) IN
         /\ HolderList(hs)
         /\ \A u \in HolderTasks(hs) : s \in Uses[u] \ (NoInherit \union IsrSems)
         /\ HolderTasks(holders[s]) \subseteq HolderTasks(hs)
         /\ HolderTasks(hs) \subseteq HolderTasks(holders[s]) \union {w}
         /\ s \in Inherited =>
              /\ Charged(hs, r) = IF r = w THEN Charged(hs, r)
                                  ELSE IF Charged(holders[s], r) > 0 THEN Charged(holders[s], r) - 1 ELSE 0
              /\ r # w => Charged(hs, w) = Charged(holders[s], w) + 1
              /\ \A u \in Tasks \ {r, w} : Charged(hs, u) = Charged(holders[s], u)
<1> USE DEF HoldersInv
<1> DEFINE rs == sem_releaseholder(holders[s], r)
           hs == sem_addholder_tcb(s, rs, w)
<1>1. HolderList(holders[s])
  BY DEF HolderLists
<1>2. /\ HolderList(rs) /\ HolderTasks(rs) = HolderTasks(holders[s])
      /\ Charged(rs, r) = IF Charged(holders[s], r) > 0 THEN Charged(holders[s], r) - 1 ELSE 0
      /\ \A u \in Tasks \ {r} : Charged(rs, u) = Charged(holders[s], u)
  BY <1>1, ReleaseIs
<1> HIDE DEF rs
<1>3. s \in Uses[w]
  BY DEF CallsConsistent, ProtocolInv, WaitConsistent, Waiters
<1>4. CASE s \in NoInherit
  <2>1. hs = rs
    BY <1>4 DEF sem_addholder_tcb
  <2> QED BY <1>2, <1>4, <2>1 DEF rs, Inherited, HolderLists
<1>5. CASE s \notin NoInherit
  <2>1. w \in HolderTasks(rs) \/ Cardinality(AllHolders) < SEM_PREALLOCHOLDERS
    BY <1>2, <1>3, <1>5, ContainerLeft
  <2>2. /\ HolderList(hs) /\ HolderTasks(hs) = HolderTasks(rs) \union {w}
        /\ Charged(hs, w) = Charged(rs, w) + 1
        /\ \A u \in Tasks \ {w} : Charged(hs, u) = Charged(rs, u)
    BY <1>2, <1>5, <2>1, AddIs
  <2> HIDE DEF hs
  <2>3. \A u \in HolderTasks(hs) : s \in Uses[u] \ (NoInherit \union IsrSems)
    BY <1>2, <1>3, <1>5, <2>2 DEF HolderLists
  <2>4. r \in Tasks \/ (Charged(hs, r) = 0 /\ Charged(holders[s], r) = 0)
    <3>1. HolderTasks(hs) \subseteq Tasks /\ HolderTasks(holders[s]) \subseteq Tasks
      BY <1>1, <2>2, PositionIs
    <3> QED BY <3>1 DEF Charged
  <2>5. r \notin Tasks =>
          Charged(hs, r) = IF Charged(holders[s], r) > 0 THEN Charged(holders[s], r) - 1 ELSE 0
    BY <2>4
  <2>6. r # w =>
          Charged(hs, r) = IF Charged(holders[s], r) > 0 THEN Charged(holders[s], r) - 1 ELSE 0
    BY <1>2, <2>2, <2>5
  <2>7. r # w => Charged(hs, w) = Charged(holders[s], w) + 1
    BY <1>2, <2>2
  <2>8. \A u \in Tasks \ {r, w} : Charged(hs, u) = Charged(holders[s], u)
    BY <1>2, <2>2
  <2> QED BY <1>2, <2>2, <2>3, <2>6, <2>7, <2>8 DEF hs, rs
<1> QED BY <1>4, <1>5

LEMMA IrqPostCharges ==
  ASSUME ProtocolInv, HoldersInv, EnoughContainers, Signallers = {},
         NEW r \in Tasks \union {NoTask}, NEW s \in Sems, IrqPost(r, s)
  PROVE  HoldersInv'
<1> USE DEF HoldersInv
<1>1. EffInject(s) /\ s \notin LockSems /\ s \notin IsrSems
  BY ActionEffects DEF IrqPost
<1>2. \A q \in Inherited : Owners(q)' = Owners(q)
  BY <1>1, OwnersStay DEF Inherited
<1>3. CallsConsistent'
  BY <1>1, CallsStay
<1>4. \A u \in Tasks : (task_state'[u] # "DEAD" => Alive(u)) /\ cont'[u] = cont[u]
  BY <1>1 DEF EffInject, EffCount, EffWake, Waiters, Alive, ProtocolInv, ProtocolTypeOK
<1>5. \E gs : /\ HolderList(gs)
              /\ \A u \in HolderTasks(gs) : s \in Uses[u] \ (NoInherit \union IsrSems)
              /\ holders' = [holders EXCEPT ![s] = gs]
  <2> DEFINE rs == sem_releaseholder(holders[s], r)
  <2>0. HolderList(holders[s])
    BY DEF HolderLists
  <2>1. HolderList(rs) /\ HolderTasks(rs) = HolderTasks(holders[s])
    BY <2>0, ReleaseIs
  <2>2. CASE holders' = [holders EXCEPT ![s] = rs]
    <3> HIDE DEF rs
    <3> QED BY <2>1, <2>2 DEF HolderLists
  <2>3. ASSUME NEW w \in Tasks, w \in Waiters(s),
               holders' = [holders EXCEPT ![s] = FreeStale(sem_addholder_tcb(s, rs, w))]
        PROVE  \E gs : /\ HolderList(gs)
                       /\ \A u \in HolderTasks(gs) : s \in Uses[u] \ (NoInherit \union IsrSems)
                       /\ holders' = [holders EXCEPT ![s] = gs]
    <3> DEFINE hs == sem_addholder_tcb(s, rs, w)
               gs == FreeStale(hs)
    <3>1. HolderList(hs) /\ \A u \in HolderTasks(hs) : s \in Uses[u] \ (NoInherit \union IsrSems)
      BY <1>1, <2>3, HandedOver
    <3> HIDE DEF hs
    <3>2. HolderList(gs) /\ HolderTasks(gs) \subseteq HolderTasks(hs)
      BY <3>1, FreeStaleIs
    <3>3. holders' = [holders EXCEPT ![s] = gs]
      BY <2>3 DEF hs
    <3> HIDE DEF gs
    <3> QED BY <3>1, <3>2, <3>3
  <2>4. \/ holders' = [holders EXCEPT ![s] = rs]
        \/ \E w \in Tasks : /\ w \in Waiters(s)
                            /\ holders' = [holders EXCEPT ![s] = FreeStale(sem_addholder_tcb(s, rs, w))]
    BY DEF IrqPost, FirstWaiter
  <2> HIDE DEF rs
  <2> QED BY <2>2, <2>3, <2>4
<1>6. HolderLists' /\ \A q \in Sems \ {s} : holders'[q] = holders[q]
  BY <1>5, ListReplaced
<1>7. \A q \in Inherited : holders'[q] = holders[q]
  BY <1>1, <1>6, LockCounts DEF Inherited
<1> QED BY <1>2, <1>3, <1>4, <1>6, <1>7, ChargesStay

\* A post that finds no waiter.
LEMMA PostCountCharges ==
  ASSUME ProtocolInv, HoldersInv, Signallers = {}, NEW r \in Tasks, NEW s \in Sems,
         Post(r, s), PostCount(r, s)
  PROVE  HoldersInv'
<1> USE DEF HoldersInv
<1> DEFINE rs == sem_releaseholder(holders[s], r)
           gs == FreeIfEmpty(rs, r)
<1>1. EffPost(r, s) /\ EffCount(s) /\ UNCHANGED <<task_state, cont>>
  BY ActionEffects DEF Post, PostCount, EffCount, CanPost
<1>2. CallsConsistent'
  BY <1>1, CallsStay
<1>3. HolderList(holders[s]) /\ holders' = [holders EXCEPT ![s] = gs]
  BY DEF HolderLists, PostCount
<1>4. /\ HolderList(rs) /\ HolderTasks(rs) = HolderTasks(holders[s])
      /\ Charged(rs, r) = IF Charged(holders[s], r) > 0 THEN Charged(holders[s], r) - 1 ELSE 0
      /\ \A u \in Tasks \ {r} : Charged(rs, u) = Charged(holders[s], u)
  BY <1>3, ReleaseIs
<1> HIDE DEF rs
<1>5. /\ HolderList(gs)
      /\ HolderTasks(gs) = IF Charged(rs, r) = 0 THEN HolderTasks(rs) \ {r} ELSE HolderTasks(rs)
      /\ \A u \in Tasks : Charged(gs, u) = Charged(rs, u)
  BY <1>4, FreeIfEmptyIs
<1> HIDE DEF gs
<1>6. \A u \in HolderTasks(gs) : s \in Uses[u] \ (NoInherit \union IsrSems)
  BY <1>4, <1>5 DEF HolderLists
<1>7. HolderLists' /\ holders'[s] = gs /\ \A q \in Sems \ {s} : holders'[q] = holders[q]
  BY <1>3, <1>5, <1>6, ListReplaced
<1>8. ASSUME NEW q \in Inherited, NEW u \in Tasks, Alive(u)
      PROVE  /\ Charged(holders'[q], u) = IF u \in Owners(q)' THEN 1 ELSE 0
             /\ u \in HolderTasks(holders'[q]) /\ u \notin Owners(q)' =>
                  cont'[u].kind = "post" /\ cont'[u].sem = q
  <2>1. ExactAt(q, u) /\ q \in LockSems /\ q \in Sems
    BY <1>8, LockCounts DEF LocksCharged, Inherited
  <2>2. CASE q # s
    <3>1. holders'[q] = holders[q] /\ Owners(q)' = Owners(q)
      BY <1>1, <1>7, <2>1, <2>2, OwnersAfterPost
    <3> QED BY <1>1, <2>1, <3>1 DEF ExactAt
  <2>3. CASE q = s
    <3>1. Owners(s)' = Owners(s) \ {r} /\ r \in Owners(s)
      BY <1>1, <2>1, <2>3, OwnersAfterPost
    <3>2. CASE u = r
      <4>1. Charged(holders[s], r) = 1
        BY <2>1, <2>3, <3>1, <3>2 DEF ExactAt
      <4>2. Charged(rs, r) = 0
        BY <1>4, <4>1
      <4> QED BY <1>5, <1>7, <2>3, <3>1, <3>2, <4>2
    <3>3. CASE u # r
      BY <1>1, <1>4, <1>5, <1>7, <2>1, <2>3, <3>1, <3>3 DEF ExactAt
    <3> QED BY <3>2, <3>3
  <2> QED BY <2>2, <2>3
<1>9. LocksCharged'
  BY <1>1, <1>8 DEF LocksCharged, ExactAt, Alive, Charged, HolderTasks, Position
<1> QED BY <1>2, <1>7, <1>9

\* A post that hands the count to w.
LEMMA PostWakeCharges ==
  ASSUME ProtocolInv, HoldersInv, EnoughContainers, Signallers = {},
         NEW r \in Tasks, NEW s \in Sems, NEW w \in Tasks, Post(r, s), PostWake(r, s, w)
  PROVE  HoldersInv'
<1> USE DEF HoldersInv
<1> DEFINE hs == sem_addholder_tcb(s, sem_releaseholder(holders[s], r), w)
           fs == FreeStale(hs)
<1>1. /\ EffPost(r, s) /\ s \notin IsrSems /\ cont[r] = NoCont /\ Ready(r)
      /\ w \in Waiters(s) /\ semcount[s] < 0
      /\ task_state' = [task_state EXCEPT ![w] = "READY"]
  BY ActionEffects DEF Post, PostWake, FirstWaiter, Free, Running
<1>2. w # r /\ Alive(w) /\ Alive(r) /\ \A u \in Tasks : task_state'[u] # "DEAD" => Alive(u)
  BY <1>1 DEF Waiters, Alive, Ready, ProtocolInv, ProtocolTypeOK
<1>3. EffWake(s, w)
  BY <1>1 DEF Post, PostWake, EffWake, CanPost
<1>4. CallsConsistent'
  BY <1>1, CallsStay
<1>5. \E gs : /\ \/ gs = fs /\ cont'[r].kind = "post" /\ cont'[r].sem = s
                 \/ gs = FreeIfEmpty(fs, r) /\ cont' = cont
              /\ holders' = [holders EXCEPT ![s] = gs]
              /\ \A u \in Tasks \ {r} : cont'[u] = cont[u]
  BY DEF PostWake, ProtocolInv, ProtocolTypeOK
<1>6. PICK gs : /\ \/ gs = fs /\ cont'[r].kind = "post" /\ cont'[r].sem = s
                   \/ gs = FreeIfEmpty(fs, r) /\ cont' = cont
                /\ holders' = [holders EXCEPT ![s] = gs]
                /\ \A u \in Tasks \ {r} : cont'[u] = cont[u]
  BY <1>5
<1>7. /\ HolderList(hs)
      /\ \A u \in HolderTasks(hs) : s \in Uses[u] \ (NoInherit \union IsrSems)
      /\ HolderTasks(hs) \subseteq HolderTasks(holders[s]) \union {w}
      /\ s \in Inherited =>
           /\ Charged(hs, r) = IF Charged(holders[s], r) > 0 THEN Charged(holders[s], r) - 1 ELSE 0
           /\ Charged(hs, w) = Charged(holders[s], w) + 1
           /\ \A u \in Tasks \ {r, w} : Charged(hs, u) = Charged(holders[s], u)
  BY <1>1, <1>2, HandedOver
<1> HIDE DEF hs
<1>8. /\ HolderList(fs)
      /\ HolderTasks(fs) \subseteq HolderTasks(hs)
      /\ \A u \in Tasks : Alive(u) => Charged(fs, u) = Charged(hs, u)
  BY <1>7, FreeStaleIs
<1> HIDE DEF fs
<1>9. /\ HolderList(gs)
      /\ HolderTasks(gs) \subseteq HolderTasks(hs)
      /\ \A u \in Tasks : Alive(u) => Charged(gs, u) = Charged(hs, u)
      /\ r \in HolderTasks(gs) =>
           Charged(hs, r) # 0 \/ (cont'[r].kind = "post" /\ cont'[r].sem = s)
  <2>1. CASE gs = fs /\ cont'[r].kind = "post" /\ cont'[r].sem = s
    BY <1>8, <2>1
  <2>2. CASE gs = FreeIfEmpty(fs, r)
    <3>1. /\ HolderList(gs)
          /\ HolderTasks(gs) = IF Charged(fs, r) = 0 THEN HolderTasks(fs) \ {r} ELSE HolderTasks(fs)
          /\ \A u \in Tasks : Charged(gs, u) = Charged(fs, u)
      BY <1>8, <2>2, FreeIfEmptyIs
    <3> QED BY <1>2, <1>8, <3>1
  <2> QED BY <1>6, <2>1, <2>2
<1>10. \A u \in HolderTasks(gs) : s \in Uses[u] \ (NoInherit \union IsrSems)
  BY <1>7, <1>9
<1>11. HolderLists' /\ holders'[s] = gs /\ \A q \in Sems \ {s} : holders'[q] = holders[q]
  BY <1>6, <1>9, <1>10, ListReplaced
<1>12. ASSUME NEW q \in Inherited, NEW u \in Tasks, Alive(u)
       PROVE  /\ Charged(holders'[q], u) = IF u \in Owners(q)' THEN 1 ELSE 0
              /\ u \in HolderTasks(holders'[q]) /\ u \notin Owners(q)' =>
                   cont'[u].kind = "post" /\ cont'[u].sem = q
  <2>1. ExactAt(q, u) /\ q \in LockSems /\ q \in Sems
    BY <1>12, LockCounts DEF LocksCharged, Inherited
  <2>2. CASE q # s
    <3>1. holders'[q] = holders[q] /\ Owners(q)' = Owners(q)
      BY <1>1, <1>11, <2>1, <2>2, OwnersAfterPost
    <3>2. u = r => cont[u].kind # "post"
      BY <1>1 DEF NoCont
    <3> QED BY <1>6, <2>1, <3>1, <3>2 DEF ExactAt
  <2>3. CASE q = s
    <3>1. Owners(s)' = (Owners(s) \ {r}) \union {w} /\ r \in Owners(s) /\ w \notin Owners(s)
      BY <1>1, <1>3, <2>1, <2>3, OwnersAfterPost
    <3>2. Charged(holders[s], u) = IF u \in Owners(s) THEN 1 ELSE 0
      BY <2>1, <2>3 DEF ExactAt
    <3>3. CASE u = r
      <4>1. Charged(hs, r) = 0
        BY <1>7, <2>3, <3>1, <3>2, <3>3
      <4> QED BY <1>2, <1>9, <1>11, <2>3, <3>1, <3>3, <4>1
    <3>4. CASE u = w
      <4>1. Charged(hs, w) = 1
        BY <1>7, <2>3, <3>1, <3>2, <3>4
      <4> QED BY <1>2, <1>9, <1>11, <2>3, <3>1, <3>4, <4>1
    <3>5. CASE u # r /\ u # w
      <4>1. Charged(gs, u) = Charged(holders[s], u)
        BY <1>7, <1>9, <1>12, <2>3, <3>5
      <4>2. u \in HolderTasks(gs) => u \in HolderTasks(holders[s])
        BY <1>7, <1>9, <3>5
      <4> QED BY <1>6, <1>11, <2>1, <2>3, <3>1, <3>5, <4>1, <4>2 DEF ExactAt
    <3> QED BY <3>3, <3>4, <3>5
  <2> QED BY <2>2, <2>3
<1>13. LocksCharged'
  BY <1>2, <1>12 DEF LocksCharged, ExactAt, Alive, Charged, HolderTasks, Position
<1> QED BY <1>4, <1>11, <1>13

LEMMA InitCharges ==
  Init => HoldersInv
<1> SUFFICES ASSUME Init PROVE HoldersInv
  OBVIOUS
<1>1. \A s \in Sems : holders[s] = <<>> /\ HolderList(holders[s]) /\ HolderTasks(holders[s]) = {}
  BY DEF Init, HolderList, HolderTasks
<1>2. HolderLists
  BY <1>1 DEF Init, HolderLists
<1>3. CallsConsistent
  BY DEF Init, NoCont, CallsConsistent
<1>4. LocksCharged
  BY <1>1, LockCounts DEF Init, NoCont, LocksCharged, ExactAt, Charged, Owners, Granted, Inherited
<1> QED BY <1>2, <1>3, <1>4 DEF HoldersInv

LEMMA NextCharges ==
  ASSUME ProtocolInv, HoldersInv, EnoughContainers, Signallers = {}, [Next]_vars
  PROVE  HoldersInv'
<1>1. ASSUME NEW t \in Tasks, NEW s \in Sems, Post(t, s)
      PROVE  HoldersInv'
  BY <1>1, PostCountCharges, PostWakeCharges DEF Post
<1> QED BY <1>1, TakeCharges, OthersCharge, IrqPostCharges, ResumeCharges, ActionEffects DEF Next

\* With a container for every lock that a thread waits for, what the holder
\* lists charge follows the owners of the locks through every step.
THEOREM HoldersInvariant ==
  ASSUME Signallers = {}, EnoughContainers
  PROVE  Spec => []HoldersInv
<1>1. ProtocolInv /\ HoldersInv /\ [Next]_vars => HoldersInv'
  BY NextCharges
<1> QED BY <1>1, InitCharges, ProtocolInvariant, PTL DEF Spec

\* sem_addholder and sem_releaseholder agree with who owns a lock: one count is
\* charged to each living owner, none to others, and an empty container stays
\* only until its thread is back from the sem_post that emptied it.
THEOREM HoldersTheorem ==
  ASSUME Signallers = {}, EnoughContainers
  PROVE  Spec => []HoldersExact
<1>1. HoldersInv => HoldersExact
  BY ChargedMeansExact DEF HoldersInv
<1> QED BY <1>1, HoldersInvariant, PTL

-----------------------------------------------------------------------------
(* Priorities.                                                             *)

Prio == Nat \ {0}
TcbRecord == [sched_priority : Prio, base_priority : Prio, pend_reprios : Seq(Prio)]

\* PendOrdered for one TCB.
Ordered(h) ==
  \A k \in DOMAIN h.pend_reprios :
    h.pend_reprios[k] <= h.sched_priority /\ h.pend_reprios[k] > h.base_priority

\* The largest pending priority is there.
LEMMA FirstMaxIs ==
  ASSUME NEW pend \in Seq(Prio), pend # <<>>
  PROVE  /\ FirstMax(pend) \in 1 .. Len(pend)
         /\ \A i \in 1 .. Len(pend) : pend[i] <= pend[FirstMax(pend)]
<1> DEFINE n == Len(pend)
           MaxOf(m) == \E j \in 1 .. m : \A i \in 1 .. m : pend[i] <= pend[j]
           T == {m \in 1 .. n : ~ MaxOf(m)}
<1>1. n \in Nat /\ n # 0 /\ DOMAIN pend = 1 .. n /\ \A i \in 1 .. n : pend[i] \in Nat
  BY DEF Prio
<1>2. T = {}
  <2> SUFFICES ASSUME T # {} PROVE FALSE
    OBVIOUS
  <2>1. T \in SUBSET Nat
    BY <1>1
  <2> HIDE DEF T
  <2>2. PICK x \in T : \A y \in T : x <= y
    BY <2>1, LeastNumber
  <2>3. x \in 1 .. n /\ ~ MaxOf(x)
    BY <2>2 DEF T
  <2>4. x # 1
    <3>1. \A i \in 1 .. 1 : pend[i] <= pend[1]
      BY <1>1
    <3>2. MaxOf(1)
      BY <3>1
    <3> QED BY <2>3, <3>2
  <2>5. x - 1 \in 1 .. n /\ ~ (x <= x - 1)
    BY <1>1, <2>3, <2>4
  <2>6. MaxOf(x - 1)
    <3>1. x - 1 \notin T
      BY <2>2, <2>5
    <3> HIDE DEF MaxOf
    <3> QED BY <2>5, <3>1 DEF T
  <2>7. PICK j \in 1 .. x - 1 : \A i \in 1 .. x - 1 : pend[i] <= pend[j]
    BY <2>6
  <2>x. x \in 1 .. n
    BY <2>3
  <2>j. j \in 1 .. x - 1
    OBVIOUS
  <2>8. j \in 1 .. x /\ x \in 1 .. x /\ pend[j] \in Nat /\ pend[x] \in Nat
        /\ \A i \in 1 .. x : (i = x \/ i \in 1 .. x - 1) /\ pend[i] \in Nat
    BY <1>1, <2>x, <2>j
  <2>9. CASE pend[x] <= pend[j]
    <3>1. \A i \in 1 .. x : pend[i] <= pend[j]
      BY <2>7, <2>8, <2>9
    <3> QED BY <2>3, <2>8, <3>1
  <2>10. CASE ~ (pend[x] <= pend[j])
    <3>1. \A i \in 1 .. x : pend[i] <= pend[x]
      BY <2>7, <2>8, <2>10
    <3> QED BY <2>3, <2>8, <3>1
  <2> QED BY <2>9, <2>10
<1>3. MaxOf(n)
  <2>1. n \in 1 .. n
    BY <1>1
  <2> HIDE DEF MaxOf
  <2> QED BY <1>2, <2>1
<1> DEFINE J == {j \in 1 .. n : \A i \in 1 .. n : pend[i] <= pend[j]}
<1>4. J \in SUBSET Nat /\ J # {}
  BY <1>1, <1>3
<1>5. PICK f \in J : \A y \in J : f <= y
  <2> HIDE DEF J
  <2> QED BY <1>4, LeastNumber
<1>6. f \in 1 .. n /\ \A i \in 1 .. n : pend[i] <= pend[f]
  BY <1>5
<1>7. ASSUME NEW i \in 1 .. f - 1
      PROVE  pend[i] < pend[f]
  <2>1. i \in 1 .. n /\ ~ (f <= i) /\ pend[i] \in Nat /\ pend[f] \in Nat
    BY <1>1, <1>6
  <2>2. i \notin J
    BY <1>5, <2>1
  <2>3. PICK k \in 1 .. n : ~ (pend[k] <= pend[i])
    BY <2>1, <2>2
  <2>4. pend[k] <= pend[f] /\ pend[k] \in Nat
    BY <1>1, <1>6
  <2> QED BY <2>1, <2>3, <2>4
<1>8. /\ FirstMax(pend) \in DOMAIN pend
      /\ \A i \in DOMAIN pend : pend[i] <= pend[FirstMax(pend)]
  BY <1>1, <1>6, <1>7 DEF FirstMax
<1> QED BY <1>1, <1>8

\* The priorities that stay when one is taken out.
LEMMA RemoveAtIs ==
  ASSUME NEW pend \in Seq(Prio), NEW i \in 1 .. Len(pend)
  PROVE  /\ RemoveAt(pend, i) \in Seq(Prio)
         /\ \A k \in DOMAIN RemoveAt(pend, i) :
              \E j \in 1 .. Len(pend) : RemoveAt(pend, i)[k] = pend[j]
<1> DEFINE n == Len(pend)
           e == [pend EXCEPT ![i] = pend[n]]
<1>1. n \in Nat /\ n \in 1 .. n /\ \A k \in 1 .. n : pend[k] \in Prio
  OBVIOUS
<1>2. e \in Seq(Prio) /\ Len(e) = n /\ \A k \in 1 .. n : e[k] = IF k = i THEN pend[n] ELSE pend[k]
  BY <1>1
<1>3. RemoveAt(pend, i) = SubSeq(e, 1, n - 1)
  BY DEF RemoveAt
<1> HIDE DEF e
<1>4. /\ SubSeq(e, 1, n - 1) \in Seq(Prio) /\ Len(SubSeq(e, 1, n - 1)) = n - 1
      /\ \A k \in 1 .. n - 1 : SubSeq(e, 1, n - 1)[k] = e[k]
  BY <1>1, <1>2
<1>5. ASSUME NEW k \in 1 .. n - 1
      PROVE  \E j \in 1 .. Len(pend) : SubSeq(e, 1, n - 1)[k] = pend[j]
  <2>1. k \in 1 .. n
    BY <1>1
  <2> QED BY <1>1, <1>2, <1>4, <2>1
<1>6. DOMAIN SubSeq(e, 1, n - 1) = 1 .. n - 1
  BY <1>4
<1> QED BY <1>3, <1>4, <1>5, <1>6

\* Boosting and restoring keep a TCB in order.
LEMMA BoostIs ==
  ASSUME NEW h \in TcbRecord, Ordered(h), NEW p \in Prio
  PROVE  /\ sem_boostholderprio(h, p) \in TcbRecord
         /\ Ordered(sem_boostholderprio(h, p))
         /\ sem_boostholderprio(h, p).base_priority = h.base_priority
<1>1. /\ h.sched_priority \in Nat /\ h.base_priority \in Nat /\ p \in Nat /\ h.sched_priority \in Prio
      /\ h.pend_reprios \in Seq(Prio) /\ h.base_priority \in Prio /\ Len(h.pend_reprios) \in Nat
      /\ DOMAIN h.pend_reprios = 1 .. Len(h.pend_reprios)
      /\ \A k \in 1 .. Len(h.pend_reprios) : h.pend_reprios[k] \in Nat
  BY DEF TcbRecord, Prio
<1>2. CASE p <= h.base_priority
  BY <1>2 DEF sem_boostholderprio
<1>3. ASSUME ~ (p <= h.base_priority), NEW x \in Prio, NEW q \in {h.pend_reprios, Append(h.pend_reprios, x)},
             NEW v \in Prio, x <= v, x > h.base_priority, h.sched_priority <= v,
             sem_boostholderprio(h, p) = [h EXCEPT !.sched_priority = v, !.pend_reprios = q]
      PROVE  /\ sem_boostholderprio(h, p) \in TcbRecord
             /\ Ordered(sem_boostholderprio(h, p))
             /\ sem_boostholderprio(h, p).base_priority = h.base_priority
  <2> DEFINE g == [h EXCEPT !.sched_priority = v, !.pend_reprios = q]
  <2>1. q \in Seq(Prio)
    <3>1. Append(h.pend_reprios, x) \in Seq(Prio)
      BY <1>1, AppendProperties, Zenon
    <3> QED BY <1>1, <1>3, <3>1, Zenon
  <2>2. /\ g \in TcbRecord /\ g.sched_priority = v /\ g.base_priority = h.base_priority
        /\ g.pend_reprios = q
    BY <1>1, <2>1 DEF TcbRecord
  <2>3. ASSUME NEW k \in DOMAIN q
        PROVE  q[k] <= v /\ q[k] > h.base_priority
    <3>1. (k \in DOMAIN h.pend_reprios /\ q[k] = h.pend_reprios[k]) \/ q[k] = x
      BY <1>1, <1>3
    <3>2. v \in Nat /\ x \in Nat
      BY DEF Prio
    <3> QED BY <1>1, <1>3, <3>1, <3>2 DEF Ordered
  <2> HIDE DEF g
  <2> QED BY <1>3, <2>2, <2>3 DEF Ordered, g
<1>4. CASE ~ (p <= h.base_priority) /\ p > h.sched_priority
  <2>1. CASE h.sched_priority > h.base_priority /\ Len(h.pend_reprios) < SEM_NNESTPRIO
    <3>1. sem_boostholderprio(h, p) =
            [h EXCEPT !.sched_priority = p, !.pend_reprios = Append(h.pend_reprios, h.sched_priority)]
      BY <1>4, <2>1 DEF sem_boostholderprio
    <3>2. /\ h.sched_priority <= p /\ h.sched_priority > h.base_priority
          /\ Append(h.pend_reprios, h.sched_priority) \in
               {h.pend_reprios, Append(h.pend_reprios, h.sched_priority)}
      BY <1>1, <1>4, <2>1
    <3> QED BY <1>1, <1>3, <1>4, <3>1, <3>2
  <2>2. CASE ~ (h.sched_priority > h.base_priority /\ Len(h.pend_reprios) < SEM_NNESTPRIO)
    <3>1. sem_boostholderprio(h, p) = [h EXCEPT !.sched_priority = p, !.pend_reprios = h.pend_reprios]
      BY <1>4, <2>2 DEF sem_boostholderprio
    <3>2. p <= p /\ p > h.base_priority /\ h.sched_priority <= p
      BY <1>1, <1>4
    <3> QED BY <1>3, <1>4, <3>1, <3>2
  <2> QED BY <2>1, <2>2
<1>5. CASE ~ (p <= h.base_priority) /\ ~ (p > h.sched_priority)
  <2>1. sem_boostholderprio(h, p) = [h EXCEPT !.pend_reprios = Append(h.pend_reprios, p)]
    BY <1>5 DEF sem_boostholderprio
  <2>2. [h EXCEPT !.pend_reprios = Append(h.pend_reprios, p)] =
        [h EXCEPT !.sched_priority = h.sched_priority, !.pend_reprios = Append(h.pend_reprios, p)]
    BY DEF TcbRecord
  <2>3. p <= h.sched_priority /\ p > h.base_priority /\ h.sched_priority <= h.sched_priority
    BY <1>1, <1>5
  <2> QED BY <1>1, <1>3, <1>5, <2>1, <2>2, <2>3
<1> QED BY <1>2, <1>4, <1>5

LEMMA RestoreIs ==
  ASSUME NEW h \in TcbRecord, Ordered(h), NEW p \in Prio
  PROVE  /\ sem_restoreholderprio(h, p) \in TcbRecord
         /\ Ordered(sem_restoreholderprio(h, p))
         /\ sem_restoreholderprio(h, p).base_priority = h.base_priority
<1> DEFINE pend == h.pend_reprios
<1>1. /\ h.sched_priority \in Nat /\ h.base_priority \in Nat /\ h.sched_priority \in Prio
      /\ pend \in Seq(Prio) /\ h.base_priority \in Prio /\ Len(pend) \in Nat
      /\ DOMAIN pend = 1 .. Len(pend)
      /\ \A k \in 1 .. Len(pend) : pend[k] \in Nat /\ pend[k] \in Prio
      /\ p \in Nat
  BY DEF TcbRecord, Prio
<1>2. CASE ToBase(h)
  <2>1. sem_restoreholderprio(h, p) = [h EXCEPT !.sched_priority = h.base_priority]
    BY <1>2 DEF sem_restoreholderprio, ToBase, ToPending, ForgetPending
  <2>2. pend = <<>>
    BY <1>2 DEF ToBase
  <2> QED BY <1>1, <2>1, <2>2 DEF Ordered, TcbRecord
<1>3. CASE ToPending(h, p)
  <2> DEFINE j == FirstMax(pend)
             q == RemoveAt(pend, j)
             g == [h EXCEPT !.sched_priority = pend[j], !.pend_reprios = q]
  <2>1. sem_restoreholderprio(h, p) = g
    <3>1. ~ ToBase(h) /\ ~ ForgetPending(h, p)
      BY <1>1, <1>3 DEF ToBase, ToPending, ForgetPending
    <3> QED BY <1>3, <3>1, Zenon DEF sem_restoreholderprio
  <2>2. pend # <<>>
    BY <1>3 DEF ToPending
  <2>3. j \in 1 .. Len(pend) /\ \A i \in 1 .. Len(pend) : pend[i] <= pend[j]
    BY <1>1, <2>2, FirstMaxIs
  <2> HIDE DEF j
  <2>4. q \in Seq(Prio) /\ \A k \in DOMAIN q : \E i \in 1 .. Len(pend) : q[k] = pend[i]
    BY <1>1, <2>3, RemoveAtIs
  <2> HIDE DEF q
  <2>5. /\ g \in TcbRecord /\ g.sched_priority = pend[j] /\ g.base_priority = h.base_priority
        /\ g.pend_reprios = q
    BY <1>1, <2>3, <2>4 DEF TcbRecord
  <2>6. \A k \in DOMAIN q : q[k] <= pend[j] /\ q[k] > h.base_priority
    BY <1>1, <2>3, <2>4 DEF Ordered
  <2> HIDE DEF g
  <2> QED BY <2>1, <2>5, <2>6 DEF Ordered
<1>4. CASE ForgetPending(h, p)
  <2>1. CASE \E i \in DOMAIN pend : pend[i] = p
    <3> DEFINE Is(i) == pend[i] = p /\ \A k \in 1 .. i - 1 : pend[k] # p
               m == CHOOSE i \in DOMAIN pend : Is(i)
               q == RemoveAt(pend, m)
               g == [h EXCEPT !.pend_reprios = q]
               I == {i \in 1 .. Len(pend) : pend[i] = p}
    <3>1. I \in SUBSET Nat /\ I # {}
      BY <1>1, <2>1
    <3>2. PICK i \in I : \A y \in I : i <= y
      <4> HIDE DEF I
      <4> QED BY <3>1, LeastNumber
    <3>3. Is(i) /\ i \in DOMAIN pend
      <4>1. i \in 1 .. Len(pend) /\ pend[i] = p
        BY <3>2
      <4>2. ASSUME NEW k \in 1 .. i - 1
            PROVE  pend[k] # p
        <5>1. k \in 1 .. Len(pend) /\ ~ (i <= k)
          BY <1>1, <4>1
        <5> QED BY <3>2, <5>1
      <4> QED BY <1>1, <4>1, <4>2
    <3>4. m \in 1 .. Len(pend)
      <4> HIDE DEF Is
      <4> QED BY <1>1, <3>3
    <3>5. sem_restoreholderprio(h, p) = g
      BY <1>4, <2>1 DEF sem_restoreholderprio, ToBase, ToPending, ForgetPending
    <3> HIDE DEF m
    <3>6. q \in Seq(Prio) /\ \A k \in DOMAIN q : \E n \in 1 .. Len(pend) : q[k] = pend[n]
      BY <1>1, <3>4, RemoveAtIs
    <3> HIDE DEF q
    <3>7. /\ g \in TcbRecord /\ g.sched_priority = h.sched_priority
          /\ g.base_priority = h.base_priority /\ g.pend_reprios = q
      BY <1>1, <3>6 DEF TcbRecord
    <3>8. \A k \in DOMAIN q : q[k] <= h.sched_priority /\ q[k] > h.base_priority
      BY <1>1, <3>6 DEF Ordered
    <3> HIDE DEF g
    <3> QED BY <3>5, <3>7, <3>8 DEF Ordered
  <2>2. CASE ~ \E i \in DOMAIN pend : pend[i] = p
    <3>1. sem_restoreholderprio(h, p) = h
      BY <1>4, <2>2 DEF sem_restoreholderprio, ToBase, ToPending, ForgetPending
    <3> QED BY <3>1
  <2> QED BY <2>1, <2>2
<1>5. CASE ~ ToBase(h) /\ ~ ToPending(h, p) /\ ~ ForgetPending(h, p)
  <2>1. sem_restoreholderprio(h, p) = h
    BY <1>5 DEF sem_restoreholderprio
  <2> QED BY <2>1
<1> QED BY <1>2, <1>3, <1>4, <1>5

\* Every TCB is in order, and keeps its base priority.
PrioTable(st) ==
  /\ st \in [Tasks -> TcbRecord]
  /\ \A t \in Tasks : Ordered(st[t]) /\ st[t].base_priority = BasePriority[t]

LEMMA BoostWalk ==
  ASSUME NEW st, PrioTable(st), NEW hs, NEW r \in Tasks
  PROVE  PrioTable(sem_boostpriority(st, hs, r))
<1>1. st[r].sched_priority \in Prio
  BY DEF PrioTable, TcbRecord
<1>2. ASSUME NEW t \in Tasks
      PROVE  /\ sem_boostholderprio(st[t], st[r].sched_priority) \in TcbRecord
             /\ Ordered(sem_boostholderprio(st[t], st[r].sched_priority))
             /\ sem_boostholderprio(st[t], st[r].sched_priority).base_priority = BasePriority[t]
  <2>1. st[t] \in TcbRecord /\ Ordered(st[t]) /\ st[t].base_priority = BasePriority[t]
    BY DEF PrioTable
  <2> QED BY <1>1, <2>1, BoostIs
<1> QED BY <1>2 DEF PrioTable, sem_boostpriority

LEMMA RestoreWalk ==
  ASSUME NEW st, PrioTable(st), NEW hs, NEW stcb \in Tasks, NEW skip
  PROVE  PrioTable(RestoreHolders(st, hs, stcb, skip))
<1>1. ASSUME NEW t \in Tasks, NEW p \in Prio
      PROVE  /\ sem_restoreholderprio(st[t], p) \in TcbRecord
             /\ Ordered(sem_restoreholderprio(st[t], p))
             /\ sem_restoreholderprio(st[t], p).base_priority = BasePriority[t]
  <2>1. st[t] \in TcbRecord /\ Ordered(st[t]) /\ st[t].base_priority = BasePriority[t]
    BY DEF PrioTable
  <2> QED BY <2>1, RestoreIs
<1>2. ASSUME NEW t \in Tasks
      PROVE  SeenPrio(st, hs, stcb, skip, t) \in Prio
  <2>1. st[stcb].sched_priority \in Prio
    BY DEF PrioTable, TcbRecord
  <2>2. sem_restoreholderprio(st[stcb], st[stcb].sched_priority) \in TcbRecord
    BY <1>1, <2>1
  <2>3. sem_restoreholderprio(st[stcb], st[stcb].sched_priority).sched_priority \in Prio
    BY <2>2 DEF TcbRecord
  <2> QED BY <2>1, <2>3 DEF SeenPrio
<1>3. \A t \in Tasks :
        LET h == sem_restoreholderprio(st[t], SeenPrio(st, hs, stcb, skip, t)) IN
        h \in TcbRecord /\ Ordered(h) /\ h.base_priority = BasePriority[t]
  BY <1>1, <1>2
<1> QED BY <1>3 DEF PrioTable, RestoreHolders

\* The types of the variables that priority inheritance adds.
InheritInv ==
  /\ PrioTable(tcb)
  /\ DOMAIN holders = Sems /\ holders = [s \in Sems |-> holders[s]]
  /\ \A s \in Sems : HolderList(holders[s])
  /\ ahead \subseteq Tasks \X Tasks

LEMMA WipeKeeps ==
  ASSUME PrioTable(tcb), NEW r \in Tasks
  PROVE  PrioTable([tcb EXCEPT ![r].pend_reprios = <<>>])
<1> DEFINE h == [tcb[r] EXCEPT !.pend_reprios = <<>>]
<1>1. /\ h \in TcbRecord /\ h.pend_reprios = <<>> /\ h.base_priority = BasePriority[r]
  <2>1. tcb[r] \in TcbRecord /\ tcb[r].base_priority = BasePriority[r] /\ <<>> \in Seq(Prio)
    BY DEF PrioTable
  <2> QED BY <2>1 DEF TcbRecord
<1>2. Ordered(h)
  BY <1>1 DEF Ordered
<1> QED BY <1>1, <1>2 DEF PrioTable

LEMMA AddKeepsList ==
  ASSUME NEW s, NEW hs, HolderList(hs), NEW t \in Tasks
  PROVE  HolderList(sem_addholder_tcb(s, hs, t))
<1>1. CASE s \notin NoInherit /\ (t \in HolderTasks(hs) \/ Cardinality(AllHolders) < SEM_PREALLOCHOLDERS)
  BY <1>1, AddIs
<1>2. CASE ~ (s \notin NoInherit /\ (t \in HolderTasks(hs) \/ Cardinality(AllHolders) < SEM_PREALLOCHOLDERS))
  <2>1. sem_addholder_tcb(s, hs, t) = hs
    BY <1>2 DEF sem_addholder_tcb
  <2> QED BY <2>1
<1> QED BY <1>1, <1>2

LEMMA PostWakeTypes ==
  ASSUME InheritInv, NEW r \in Tasks, NEW s \in Sems, NEW w \in Tasks, PostWake(r, s, w)
  PROVE  PrioTable(tcb') /\ \E gs : HolderList(gs) /\ holders' = [holders EXCEPT ![s] = gs]
<1> DEFINE hs == sem_addholder_tcb(s, sem_releaseholder(holders[s], r), w)
           stA == RestoreHolders(tcb, hs, w, {r})
           seen == stA[w].sched_priority
<1>1. HolderList(holders[s])
  BY DEF InheritInv
<1>2. HolderList(sem_releaseholder(holders[s], r))
  BY <1>1, ReleaseIs
<1>3. HolderList(hs)
  BY <1>2, AddKeepsList
<1>4. \/ holders' = [holders EXCEPT ![s] = FreeStale(hs)]
      \/ holders' = [holders EXCEPT ![s] = FreeIfEmpty(FreeStale(hs), r)]
  BY DEF PostWake
<1>5. tcb' = stA \/ tcb' = [stA EXCEPT ![r] = sem_restoreholderprio(@, seen)]
  BY DEF PostWake
<1> HIDE DEF hs
<1>6. HolderList(FreeStale(hs)) /\ HolderList(FreeIfEmpty(FreeStale(hs), r))
  BY <1>3, FreeStaleIs, FreeIfEmptyIs
<1>7. PrioTable(stA)
  BY RestoreWalk DEF InheritInv
<1> HIDE DEF stA
<1>8. PrioTable([stA EXCEPT ![r] = sem_restoreholderprio(@, seen)])
  <2>1. stA[r] \in TcbRecord /\ Ordered(stA[r]) /\ stA[r].base_priority = BasePriority[r] /\ seen \in Prio
    BY <1>7 DEF PrioTable, TcbRecord
  <2> HIDE DEF seen
  <2>2. /\ sem_restoreholderprio(stA[r], seen) \in TcbRecord
        /\ Ordered(sem_restoreholderprio(stA[r], seen))
        /\ sem_restoreholderprio(stA[r], seen).base_priority = BasePriority[r]
    BY <2>1, RestoreIs
  <2> QED BY <1>7, <2>2 DEF PrioTable
<1> QED BY <1>4, <1>5, <1>6, <1>7, <1>8

LEMMA NextInherits ==
  ASSUME ProtocolInv, InheritInv, Signallers = {}, [Next]_vars
  PROVE  InheritInv'
<1> USE DEF InheritInv
<1>1. ASSUME UNCHANGED holders \/ \E s \in Sems : \E gs : HolderList(gs) /\ holders' = [holders EXCEPT ![s] = gs]
      PROVE  /\ DOMAIN holders' = Sems /\ holders' = [s \in Sems |-> holders'[s]]
             /\ \A s \in Sems : HolderList(holders'[s])
  BY <1>1
<1>2. ASSUME PrioTable(tcb'), UNCHANGED ahead \/ \E moved, hs : Requeue(moved, hs),
             UNCHANGED holders \/ \E s \in Sems : \E gs : HolderList(gs) /\ holders' = [holders EXCEPT ![s] = gs]
      PROVE  InheritInv'
  <2>1. ahead' \subseteq Tasks \X Tasks
    BY <1>2 DEF Requeue
  <2>2. (PrioTable(tcb))' <=> PrioTable(tcb')
    BY DEF PrioTable, Ordered, TcbRecord, Prio
  <2>3. \A s \in Sems : (HolderList(holders[s]))' <=> HolderList(holders'[s])
    BY DEF HolderList, HolderRecord
  <2> QED BY <1>1, <1>2, <2>1, <2>2, <2>3
<1>3. ASSUME NEW t \in Tasks, NEW s \in Sems, Take(t, s)
      PROVE  InheritInv'
  <2>1. HolderList(sem_addholder_tcb(s, holders[s], t))
    BY AddKeepsList
  <2>2. holders' = [holders EXCEPT ![s] = sem_addholder_tcb(s, holders[s], t)] /\ UNCHANGED <<tcb, ahead>>
    BY <1>3 DEF Take
  <2> QED BY <1>2, <2>1, <2>2
<1>4. ASSUME NEW t \in Tasks, NEW s \in Sems, NEW timed \in BOOLEAN, Block(t, s, timed)
      PROVE  InheritInv'
  <2>1. HolderList(FreeStale(holders[s])) /\ PrioTable(sem_boostpriority(tcb, holders[s], t))
    BY FreeStaleIs, BoostWalk
  <2>2. /\ holders' = [holders EXCEPT ![s] = FreeStale(holders[s])]
        /\ tcb' = sem_boostpriority(tcb, holders[s], t)
        /\ \E moved, hs : Requeue(moved, hs)
    BY <1>4 DEF Block
  <2> QED BY <1>2, <2>1, <2>2
<1>5. ASSUME UNCHANGED <<tcb, holders>>, UNCHANGED ahead \/ \E moved, hs : Requeue(moved, hs)
      PROVE  InheritInv'
  BY <1>2, <1>5
<1>6. ASSUME NEW t \in Tasks, NEW s \in Sems, TakeIsr(t, s) \/ BlockIsr(t, s)
      PROVE  InheritInv'
  <2>1. UNCHANGED <<tcb, holders>> /\ (UNCHANGED ahead \/ \E moved, hs : Requeue(moved, hs))
    BY <1>6 DEF TakeIsr, BlockIsr
  <2> QED BY <1>5, <2>1
<1>7. ASSUME NEW r \in Tasks, NEW s \in Sems, Post(r, s)
      PROVE  InheritInv'
  <2>1. CASE PostCount(r, s)
    <3>1. HolderList(sem_releaseholder(holders[s], r))
      BY ReleaseIs
    <3>2. HolderList(FreeIfEmpty(sem_releaseholder(holders[s], r), r))
      BY <3>1, FreeIfEmptyIs
    <3>3. /\ holders' = [holders EXCEPT ![s] = FreeIfEmpty(sem_releaseholder(holders[s], r), r)]
          /\ UNCHANGED <<tcb, ahead>>
      BY <2>1 DEF PostCount
    <3> QED BY <1>2, <3>2, <3>3
  <2>2. ASSUME NEW w \in Tasks, PostWake(r, s, w)
        PROVE  InheritInv'
    <3>1. \E moved, hs : Requeue(moved, hs)
      BY <2>2 DEF PostWake
    <3>2. PrioTable(tcb') /\ \E gs : HolderList(gs) /\ holders' = [holders EXCEPT ![s] = gs]
      BY <2>2, PostWakeTypes
    <3> QED BY <1>2, <3>1, <3>2
  <2> QED BY <1>7, <2>1, <2>2 DEF Post
<1>8. ASSUME NEW r \in Tasks \union {NoTask}, NEW s \in Sems, IrqPost(r, s)
      PROVE  InheritInv'
  <2> DEFINE rs == sem_releaseholder(holders[s], r)
  <2>1. HolderList(rs)
    BY ReleaseIs
  <2>2. CASE holders' = [holders EXCEPT ![s] = rs] /\ UNCHANGED <<tcb, ahead>>
    <3> HIDE DEF rs
    <3> QED BY <1>2, <2>1, <2>2
  <2>3. ASSUME NEW w \in Tasks, tcb' = RestoreHolders(tcb, sem_addholder_tcb(s, rs, w), w, {}),
               \E moved, hs : Requeue(moved, hs),
               holders' = [holders EXCEPT ![s] = FreeStale(sem_addholder_tcb(s, rs, w))]
        PROVE  InheritInv'
    <3> DEFINE hs == sem_addholder_tcb(s, rs, w)
    <3>1. HolderList(hs)
      BY <2>1, AddKeepsList
    <3> HIDE DEF rs, hs
    <3>2. HolderList(FreeStale(hs)) /\ PrioTable(RestoreHolders(tcb, hs, w, {}))
      BY <3>1, FreeStaleIs, RestoreWalk
    <3> QED BY <1>2, <2>3, <3>2 DEF hs
  <2>4. \/ holders' = [holders EXCEPT ![s] = rs] /\ UNCHANGED <<tcb, ahead>>
        \/ \E w \in Tasks :
             /\ tcb' = RestoreHolders(tcb, sem_addholder_tcb(s, rs, w), w, {})
             /\ \E moved, hs : Requeue(moved, hs)
             /\ holders' = [holders EXCEPT ![s] = FreeStale(sem_addholder_tcb(s, rs, w))]
    BY <1>8 DEF IrqPost
  <2> HIDE DEF rs
  <2> QED BY <2>2, <2>3, <2>4
<1>9. ASSUME NEW s \in Sems, PostFromIsr(s)
      PROVE  InheritInv'
  <2>1. UNCHANGED <<tcb, holders>> /\ (UNCHANGED ahead \/ \E moved, hs : Requeue(moved, hs))
    BY <1>9 DEF PostFromIsr
  <2> QED BY <1>5, <2>1
<1>10. ASSUME NEW t \in Tasks, WaitReturn(t) \/ Die(t)
       PROVE  InheritInv'
  BY <1>5, <1>10 DEF WaitReturn, Die
<1>11. ASSUME NEW r \in Tasks, PostResume(r)
       PROVE  InheritInv'
  <2>1. PrioTable(tcb')
    BY <1>11, WipeKeeps DEF PostResume
  <2>2. cont[r].sem \in Sems
    BY <1>11 DEF PostResume, ProtocolInv, ProtocolTypeOK, Continuation, NoCont
  <2> DEFINE s == cont[r].sem
  <2>3. HolderList(FreeIfEmpty(holders[s], r))
    BY <2>2, FreeIfEmptyIs
  <2>4. holders' = [holders EXCEPT ![s] = FreeIfEmpty(holders[s], r)] /\ UNCHANGED ahead
    BY <1>11 DEF PostResume
  <2> QED BY <1>2, <2>1, <2>2, <2>3, <2>4
<1>12. ASSUME NEW w \in Tasks, Timeout(w) \/ SignalIrq(w)
       PROVE  InheritInv'
  <2>1. CASE UNCHANGED <<tcb, holders, ahead>>
    BY <1>5, <2>1
  <2>2. ASSUME task_state[w] = "WAIT_SEM", NEW err, CancelIrq(w, err)
        PROVE  InheritInv'
    <3> DEFINE s == waitsem[w]
    <3>1. s \in Sems
      BY <2>2 DEF ProtocolInv, WaitConsistent
    <3>2. HolderList(FreeStale(holders[s])) /\ PrioTable(RestoreHolders(tcb, holders[s], w, {}))
      BY <3>1, FreeStaleIs, RestoreWalk
    <3>3. /\ tcb' = RestoreHolders(tcb, holders[s], w, {})
          /\ holders' = [holders EXCEPT ![s] = FreeStale(holders[s])]
          /\ \E moved, hs : Requeue(moved, hs)
      BY <2>2 DEF CancelIrq
    <3> QED BY <1>2, <3>1, <3>2, <3>3
  <2> QED BY <1>12, <2>1, <2>2 DEF Timeout, SignalIrq
<1>13. CASE UNCHANGED vars
  BY <1>5, <1>13 DEF vars
<1> QED
  BY <1>3, <1>4, <1>6, <1>7, <1>8, <1>9, <1>10, <1>11, <1>12, <1>13, ActionEffects DEF Next

LEMMA InitInherits ==
  Init => InheritInv
<1> SUFFICES ASSUME Init PROVE InheritInv
  OBVIOUS
<1>1. PrioTable(tcb)
  BY ConstantsAssumption DEF Init, PrioTable, TcbRecord, Prio, Ordered
<1>2. HolderList(<<>>)
  BY DEF HolderList
<1> QED BY <1>1, <1>2 DEF Init, InheritInv

\* The variables of priority inheritance keep their types, no thread changes
\* its base priority, and pending priorities stay in order.
THEOREM InheritInvariant ==
  ASSUME Signallers = {}
  PROVE  Spec => []InheritInv
<1>1. ProtocolInv /\ InheritInv /\ [Next]_vars => InheritInv'
  BY NextInherits
<1> QED BY <1>1, InitInherits, ProtocolInvariant, PTL DEF Spec

\* Every variable keeps its type: boosting and restoring leave priorities
\* positive, and holder lists name threads.
THEOREM TypeCorrect ==
  ASSUME Signallers = {}
  PROVE  Spec => []TypeOK
<1>1. ProtocolInv /\ InheritInv => TypeOK
  <2> SUFFICES ASSUME ProtocolInv, InheritInv PROVE TypeOK
    OBVIOUS
  <2>1. holders \in [Sems -> Seq([htcb : Tasks, counts : Nat])]
    BY DEF InheritInv, HolderList, HolderRecord
  <2>2. tcb \in [Tasks -> [sched_priority : Nat \ {0}, base_priority : Nat \ {0},
                           pend_reprios : Seq(Nat \ {0})]]
    BY DEF InheritInv, PrioTable, TcbRecord, Prio
  <2> QED BY <2>1, <2>2 DEF TypeOK, InheritTypeOK, ProtocolInv, InheritInv
<1> QED BY <1>1, ProtocolInvariant, InheritInvariant, PTL

\* A pending priority is above the base and not above the present priority of
\* its thread: sem_restoreholderprio never raises a thread.
THEOREM OrderTheorem ==
  ASSUME Signallers = {}
  PROVE  Spec => []PendOrdered
<1>1. InheritInv => PendOrdered
  BY DEF InheritInv, PrioTable, Ordered, PendOrdered
<1> QED BY <1>1, InheritInvariant, PTL

-----------------------------------------------------------------------------
(* Priority inheritance between two threads.                               *)

\* Each lock that takes part in priority inheritance is shared by at most two
\* threads and starts with a count, a thread waits for nothing while it owns a
\* lock, and semaphores that are no locks keep out of priority inheritance.
Paired ==
  /\ NestWaits = FALSE
  /\ \A s \in Inherited : InitCount[s] # 0
  /\ \A s \in Inherited : \A t, u, v \in Tasks :
       s \in Uses[t] /\ s \in Uses[u] /\ s \in Uses[v] => t = u \/ u = v \/ t = v
  /\ Sems \ LockSems \subseteq NoInherit \union IsrSems

\* A thread owns at most one lock, one that it uses, and none when it waits.
OneLock ==
  \A t \in Tasks :
    /\ locks[t] \subseteq Uses[t]
    /\ cont[t].kind = "wait" => locks[t] = {}
    /\ \A s, q \in locks[t] : s = q

\* The threads that wait for a lock of t.
Demand(t) == {w \in Tasks : \E s \in Inherited : t \in Owners(s) /\ w \in Waiters(s)}

Higher(p, q) == IF p > q THEN p ELSE q

\* A living thread runs at the priority of the thread that waits for it, if
\* that is higher than its own; nothing is pending.
PairPrio(t) ==
  /\ tcb[t].pend_reprios = <<>>
  /\ \A w \in Demand(t) : tcb[t].sched_priority = Higher(BasePriority[w], BasePriority[t])
  /\ Demand(t) = {} => tcb[t].sched_priority = BasePriority[t]

PairInv ==
  /\ OneLock
  /\ \A t \in Tasks : Alive(t) => PairPrio(t)

LEMMA OneLockStays ==
  ASSUME ProtocolInv, CallsConsistent, OneLock, Paired, Signallers = {}, [Next]_vars
  PROVE  OneLock'
<1> USE DEF ProtocolInv
<1>1. ASSUME NEW t \in Tasks, NEW s \in Sems, Take(t, s) \/ TakeIsr(t, s)
      PROVE  OneLock'
  <2>1. EffTake(t, s) /\ s \in Uses[t] /\ locks[t] = {}
    BY <1>1, ActionEffects DEF Take, TakeIsr, MayWait, Paired
  <2> QED BY <2>1 DEF EffTake, OwnLock, NoCont, OneLock, ProtocolTypeOK
<1>2. ASSUME NEW t \in Tasks, NEW s \in Sems,
             Block(t, s, FALSE) \/ Block(t, s, TRUE) \/ BlockIsr(t, s)
      PROVE  OneLock'
  <2>1. EffBlock(t, s) /\ locks[t] = {}
    BY <1>2, ActionEffects DEF Block, BlockIsr, MayWait, Paired
  <2> QED BY <2>1 DEF EffBlock, OneLock, ProtocolTypeOK
<1>3. ASSUME NEW t \in Tasks, NEW s \in Sems, Post(t, s)
      PROVE  OneLock'
  <2>1. EffPost(t, s)
    BY <1>3, ActionEffects
  <2> QED BY <2>1 DEF EffPost, EffCount, EffWake, DropLock, NoCont, OneLock, ProtocolTypeOK
<1>4. ASSUME NEW t \in Tasks, EffReturn(t)
      PROVE  OneLock'
  BY <1>4 DEF EffReturn, OwnLock, NoCont, CallsConsistent, OneLock, ProtocolTypeOK
<1>5. ASSUME UNCHANGED locks, \A u \in Tasks : cont'[u] = cont[u] \/ cont'[u] = NoCont
      PROVE  OneLock'
  BY <1>5 DEF OneLock, NoCont
<1>6. ASSUME \/ \E s \in Sems : EffInject(s)
             \/ \E t \in Tasks : EffResume(t) \/ EffCancel(t) \/ EffDie(t)
             \/ EffNone
      PROVE  OneLock'
  <2>1. UNCHANGED locks
    BY <1>6 DEF EffInject, EffResume, EffCancel, EffDie, EffNone
  <2>2. \A u \in Tasks : cont'[u] = cont[u] \/ cont'[u] = NoCont
    BY <1>6 DEF EffInject, EffCount, EffWake, EffResume, EffCancel, EffDie, EffNone, ProtocolTypeOK
  <2> QED BY <1>5, <2>1, <2>2
<1>7. CASE UNCHANGED vars
  BY <1>5, <1>7 DEF vars
<1> QED BY <1>1, <1>2, <1>3, <1>4, <1>6, <1>7, ActionEffects DEF Next

\* Who uses a lock, and who owns nothing.
LEMMA Users ==
  ASSUME ProtocolInv, HoldersInv, OneLock, NEW s \in LockSems
  PROVE  /\ \A t \in Owners(s) \union Waiters(s) \union HolderTasks(holders[s]) :
              t \in Tasks /\ s \in Uses[t]
         /\ \A w \in Waiters(s), q \in LockSems : w \notin Owners(q)
         /\ \A t \in Tasks, q \in LockSems : t \in Owners(s) /\ t \in Owners(q) => s = q
         /\ \A t \in Tasks : cont[t] = NoCont /\ locks[t] = {} => t \notin Owners(s)
<1> USE DEF HoldersInv, ProtocolInv
<1>0. s \in Sems
  BY LockCounts
<1>1. \A t \in Owners(s) : t \in Tasks /\ s \in Uses[t]
  BY DEF Owners, Granted, OneLock, CallsConsistent
<1>2. \A t \in Waiters(s) : t \in Tasks /\ s \in Uses[t]
  BY DEF Waiters, WaitConsistent, CallsConsistent
<1>3. \A t \in HolderTasks(holders[s]) : t \in Tasks /\ s \in Uses[t]
  BY <1>0, PositionIs DEF HolderLists
<1>4. \A w \in Waiters(s), q \in LockSems : w \notin Owners(q)
  BY DEF Waiters, WaitConsistent, Owners, Granted, OneLock
<1>5. \A t \in Tasks, q \in LockSems : t \in Owners(s) /\ t \in Owners(q) => s = q
  BY DEF Owners, Granted, OneLock
<1>6. \A t \in Tasks : cont[t] = NoCont /\ locks[t] = {} => t \notin Owners(s)
  BY DEF Owners, Granted, NoCont
<1> QED BY <1>1, <1>2, <1>3, <1>4, <1>5, <1>6

\* Of two threads that share a lock, one owns it when the other cannot have it:
\* the living holders are no others.
LEMMA OnlyOwner ==
  ASSUME ProtocolInv, HoldersInv, OneLock, Paired, NEW s \in Inherited, semcount[s] <= 0,
         NEW t \in Tasks, s \in Uses[t], t \notin Owners(s), cont[t].kind # "post"
  PROVE  \E e \in Tasks :
           /\ e # t /\ Owners(s) = {e}
           /\ Waiters(s) \subseteq {t}
           /\ \A u \in HolderTasks(holders[s]) : Alive(u) => u = e
           /\ Alive(e) => e \in HolderTasks(holders[s])
<1>0. s \in LockSems /\ s \in Sems /\ InitCount[s] \in Nat /\ InitCount[s] # 0
  BY LockCounts DEF Paired, Inherited
<1>1. Cardinality(Owners(s)) # 0
  <2>1. semcount[s] \in Int
    BY <1>0 DEF ProtocolInv, ProtocolTypeOK
  <2> QED BY <1>0, <2>1, WaitersOwnersFinite DEF ProtocolInv, CountsConserved
<1>2. Owners(s) # {}
  BY <1>1, FS_EmptySet
<1>3. PICK e : e \in Owners(s)
  BY <1>2
<1>4. ASSUME NEW u \in Tasks, s \in Uses[u], u # t
      PROVE  u = e
  BY <1>0, <1>3, <1>4, Users DEF Paired
<1>5. e \in Tasks /\ e # t /\ Owners(s) = {e}
  BY <1>0, <1>3, <1>4, Users
<1>6. Waiters(s) \subseteq {t}
  BY <1>0, <1>3, <1>4, Users
<1>7. ASSUME NEW u \in HolderTasks(holders[s]), Alive(u)
      PROVE  u = e
  <2>1. u \in Tasks /\ s \in Uses[u]
    BY <1>0, <1>7, Users
  <2>2. u # t
    BY <1>7, <2>1 DEF HoldersInv, LocksCharged, ExactAt
  <2> QED BY <1>4, <2>1, <2>2
<1>8. ASSUME Alive(e)
      PROVE  e \in HolderTasks(holders[s])
  <2>1. Charged(holders[s], e) = 1
    BY <1>3, <1>5, <1>8 DEF HoldersInv, LocksCharged, ExactAt
  <2> QED BY <2>1 DEF Charged
<1> QED BY <1>5, <1>6, <1>7, <1>8

\* Nothing is pending: a restored thread is at its base priority.
LEMMA RestoreToBase ==
  ASSUME NEW h \in TcbRecord, h.pend_reprios = <<>>, NEW p
  PROVE  /\ h.sched_priority = h.base_priority => sem_restoreholderprio(h, p) = h
         /\ sem_restoreholderprio(h, p).sched_priority = h.base_priority
         /\ sem_restoreholderprio(h, p).pend_reprios = <<>>
<1>1. ~ ToPending(h, p) /\ ~ ForgetPending(h, p) /\ (ToBase(h) <=> h.sched_priority # h.base_priority)
  BY DEF ToPending, ForgetPending, ToBase
<1>2. sem_restoreholderprio(h, p) =
        IF ToBase(h) THEN [h EXCEPT !.sched_priority = h.base_priority] ELSE h
  BY <1>1, Zenon DEF sem_restoreholderprio
<1> QED BY <1>1, <1>2 DEF TcbRecord

\* No living holder: nobody is boosted or restored.
LEMMA NobodyBoosted ==
  ASSUME PrioTable(tcb), NEW hs, \A u \in HolderTasks(hs) : ~ Alive(u), NEW w, NEW skip
  PROVE  sem_boostpriority(tcb, hs, w) = tcb /\ RestoreHolders(tcb, hs, w, skip) = tcb
BY DEF PrioTable, sem_boostpriority, RestoreHolders, Visited

\* A step that leaves the priorities, owners and waiters of the locks alone.
LEMMA PairStays ==
  ASSUME PairInv, OneLock', UNCHANGED tcb,
         \A t \in Tasks : task_state'[t] # "DEAD" => Alive(t),
         \A t \in Tasks : Demand(t)' = Demand(t)
  PROVE  PairInv'
BY DEF PairInv, PairPrio, Alive

\* A step that changes the priorities or the demands of the threads in E only.
LEMMA PairStep ==
  ASSUME PairInv, OneLock', NEW E,
         \A t \in Tasks : task_state'[t] # "DEAD" => Alive(t),
         \A t \in Tasks \ E : Alive(t) => tcb'[t] = tcb[t] /\ Demand(t)' = Demand(t),
         \A t \in E : t \in Tasks /\ Alive(t) => PairPrio(t)'
  PROVE  PairInv'
BY DEF PairInv, PairPrio, Alive

\* A lock whose owners change has no waiters.
LEMMA DemandStays ==
  ASSUME \A s \in Inherited : Waiters(s)' = Waiters(s),
         \A s \in Inherited : Owners(s)' = Owners(s) \/ Waiters(s) = {}
  PROVE  \A t \in Tasks : Demand(t)' = Demand(t)
<1> SUFFICES ASSUME NEW t \in Tasks PROVE Demand(t)' = Demand(t)
  OBVIOUS
<1>1. \A w \in Tasks : (\E s \in Inherited : t \in Owners(s)' /\ w \in Waiters(s)')
                         <=> (\E s \in Inherited : t \in Owners(s) /\ w \in Waiters(s))
  OBVIOUS
<1> QED BY <1>1 DEF Demand

\* A semaphore that takes no part in priority inheritance has no holders.
LEMMA NoHolders ==
  ASSUME HoldersInv, Paired, NEW s \in Sems, s \notin Inherited
  PROVE  s \in NoInherit \union IsrSems /\ HolderTasks(holders[s]) = {}
<1>1. s \in NoInherit \union IsrSems
  BY DEF Paired, Inherited
<1> QED BY <1>1 DEF HoldersInv, HolderLists

\* The steps that leave all priorities alone.
LEMMA QuietPairs ==
  ASSUME ProtocolInv, PairInv, OneLock', Signallers = {}, UNCHANGED tcb,
         \/ \E t \in Tasks, s \in Sems :
              \/ EffTake(t, s)
              \/ EffBlock(t, s) /\ s \notin Inherited
              \/ EffPost(t, s) /\ (s \notin Inherited \/ EffCount(s))
         \/ \E s \in Sems : EffInject(s)
         \/ \E t \in Tasks : EffReturn(t) \/ EffResume(t) \/ EffDie(t)
         \/ \E t \in Tasks : EffCancel(t) /\ waitsem[t] \notin Inherited
         \/ EffNone
  PROVE  PairInv'
<1> USE DEF ProtocolInv
<1>0. \A s \in Inherited : s \in LockSems /\ s \in Sems /\ semcount[s] \in Int
  BY LockCounts DEF Inherited, ProtocolTypeOK
<1>1. ASSUME \A s \in Inherited : Waiters(s)' = Waiters(s),
             \A s \in Inherited : Owners(s)' = Owners(s) \/ Waiters(s) = {},
             \A t \in Tasks : task_state'[t] # "DEAD" => Alive(t)
      PROVE  PairInv'
  BY <1>1, DemandStays, PairStays
<1>2. ASSUME NEW t \in Tasks, NEW s \in Sems, EffTake(t, s)
      PROVE  PairInv'
  <2>1. \A q \in Inherited : Waiters(q)' = Waiters(q)
    BY <1>0, <1>2 DEF EffTake, Ready, Waiters, ProtocolTypeOK
  <2>2. \A q \in Inherited : Owners(q)' = Owners(q) \/ Waiters(q) = {}
    <3>1. \A q \in Inherited \ {s} : Owners(q)' = Owners(q)
      BY <1>0, <1>2, OwnersAfterTake
    <3>2. s \in Inherited => Waiters(s) = {}
      BY <1>0, <1>2, NegativeMeansWaiter DEF EffTake
    <3> QED BY <3>1, <3>2
  <2> QED BY <1>1, <1>2, <2>1, <2>2 DEF EffTake, Alive
<1>3. ASSUME NEW t \in Tasks, NEW s \in Sems, EffBlock(t, s), s \notin Inherited
      PROVE  PairInv'
  <2>1. \A q \in Inherited : Waiters(q)' = Waiters(q)
    BY <1>0, <1>3 DEF EffBlock, Ready, Waiters, ProtocolTypeOK
  <2>2. \A q \in Inherited : Owners(q)' = Owners(q)
    BY <1>0, <1>3, OwnersStay
  <2> QED BY <1>1, <1>3, <2>1, <2>2 DEF EffBlock, Ready, Alive, ProtocolTypeOK
<1>4. ASSUME NEW t \in Tasks, NEW s \in Sems, EffPost(t, s), s \notin Inherited \/ EffCount(s)
      PROVE  PairInv'
  <2>1. CASE EffCount(s)
    <3>1. \A q \in Inherited : Waiters(q)' = Waiters(q)
      BY <2>1 DEF EffCount, Waiters
    <3>2. \A q \in Inherited : Owners(q)' = Owners(q) \/ Waiters(q) = {}
      BY <1>0, <1>4, <2>1, OwnersAfterPost, CountIsFree, NegativeMeansWaiter
    <3> QED BY <1>1, <2>1, <3>1, <3>2 DEF EffCount, Alive
  <2>2. CASE s \notin Inherited /\ \E w \in Tasks : EffWake(s, w)
    <3>1. PICK w \in Tasks : EffWake(s, w)
      BY <2>2
    <3>2. \A q \in Inherited : Waiters(q)' = Waiters(q)
      BY <1>0, <2>2, <3>1 DEF EffWake, Waiters, ProtocolTypeOK
    <3>3. \A q \in Inherited : Owners(q)' = Owners(q)
      BY <1>0, <1>4, <2>2, OwnersAfterPost
    <3> QED BY <1>1, <3>1, <3>2, <3>3 DEF EffWake, Alive, Waiters, ProtocolTypeOK
  <2> QED BY <1>4, <2>1, <2>2 DEF EffPost
<1>5. ASSUME NEW s \in Sems, EffInject(s)
      PROVE  PairInv'
  <2>1. \A q \in Inherited : Owners(q)' = Owners(q) /\ q # s
    BY <1>0, <1>5, OwnersStay DEF EffInject
  <2>2. \A q \in Inherited : Waiters(q)' = Waiters(q)
    BY <1>0, <1>5, <2>1 DEF EffInject, EffCount, EffWake, Waiters, ProtocolTypeOK
  <2> QED BY <1>1, <1>5, <2>1, <2>2 DEF EffInject, EffCount, EffWake, Alive, Waiters, ProtocolTypeOK
<1>6. ASSUME NEW t \in Tasks, EffReturn(t) \/ EffResume(t) \/ EffDie(t)
      PROVE  PairInv'
  <2>1. \A q \in Inherited : Owners(q)' = Owners(q)
    BY <1>0, <1>6, OwnersStay
  <2>2. \A q \in Inherited : Waiters(q)' = Waiters(q)
    BY <1>0, <1>6 DEF EffReturn, EffResume, EffDie, Ready, Waiters, ProtocolTypeOK
  <2> QED BY <1>1, <1>6, <2>1, <2>2 DEF EffReturn, EffResume, EffDie, Alive, ProtocolTypeOK
<1>7. ASSUME NEW t \in Tasks, EffCancel(t), waitsem[t] \notin Inherited
      PROVE  PairInv'
  <2>1. \A q \in Inherited : Owners(q)' = Owners(q)
    BY <1>0, <1>7, OwnersStay
  <2>2. \A q \in Inherited : Waiters(q)' = Waiters(q)
    BY <1>0, <1>7 DEF EffCancel, Waiters, ProtocolTypeOK
  <2> QED BY <1>1, <1>7, <2>1, <2>2 DEF EffCancel, Alive, ProtocolTypeOK
<1>8. ASSUME EffNone
      PROVE  PairInv'
  <2>1. \A q \in Inherited : Owners(q)' = Owners(q)
    BY <1>0, <1>8, OwnersStay
  <2> QED BY <1>1, <1>8, <2>1 DEF EffNone, Waiters, Alive
<1> QED BY <1>2, <1>3, <1>4, <1>5, <1>6, <1>7, <1>8

\* A thread blocks on a lock that the other one owns: the owner gets the higher
\* of the two priorities.
LEMMA BlockPairs ==
  ASSUME ProtocolInv, HoldersInv, InheritInv, PairInv, OneLock', Paired, Signallers = {},
         NEW t \in Tasks, NEW s \in Sems, NEW timed \in BOOLEAN, Block(t, s, timed)
  PROVE  PairInv'
<1> USE DEF ProtocolInv, PairInv
<1>1. /\ EffBlock(t, s) /\ s \notin IsrSems /\ s \in Uses[t] /\ locks[t] = {}
      /\ cont[t] = NoCont /\ Ready(t) /\ Alive(t) /\ semcount[s] <= 0
      /\ tcb' = sem_boostpriority(tcb, holders[s], t)
  BY ActionEffects DEF Block, MayWait, Free, Running, Ready, Alive, Paired
<1>2. CASE s \notin Inherited
  <2>1. \A u \in HolderTasks(holders[s]) : ~ Alive(u)
    BY <1>1, <1>2, NoHolders
  <2>2. sem_boostpriority(tcb, holders[s], t) = tcb
    BY <2>1, NobodyBoosted DEF InheritInv
  <2> QED BY <1>1, <1>2, <2>2, QuietPairs
<1>3. CASE s \in Inherited
  <2>0. \A q \in Inherited : q \in LockSems /\ q \in Sems
    BY LockCounts DEF Inherited
  <2>1. \A q \in LockSems : t \notin Owners(q)
    BY <1>1, Users
  <2>2. cont[t].kind # "post"
    BY <1>1 DEF NoCont
  <2>3. PICK e \in Tasks :
          /\ e # t /\ Owners(s) = {e}
          /\ Waiters(s) \subseteq {t}
          /\ \A u \in HolderTasks(holders[s]) : Alive(u) => u = e
          /\ Alive(e) => e \in HolderTasks(holders[s])
    BY <1>1, <1>3, <2>0, <2>1, <2>2, OnlyOwner
  <2>4. /\ Waiters(s) = {} /\ Waiters(s)' = {t}
        /\ \A q \in Inherited \ {s} : Waiters(q)' = Waiters(q)
    BY <1>1, <2>0, <2>3 DEF EffBlock, Ready, Waiters, ProtocolTypeOK
  <2>5. \A q \in Inherited : Owners(q)' = Owners(q)
    BY <1>1, <2>0, OwnersStay
  <2>6. \A q \in Inherited : e \in Owners(q) => q = s
    BY <1>3, <2>0, <2>3, Users
  <2>7. Demand(e) = {} /\ Demand(e)' = {t} /\ Demand(t) = {}
    <3>1. Demand(e) = {}
      BY <2>4, <2>6 DEF Demand
    <3>2. Demand(t) = {}
      BY <2>0, <2>1 DEF Demand
    <3>3. Demand(e)' = {t}
      BY <1>3, <2>3, <2>4, <2>5, <2>6 DEF Demand
    <3> QED BY <3>1, <3>2, <3>3
  <2>8. \A u \in Tasks \ {e} : Demand(u)' = Demand(u)
    <3> SUFFICES ASSUME NEW u \in Tasks \ {e} PROVE Demand(u)' = Demand(u)
      OBVIOUS
    <3>1. u \notin Owners(s)
      BY <2>3
    <3>2. \A w \in Tasks : (\E q \in Inherited : u \in Owners(q)' /\ w \in Waiters(q)')
                             <=> (\E q \in Inherited : u \in Owners(q) /\ w \in Waiters(q))
      BY <2>4, <2>5, <3>1
    <3> QED BY <3>2 DEF Demand
  <2>9. \A u \in Tasks \ {e} : Alive(u) => tcb'[u] = tcb[u]
    BY <1>1, <2>3 DEF sem_boostpriority
  <2>10. ASSUME Alive(e)
         PROVE  PairPrio(e)'
    <3>1. tcb'[e] = sem_boostholderprio(tcb[e], tcb[t].sched_priority)
      BY <1>1, <2>3, <2>10 DEF sem_boostpriority
    <3>2. tcb[t].sched_priority = BasePriority[t] /\ BasePriority[t] \in Nat
      BY <1>1, <2>7, ConstantsAssumption DEF PairPrio
    <3>3. /\ tcb[e] \in TcbRecord /\ tcb[e].pend_reprios = <<>>
          /\ tcb[e].sched_priority = BasePriority[e] /\ tcb[e].base_priority = BasePriority[e]
          /\ BasePriority[e] \in Nat
      BY <2>7, <2>10, ConstantsAssumption DEF PairPrio, InheritInv, PrioTable
    <3> DEFINE b == BasePriority[e]
               p == BasePriority[t]
               h == tcb[e]
    <3> HIDE DEF b, p, h
    <3>4. sem_boostholderprio(h, p).pend_reprios = <<>>
          /\ sem_boostholderprio(h, p).sched_priority = Higher(p, b)
      <4>1. /\ h \in TcbRecord /\ h.pend_reprios = <<>> /\ h.sched_priority = b
            /\ h.base_priority = b /\ b \in Nat /\ p \in Nat
        BY <3>2, <3>3 DEF b, p, h
      <4>2. CASE p <= b
        BY <4>1, <4>2 DEF sem_boostholderprio, Higher
      <4>3. CASE ~ (p <= b)
        <5>1. ~ (h.sched_priority > h.base_priority) /\ p > h.sched_priority /\ ~ (p <= h.base_priority) /\ p > b
          BY <4>1, <4>3
        <5>2. sem_boostholderprio(h, p) =
                [h EXCEPT !.sched_priority = p, !.pend_reprios = h.pend_reprios]
          BY <5>1, Zenon DEF sem_boostholderprio
        <5> QED BY <4>1, <5>1, <5>2 DEF TcbRecord, Higher
      <4> QED BY <4>2, <4>3
    <3>5. tcb'[e].pend_reprios = <<>> /\ tcb'[e].sched_priority = Higher(BasePriority[t], BasePriority[e])
      BY <3>1, <3>2, <3>4 DEF b, p, h
    <3> QED BY <2>7, <3>5 DEF PairPrio
  <2> DEFINE E == {e}
  <2>11. \A u \in Tasks \ E : Alive(u) => tcb'[u] = tcb[u] /\ Demand(u)' = Demand(u)
    BY <2>8, <2>9
  <2>12. \A u \in E : u \in Tasks /\ Alive(u) => PairPrio(u)'
    BY <2>10
  <2>13. \A u \in Tasks : task_state'[u] # "DEAD" => Alive(u)
    BY <1>1 DEF EffBlock, Alive, ProtocolTypeOK
  <2> HIDE DEF E
  <2> QED BY <2>11, <2>12, <2>13, PairStep
<1> QED BY <1>2, <1>3

\* A wait for a lock ends early: the owner goes back to its base priority.
LEMMA CancelPairs ==
  ASSUME ProtocolInv, HoldersInv, InheritInv, PairInv, OneLock', Paired, Signallers = {},
         NEW w \in Tasks, EffCancel(w), tcb' = RestoreHolders(tcb, holders[waitsem[w]], w, {})
  PROVE  PairInv'
<1> USE DEF ProtocolInv, PairInv
<1>1. PICK s \in Sems : s = waitsem[w] /\ w \in Waiters(s)
  BY DEF EffCancel, Waiters, WaitConsistent
<1>2. CASE s \notin Inherited
  <2>1. \A u \in HolderTasks(holders[s]) : ~ Alive(u)
    BY <1>2, NoHolders
  <2>2. RestoreHolders(tcb, holders[s], w, {}) = tcb
    BY <2>1, NobodyBoosted DEF InheritInv
  <2> QED BY <1>1, <1>2, <2>2, QuietPairs
<1>3. CASE s \in Inherited
  <2>0. \A q \in Inherited : q \in LockSems /\ q \in Sems /\ semcount[q] \in Int
    BY LockCounts DEF Inherited, ProtocolTypeOK
  <2>1. w \notin Owners(s) /\ s \in Uses[w]
    BY <1>1, <1>3, <2>0, Users
  <2>2. cont[w].kind # "post" /\ semcount[s] <= 0
    BY <1>1, <1>3, <2>0, NegativeMeansWaiter DEF EffCancel, WaitConsistent
  <2>3. PICK e \in Tasks :
          /\ e # w /\ Owners(s) = {e}
          /\ Waiters(s) \subseteq {w}
          /\ \A u \in HolderTasks(holders[s]) : Alive(u) => u = e
          /\ Alive(e) => e \in HolderTasks(holders[s])
    BY <1>1, <1>3, <2>0, <2>1, <2>2, OnlyOwner
  <2>4. Waiters(s)' = {} /\ \A q \in Inherited \ {s} : Waiters(q)' = Waiters(q)
    BY <1>1, <2>0, <2>3 DEF EffCancel, Waiters, ProtocolTypeOK
  <2>5. \A q \in Inherited : Owners(q)' = Owners(q)
    BY <2>0, OwnersStay
  <2>6. \A q \in Inherited : e \in Owners(q) => q = s
    BY <1>3, <2>0, <2>3, Users
  <2>7. Demand(e)' = {}
    BY <2>4, <2>5, <2>6 DEF Demand
  <2>8. \A u \in Tasks \ {e} : Demand(u)' = Demand(u)
    <3> SUFFICES ASSUME NEW u \in Tasks \ {e} PROVE Demand(u)' = Demand(u)
      OBVIOUS
    <3>1. u \notin Owners(s)
      BY <2>3
    <3>2. \A v \in Tasks : (\E q \in Inherited : u \in Owners(q)' /\ v \in Waiters(q)')
                             <=> (\E q \in Inherited : u \in Owners(q) /\ v \in Waiters(q))
      BY <2>4, <2>5, <3>1
    <3> QED BY <3>2 DEF Demand
  <2>9. \A u \in Tasks \ {e} : Alive(u) => tcb'[u] = tcb[u]
    BY <1>1, <2>3 DEF RestoreHolders, Visited
  <2>10. ASSUME Alive(e)
         PROVE  PairPrio(e)'
    <3>1. PICK p : tcb'[e] = sem_restoreholderprio(tcb[e], p)
      BY <1>1, <2>3, <2>10 DEF RestoreHolders, Visited
    <3>2. tcb[e] \in TcbRecord /\ tcb[e].pend_reprios = <<>> /\ tcb[e].base_priority = BasePriority[e]
      BY <2>10 DEF PairPrio, InheritInv, PrioTable
    <3>3. tcb'[e].pend_reprios = <<>> /\ tcb'[e].sched_priority = BasePriority[e]
      BY <3>1, <3>2, RestoreToBase
    <3> QED BY <2>7, <3>3 DEF PairPrio
  <2> DEFINE E == {e}
  <2>11. \A u \in Tasks \ E : Alive(u) => tcb'[u] = tcb[u] /\ Demand(u)' = Demand(u)
    BY <2>8, <2>9
  <2>12. \A u \in E : u \in Tasks /\ Alive(u) => PairPrio(u)'
    BY <2>10
  <2>13. \A u \in Tasks : task_state'[u] # "DEAD" => Alive(u)
    BY DEF EffCancel, Alive, ProtocolTypeOK
  <2> HIDE DEF E
  <2> QED BY <2>11, <2>12, <2>13, PairStep
<1> QED BY <1>2, <1>3

\* The owner hands its lock to the other thread and goes back to its base
\* priority; the new owner has nobody to inherit from.
LEMMA WakePairs ==
  ASSUME ProtocolInv, HoldersInv, InheritInv, PairInv, OneLock', Paired, EnoughContainers,
         Signallers = {}, NEW r \in Tasks, NEW s \in Sems, NEW w \in Tasks,
         Post(r, s), PostWake(r, s, w)
  PROVE  PairInv'
<1> USE DEF ProtocolInv, PairInv
<1> DEFINE hs == sem_addholder_tcb(s, sem_releaseholder(holders[s], r), w)
           stA == RestoreHolders(tcb, hs, w, {r})
           seen == stA[w].sched_priority
<1>1. /\ EffPost(r, s) /\ s \notin IsrSems /\ Ready(r)
      /\ s \in LockSems => s \in locks[r]
      /\ w \in Waiters(s) /\ EffWake(s, w)
      /\ tcb' = IF r \in HolderTasks(hs)
                THEN [stA EXCEPT ![r] = sem_restoreholderprio(@, seen)] ELSE stA
  BY ActionEffects DEF Post, PostWake, FirstWaiter, Free, Running, EffWake, CanPost
<1>2. /\ HolderTasks(holders[s]) \subseteq HolderTasks(hs)
      /\ HolderTasks(hs) \subseteq HolderTasks(holders[s]) \union {w}
      /\ \A u \in HolderTasks(hs) : s \in Uses[u] \ (NoInherit \union IsrSems)
  BY <1>1, HandedOver
<1>3. /\ w # r /\ Alive(w) /\ Alive(r)
      /\ \A u \in Tasks : task_state'[u] # "DEAD" => Alive(u)
  BY <1>1 DEF EffWake, Waiters, Alive, Ready, ProtocolTypeOK
<1> HIDE DEF hs
<1>4. CASE s \notin Inherited
  <2>1. HolderTasks(hs) = {}
    BY <1>1, <1>2, <1>4, NoHolders
  <2>2. stA = tcb
    BY <2>1, NobodyBoosted DEF InheritInv
  <2>3. tcb' = tcb
    BY <1>1, <2>1, <2>2
  <2> QED BY <1>1, <1>4, <2>3, QuietPairs
<1>5. CASE s \in Inherited
  <2>0. \A q \in Inherited : q \in LockSems /\ q \in Sems /\ semcount[q] \in Int
    BY LockCounts DEF Inherited, ProtocolTypeOK
  <2>1. w \notin Owners(s) /\ s \in Uses[w]
    BY <1>1, <1>5, <2>0, Users
  <2>2. cont[w].kind # "post" /\ semcount[s] <= 0
    BY <1>1, <1>5, <2>0 DEF EffWake, Waiters, WaitConsistent
  <2>3. PICK e \in Tasks :
          /\ e # w /\ Owners(s) = {e}
          /\ Waiters(s) \subseteq {w}
          /\ \A u \in HolderTasks(holders[s]) : Alive(u) => u = e
          /\ Alive(e) => e \in HolderTasks(holders[s])
    BY <1>5, <2>1, <2>2, OnlyOwner
  <2>4. e = r /\ r \in HolderTasks(hs)
    BY <1>1, <1>2, <1>3, <1>5, <2>0, <2>3 DEF Owners
  <2>5. Waiters(s)' = {} /\ \A q \in Inherited \ {s} : Waiters(q)' = Waiters(q)
    BY <1>1, <2>0, <2>3 DEF EffWake, Waiters, ProtocolTypeOK
  <2>6. \A q \in Inherited \ {s} : Owners(q)' = Owners(q)
    BY <1>1, <2>0, OwnersAfterPost
  <2>7. Owners(s)' = {w}
    BY <1>1, <1>5, <2>0, <2>3, <2>4, OwnersAfterPost
  <2>8. \A q \in Inherited : w \notin Owners(q) /\ (r \in Owners(q) => q = s)
    BY <1>1, <1>5, <2>0, <2>3, <2>4, Users
  <2>9. Demand(w) = {} /\ Demand(w)' = {} /\ Demand(r)' = {}
    <3>1. Demand(w) = {}
      BY <2>8 DEF Demand
    <3>2. Demand(w)' = {}
      BY <2>5, <2>6, <2>8 DEF Demand
    <3>3. Demand(r)' = {}
      BY <2>5, <2>6, <2>8 DEF Demand
    <3> QED BY <3>1, <3>2, <3>3
  <2>10. \A u \in Tasks \ {r, w} : Demand(u)' = Demand(u)
    <3> SUFFICES ASSUME NEW u \in Tasks \ {r, w} PROVE Demand(u)' = Demand(u)
      OBVIOUS
    <3>1. u \notin Owners(s) /\ u \notin Owners(s)'
      BY <2>3, <2>4, <2>7
    <3>2. \A v \in Tasks : (\E q \in Inherited : u \in Owners(q)' /\ v \in Waiters(q)')
                             <=> (\E q \in Inherited : u \in Owners(q) /\ v \in Waiters(q))
      BY <2>5, <2>6, <3>1
    <3> QED BY <3>2 DEF Demand
  <2>11. tcb[w].sched_priority = BasePriority[w] /\ tcb[w].pend_reprios = <<>>
         /\ tcb[w].base_priority = BasePriority[w] /\ tcb[w] \in TcbRecord
    BY <1>3, <2>9 DEF PairPrio, InheritInv, PrioTable
  <2>12. \A u \in Tasks \ {r, w} : Alive(u) => stA[u] = tcb[u]
    BY <1>2, <2>3, <2>4 DEF RestoreHolders, Visited
  <2>13. stA[r] = tcb[r]
    BY DEF RestoreHolders, Visited
  <2>14. stA[w] = tcb[w]
    <3>1. \A p : sem_restoreholderprio(tcb[w], p) = tcb[w]
      BY <2>11, RestoreToBase
    <3> QED BY <3>1 DEF RestoreHolders
  <2>15. tcb' = [stA EXCEPT ![r] = sem_restoreholderprio(stA[r], seen)]
    BY <1>1, <2>4
  <2>16. DOMAIN stA = Tasks
    BY DEF RestoreHolders
  <2> HIDE DEF stA, seen
  <2>17. \A u \in Tasks \ {r} : Alive(u) => tcb'[u] = tcb[u]
    BY <1>3, <2>12, <2>14, <2>15, <2>16
  <2>18. PairPrio(r)'
    <3>1. tcb'[r] = sem_restoreholderprio(tcb[r], seen)
      BY <2>13, <2>15, <2>16
    <3>2. tcb[r] \in TcbRecord /\ tcb[r].pend_reprios = <<>> /\ tcb[r].base_priority = BasePriority[r]
      BY <1>3 DEF PairPrio, InheritInv, PrioTable
    <3>3. tcb'[r].pend_reprios = <<>> /\ tcb'[r].sched_priority = BasePriority[r]
      BY <3>1, <3>2, RestoreToBase
    <3> QED BY <2>9, <3>3 DEF PairPrio
  <2> DEFINE E == {r}
  <2>19. \A u \in Tasks \ E : Alive(u) => tcb'[u] = tcb[u] /\ Demand(u)' = Demand(u)
    BY <2>9, <2>10, <2>17
  <2>20. \A u \in E : u \in Tasks /\ Alive(u) => PairPrio(u)'
    BY <2>18
  <2> HIDE DEF E
  <2> QED BY <1>3, <2>19, <2>20, PairStep
<1> QED BY <1>4, <1>5

\* An interrupt handler posts a semaphore that is no lock.
LEMMA IrqPostPairs ==
  ASSUME ProtocolInv, HoldersInv, InheritInv, PairInv, OneLock', Paired, EnoughContainers,
         Signallers = {}, NEW r \in Tasks \union {NoTask}, NEW s \in Sems, IrqPost(r, s)
  PROVE  PairInv'
<1>1. EffInject(s) /\ s \notin IsrSems /\ s \notin Inherited
  BY ActionEffects DEF IrqPost, Inherited
<1>2. UNCHANGED tcb
  <2>1. ASSUME NEW w \in Tasks, w \in Waiters(s)
        PROVE  LET hs == sem_addholder_tcb(s, sem_releaseholder(holders[s], r), w) IN
               RestoreHolders(tcb, hs, w, {}) = tcb
    <3> DEFINE hs == sem_addholder_tcb(s, sem_releaseholder(holders[s], r), w)
    <3>1. \A u \in HolderTasks(hs) : s \in Uses[u] \ (NoInherit \union IsrSems)
      BY <1>1, <2>1, HandedOver
    <3>2. s \in NoInherit \union IsrSems
      BY <1>1, NoHolders
    <3> HIDE DEF hs
    <3>3. RestoreHolders(tcb, hs, w, {}) = tcb
      BY <3>1, <3>2, NobodyBoosted DEF InheritInv
    <3> QED BY <3>3 DEF hs
  <2> QED BY <2>1 DEF IrqPost, FirstWaiter
<1> QED BY <1>1, <1>2, QuietPairs

\* The rest of a post finds no pending priority to wipe.
LEMMA ResumePairs ==
  ASSUME ProtocolInv, InheritInv, PairInv, OneLock', Signallers = {},
         NEW r \in Tasks, PostResume(r)
  PROVE  PairInv'
<1>1. EffResume(r) /\ Alive(r)
  BY ActionEffects DEF PostResume, Running, Ready, Alive
<1>2. tcb[r].pend_reprios = <<>> /\ tcb[r] \in TcbRecord /\ tcb \in [Tasks -> TcbRecord]
  BY <1>1 DEF PairInv, PairPrio, InheritInv, PrioTable
<1>3. [tcb[r] EXCEPT !.pend_reprios = <<>>] = tcb[r]
  BY <1>2 DEF TcbRecord
<1>4. [tcb EXCEPT ![r].pend_reprios = <<>>] = tcb
  BY <1>2, <1>3
<1>5. UNCHANGED tcb
  BY <1>4 DEF PostResume
<1> QED BY <1>1, <1>5, QuietPairs

LEMMA NextPairs ==
  ASSUME ProtocolInv, HoldersInv, InheritInv, PairInv, Paired, EnoughContainers,
         Signallers = {}, [Next]_vars
  PROVE  PairInv'
<1>0. OneLock'
  BY OneLockStays DEF PairInv, HoldersInv
<1>1. ASSUME NEW t \in Tasks, NEW s \in Sems,
             Take(t, s) \/ TakeIsr(t, s) \/ Block(t, s, FALSE) \/ Block(t, s, TRUE)
             \/ BlockIsr(t, s)
      PROVE  PairInv'
  <2>1. CASE Take(t, s) \/ TakeIsr(t, s)
    <3>1. EffTake(t, s) /\ UNCHANGED tcb
      BY <2>1, ActionEffects DEF Take, TakeIsr
    <3> QED BY <1>0, <3>1, QuietPairs
  <2>2. CASE BlockIsr(t, s)
    <3>1. EffBlock(t, s) /\ s \notin Inherited /\ UNCHANGED tcb
      BY <2>2, ActionEffects, ConstantsAssumption DEF BlockIsr, Inherited
    <3> QED BY <1>0, <3>1, QuietPairs
  <2> QED BY <1>0, <1>1, <2>1, <2>2, BlockPairs
<1>2. ASSUME NEW t \in Tasks, NEW s \in Sems, Post(t, s)
      PROVE  PairInv'
  <2>1. CASE PostCount(t, s)
    <3>1. EffPost(t, s) /\ EffCount(s) /\ UNCHANGED tcb
      BY <1>2, <2>1, ActionEffects DEF Post, PostCount, EffCount, CanPost
    <3> QED BY <1>0, <3>1, QuietPairs
  <2> QED BY <1>0, <1>2, <2>1, WakePairs DEF Post
<1>3. ASSUME NEW s \in Sems, PostFromIsr(s)
      PROVE  PairInv'
  BY <1>0, <1>3, ActionEffects, QuietPairs DEF PostFromIsr
<1>4. ASSUME NEW t \in Tasks, WaitReturn(t) \/ Die(t)
      PROVE  PairInv'
  <2>1. (EffReturn(t) \/ EffDie(t)) /\ UNCHANGED tcb
    BY <1>4, ActionEffects DEF WaitReturn, Die
  <2> QED BY <1>0, <2>1, QuietPairs
<1>5. ASSUME NEW w \in Tasks, Timeout(w) \/ SignalIrq(w)
      PROVE  PairInv'
  <2>1. CASE task_state[w] = "WAIT_SEM"
    <3>1. tcb' = RestoreHolders(tcb, holders[waitsem[w]], w, {})
      BY <1>5, <2>1 DEF Timeout, SignalIrq, CancelIrq
    <3>2. EffCancel(w)
      BY <1>5, <2>1 DEF Timeout, SignalIrq, CancelIrq, EndWait, EffCancel
    <3> QED BY <1>0, <3>1, <3>2, CancelPairs
  <2>2. CASE task_state[w] # "WAIT_SEM"
    <3>1. EffNone /\ UNCHANGED tcb
      BY <1>5, <2>2 DEF Timeout, SignalIrq, EffNone
    <3> QED BY <1>0, <3>1, QuietPairs
  <2> QED BY <2>1, <2>2
<1>6. CASE UNCHANGED vars
  <2>1. EffNone /\ UNCHANGED tcb
    BY <1>6 DEF vars, EffNone
  <2> QED BY <1>0, <2>1, QuietPairs
<1>7. ASSUME NEW r \in Tasks
      PROVE  ~ CancelResume(r) /\ \A w \in Tasks : ~ SignalTask(r, w) /\ ~ KillWaiter(r, w)
  BY <1>7 DEF CancelResume, SignalTask, KillWaiter, ProtocolInv, WaitConsistent
<1> QED BY <1>0, <1>1, <1>2, <1>3, <1>4, <1>5, <1>6, <1>7, IrqPostPairs, ResumePairs DEF Next

LEMMA InitPairs ==
  Init => PairInv
<1> SUFFICES ASSUME Init PROVE PairInv
  OBVIOUS
<1>1. OneLock
  BY DEF Init, NoCont, OneLock
<1>2. \A t \in Tasks : Demand(t) = {}
  BY DEF Init, Demand, Waiters
<1>3. \A t \in Tasks : tcb[t].pend_reprios = <<>> /\ tcb[t].sched_priority = BasePriority[t]
  BY DEF Init
<1> QED BY <1>1, <1>2, <1>3 DEF PairInv, PairPrio

\* Between two threads that share a lock, the owner runs at the higher of its
\* own and the waiter's base priority, and every other living thread at its
\* base priority.
THEOREM PairInvariant ==
  ASSUME Signallers = {}, EnoughContainers, Paired
  PROVE  Spec => []PairInv
<1>1. ProtocolInv /\ HoldersInv /\ InheritInv /\ PairInv /\ [Next]_vars => PairInv'
  BY NextPairs
<1> QED
  BY <1>1, InitPairs, ProtocolInvariant, HoldersInvariant, InheritInvariant, PTL DEF Spec

\* Priority inheritance works between two threads: the owner of a lock runs at
\* no lower priority than the thread that waits for it, whatever ends a wait.
THEOREM InversionTheorem ==
  ASSUME Signallers = {}, EnoughContainers, Paired
  PROVE  Spec => []NoInversion
<1>1. ProtocolInv /\ HoldersInv /\ PairInv => NoInversion
  <2> SUFFICES ASSUME ProtocolInv, HoldersInv, PairInv, NEW s \in Inherited,
                      NEW o \in Owners(s), NEW w \in Waiters(s), Alive(o)
               PROVE  tcb[o].sched_priority >= tcb[w].sched_priority
    BY DEF NoInversion, Inherited
  <2>0. \A q \in Inherited : q \in LockSems /\ q \in Sems
    BY LockCounts DEF Inherited
  <2>1. o \in Tasks /\ w \in Tasks /\ Alive(w)
    BY DEF Owners, Granted, Waiters, Alive
  <2>2. w \in Demand(o)
    BY <2>1 DEF Demand
  <2>3. Demand(w) = {}
    BY <2>0, <2>1, Users DEF Demand, PairInv
  <2>4. /\ tcb[o].sched_priority = Higher(BasePriority[w], BasePriority[o])
        /\ tcb[w].sched_priority = BasePriority[w]
    BY <2>1, <2>2, <2>3 DEF PairInv, PairPrio
  <2>5. BasePriority[w] \in Nat /\ BasePriority[o] \in Nat
    BY <2>1, ConstantsAssumption
  <2> QED BY <2>4, <2>5 DEF Higher
<1> QED BY <1>1, ProtocolInvariant, HoldersInvariant, PairInvariant, PTL

\* A thread that has given back its lock and is in no call runs at its base
\* priority again: no boost outlives the wait it was given for.
THEOREM BaseTheorem ==
  ASSUME Signallers = {}, EnoughContainers, Paired
  PROVE  Spec => []BaseAfterPost
<1>1. HoldersInv /\ InheritInv /\ PairInv => BaseAfterPost
  <2> SUFFICES ASSUME HoldersInv, InheritInv, PairInv, NEW t \in Tasks, Alive(t),
                      \A s \in Sems : t \notin HolderTasks(holders[s])
               PROVE  tcb[t].sched_priority = tcb[t].base_priority
    BY DEF BaseAfterPost
  <2>1. ASSUME NEW s \in Inherited
        PROVE  t \notin Owners(s)
    <3>1. s \in Sems
      BY LockCounts DEF Inherited
    <3>2. Charged(holders[s], t) = 0
      BY <3>1 DEF Charged
    <3> QED BY <3>2 DEF HoldersInv, LocksCharged, ExactAt
  <2>2. Demand(t) = {}
    BY <2>1 DEF Demand
  <2> QED BY <2>2 DEF PairInv, PairPrio, InheritInv, PrioTable
<1> QED BY <1>1, HoldersInvariant, InheritInvariant, PairInvariant, PTL

=============================================================================
