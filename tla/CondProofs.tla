----------------------------- MODULE CondProofs -----------------------------
(***************************************************************************)
(* The proofs about Cond, for any number of consumers and producers.       *)
(*                                                                         *)
(* The first invariant, MutexInv, is about the mutex and the counts: the   *)
(* mutex is given from owner to owner, its count lacks one for each thread *)
(* that has it or awaits it, the owner's locks agree with nlocks, and the  *)
(* count of the condition is minus the number of waiters, or the posts     *)
(* that are left over, which no signal or broadcast takes beyond the       *)
(* number of consumers.  It needs that no thread waits for a condition     *)
(* with a mutex that it has locked twice.                                  *)
(*                                                                         *)
(* The second, WakeupInv, is about the wake-ups and needs also that no     *)
(* POSIX signal interrupts an untimed pthread_cond_wait.                   *)
(***************************************************************************)
EXTENDS Cond, FiniteSetTheorems, TLAPS

-----------------------------------------------------------------------------
(* Counting threads.                                                       *)

Count(st, P) == Cardinality({u \in Threads : st[u] \in P})
Bit(x, P) == IF x \in P THEN 1 ELSE 0

\* A count of threads is a number, and 0 only if there are none.
LEMMA CountType ==
  ASSUME NEW f, NEW P
  PROVE  /\ Count(f, P) \in Nat
         /\ Count(f, P) = 0 <=> \A u \in Threads : f[u] \notin P
<1> DEFINE A == {u \in Threads : f[u] \in P}
<1>1. IsFiniteSet(A)
  BY ConstantsAssumption, FS_Subset DEF ConstantsAssumption
<1>2. Cardinality(A) \in Nat /\ (Cardinality(A) = 0 <=> A = {})
  BY <1>1, FS_CardinalityType, FS_EmptySet
<1> QED BY <1>2 DEF Count

\* When all threads but t stay in P or out of it, the count changes with t alone.
LEMMA CountMove ==
  ASSUME NEW f, NEW g, NEW P, NEW t \in Threads,
         \A u \in Threads : u # t => (f[u] \in P <=> g[u] \in P)
  PROVE  Count(g, P) = Count(f, P) + Bit(g[t], P) - Bit(f[t], P)
<1> DEFINE A == {u \in Threads : f[u] \in P}
           B == {u \in Threads : g[u] \in P}
<1>1. IsFiniteSet(A) /\ IsFiniteSet(B) /\ Cardinality(A) \in Nat /\ Cardinality(B) \in Nat
  BY ConstantsAssumption, FS_Subset, FS_CardinalityType DEF ConstantsAssumption
<1>2. CASE f[t] \in P /\ g[t] \notin P
  <2>1. B = A \ {t} /\ t \in A
    BY <1>2
  <2>2. Cardinality(B) = Cardinality(A) - 1
    BY <1>1, <2>1, FS_RemoveElement
  <2> QED BY <1>1, <1>2, <2>2 DEF Count, Bit
<1>3. CASE f[t] \notin P /\ g[t] \in P
  <2>1. A = B \ {t} /\ t \in B
    BY <1>3
  <2>2. Cardinality(A) = Cardinality(B) - 1
    BY <1>1, <2>1, FS_RemoveElement
  <2> QED BY <1>1, <1>3, <2>2 DEF Count, Bit
<1>4. CASE f[t] \in P <=> g[t] \in P
  <2>1. A = B
    BY <1>4
  <2>2. Bit(g[t], P) = Bit(f[t], P) /\ Bit(f[t], P) \in {0, 1}
    BY <1>4 DEF Bit
  <2>3. Count(g, P) = Count(f, P) /\ Count(f, P) \in Nat
    BY <1>1, <2>1 DEF Count
  <2> QED BY <2>2, <2>3
<1> QED BY <1>2, <1>3, <1>4

\* When nobody enters or leaves P, the count stays.
LEMMA CountKept ==
  ASSUME NEW f, NEW g, NEW P, \A u \in Threads : f[u] \in P <=> g[u] \in P
  PROVE  Count(g, P) = Count(f, P)
<1>1. {u \in Threads : f[u] \in P} = {u \in Threads : g[u] \in P}
  OBVIOUS
<1> QED BY <1>1 DEF Count

-----------------------------------------------------------------------------
(* The invariant of the mutex and the counts.                              *)

Owning == {"owns", "produced", "signal", "broadcast", "done"}
Holding == Owning \union {"lockgot", "relockgot"}
MutexWaits == {"lockwait", "relockwait"}
MutexStates == Holding \union MutexWaits
CondStates == {"take", "condwait", "condgot", "condintr", "relock", "relockwait", "relockgot"}
Posting == {"produced", "signal", "broadcast"}
CondWaits == {"condwait"}

Types ==
  /\ semcount \in [Sems -> Int]
  /\ pid \in Threads \union {NoThread}
  /\ nlocks \in Nat
  /\ state \in [Threads -> State]
  /\ ret \subseteq Timed /\ dog \subseteq Timed
  /\ sval \in [Threads -> Int]
  /\ cpu \in Threads \union {NoThread}
  /\ items \in 0 .. MaxItems
  /\ locks \in [Threads -> 0 .. MaxLocks]

Mutex ==
  /\ semcount["mutex"] = 1 - Count(state, MutexStates)
  /\ \A t, u \in Threads : state[t] \in Holding /\ state[u] \in Holding => t = u
  /\ (\A t \in Threads : state[t] \notin Holding) => \A t \in Threads : state[t] \notin MutexWaits

Owner ==
  /\ \A t \in Threads : state[t] \in Owning =>
       /\ pid = t
       /\ locks[t] >= 1
       /\ locks[t] > 1 => type = "recursive"
       /\ nlocks = locks[t] \/ (t \in Consumers /\ nlocks <= 1)
  /\ (\A t \in Threads : state[t] \notin Owning) => pid = NoThread /\ nlocks <= 1

Roles ==
  /\ \A t \in Threads : state[t] \in CondStates => t \in Consumers /\ locks[t] = 1
  /\ \A t \in Threads : state[t] \in Posting => t \in Producers
  /\ \A t \in Consumers : locks[t] <= 1

CondCount ==
  \/ semcount["cond"] = 0 - Count(state, CondWaits)
  \/ Count(state, CondWaits) = 0 /\ semcount["cond"] >= 0

Limit == Cardinality(Consumers)
Permits == IF semcount["cond"] > 0 THEN semcount["cond"] ELSE 0

Posts ==
  /\ Permits <= Limit
  /\ \A t \in Threads : state[t] = "signal" /\ sval[t] < 0 => Permits + 1 <= Limit
  /\ \A t \in Threads : state[t] = "broadcast" => Permits - sval[t] <= Limit

MutexInv ==
  /\ Types
  /\ Mutex
  /\ Owner
  /\ Roles
  /\ CondCount
  /\ Posts

\* A thread that waits for a condition has locked the mutex once.
Usage == Relockers \intersect Consumers = {}

\* What the records of Cond say.
LEMMA Records ==
  /\ DOMAIN Ended = {"lockwait", "relockwait", "condwait"}
  /\ Ended["lockwait"] = "lockintr" /\ Ended["relockwait"] = "relock" /\ Ended["condwait"] = "condintr"
  /\ Given["lockwait"] = "lockgot" /\ Given["relockwait"] = "relockgot" /\ Given["condwait"] = "condgot"
BY DEF Ended, Given

\* Who waits for the mutex, and who for the condition.
LEMMA WaitingSets ==
  /\ Waiting("mutex") = {t \in Threads : state[t] \in MutexWaits}
  /\ Waiting("cond") = {t \in Threads : state[t] \in CondWaits}
BY DEF Waiting, MutexWaits, CondWaits

\* The number of consumers.
LEMMA LimitType == Limit \in Nat
BY ConstantsAssumption, FS_Subset, FS_CardinalityType DEF Limit, ConstantsAssumption, Threads

\* The invariant holds at the start.
LEMMA InitMutexInv == Init => MutexInv
<1> SUFFICES ASSUME Init PROVE MutexInv
  OBVIOUS
<1>1. \A t \in Threads : state[t] = "idle" /\ locks[t] = 0
  BY DEF Init
<1>2. semcount["mutex"] = 1 /\ semcount["cond"] = 0 /\ semcount \in [Sems -> Int]
  BY DEF Init, Sems
<1>3. Types
  BY <1>2, ConstantsAssumption DEF Init, Types, State, ConstantsAssumption
<1>4. Count(state, MutexStates) = 0 /\ Count(state, CondWaits) = 0
  BY <1>1, CountType DEF MutexStates, Holding, Owning, MutexWaits, CondWaits
<1>5. Mutex
  BY <1>1, <1>2, <1>4 DEF Mutex, Holding, Owning, MutexWaits
<1>6. Owner /\ Roles
  BY <1>1 DEF Init, Owner, Roles, Owning, CondStates, Posting, Threads
<1>7. CondCount /\ Posts
  BY <1>1, <1>2, <1>4, LimitType DEF CondCount, Posts, Permits
<1> QED BY <1>3, <1>5, <1>6, <1>7 DEF MutexInv

-----------------------------------------------------------------------------
(* What steps do to the mutex.                                             *)

\* t alone moves, to x.
Moves(t, x) ==
  /\ state' \in [Threads -> State]
  /\ state'[t] = x
  /\ \A u \in Threads : u # t => state'[u] = state[u]

\* An assignment to the state of one thread.
LEMMA MoveFacts ==
  ASSUME Types, NEW t \in Threads, NEW x \in State, state' = [state EXCEPT ![t] = x]
  PROVE  Moves(t, x)
BY DEF Types, Moves

\* Nobody asks for the mutex or gives it up.
LEMMA MutexKept ==
  ASSUME Mutex, semcount'["mutex"] = semcount["mutex"],
         \A u \in Threads : state'[u] \in Holding <=> state[u] \in Holding,
         \A u \in Threads : state'[u] \in MutexWaits <=> state[u] \in MutexWaits
  PROVE  Mutex'
<1>1. \A u \in Threads : state[u] \in MutexStates <=> state'[u] \in MutexStates
  BY DEF MutexStates
<1>2. Count(state', MutexStates) = Count(state, MutexStates)
  BY <1>1, CountKept
<1> QED BY <1>2 DEF Mutex

\* t asks for the mutex, and has it at once only if it is free.
LEMMA MutexAsked ==
  ASSUME Types, Mutex, NEW t \in Threads, state[t] \notin MutexStates,
         NEW got \in Holding \intersect State, NEW wait \in MutexWaits, Take(t, "mutex", got, wait)
  PROVE  /\ Mutex'
         /\ semcount' \in [Sems -> Int] /\ semcount'["cond"] = semcount["cond"]
         /\ semcount["mutex"] > 0 => Moves(t, got) /\ \A u \in Threads : state[u] \notin Holding
         /\ ~ (semcount["mutex"] > 0) => Moves(t, wait)
<1>1. /\ semcount' \in [Sems -> Int] /\ semcount'["cond"] = semcount["cond"]
      /\ semcount'["mutex"] = semcount["mutex"] - 1 /\ semcount["mutex"] \in Int
  BY DEF Take, Types, Sems
<1>2. semcount["mutex"] > 0 => Moves(t, got)
  BY MoveFacts DEF Take
<1>3. ~ (semcount["mutex"] > 0) => Moves(t, wait)
  BY MoveFacts DEF Take, MutexWaits, State
<1>4. semcount["mutex"] > 0 => \A u \in Threads : state[u] \notin MutexStates
  <2>1. Count(state, MutexStates) \in Nat
    BY CountType
  <2>2. semcount["mutex"] > 0 => Count(state, MutexStates) = 0
    BY <1>1, <2>1 DEF Mutex
  <2> QED BY <2>2, CountType
<1>5. Count(state', MutexStates) = Count(state, MutexStates) + 1
  <2>1. \A u \in Threads : u # t => (state[u] \in MutexStates <=> state'[u] \in MutexStates)
    BY <1>2, <1>3 DEF Moves
  <2>2. state'[t] \in MutexStates
    BY <1>2, <1>3 DEF Moves, MutexStates
  <2>3. Bit(state'[t], MutexStates) = 1 /\ Bit(state[t], MutexStates) = 0
    BY <2>2 DEF Bit
  <2>4. Count(state', MutexStates) = Count(state, MutexStates) + Bit(state'[t], MutexStates) - Bit(state[t], MutexStates)
    BY <2>1, CountMove
  <2> QED BY <2>3, <2>4, CountType
<1>6. Mutex'
  <2>1. semcount'["mutex"] = 1 - Count(state', MutexStates)
    BY <1>1, <1>5, CountType DEF Mutex
  <2>2. CASE semcount["mutex"] > 0
    <3>1. \A u \in Threads : state'[u] \in Holding => u = t
      BY <1>2, <1>4, <2>2 DEF Moves, MutexStates
    <3>2. state'[t] \in Holding
      BY <1>2, <2>2 DEF Moves
    <3> QED BY <2>1, <3>1, <3>2 DEF Mutex
  <2>3. CASE ~ (semcount["mutex"] > 0)
    <3>1. \A u \in Threads : state'[u] \in Holding <=> state[u] \in Holding
      BY <1>3, <2>3 DEF Moves, MutexStates, MutexWaits, Holding, Owning
    <3>2. \E u \in Threads : state[u] \in MutexStates
      <4>1. Count(state, MutexStates) # 0
        BY <1>1, <2>3 DEF Mutex
      <4> QED BY <4>1, CountType
    <3>3. \E u \in Threads : state[u] \in Holding
      BY <3>2 DEF Mutex, MutexStates
    <3> QED BY <2>1, <3>1, <3>3 DEF Mutex
  <2> QED BY <2>2, <2>3
<1> QED BY <1>1, <1>2, <1>3, <1>4, <1>6 DEF MutexStates

\* t, which had the mutex, goes on to x, and one of the waiters has it now, if there is any.
Passed(t, x) ==
  /\ state' \in [Threads -> State]
  /\ state'[t] = x
  /\ \/ /\ \A u \in Threads : state[u] \notin MutexWaits
        /\ \A u \in Threads : u # t => state'[u] = state[u]
     \/ \E w \in Threads :
          /\ w # t
          /\ \/ state[w] = "lockwait" /\ state'[w] = "lockgot"
             \/ state[w] = "relockwait" /\ state'[w] = "relockgot"
          /\ \A u \in Threads : u \notin {t, w} => state'[u] = state[u]

\* The owner gives the mutex up.
LEMMA MutexPassed ==
  ASSUME Types, Mutex, NEW t \in Threads, state[t] \in Holding, NEW x, x \notin MutexStates,
         Passed(t, x), semcount'["mutex"] = semcount["mutex"] + 1
  PROVE  /\ Mutex'
         /\ \A u \in Threads : u # t => /\ state[u] \notin Holding
                                        /\ \/ state'[u] = state[u]
                                           \/ state[u] = "lockwait" /\ state'[u] = "lockgot"
                                           \/ state[u] = "relockwait" /\ state'[u] = "relockgot"
<1> USE DEF Holding, Owning, MutexWaits
<1>1. \A u \in Threads : u # t => \/ state'[u] = state[u]
                                  \/ state[u] = "lockwait" /\ state'[u] = "lockgot"
                                  \/ state[u] = "relockwait" /\ state'[u] = "relockgot"
  BY DEF Passed
<1>2. \A u \in Threads : u # t => state[u] \notin Holding
  BY DEF Mutex
<1>3. state'[t] = x
  BY DEF Passed
<1>4. Count(state', MutexStates) = Count(state, MutexStates) - 1
  <2>1. \A u \in Threads : u # t => (state[u] \in MutexStates <=> state'[u] \in MutexStates)
    BY <1>1 DEF MutexStates
  <2>2. Bit(state'[t], MutexStates) = 0 /\ Bit(state[t], MutexStates) = 1
    BY <1>3 DEF Bit, MutexStates
  <2>3. Count(state', MutexStates) = Count(state, MutexStates) + Bit(state'[t], MutexStates) - Bit(state[t], MutexStates)
    BY <2>1, CountMove
  <2> QED BY <2>2, <2>3, CountType
<1>5. semcount'["mutex"] = 1 - Count(state', MutexStates)
  BY <1>4, CountType DEF Mutex
<1>6. CASE /\ \A u \in Threads : state[u] \notin MutexWaits
           /\ \A u \in Threads : u # t => state'[u] = state[u]
  <2>1. \A u \in Threads : state'[u] \notin Holding /\ state'[u] \notin MutexWaits
    BY <1>2, <1>3, <1>6 DEF MutexStates
  <2> QED BY <1>1, <1>2, <1>5, <2>1 DEF Mutex
<1>7. ASSUME NEW w \in Threads, w # t,
             \/ state[w] = "lockwait" /\ state'[w] = "lockgot"
             \/ state[w] = "relockwait" /\ state'[w] = "relockgot",
             \A u \in Threads : u \notin {t, w} => state'[u] = state[u]
      PROVE  Mutex'
  <2>1. \A u \in Threads : state'[u] \in Holding => u = w
    BY <1>2, <1>3, <1>7 DEF MutexStates
  <2>2. state'[w] \in Holding
    BY <1>7
  <2> QED BY <1>5, <2>1, <2>2 DEF Mutex
<1> QED BY <1>1, <1>2, <1>6, <1>7 DEF Passed

\* A wait for the mutex ends without it.
LEMMA MutexWaitEnds ==
  ASSUME Types, Mutex, NEW t \in Threads, state[t] \in MutexWaits, NEW x, x \notin MutexStates,
         Moves(t, x), semcount'["mutex"] = semcount["mutex"] + 1
  PROVE  Mutex'
<1> USE DEF Holding, Owning, MutexWaits
<1>1. Count(state', MutexStates) = Count(state, MutexStates) - 1
  <2>1. \A u \in Threads : u # t => (state[u] \in MutexStates <=> state'[u] \in MutexStates)
    BY DEF Moves
  <2>2. Bit(state'[t], MutexStates) = 0 /\ Bit(state[t], MutexStates) = 1
    BY DEF Bit, MutexStates, Moves
  <2>3. Count(state', MutexStates) = Count(state, MutexStates) + Bit(state'[t], MutexStates) - Bit(state[t], MutexStates)
    BY <2>1, CountMove
  <2> QED BY <2>2, <2>3, CountType
<1>2. semcount'["mutex"] = 1 - Count(state', MutexStates)
  BY <1>1, CountType DEF Mutex
<1>3. \A u \in Threads : state'[u] \in Holding <=> state[u] \in Holding
  BY DEF Moves, MutexStates
<1>4. \A u \in Threads : state'[u] \in MutexWaits => state[u] \in MutexWaits
  BY DEF Moves, MutexStates
<1> QED BY <1>2, <1>3, <1>4 DEF Mutex

\* Who owns the mutex, and how often, stays.
LEMMA OwnerKept ==
  ASSUME Owner, \A u \in Threads : state'[u] \in Owning <=> state[u] \in Owning,
         UNCHANGED <<pid, nlocks, locks>>
  PROVE  Owner'
BY DEF Owner

\* pthread_givesemaphore for the mutex passes it on.
LEMMA GivePasses ==
  ASSUME Types, NEW t \in Threads, state[t] \notin MutexWaits, NEW x \in State,
         Give("mutex", [state EXCEPT ![t] = x])
  PROVE  /\ Passed(t, x)
         /\ semcount' \in [Sems -> Int]
         /\ semcount'["mutex"] = semcount["mutex"] + 1 /\ semcount'["cond"] = semcount["cond"]
<1>1. /\ semcount' \in [Sems -> Int]
      /\ semcount'["mutex"] = semcount["mutex"] + 1 /\ semcount'["cond"] = semcount["cond"]
  BY DEF Give, Types, Sems
<1> DEFINE st == [state EXCEPT ![t] = x]
<1>2. st \in [Threads -> State] /\ st[t] = x /\ \A u \in Threads : u # t => st[u] = state[u]
  BY DEF Types
<1>3. \/ Waiting("mutex") = {} /\ state' = st
      \/ \E w \in Waiting("mutex") : state' = [st EXCEPT ![w] = Given[state[w]]]
  BY DEF Give
<1> HIDE DEF st
<1>4. CASE Waiting("mutex") = {} /\ state' = st
  BY <1>1, <1>2, <1>4, WaitingSets DEF Passed
<1>5. ASSUME NEW w \in Waiting("mutex"), state' = [st EXCEPT ![w] = Given[state[w]]]
      PROVE  Passed(t, x)
  <2>1. w \in Threads /\ w # t /\ state[w] \in MutexWaits
    BY WaitingSets
  <2>2. \/ state[w] = "lockwait" /\ Given[state[w]] = "lockgot"
        \/ state[w] = "relockwait" /\ Given[state[w]] = "relockgot"
    BY <2>1, Records DEF MutexWaits
  <2>3. Given[state[w]] \in State
    BY <2>2 DEF State
  <2>4. /\ state' \in [Threads -> State] /\ state'[w] = Given[state[w]]
        /\ \A u \in Threads : u # w => state'[u] = st[u]
    BY <1>2, <1>5, <2>1, <2>3
  <2> QED BY <1>2, <2>1, <2>2, <2>4 DEF Passed
<1> QED BY <1>1, <1>3, <1>4, <1>5

-----------------------------------------------------------------------------
(* What steps do to the count of the condition.                            *)

\* Nobody takes or posts the semaphore of the condition.
LEMMA CondKept ==
  ASSUME CondCount, Posts, semcount'["cond"] = semcount["cond"],
         \A u \in Threads : state'[u] \in CondWaits <=> state[u] \in CondWaits,
         \A u \in Threads : state'[u] \in {"signal", "broadcast"} =>
           state'[u] = state[u] /\ sval'[u] = sval[u]
  PROVE  CondCount' /\ Posts'
<1>1. Count(state', CondWaits) = Count(state, CondWaits)
  BY CountKept
<1>2. CondCount'
  BY <1>1 DEF CondCount
<1>3. Permits' = Permits
  BY DEF Permits
<1>4. Limit' = Limit
  BY DEF Limit
<1> QED BY <1>2, <1>3, <1>4 DEF Posts

\* The count of the condition is positive only when nobody waits.
LEMMA CondSign ==
  ASSUME Types, CondCount
  PROVE  /\ semcount["cond"] \in Int /\ Count(state, CondWaits) \in Nat /\ Permits \in Nat
         /\ Count(state, CondWaits) > 0 <=> semcount["cond"] < 0
         /\ semcount["cond"] < 0 => semcount["cond"] = 0 - Count(state, CondWaits)
<1>1. semcount["cond"] \in Int /\ Count(state, CondWaits) \in Nat
  BY CountType DEF Types, Sems
<1> QED BY <1>1 DEF CondCount, Permits

\* How many wait for the condition when t moves alone.
LEMMA CondWaitsMove ==
  ASSUME NEW t \in Threads, \A u \in Threads : u # t => (state'[u] \in CondWaits <=> state[u] \in CondWaits)
  PROVE  Count(state', CondWaits) = Count(state, CondWaits) + Bit(state'[t], CondWaits) - Bit(state[t], CondWaits)
BY CountMove

\* t takes the semaphore of the condition, or waits for it.
LEMMA CondAsked ==
  ASSUME Types, CondCount, Posts, NEW t \in Threads,
         state[t] \notin CondWaits \union {"signal", "broadcast"},
         Take(t, "cond", "condgot", "condwait"), UNCHANGED sval
  PROVE  /\ CondCount' /\ Posts'
         /\ semcount' \in [Sems -> Int] /\ semcount'["mutex"] = semcount["mutex"]
         /\ IF semcount["cond"] > 0 THEN Moves(t, "condgot") ELSE Moves(t, "condwait")
<1>1. /\ semcount' \in [Sems -> Int] /\ semcount'["mutex"] = semcount["mutex"]
      /\ semcount'["cond"] = semcount["cond"] - 1
  BY DEF Take, Types, Sems
<1>2. IF semcount["cond"] > 0 THEN Moves(t, "condgot") ELSE Moves(t, "condwait")
  BY MoveFacts DEF Take, State
<1>3. /\ semcount["cond"] \in Int /\ Count(state, CondWaits) \in Nat /\ Permits \in Nat
      /\ Count(state, CondWaits) > 0 <=> semcount["cond"] < 0
      /\ semcount["cond"] < 0 => semcount["cond"] = 0 - Count(state, CondWaits)
  BY CondSign
<1>4. Count(state', CondWaits) = Count(state, CondWaits) + (IF semcount["cond"] > 0 THEN 0 ELSE 1)
  <2>1. \A u \in Threads : u # t => (state'[u] \in CondWaits <=> state[u] \in CondWaits)
    BY <1>2 DEF Moves
  <2>2. /\ Bit(state[t], CondWaits) = 0
        /\ Bit(state'[t], CondWaits) = IF semcount["cond"] > 0 THEN 0 ELSE 1
    BY <1>2 DEF Bit, CondWaits, Moves
  <2> QED BY <1>3, <2>1, <2>2, CondWaitsMove
<1>5. CondCount'
  BY <1>1, <1>3, <1>4 DEF CondCount
<1>6. Permits' <= Permits /\ Permits' \in Nat
  BY <1>1, <1>3 DEF Permits
<1>7. \A u \in Threads : state'[u] \in {"signal", "broadcast"} => state'[u] = state[u]
  BY <1>2 DEF Moves
<1>8. Posts'
  <2>1. \A u \in Threads : sval[u] \in Int
    BY DEF Types
  <2> QED BY <1>3, <1>6, <1>7, <2>1, LimitType DEF Posts, Limit
<1> QED BY <1>1, <1>2, <1>5, <1>8

\* A wait for the condition ends without a post.
LEMMA CondWaitEnds ==
  ASSUME Types, CondCount, Posts, NEW t \in Threads, state[t] \in CondWaits,
         NEW x, x \notin CondWaits \union {"signal", "broadcast"}, Moves(t, x),
         semcount'["cond"] = semcount["cond"] + 1, UNCHANGED sval
  PROVE  CondCount' /\ Posts'
<1>1. /\ semcount["cond"] \in Int /\ Count(state, CondWaits) \in Nat
      /\ Count(state, CondWaits) > 0 <=> semcount["cond"] < 0
      /\ semcount["cond"] < 0 => semcount["cond"] = 0 - Count(state, CondWaits)
  BY CondSign
<1>2. Count(state, CondWaits) > 0
  BY <1>1, CountType
<1>3. Count(state', CondWaits) = Count(state, CondWaits) - 1
  <2>1. \A u \in Threads : u # t => (state'[u] \in CondWaits <=> state[u] \in CondWaits)
    BY DEF Moves
  <2>2. Bit(state[t], CondWaits) = 1 /\ Bit(state'[t], CondWaits) = 0
    BY DEF Bit, Moves
  <2> QED BY <1>1, <2>1, <2>2, CondWaitsMove
<1>4. CondCount'
  BY <1>1, <1>2, <1>3 DEF CondCount
<1>5. Permits' = Permits
  BY <1>1, <1>2 DEF Permits
<1>6. \A u \in Threads : state'[u] \in {"signal", "broadcast"} => state'[u] = state[u]
  BY DEF Moves
<1> QED BY <1>4, <1>5, <1>6 DEF Posts, Limit

\* A post of the condition wakes one of those that wait, if there is any, when the states are st.
Wakes(st) ==
  \/ (\A u \in Threads : state[u] \notin CondWaits) /\ state' = st
  \/ \E w \in Threads :
       /\ state[w] \in CondWaits /\ state' \in [Threads -> State] /\ state'[w] = "condgot"
       /\ \A u \in Threads : u # w => state'[u] = st[u]

\* pthread_givesemaphore for the condition.
LEMMA CondGiven ==
  ASSUME Types, CondCount, NEW st \in [Threads -> State], Give("cond", st),
         \A u \in Threads : st[u] \in CondWaits <=> state[u] \in CondWaits
  PROVE  /\ CondCount'
         /\ Wakes(st) /\ state' \in [Threads -> State]
         /\ semcount' \in [Sems -> Int] /\ semcount'["mutex"] = semcount["mutex"]
         /\ IF semcount["cond"] < 0 THEN Permits = 0 /\ Permits' = 0
            ELSE Permits \in Nat /\ Permits' = Permits + 1
         /\ IF semcount["cond"] < 0 THEN Count(state', CondWaits) = Count(state, CondWaits) - 1
            ELSE Count(state, CondWaits) = 0 /\ Count(state', CondWaits) = 0
<1>1. /\ semcount' \in [Sems -> Int] /\ semcount'["mutex"] = semcount["mutex"]
      /\ semcount'["cond"] = semcount["cond"] + 1
  BY DEF Give, Types, Sems
<1>2. /\ semcount["cond"] \in Int /\ Count(state, CondWaits) \in Nat /\ Permits \in Nat
      /\ Count(state, CondWaits) > 0 <=> semcount["cond"] < 0
      /\ semcount["cond"] < 0 => semcount["cond"] = 0 - Count(state, CondWaits)
  BY CondSign
<1>3. IF semcount["cond"] < 0 THEN Permits = 0 /\ Permits' = 0
      ELSE Permits \in Nat /\ Permits' = Permits + 1
  BY <1>1, <1>2 DEF Permits
<1>4. CASE Waiting("cond") = {} /\ state' = st
  <2>1. \A u \in Threads : state[u] \notin CondWaits
    BY <1>4, WaitingSets
  <2>2. Count(state, CondWaits) = 0 /\ Count(state', CondWaits) = 0
    BY <1>4, <2>1, CountType
  <2> QED BY <1>1, <1>2, <1>3, <1>4, <2>1, <2>2 DEF CondCount, Wakes
<1>5. ASSUME NEW w \in Waiting("cond"), state' = [st EXCEPT ![w] = Given[state[w]]]
      PROVE  /\ CondCount' /\ Wakes(st) /\ state' \in [Threads -> State]
             /\ semcount["cond"] < 0 /\ Count(state', CondWaits) = Count(state, CondWaits) - 1
  <2>1. w \in Threads /\ state[w] \in CondWaits /\ Given[state[w]] = "condgot" /\ "condgot" \in State
    BY WaitingSets, Records DEF CondWaits, State
  <2>2. /\ state' \in [Threads -> State] /\ state'[w] = "condgot"
        /\ \A u \in Threads : u # w => state'[u] = st[u]
    BY <1>5, <2>1
  <2>3. Count(state', CondWaits) = Count(state, CondWaits) - 1
    <3>1. \A u \in Threads : u # w => (state'[u] \in CondWaits <=> state[u] \in CondWaits)
      BY <2>2
    <3>2. Bit(state[w], CondWaits) = 1 /\ Bit(state'[w], CondWaits) = 0
      BY <2>1, <2>2 DEF Bit, CondWaits
    <3> QED BY <1>2, <2>1, <3>1, <3>2, CondWaitsMove
  <2>4. Count(state, CondWaits) > 0
    BY <1>2, <2>1, CountType
  <2> QED BY <1>1, <1>2, <2>1, <2>2, <2>3, <2>4 DEF CondCount, Wakes
<1>6. \/ Waiting("cond") = {} /\ state' = st
      \/ \E w \in Waiting("cond") : state' = [st EXCEPT ![w] = Given[state[w]]]
  BY DEF Give
<1> QED BY <1>1, <1>3, <1>4, <1>5, <1>6

-----------------------------------------------------------------------------
(* Every action keeps MutexInv.                                            *)

\* Those who wait for the condition are consumers, so there are no more than Limit of them.
LEMMA WaitersBounded ==
  ASSUME Types, Roles
  PROVE  Count(state, CondWaits) <= Limit
<1>1. {u \in Threads : state[u] \in CondWaits} \subseteq Consumers
  BY DEF Roles, CondWaits, CondStates
<1>2. IsFiniteSet(Consumers)
  BY ConstantsAssumption, FS_Subset DEF ConstantsAssumption, Threads
<1> QED BY <1>1, <1>2, FS_Subset DEF Count, Limit

\* The threads that only t's move concerns keep their parts in the protocol.
LEMMA RolesKept ==
  ASSUME Roles, UNCHANGED locks,
         \A u \in Threads : state'[u] \in CondStates => state[u] \in CondStates,
         \A u \in Threads : state'[u] \in Posting => state[u] \in Posting
  PROVE  Roles'
BY DEF Roles

\* pthread_mutex_lock.
LEMMA LockKeeps ==
  ASSUME MutexInv, NEW t \in Threads, Lock(t)
  PROVE  MutexInv'
<1> USE DEF MutexInv
<1>1. state[t] = "idle" /\ Take(t, "mutex", "owns", "lockwait") /\ UNCHANGED <<ret, dog, sval, cpu, items>>
  BY DEF Lock
<1>2. "owns" \in Holding \intersect State /\ "lockwait" \in MutexWaits /\ state[t] \notin MutexStates
  BY <1>1 DEF Holding, Owning, State, MutexWaits, MutexStates
<1>3. /\ Mutex'
      /\ semcount' \in [Sems -> Int] /\ semcount'["cond"] = semcount["cond"]
      /\ semcount["mutex"] > 0 => Moves(t, "owns") /\ \A u \in Threads : state[u] \notin Holding
      /\ ~ (semcount["mutex"] > 0) => Moves(t, "lockwait")
  BY <1>1, <1>2, MutexAsked
<1>4. CondCount' /\ Posts'
  <2>1. Moves(t, "owns") \/ Moves(t, "lockwait")
    BY <1>3
  <2>2. /\ \A u \in Threads : state'[u] \in CondWaits <=> state[u] \in CondWaits
        /\ \A u \in Threads : state'[u] \in {"signal", "broadcast"} =>
             state'[u] = state[u] /\ sval'[u] = sval[u]
    BY <1>1, <2>1 DEF Moves, CondWaits
  <2> QED BY <1>3, <2>2, CondKept
<1>5. CASE semcount["mutex"] > 0
  <2>1. pid' = t /\ nlocks' = 1 /\ locks' = [locks EXCEPT ![t] = 1]
    BY <1>5 DEF Lock
  <2>2. Types'
    BY <1>1, <1>3, <1>5, <2>1, ConstantsAssumption DEF Types, Moves, ConstantsAssumption
  <2>3. locks'[t] = 1 /\ \A u \in Threads : u # t => locks'[u] = locks[u]
    BY <2>1 DEF Types
  <2>4. Owner'
    BY <1>3, <1>5, <2>1, <2>3 DEF Owner, Moves, Holding, Owning
  <2>5. Roles'
    BY <1>1, <1>3, <1>5, <2>3 DEF Roles, Moves, CondStates, Posting, Threads
  <2> QED BY <1>3, <1>4, <2>2, <2>4, <2>5
<1>6. CASE ~ (semcount["mutex"] > 0)
  <2>1. UNCHANGED <<pid, nlocks, locks>>
    BY <1>6 DEF Lock
  <2>2. Types'
    BY <1>1, <1>3, <1>6, <2>1 DEF Types, Moves
  <2>3. Owner'
    <3>1. \A u \in Threads : state'[u] \in Owning <=> state[u] \in Owning
      BY <1>1, <1>3, <1>6 DEF Moves, Owning
    <3> QED BY <2>1, <3>1, OwnerKept
  <2>4. Roles'
    BY <1>1, <1>3, <1>6, <2>1, RolesKept DEF Moves, CondStates, Posting
  <2> QED BY <1>3, <1>4, <2>2, <2>3, <2>4
<1> QED BY <1>5, <1>6

\* The return of pthread_mutex_lock after a wait.
LEMMA LockReturnsKeeps ==
  ASSUME MutexInv, NEW t \in Threads, LockReturns(t)
  PROVE  MutexInv'
<1> USE DEF MutexInv
<1>1. state[t] \in {"lockgot", "lockintr"} /\ UNCHANGED <<semcount, ret, dog, sval, cpu, items>>
  BY DEF LockReturns
<1>2. CASE state[t] = "lockgot"
  <2>1. pid' = t /\ nlocks' = 1 /\ locks' = [locks EXCEPT ![t] = 1] /\ state' = [state EXCEPT ![t] = "owns"]
    BY <1>2 DEF LockReturns
  <2>2. Moves(t, "owns")
    BY <2>1, MoveFacts DEF State
  <2>3. Types'
    BY <1>1, <2>1, <2>2, ConstantsAssumption DEF Types, Moves, ConstantsAssumption
  <2>4. locks'[t] = 1 /\ \A u \in Threads : u # t => locks'[u] = locks[u]
    BY <2>1 DEF Types
  <2>5. \A u \in Threads : u # t => state[u] \notin Holding
    BY <1>2 DEF Mutex, Holding
  <2>6. Owner'
    BY <2>1, <2>2, <2>4, <2>5 DEF Owner, Moves, Holding, Owning
  <2>7. Roles'
    BY <2>2, <2>4 DEF Roles, Moves, CondStates, Posting, Threads
  <2>8. Mutex'
    BY <1>1, <1>2, <2>2, MutexKept DEF Moves, Holding, Owning, MutexWaits
  <2>9. CondCount' /\ Posts'
    BY <1>1, <1>2, <2>2, CondKept DEF Moves, CondWaits
  <2> QED BY <2>3, <2>6, <2>7, <2>8, <2>9
<1>3. CASE state[t] = "lockintr"
  <2>1. UNCHANGED <<pid, nlocks, locks>> /\ state' = [state EXCEPT ![t] = "idle"]
    BY <1>3 DEF LockReturns
  <2>2. Moves(t, "idle")
    BY <2>1, MoveFacts DEF State
  <2>3. Types'
    BY <1>1, <2>1, <2>2 DEF Types, Moves
  <2>4. Owner'
    BY <1>3, <2>1, <2>2, OwnerKept DEF Moves, Owning
  <2>5. Roles'
    BY <2>1, <2>2, RolesKept DEF Moves, CondStates, Posting
  <2>6. Mutex'
    BY <1>1, <1>3, <2>2, MutexKept DEF Moves, Holding, Owning, MutexWaits
  <2>7. CondCount' /\ Posts'
    BY <1>1, <1>3, <2>2, CondKept DEF Moves, CondWaits
  <2> QED BY <2>3, <2>4, <2>5, <2>6, <2>7
<1> QED BY <1>1, <1>2, <1>3

\* A lock by the owner of a recursive mutex.
LEMMA RelockKeeps ==
  ASSUME Usage, MutexInv, NEW t \in Threads, Relock(t)
  PROVE  MutexInv'
<1> USE DEF MutexInv
<1>1. /\ UNCHANGED <<semcount, pid, state, ret, dog, sval, cpu, items>>
      /\ state[t] = "owns" /\ t \in Relockers /\ type = "recursive" /\ locks[t] < MaxLocks
      /\ nlocks' = nlocks + 1 /\ locks' = [locks EXCEPT ![t] = @ + 1]
  BY DEF Relock
<1>2. /\ locks'[t] = locks[t] + 1 /\ locks[t] \in Nat /\ nlocks \in Nat
      /\ \A u \in Threads : u # t => locks'[u] = locks[u]
  BY <1>1 DEF Types
<1>3. Types'
  BY <1>1, <1>2, ConstantsAssumption DEF Types, ConstantsAssumption
<1>4. Mutex'
  BY <1>1, MutexKept
<1>5. \A u \in Threads : u # t => state[u] \notin Owning
  BY <1>1 DEF Mutex, Holding, Owning
<1>6. Owner'
  <2>1. locks[t] >= 1 /\ pid = t /\ nlocks = locks[t]
    BY <1>1 DEF Owner, Owning, Usage
  <2>2. nlocks' = locks'[t] /\ locks'[t] >= 1
    BY <1>1, <1>2, <2>1
  <2>3. state' = state /\ pid' = t /\ state[t] \in Owning /\ type = "recursive"
    BY <1>1, <2>1 DEF Owning
  <2>4. nlocks' \in Nat /\ \A u \in Threads : locks'[u] \in Nat
    BY <1>3 DEF Types
  <2> QED BY <1>5, <2>2, <2>3, <2>4 DEF Owner
<1>7. Roles'
  BY <1>1, <1>2 DEF Roles, CondStates, Usage, Threads
<1>8. CondCount' /\ Posts'
  BY <1>1, CondKept
<1> QED BY <1>3, <1>4, <1>6, <1>7, <1>8

\* The owner of the mutex is alone, and the count of the semaphore is not positive.
LEMMA OwnerAlone ==
  ASSUME MutexInv, NEW t \in Threads, state[t] \in Owning
  PROVE  /\ \A u \in Threads : u # t => state[u] \notin Holding
         /\ semcount["mutex"] \in Int /\ semcount["mutex"] <= 0
         /\ pid = t /\ locks[t] \in Nat /\ nlocks \in Nat /\ locks[t] >= 1
         /\ locks[t] > 1 <=> (type = "recursive" /\ nlocks > 1)
         /\ t \in Consumers => locks[t] = 1 /\ nlocks <= 1
<1> USE DEF MutexInv
<1>1. \A u \in Threads : u # t => state[u] \notin Holding
  BY DEF Mutex, Holding
<1>2. state[t] \in MutexStates
  BY DEF MutexStates, Holding
<1>3. semcount["mutex"] \in Int /\ locks[t] \in Nat /\ nlocks \in Nat
  BY DEF Types, Sems
<1>4. semcount["mutex"] <= 0
  <2>1. Count(state, MutexStates) \in Nat /\ Count(state, MutexStates) # 0
    BY <1>2, CountType
  <2> QED BY <1>3, <2>1 DEF Mutex
<1>5. t \in Consumers => locks[t] <= 1
  BY DEF Roles
<1>6. /\ pid = t /\ locks[t] >= 1 /\ (locks[t] > 1 => type = "recursive")
      /\ nlocks = locks[t] \/ (t \in Consumers /\ nlocks <= 1)
  BY DEF Owner
<1> QED BY <1>1, <1>3, <1>4, <1>5, <1>6

\* When the only owner leaves, nobody owns the mutex.
LEMMA OwnerLeaves ==
  ASSUME MutexInv, NEW t \in Threads, state[t] \in Owning, NEW x, x \notin MutexStates,
         Passed(t, x), semcount'["mutex"] = semcount["mutex"] + 1,
         pid' = NoThread, nlocks' <= 1
  PROVE  /\ Mutex' /\ Owner'
         /\ \A u \in Threads : u # t => \/ state'[u] = state[u]
                                        \/ state[u] = "lockwait" /\ state'[u] = "lockgot"
                                        \/ state[u] = "relockwait" /\ state'[u] = "relockgot"
<1>1. /\ Mutex'
      /\ \A u \in Threads : u # t => /\ state[u] \notin Holding
                                     /\ \/ state'[u] = state[u]
                                        \/ state[u] = "lockwait" /\ state'[u] = "lockgot"
                                        \/ state[u] = "relockwait" /\ state'[u] = "relockgot"
  BY MutexPassed DEF MutexInv, Holding
<1>2. \A u \in Threads : state'[u] \notin Owning
  BY <1>1 DEF Passed, Owning, Holding, MutexStates
<1>3. Owner'
  BY <1>2 DEF Owner
<1> QED BY <1>1, <1>3

\* pthread_mutex_unlock.
LEMMA UnlockKeeps ==
  ASSUME MutexInv, NEW t \in Threads, Unlock(t)
  PROVE  MutexInv'
<1> DEFINE refused == semcount["mutex"] >= 1 \/ (type # "normal" /\ pid # t)
           inner == type = "recursive" /\ nlocks > 1
           x == IF locks[t] > 1 THEN "done" ELSE "idle"
<1>1. /\ state[t] \in {"owns", "done"} /\ locks' = [locks EXCEPT ![t] = @ - 1]
      /\ ret' = ret \ {t} /\ UNCHANGED <<dog, sval, cpu, items>>
  BY DEF Unlock
<1>2. /\ \A u \in Threads : u # t => state[u] \notin Holding
      /\ semcount["mutex"] \in Int /\ semcount["mutex"] <= 0
      /\ pid = t /\ locks[t] \in Nat /\ nlocks \in Nat /\ locks[t] >= 1
      /\ locks[t] > 1 <=> (type = "recursive" /\ nlocks > 1)
      /\ t \in Consumers => locks[t] = 1 /\ nlocks <= 1
  BY <1>1, OwnerAlone DEF Owning
<1>3. ~ refused
  BY <1>2
<1>4. locks' \in [Threads -> 0 .. MaxLocks] /\ locks'[t] = locks[t] - 1 /\ \A u \in Threads : u # t => locks'[u] = locks[u]
  BY <1>1, <1>2, ConstantsAssumption DEF MutexInv, Types, ConstantsAssumption
<1>5. CASE inner
  <2>1. nlocks' = nlocks - 1 /\ state' = [state EXCEPT ![t] = x] /\ UNCHANGED <<semcount, pid>>
    BY <1>3, <1>5 DEF Unlock
  <2>2. Moves(t, "done")
    BY <1>2, <1>5, <2>1, MoveFacts DEF State, MutexInv
  <2>3. Types'
    BY <1>1, <1>2, <1>4, <1>5, <2>1, <2>2 DEF MutexInv, Types, Moves
  <2>4. Mutex'
    BY <1>1, <2>1, <2>2, MutexKept DEF MutexInv, Moves, Holding, Owning, MutexWaits
  <2>5. Owner'
    <3>1. nlocks = locks[t] /\ type = "recursive"
      BY <1>1, <1>2, <1>5 DEF MutexInv, Owner, Owning
    <3>2. nlocks' = locks'[t] /\ locks'[t] >= 1 /\ pid' = t
      BY <1>2, <1>4, <1>5, <2>1, <3>1
    <3>3. \A u \in Threads : u # t => state'[u] \notin Owning
      BY <1>2, <2>2 DEF Moves, Holding
    <3>4. state'[t] \in Owning
      BY <2>2 DEF Moves, Owning
    <3> QED BY <3>1, <3>2, <3>3, <3>4 DEF Owner
  <2>6. Roles'
    <3>1. t \notin Consumers
      BY <1>2, <1>5
    <3> QED BY <1>4, <2>2, <3>1 DEF MutexInv, Roles, Moves, CondStates, Posting, Threads
  <2>7. CondCount' /\ Posts'
    BY <1>1, <2>1, <2>2, CondKept DEF MutexInv, Moves, CondWaits
  <2> QED BY <2>3, <2>4, <2>5, <2>6, <2>7 DEF MutexInv
<1>6. CASE ~ inner
  <2>1. nlocks' = 0 /\ pid' = NoThread /\ Give("mutex", [state EXCEPT ![t] = x])
    BY <1>3, <1>6 DEF Unlock
  <2>2. x = "idle" /\ locks[t] = 1
    BY <1>2, <1>6
  <2>3. /\ Passed(t, "idle")
        /\ semcount' \in [Sems -> Int]
        /\ semcount'["mutex"] = semcount["mutex"] + 1 /\ semcount'["cond"] = semcount["cond"]
    BY <1>1, <2>1, <2>2, GivePasses DEF MutexInv, State, MutexWaits
  <2>4. /\ Mutex' /\ Owner'
        /\ \A u \in Threads : u # t => \/ state'[u] = state[u]
                                       \/ state[u] = "lockwait" /\ state'[u] = "lockgot"
                                       \/ state[u] = "relockwait" /\ state'[u] = "relockgot"
    BY <1>1, <2>1, <2>3, OwnerLeaves DEF Owning, MutexStates, Holding, MutexWaits
  <2>5. Types'
    BY <1>1, <1>4, <2>1, <2>3 DEF MutexInv, Types, Passed
  <2>6. state'[t] = "idle"
    BY <2>3 DEF Passed
  <2>7. Roles'
    BY <1>2, <1>4, <2>2, <2>4, <2>6 DEF MutexInv, Roles, CondStates, Posting, Threads
  <2>8. CondCount' /\ Posts'
    BY <1>1, <2>3, <2>4, <2>6, CondKept DEF MutexInv, CondWaits
  <2> QED BY <2>4, <2>5, <2>7, <2>8 DEF MutexInv
<1> QED BY <1>5, <1>6

\* pthread_cond_wait gives up the mutex.
LEMMA CondWaitKeeps ==
  ASSUME MutexInv, NEW t \in Threads, CondWait(t)
  PROVE  MutexInv'
<1>1. /\ t \in Consumers /\ state[t] = "owns" /\ pid' = NoThread /\ cpu' = t
      /\ Give("mutex", [state EXCEPT ![t] = "take"])
      /\ UNCHANGED <<nlocks, ret, dog, sval, items, locks>>
  BY DEF CondWait
<1>2. locks[t] = 1 /\ nlocks <= 1
  BY <1>1, OwnerAlone DEF Owning
<1>3. /\ Passed(t, "take")
      /\ semcount' \in [Sems -> Int]
      /\ semcount'["mutex"] = semcount["mutex"] + 1 /\ semcount'["cond"] = semcount["cond"]
  BY <1>1, GivePasses DEF MutexInv, State, MutexWaits
<1>4. /\ Mutex' /\ Owner'
      /\ \A u \in Threads : u # t => \/ state'[u] = state[u]
                                     \/ state[u] = "lockwait" /\ state'[u] = "lockgot"
                                     \/ state[u] = "relockwait" /\ state'[u] = "relockgot"
  BY <1>1, <1>2, <1>3, OwnerLeaves DEF Owning, MutexStates, Holding, MutexWaits
<1>5. Types'
  BY <1>1, <1>3 DEF MutexInv, Types, Passed
<1>6. state'[t] = "take"
  BY <1>3 DEF Passed
<1>7. Roles'
  BY <1>1, <1>2, <1>4, <1>6 DEF MutexInv, Roles, CondStates, Posting
<1>8. CondCount' /\ Posts'
  BY <1>1, <1>3, <1>4, <1>6, CondKept DEF MutexInv, CondWaits
<1> QED BY <1>4, <1>5, <1>7, <1>8 DEF MutexInv

\* A thread that awaits the condition takes its semaphore.
LEMMA CondAskedKeeps ==
  ASSUME MutexInv, NEW t \in Threads, state[t] \in {"take", "condintr"},
         Take(t, "cond", "condgot", "condwait"), cpu' \in Threads \union {NoThread},
         UNCHANGED <<pid, nlocks, ret, dog, sval, items, locks>>
  PROVE  MutexInv'
<1>1. /\ CondCount' /\ Posts'
      /\ semcount' \in [Sems -> Int] /\ semcount'["mutex"] = semcount["mutex"]
      /\ IF semcount["cond"] > 0 THEN Moves(t, "condgot") ELSE Moves(t, "condwait")
  BY CondAsked DEF MutexInv, CondWaits
<1>2. /\ state' \in [Threads -> State] /\ state'[t] \in {"condgot", "condwait"}
      /\ \A u \in Threads : u # t => state'[u] = state[u]
  BY <1>1 DEF Moves
<1>3. Types'
  BY <1>1, <1>2 DEF MutexInv, Types
<1>4. Mutex'
  BY <1>1, <1>2, MutexKept DEF MutexInv, Holding, Owning, MutexWaits
<1>5. Owner'
  BY <1>2, OwnerKept DEF MutexInv, Owning
<1>6. Roles'
  BY <1>2, RolesKept DEF MutexInv, CondStates, Posting
<1> QED BY <1>1, <1>3, <1>4, <1>5, <1>6 DEF MutexInv

\* pthread_cond_wait takes the semaphore.
LEMMA CondTakeKeeps ==
  ASSUME MutexInv, NEW t \in Threads, CondTake(t)
  PROVE  MutexInv'
BY CondAskedKeeps DEF CondTake

\* pthread_cond_timedwait: the mutex is passed on and the condition asked for in one step.
LEMMA TimedPasses ==
  ASSUME MutexInv, NEW t \in Threads, CondTimedWait(t)
  PROVE  /\ Passed(t, IF semcount["cond"] > 0 THEN "condgot" ELSE "condwait")
         /\ semcount' \in [Sems -> Int]
         /\ semcount'["mutex"] = semcount["mutex"] + 1 /\ semcount'["cond"] = semcount["cond"] - 1
<1> DEFINE r == [semcount EXCEPT !["mutex"] = @ + 1]
           x == IF semcount["cond"] > 0 THEN "condgot" ELSE "condwait"
<1>1. /\ r \in [Sems -> Int] /\ r["mutex"] = semcount["mutex"] + 1 /\ r["cond"] = semcount["cond"]
  BY DEF MutexInv, Types, Sems
<1>2. semcount' = [r EXCEPT !["cond"] = @ - 1]
  BY DEF CondTimedWait
<1> HIDE DEF r
<1>3. /\ semcount' \in [Sems -> Int]
      /\ semcount'["mutex"] = semcount["mutex"] + 1 /\ semcount'["cond"] = semcount["cond"] - 1
  BY <1>1, <1>2 DEF Sems
<1>4. x \in State
  BY DEF State
<1> HIDE DEF x
<1>5. PICK w \in IF Waiting("mutex") = {} THEN {t} ELSE Waiting("mutex") :
        state' = [u \in Threads |-> IF u = t THEN x ELSE IF u = w THEN Given[state[u]] ELSE state[u]]
  BY DEF CondTimedWait, x
<1>6. state[t] = "owns" /\ state \in [Threads -> State]
  BY DEF CondTimedWait, MutexInv, Types
<1>7. CASE Waiting("mutex") = {}
  <2>1. w = t
    BY <1>5, <1>7
  <2>2. state'[t] = x /\ \A u \in Threads : u # t => state'[u] = state[u]
    BY <1>5, <2>1
  <2>3. state' \in [Threads -> State]
    BY <1>4, <1>5, <1>6, <2>1
  <2> QED BY <1>3, <1>7, <2>2, <2>3, WaitingSets DEF Passed, x
<1>8. CASE Waiting("mutex") # {}
  <2>1. w \in Threads /\ state[w] \in MutexWaits
    BY <1>5, <1>8, WaitingSets
  <2>2. w # t
    BY <1>6, <2>1 DEF MutexWaits
  <2>3. \/ state[w] = "lockwait" /\ Given[state[w]] = "lockgot"
        \/ state[w] = "relockwait" /\ Given[state[w]] = "relockgot"
    BY <2>1, Records DEF MutexWaits
  <2>4. Given[state[w]] \in State
    BY <2>3 DEF State
  <2>5. /\ state'[t] = x /\ state'[w] = Given[state[w]]
        /\ \A u \in Threads : u \notin {t, w} => state'[u] = state[u]
    BY <1>5, <2>1, <2>2
  <2>6. state' \in [Threads -> State]
    BY <1>4, <1>5, <1>6, <2>1, <2>4
  <2> QED BY <1>3, <2>1, <2>2, <2>3, <2>5, <2>6 DEF Passed, x
<1> QED BY <1>7, <1>8

\* pthread_cond_timedwait.
LEMMA CondTimedWaitKeeps ==
  ASSUME MutexInv, NEW t \in Threads, CondTimedWait(t)
  PROVE  MutexInv'
<1> DEFINE x == IF semcount["cond"] > 0 THEN "condgot" ELSE "condwait"
<1>1. /\ t \in Timed /\ state[t] = "owns" /\ pid' = NoThread
      /\ dog' = dog \union {t} /\ ret' = ret \ {t}
      /\ UNCHANGED <<nlocks, sval, cpu, items, locks>>
  BY DEF CondTimedWait
<1>2. t \in Consumers
  BY <1>1, ConstantsAssumption DEF ConstantsAssumption
<1>3. locks[t] = 1 /\ nlocks <= 1
  BY <1>1, <1>2, OwnerAlone DEF Owning
<1>4. /\ Passed(t, x)
      /\ semcount' \in [Sems -> Int]
      /\ semcount'["mutex"] = semcount["mutex"] + 1 /\ semcount'["cond"] = semcount["cond"] - 1
  BY TimedPasses
<1>5. /\ Mutex' /\ Owner'
      /\ \A u \in Threads : u # t => \/ state'[u] = state[u]
                                     \/ state[u] = "lockwait" /\ state'[u] = "lockgot"
                                     \/ state[u] = "relockwait" /\ state'[u] = "relockgot"
  <2>1. x \notin MutexStates
    BY DEF MutexStates, Holding, MutexWaits, Owning
  <2> QED BY <1>1, <1>3, <1>4, <2>1, OwnerLeaves DEF Owning
<1>6. Types'
  BY <1>1, <1>4 DEF MutexInv, Types, Passed
<1>7. state'[t] = x
  BY <1>4 DEF Passed
<1>8. Roles'
  BY <1>1, <1>2, <1>3, <1>5, <1>7 DEF MutexInv, Roles, CondStates, Posting
<1>9. CondCount' /\ Posts'
  <2>1. /\ semcount["cond"] \in Int /\ Count(state, CondWaits) \in Nat /\ Permits \in Nat
        /\ Count(state, CondWaits) > 0 <=> semcount["cond"] < 0
        /\ semcount["cond"] < 0 => semcount["cond"] = 0 - Count(state, CondWaits)
    BY CondSign DEF MutexInv
  <2>2. Count(state', CondWaits) = Count(state, CondWaits) + (IF semcount["cond"] > 0 THEN 0 ELSE 1)
    <3>1. \A u \in Threads : u # t => (state'[u] \in CondWaits <=> state[u] \in CondWaits)
      BY <1>5 DEF CondWaits
    <3>2. /\ Bit(state[t], CondWaits) = 0
          /\ Bit(state'[t], CondWaits) = IF semcount["cond"] > 0 THEN 0 ELSE 1
      BY <1>1, <1>7 DEF Bit, CondWaits
    <3> QED BY <2>1, <3>1, <3>2, CondWaitsMove
  <2>3. CondCount'
    BY <1>4, <2>1, <2>2 DEF MutexInv, CondCount
  <2>4. Permits' <= Permits /\ Permits' \in Nat
    BY <1>4, <2>1 DEF Permits
  <2>5. \A u \in Threads : state'[u] \in {"signal", "broadcast"} => state'[u] = state[u]
    BY <1>5, <1>7
  <2>6. \A u \in Threads : sval[u] \in Int
    BY DEF MutexInv, Types
  <2>7. Posts'
    BY <1>1, <2>1, <2>4, <2>5, <2>6, LimitType DEF MutexInv, Posts, Limit
  <2> QED BY <2>3, <2>7
<1> QED BY <1>5, <1>6, <1>8, <1>9 DEF MutexInv

\* The end of a wait for the condition.
LEMMA CondResumesKeeps ==
  ASSUME MutexInv, NEW t \in Threads, CondResumes(t)
  PROVE  MutexInv'
<1>1. UNCHANGED <<pid, nlocks, dog, sval, cpu, items, locks>>
  BY DEF CondResumes
<1>2. CASE /\ state[t] \in {"condgot", "condintr"} /\ state' = [state EXCEPT ![t] = "relock"]
           /\ UNCHANGED semcount /\ (ret' = ret \/ (t \in Timed /\ ret' = ret \union {t}))
  <2>1. Moves(t, "relock")
    BY <1>2, MoveFacts DEF MutexInv, State
  <2>2. Types'
    BY <1>1, <1>2, <2>1 DEF MutexInv, Types, Moves
  <2>3. Mutex'
    BY <1>2, <2>1, MutexKept DEF MutexInv, Moves, Holding, Owning, MutexWaits
  <2>4. Owner'
    BY <1>1, <1>2, <2>1, OwnerKept DEF MutexInv, Moves, Owning
  <2>5. Roles'
    BY <1>1, <1>2, <2>1, RolesKept DEF MutexInv, Moves, CondStates, Posting
  <2>6. CondCount' /\ Posts'
    BY <1>1, <1>2, <2>1, CondKept DEF MutexInv, Moves, CondWaits
  <2> QED BY <2>2, <2>3, <2>4, <2>5, <2>6 DEF MutexInv
<1>3. CASE state[t] = "condintr" /\ Take(t, "cond", "condgot", "condwait") /\ UNCHANGED ret
  <2>1. cpu' \in Threads \union {NoThread}
    BY <1>1 DEF MutexInv, Types
  <2> QED BY <1>1, <1>3, <2>1, CondAskedKeeps
<1> QED BY <1>2, <1>3 DEF CondResumes

\* A consumer asks for the mutex again.
LEMMA ReacquireKeeps ==
  ASSUME MutexInv, NEW t \in Threads, Reacquire(t)
  PROVE  MutexInv'
<1>1. /\ state[t] = "relock" /\ Take(t, "mutex", "owns", "relockwait")
      /\ UNCHANGED <<nlocks, ret, sval, cpu, items, locks>>
  BY DEF Reacquire
<1>2. "owns" \in Holding \intersect State /\ "relockwait" \in MutexWaits /\ state[t] \notin MutexStates
  BY <1>1 DEF Holding, Owning, State, MutexWaits, MutexStates
<1>3. /\ Mutex'
      /\ semcount' \in [Sems -> Int] /\ semcount'["cond"] = semcount["cond"]
      /\ semcount["mutex"] > 0 => Moves(t, "owns") /\ \A u \in Threads : state[u] \notin Holding
      /\ ~ (semcount["mutex"] > 0) => Moves(t, "relockwait")
  BY <1>1, <1>2, MutexAsked DEF MutexInv
<1>4. t \in Consumers /\ locks[t] = 1
  BY <1>1 DEF MutexInv, Roles, CondStates
<1>5. /\ state' \in [Threads -> State] /\ state'[t] \in {"owns", "relockwait"}
      /\ \A u \in Threads : u # t => state'[u] = state[u]
  BY <1>3 DEF Moves
<1>6. CondCount' /\ Posts'
  <2>1. /\ \A u \in Threads : state'[u] \in CondWaits <=> state[u] \in CondWaits
        /\ \A u \in Threads : state'[u] \in {"signal", "broadcast"} =>
             state'[u] = state[u] /\ sval'[u] = sval[u]
    BY <1>1, <1>5 DEF CondWaits
  <2> QED BY <1>3, <2>1, CondKept DEF MutexInv
<1>7. Roles'
  BY <1>1, <1>5, RolesKept DEF MutexInv, CondStates, Posting
<1>8. Types'
  <2>1. pid' \in Threads \union {NoThread} /\ dog' \subseteq Timed
    BY DEF Reacquire, MutexInv, Types
  <2> QED BY <1>1, <1>3, <1>5, <2>1 DEF MutexInv, Types
<1>9. Owner'
  <2>1. CASE semcount["mutex"] > 0
    <3>1. pid' = t
      BY <2>1 DEF Reacquire
    <3>2. nlocks <= 1
      BY <1>3, <2>1 DEF MutexInv, Owner, Holding
    <3>3. \A u \in Threads : u # t => state'[u] \notin Owning
      BY <1>3, <1>5, <2>1 DEF Holding
    <3>4. state'[t] \in Owning
      BY <1>3, <2>1 DEF Moves, Owning
    <3> QED BY <1>1, <1>4, <3>1, <3>2, <3>3, <3>4 DEF Owner
  <2>2. CASE ~ (semcount["mutex"] > 0)
    BY <1>1, <1>3, <2>2, OwnerKept DEF Reacquire, MutexInv, Moves, Owning
  <2> QED BY <2>1, <2>2
<1> QED BY <1>3, <1>6, <1>7, <1>8, <1>9 DEF MutexInv

\* A consumer has the mutex again.
LEMMA ReacquiredKeeps ==
  ASSUME MutexInv, NEW t \in Threads, Reacquired(t)
  PROVE  MutexInv'
<1>1. /\ state[t] = "relockgot" /\ pid' = t /\ dog' = dog \ {t} /\ state' = [state EXCEPT ![t] = "owns"]
      /\ UNCHANGED <<semcount, nlocks, ret, sval, cpu, items, locks>>
  BY DEF Reacquired
<1>2. Moves(t, "owns")
  BY <1>1, MoveFacts DEF MutexInv, State
<1>3. Types'
  BY <1>1, <1>2 DEF MutexInv, Types, Moves
<1>4. Mutex'
  BY <1>1, <1>2, MutexKept DEF MutexInv, Moves, Holding, Owning, MutexWaits
<1>5. Owner'
  <2>1. \A u \in Threads : u # t => state[u] \notin Holding
    BY <1>1 DEF MutexInv, Mutex, Holding
  <2>2. \A u \in Threads : state[u] \notin Owning
    BY <1>1, <2>1 DEF Holding, Owning
  <2>3. nlocks <= 1
    BY <2>2 DEF MutexInv, Owner
  <2>4. t \in Consumers /\ locks[t] = 1
    BY <1>1 DEF MutexInv, Roles, CondStates
  <2>5. \A u \in Threads : u # t => state'[u] \notin Owning
    BY <1>2, <2>2 DEF Moves
  <2>6. state'[t] \in Owning
    BY <1>2 DEF Moves, Owning
  <2> QED BY <1>1, <2>3, <2>4, <2>5, <2>6 DEF Owner
<1>6. Roles'
  BY <1>1, <1>2, RolesKept DEF MutexInv, Moves, CondStates, Posting
<1>7. CondCount' /\ Posts'
  BY <1>1, <1>2, CondKept DEF MutexInv, Moves, CondWaits
<1> QED BY <1>3, <1>4, <1>5, <1>6, <1>7 DEF MutexInv

\* The owner goes on and keeps the mutex.
LEMMA OwnerMoves ==
  ASSUME MutexInv, NEW t \in Threads, state[t] \in Owning, NEW x \in Owning, Moves(t, x),
         x \in Posting => t \in Producers,
         semcount'["mutex"] = semcount["mutex"], UNCHANGED <<pid, nlocks, locks>>
  PROVE  Mutex' /\ Owner' /\ Roles'
<1>1. Mutex'
  BY MutexKept DEF MutexInv, Moves, Holding, Owning, MutexWaits
<1>2. Owner'
  BY OwnerKept DEF MutexInv, Moves
<1>3. Roles'
  BY DEF MutexInv, Roles, Moves, Owning, CondStates
<1> QED BY <1>1, <1>2, <1>3

\* Producers signal or broadcast with the mutex: only one of them at a time.
LEMMA OnePoster ==
  ASSUME MutexInv, NEW t \in Threads, state[t] \in Owning
  PROVE  \A u \in Threads : u # t => state[u] \notin Owning /\ state[u] \notin {"signal", "broadcast"}
BY OwnerAlone DEF Holding, Owning

\* pthread_cond_signal or pthread_cond_broadcast reads the count.
LEMMA CountReadKeeps ==
  ASSUME MutexInv, NEW t \in Threads, state[t] = "produced", NEW x \in {"signal", "broadcast"},
         state' = [state EXCEPT ![t] = x], sval' = [sval EXCEPT ![t] = semcount["cond"]],
         cpu' \in Threads \union {NoThread},
         UNCHANGED <<semcount, pid, nlocks, ret, dog, items, locks>>
  PROVE  MutexInv'
<1>1. Moves(t, x)
  BY MoveFacts DEF MutexInv, State
<1>2. Mutex' /\ Owner' /\ Roles'
  BY <1>1, OwnerMoves DEF Owning, Posting, MutexInv, Roles
<1>3. semcount["cond"] \in Int
  BY DEF MutexInv, Types, Sems
<1>4. Types'
  BY <1>1, <1>3 DEF MutexInv, Types, Moves
<1>5. CondCount'
  <2>1. \A u \in Threads : state[u] \in CondWaits <=> state'[u] \in CondWaits
    BY <1>1 DEF Moves, CondWaits
  <2>2. Count(state', CondWaits) = Count(state, CondWaits)
    BY <2>1, CountKept
  <2> QED BY <2>2 DEF MutexInv, CondCount
<1>6. Posts'
  <2>1. \A u \in Threads : u # t => state'[u] \notin {"signal", "broadcast"}
    BY <1>1, OnePoster DEF Moves, Owning
  <2>2. sval'[t] = semcount["cond"]
    BY DEF MutexInv, Types
  <2>3. Count(state, CondWaits) <= Limit
    BY WaitersBounded DEF MutexInv
  <2>4. /\ semcount["cond"] \in Int /\ Count(state, CondWaits) \in Nat /\ Permits \in Nat
        /\ Count(state, CondWaits) > 0 <=> semcount["cond"] < 0
        /\ semcount["cond"] < 0 => semcount["cond"] = 0 - Count(state, CondWaits)
    BY CondSign DEF MutexInv
  <2>5. Permits' = Permits /\ Permits <= Limit
    BY DEF Permits, MutexInv, Posts
  <2>6. semcount["cond"] < 0 => Permits + 1 <= Limit
    BY <2>3, <2>4, LimitType DEF Permits
  <2>7. Permits - semcount["cond"] <= Limit
    BY <2>3, <2>4, LimitType DEF Permits
  <2>8. Limit' = Limit
    BY DEF Limit
  <2> QED BY <2>1, <2>2, <2>5, <2>6, <2>7, <2>8 DEF Posts
<1> QED BY <1>2, <1>4, <1>5, <1>6 DEF MutexInv

\* A post of the condition, by an owner of the mutex that goes on or by a handler.
LEMMA CondPosted ==
  ASSUME MutexInv, NEW st \in [Threads -> State], Give("cond", st),
         \A u \in Threads : st[u] = state[u] \/ (state[u] \in Owning /\ st[u] \in Owning \ Posting),
         UNCHANGED <<pid, nlocks, locks>>
  PROVE  /\ Mutex' /\ Owner' /\ Roles' /\ CondCount'
         /\ state' \in [Threads -> State]
         /\ \A u \in Threads : state'[u] = st[u] \/ (state[u] = "condwait" /\ state'[u] = "condgot")
         /\ semcount' \in [Sems -> Int]
<1>1. \A u \in Threads : st[u] \in CondWaits <=> state[u] \in CondWaits
  BY DEF CondWaits, Owning
<1>2. /\ CondCount'
      /\ Wakes(st) /\ state' \in [Threads -> State]
      /\ semcount' \in [Sems -> Int] /\ semcount'["mutex"] = semcount["mutex"]
  BY <1>1, CondGiven DEF MutexInv
<1>3. \A u \in Threads : state'[u] = st[u] \/ (state[u] = "condwait" /\ state'[u] = "condgot")
  BY <1>2 DEF Wakes, CondWaits
<1>4. Mutex'
  <2>1. \A u \in Threads : state'[u] \in Holding <=> state[u] \in Holding
    BY <1>3 DEF Holding, Owning
  <2>2. \A u \in Threads : state'[u] \in MutexWaits <=> state[u] \in MutexWaits
    BY <1>3 DEF MutexWaits, Owning
  <2> QED BY <1>2, <2>1, <2>2, MutexKept DEF MutexInv
<1>5. Owner'
  <2>1. \A u \in Threads : state'[u] \in Owning <=> state[u] \in Owning
    BY <1>3 DEF Owning
  <2> QED BY <2>1, OwnerKept DEF MutexInv
<1>6. Roles'
  <2>1. \A u \in Threads : state'[u] \in CondStates => state[u] \in CondStates
    BY <1>3 DEF CondStates, Owning
  <2>2. \A u \in Threads : state'[u] \in Posting => state[u] \in Posting
    BY <1>3 DEF Posting
  <2> QED BY <2>1, <2>2, RolesKept DEF MutexInv
<1> QED BY <1>2, <1>3, <1>4, <1>5, <1>6

\* What a post does to the permits.
LEMMA PermitsGiven ==
  ASSUME MutexInv, NEW st \in [Threads -> State], Give("cond", st),
         \A u \in Threads : st[u] = state[u] \/ (state[u] \in Owning /\ st[u] \in Owning \ Posting)
  PROVE  IF semcount["cond"] < 0 THEN Permits = 0 /\ Permits' = 0
         ELSE Permits \in Nat /\ Permits' = Permits + 1
<1>1. \A u \in Threads : st[u] \in CondWaits <=> state[u] \in CondWaits
  BY DEF CondWaits, Owning
<1> QED BY <1>1, CondGiven DEF MutexInv

\* pthread_cond_signal posts.
LEMMA SignalPostsKeeps ==
  ASSUME MutexInv, NEW t \in Threads, SignalPosts(t)
  PROVE  MutexInv'
<1> DEFINE st == [state EXCEPT ![t] = "done"]
<1>1. /\ state[t] = "signal" /\ sval' = [sval EXCEPT ![t] = 0]
      /\ UNCHANGED <<pid, nlocks, ret, dog, cpu, items, locks>>
      /\ IF sval[t] < 0 THEN Give("cond", st) ELSE state' = st /\ UNCHANGED semcount
  BY DEF SignalPosts
<1>2. st \in [Threads -> State] /\ st[t] = "done" /\ \A u \in Threads : u # t => st[u] = state[u]
  BY DEF MutexInv, Types, State
<1>3. sval' \in [Threads -> Int]
  BY <1>1 DEF MutexInv, Types
<1>4. \A u \in Threads : u # t => state[u] \notin {"signal", "broadcast"}
  BY <1>1, OnePoster DEF Owning
<1> HIDE DEF st
<1>5. \A u \in Threads : st[u] = state[u] \/ (state[u] \in Owning /\ st[u] \in Owning \ Posting)
  BY <1>1, <1>2 DEF Owning, Posting
<1>6. CASE sval[t] < 0
  <2>1. Give("cond", st)
    BY <1>1, <1>6
  <2>2. /\ Mutex' /\ Owner' /\ Roles' /\ CondCount'
        /\ state' \in [Threads -> State]
        /\ \A u \in Threads : state'[u] = st[u] \/ (state[u] = "condwait" /\ state'[u] = "condgot")
        /\ semcount' \in [Sems -> Int]
    BY <1>1, <1>2, <1>5, <2>1, CondPosted
  <2>3. Types'
    BY <1>1, <1>3, <2>2 DEF MutexInv, Types
  <2>4. IF semcount["cond"] < 0 THEN Permits = 0 /\ Permits' = 0
        ELSE Permits \in Nat /\ Permits' = Permits + 1
    BY <1>2, <1>5, <2>1, PermitsGiven
  <2>5. Permits' <= Limit
    BY <1>1, <1>6, <2>4, LimitType DEF MutexInv, Posts
  <2>6. \A u \in Threads : state'[u] \notin {"signal", "broadcast"}
    BY <1>2, <1>4, <2>2
  <2>7. Posts'
    BY <2>5, <2>6 DEF Posts, Limit
  <2> QED BY <2>2, <2>3, <2>7 DEF MutexInv
<1>7. CASE ~ (sval[t] < 0)
  <2>1. state' = st /\ UNCHANGED semcount
    BY <1>1, <1>7
  <2>2. Moves(t, "done")
    BY <1>2, <2>1 DEF Moves
  <2>3. Mutex' /\ Owner' /\ Roles'
    BY <1>1, <2>1, <2>2, OwnerMoves DEF Owning, Posting
  <2>4. Types'
    BY <1>1, <1>2, <1>3, <2>1 DEF MutexInv, Types
  <2>5. CondCount' /\ Posts'
    BY <1>1, <1>4, <2>1, <2>2, CondKept DEF MutexInv, Moves, CondWaits
  <2> QED BY <2>3, <2>4, <2>5 DEF MutexInv
<1> QED BY <1>6, <1>7

\* pthread_cond_broadcast posts, or is through.
LEMMA BroadcastPostsKeeps ==
  ASSUME MutexInv, NEW t \in Threads, BroadcastPosts(t)
  PROVE  MutexInv'
<1>1. /\ state[t] = "broadcast" /\ cpu = t
      /\ UNCHANGED <<pid, nlocks, ret, dog, items, locks>>
  BY DEF BroadcastPosts
<1>2. state \in [Threads -> State] /\ sval \in [Threads -> Int] /\ sval[t] \in Int
  BY DEF MutexInv, Types
<1>3. \A u \in Threads : u # t => state[u] \notin {"signal", "broadcast"}
  BY <1>1, OnePoster DEF Owning
<1>4. CASE sval[t] < 0
  <2>1. Give("cond", state) /\ sval' = [sval EXCEPT ![t] = @ + 1] /\ cpu' = cpu
    BY <1>4 DEF BroadcastPosts
  <2>2. /\ Mutex' /\ Owner' /\ Roles' /\ CondCount'
        /\ state' \in [Threads -> State]
        /\ \A u \in Threads : state'[u] = state[u] \/ (state[u] = "condwait" /\ state'[u] = "condgot")
        /\ semcount' \in [Sems -> Int]
    BY <1>1, <1>2, <2>1, CondPosted
  <2>3. Types'
    <3>1. sval' \in [Threads -> Int]
      BY <1>2, <2>1
    <3>2. UNCHANGED <<pid, nlocks, ret, dog, items, locks, cpu>>
      BY <1>1, <2>1
    <3> QED BY <2>2, <3>1, <3>2 DEF MutexInv, Types
  <2>4. IF semcount["cond"] < 0 THEN Permits = 0 /\ Permits' = 0
        ELSE Permits \in Nat /\ Permits' = Permits + 1
    BY <1>2, <2>1, PermitsGiven
  <2>5. sval'[t] = sval[t] + 1
    BY <1>2, <2>1
  <2>6. Permits - sval[t] <= Limit
    BY <1>1 DEF MutexInv, Posts
  <2>7. Permits' <= Limit /\ Permits' - sval'[t] <= Limit
    BY <1>2, <1>4, <2>4, <2>5, <2>6, LimitType
  <2>8. \A u \in Threads : u # t => state'[u] \notin {"signal", "broadcast"}
    BY <1>3, <2>2
  <2>9. state'[t] = "broadcast"
    BY <1>1, <2>2
  <2>10. Posts'
    BY <2>7, <2>8, <2>9 DEF Posts, Limit
  <2> QED BY <2>2, <2>3, <2>10 DEF MutexInv
<1>5. CASE ~ (sval[t] < 0)
  <2>1. /\ state' = [state EXCEPT ![t] = "done"] /\ sval' = [sval EXCEPT ![t] = 0]
        /\ cpu' = NoThread /\ UNCHANGED semcount
    BY <1>5 DEF BroadcastPosts
  <2>2. Moves(t, "done")
    BY <2>1, MoveFacts DEF MutexInv, State
  <2>3. Mutex' /\ Owner' /\ Roles'
    BY <1>1, <2>1, <2>2, OwnerMoves DEF Owning, Posting
  <2>4. Types'
    BY <1>1, <1>2, <2>1, <2>2 DEF MutexInv, Types, Moves
  <2>5. CondCount' /\ Posts'
    BY <1>1, <1>3, <2>1, <2>2, CondKept DEF MutexInv, Moves, CondWaits
  <2> QED BY <2>3, <2>4, <2>5 DEF MutexInv
<1> QED BY <1>4, <1>5

\* pthread_cond_signal in an interrupt handler.
LEMMA HandlerSignalsKeeps ==
  ASSUME MutexInv, HandlerSignals
  PROVE  MutexInv'
<1>1. /\ semcount["cond"] < 0 /\ Give("cond", state)
      /\ UNCHANGED <<pid, nlocks, ret, dog, sval, cpu, items, locks>>
  BY DEF HandlerSignals
<1>2. state \in [Threads -> State]
  BY DEF MutexInv, Types
<1>3. /\ Mutex' /\ Owner' /\ Roles' /\ CondCount'
      /\ state' \in [Threads -> State]
      /\ \A u \in Threads : state'[u] = state[u] \/ (state[u] = "condwait" /\ state'[u] = "condgot")
      /\ semcount' \in [Sems -> Int]
  BY <1>1, <1>2, CondPosted
<1>4. Types'
  BY <1>1, <1>3 DEF MutexInv, Types
<1>5. Permits = 0 /\ Permits' = 0
  BY <1>1, <1>2, PermitsGiven
<1>6. \A u \in Threads : state'[u] \in {"signal", "broadcast"} => state'[u] = state[u]
  BY <1>3
<1>7. Posts'
  BY <1>1, <1>5, <1>6 DEF MutexInv, Posts, Limit
<1> QED BY <1>3, <1>4, <1>7 DEF MutexInv

\* The consumer takes an item, or the producer puts one.
LEMMA ItemKeeps ==
  ASSUME MutexInv, NEW t \in Threads, state[t] = "owns", NEW x \in {"done", "produced"},
         x = "produced" => t \in Producers,
         state' = [state EXCEPT ![t] = x], items' \in 0 .. MaxItems,
         UNCHANGED <<semcount, pid, nlocks, ret, dog, sval, cpu, locks>>
  PROVE  MutexInv'
<1>1. Moves(t, x)
  BY MoveFacts DEF MutexInv, State
<1>2. Mutex' /\ Owner' /\ Roles'
  BY <1>1, OwnerMoves DEF Owning, Posting
<1>3. Types'
  BY <1>1 DEF MutexInv, Types, Moves
<1>4. CondCount' /\ Posts'
  BY <1>1, CondKept DEF MutexInv, Moves, CondWaits
<1> QED BY <1>2, <1>3, <1>4 DEF MutexInv

\* A signal, or the watchdog, ends a wait.
LEMMA WaitEndsKeeps ==
  ASSUME MutexInv, NEW t \in Threads, sem_waitirq(t), dog' \subseteq Timed,
         UNCHANGED <<pid, nlocks, ret, sval, cpu, items, locks>>
  PROVE  MutexInv'
<1>1. CASE state[t] \notin DOMAIN Ended
  <2>1. UNCHANGED <<semcount, state>>
    BY <1>1 DEF sem_waitirq
  <2>2. Types'
    BY <2>1 DEF MutexInv, Types
  <2>3. Mutex'
    BY <2>1, MutexKept DEF MutexInv
  <2>4. Owner' /\ Roles'
    BY <2>1, OwnerKept, RolesKept DEF MutexInv
  <2>5. CondCount' /\ Posts'
    BY <2>1, CondKept DEF MutexInv
  <2> QED BY <2>2, <2>3, <2>4, <2>5 DEF MutexInv
<1>2. CASE state[t] = "condwait"
  <2>1. /\ semcount' = [semcount EXCEPT !["cond"] = @ + 1]
        /\ state' = [state EXCEPT ![t] = "condintr"]
    BY <1>2, Records DEF sem_waitirq
  <2>2. /\ semcount' \in [Sems -> Int] /\ semcount'["cond"] = semcount["cond"] + 1
        /\ semcount'["mutex"] = semcount["mutex"]
    BY <2>1 DEF MutexInv, Types, Sems
  <2>3. Moves(t, "condintr")
    BY <2>1, MoveFacts DEF MutexInv, State
  <2>4. Types'
    BY <2>2, <2>3 DEF MutexInv, Types, Moves
  <2>5. Mutex'
    BY <1>2, <2>2, <2>3, MutexKept DEF MutexInv, Moves, Holding, Owning, MutexWaits
  <2>6. Owner'
    BY <1>2, <2>3, OwnerKept DEF MutexInv, Moves, Owning
  <2>7. Roles'
    BY <1>2, <2>3, RolesKept DEF MutexInv, Moves, CondStates, Posting
  <2>8. CondCount' /\ Posts'
    BY <1>2, <2>2, <2>3, CondWaitEnds DEF MutexInv, CondWaits
  <2> QED BY <2>4, <2>5, <2>6, <2>7, <2>8 DEF MutexInv
<1>3. ASSUME NEW x \in {"lockintr", "relock"}, state[t] \in MutexWaits,
             x = "relock" => state[t] = "relockwait",
             semcount' = [semcount EXCEPT !["mutex"] = @ + 1], state' = [state EXCEPT ![t] = x]
      PROVE  MutexInv'
  <2>1. /\ semcount' \in [Sems -> Int] /\ semcount'["cond"] = semcount["cond"]
        /\ semcount'["mutex"] = semcount["mutex"] + 1
    BY <1>3 DEF MutexInv, Types, Sems
  <2>2. Moves(t, x)
    BY <1>3, MoveFacts DEF MutexInv, State
  <2>3. Types'
    BY <2>1, <2>2 DEF MutexInv, Types, Moves
  <2>4. Mutex'
    BY <1>3, <2>1, <2>2, MutexWaitEnds DEF MutexInv, MutexStates, Holding, Owning, MutexWaits
  <2>5. Owner'
    BY <1>3, <2>2, OwnerKept DEF MutexInv, Moves, Owning, MutexWaits
  <2>6. Roles'
    BY <1>3, <2>2, RolesKept DEF MutexInv, Moves, CondStates, Posting
  <2>7. CondCount' /\ Posts'
    BY <1>3, <2>1, <2>2, CondKept DEF MutexInv, Moves, CondWaits, MutexWaits
  <2> QED BY <2>3, <2>4, <2>5, <2>6, <2>7 DEF MutexInv
<1>4. CASE state[t] = "lockwait"
  <2>1. /\ semcount' = [semcount EXCEPT !["mutex"] = @ + 1]
        /\ state' = [state EXCEPT ![t] = "lockintr"]
    BY <1>4, Records DEF sem_waitirq
  <2> QED BY <1>3, <1>4, <2>1 DEF MutexWaits
<1>5. CASE state[t] = "relockwait"
  <2>1. /\ semcount' = [semcount EXCEPT !["mutex"] = @ + 1]
        /\ state' = [state EXCEPT ![t] = "relock"]
    BY <1>5, Records DEF sem_waitirq
  <2> QED BY <1>3, <1>5, <2>1 DEF MutexWaits
<1> QED BY <1>1, <1>2, <1>4, <1>5, Records

\* Every step keeps the invariant.
LEMMA NextMutexInv ==
  ASSUME Usage, MutexInv, [Next]_vars
  PROVE  MutexInv'
<1>1. CASE UNCHANGED vars
  <2>1. UNCHANGED <<semcount, pid, nlocks, state, ret, dog, sval, cpu, items, locks>>
    BY <1>1 DEF vars
  <2>2. Types'
    BY <2>1 DEF MutexInv, Types
  <2>3. Mutex'
    BY <2>1, MutexKept DEF MutexInv
  <2>4. Owner' /\ Roles'
    BY <2>1, OwnerKept, RolesKept DEF MutexInv
  <2>5. CondCount' /\ Posts'
    BY <2>1, CondKept DEF MutexInv
  <2> QED BY <2>2, <2>3, <2>4, <2>5 DEF MutexInv
<1>2. ASSUME NEW t \in Threads, Signal(t)
      PROVE  MutexInv'
  <2>1. cpu' \in Threads \union {NoThread}
    BY <1>2 DEF Signal, MutexInv, Types
  <2> QED BY <1>2, <2>1, CountReadKeeps DEF Signal
<1>3. ASSUME NEW t \in Threads, Broadcast(t)
      PROVE  MutexInv'
  BY <1>3, CountReadKeeps DEF Broadcast
<1>4. ASSUME NEW t \in Threads, Consume(t)
      PROVE  MutexInv'
  <2>1. items' \in 0 .. MaxItems
    BY <1>4, ConstantsAssumption DEF Consume, MutexInv, Types, ConstantsAssumption
  <2> QED BY <1>4, <2>1, ItemKeeps DEF Consume
<1>5. ASSUME NEW t \in Threads, Produce(t)
      PROVE  MutexInv'
  <2>1. items' \in 0 .. MaxItems
    BY <1>5, ConstantsAssumption DEF Produce, MutexInv, Types, ConstantsAssumption
  <2> QED BY <1>5, <2>1, ItemKeeps DEF Produce
<1>6. ASSUME NEW t \in Threads, Timeout(t)
      PROVE  MutexInv'
  <2>1. dog' \subseteq Timed
    BY <1>6 DEF Timeout, MutexInv, Types
  <2> QED BY <1>6, <2>1, WaitEndsKeeps DEF Timeout
<1>7. ASSUME NEW t \in Threads, Interrupt(t)
      PROVE  MutexInv'
  <2>1. dog' \subseteq Timed
    BY <1>7 DEF Interrupt, MutexInv, Types
  <2> QED BY <1>7, <2>1, WaitEndsKeeps DEF Interrupt
<1>8. ASSUME NEW t \in Threads, Continues(t)
      PROVE  MutexInv'
  BY <1>8, <1>2, <1>3, <1>4, <1>5, LockReturnsKeeps, UnlockKeeps, CondWaitKeeps, CondTakeKeeps,
     CondTimedWaitKeeps, CondResumesKeeps, ReacquireKeeps, ReacquiredKeeps, SignalPostsKeeps,
     BroadcastPostsKeeps DEF Continues
<1> QED BY <1>1, <1>6, <1>7, <1>8, LockKeeps, RelockKeeps, HandlerSignalsKeeps DEF Next

-----------------------------------------------------------------------------
(* What MutexInv says of the mutex and the counts.                         *)

\* One thread at most has the mutex; it is free when none has it.
LEMMA MutexGivesOwner ==
  ASSUME MutexInv
  PROVE  OwnerExact
<1> DEFINE Way == {t \in Threads : OnTheWay(t)}
<1>1. /\ Owners = {t \in Threads : state[t] \in Owning}
      /\ Way = {t \in Threads : state[t] \in {"lockgot", "relockgot"}}
  BY DEF Owners, OnTheWay, Owning
<1>2. Cardinality({}) = 0 /\ \A t : Cardinality({t}) = 1
  BY FS_EmptySet, FS_Singleton
<1>3. semcount["mutex"] \in Int
  BY DEF MutexInv, Types, Sems
<1>4. CASE \A t \in Threads : state[t] \notin Holding
  <2>1. Owners = {} /\ Way = {}
    BY <1>1, <1>4 DEF Holding
  <2>2. Count(state, MutexStates) = 0
    BY <1>4, CountType DEF MutexInv, Mutex, MutexStates
  <2>3. semcount["mutex"] = 1
    BY <2>2 DEF MutexInv, Mutex
  <2>4. pid = NoThread
    BY <1>4 DEF MutexInv, Owner, Holding
  <2> HIDE DEF Way
  <2>5. Cardinality(Owners) = 0 /\ Cardinality(Way) = 0
    BY <1>2, <2>1
  <2>6. Cardinality(Owners) + Cardinality(Way) + (IF semcount["mutex"] = 1 THEN 1 ELSE 0) = 1
    BY <2>3, <2>5
  <2> QED BY <2>1, <2>4, <2>6 DEF OwnerExact, Way
<1>5. ASSUME NEW t \in Threads, state[t] \in Holding
      PROVE  OwnerExact
  <2>1. Count(state, MutexStates) \in Nat /\ Count(state, MutexStates) # 0
    BY <1>5, CountType DEF MutexStates
  <2>2. semcount["mutex"] # 1
    BY <1>3, <2>1 DEF MutexInv, Mutex
  <2>3. \A u \in Threads : state[u] \in Holding => u = t
    BY <1>5 DEF MutexInv, Mutex
  <2>4. CASE state[t] \in Owning
    <3>1. Owners = {t} /\ Way = {} /\ pid = t
      BY <1>1, <2>3, <2>4 DEF Holding, MutexInv, Owner, Owning
    <3> HIDE DEF Way
    <3>2. Cardinality(Owners) = 1 /\ Cardinality(Way) = 0
      BY <1>2, <3>1
    <3>3. Cardinality(Owners) + Cardinality(Way) + (IF semcount["mutex"] = 1 THEN 1 ELSE 0) = 1
      BY <2>2, <3>2
    <3> QED BY <3>1, <3>3 DEF OwnerExact, Way
  <2>5. CASE state[t] \notin Owning
    <3>1. Owners = {} /\ Way = {t} /\ pid = NoThread
      BY <1>1, <1>5, <2>3, <2>5 DEF Holding, MutexInv, Owner
    <3> HIDE DEF Way
    <3>2. Cardinality(Owners) = 0 /\ Cardinality(Way) = 1
      BY <1>2, <3>1
    <3>3. Cardinality(Owners) + Cardinality(Way) + (IF semcount["mutex"] = 1 THEN 1 ELSE 0) = 1
      BY <2>2, <3>2
    <3> QED BY <3>1, <3>3 DEF OwnerExact, Way
  <2> QED BY <2>4, <2>5
<1> QED BY <1>4, <1>5

\* Of every behaviour in which no consumer locks the mutex twice.
THEOREM MutexInvariance ==
  ASSUME Usage
  PROVE  Spec => []MutexInv
<1>1. MutexInv /\ [Next]_vars => MutexInv'
  BY NextMutexInv
<1> QED BY <1>1, InitMutexInv, PTL DEF Spec

\* The variables stay in their types, and the count of the mutex is never above 1.
THEOREM TypeCorrect ==
  ASSUME Usage
  PROVE  Spec => []TypeOK
<1>1. MutexInv => TypeOK
  <2> SUFFICES ASSUME MutexInv PROVE TypeOK
    OBVIOUS
  <2>1. semcount["mutex"] <= 1
    BY CountType DEF MutexInv, Mutex
  <2> QED BY <2>1 DEF MutexInv, Types, TypeOK
<1> QED BY <1>1, MutexInvariance, PTL

\* pthread_mutex_lock, pthread_mutex_unlock and the waits for the condition hand the
\* mutex from one owner to the next: never two have it, and it is never lost.
THEOREM OwnerCorrect ==
  ASSUME Usage
  PROVE  Spec => []OwnerExact
BY MutexGivesOwner, MutexInvariance, PTL

\* The posts of pthread_cond_signal and pthread_cond_broadcast that nobody takes do not
\* pile up beyond the number of consumers.
THEOREM PermitsCorrect ==
  ASSUME Usage
  PROVE  Spec => []PermitsBounded
<1>1. MutexInv => PermitsBounded
  <2> SUFFICES ASSUME MutexInv PROVE PermitsBounded
    OBVIOUS
  <2>1. semcount["cond"] \in Int /\ Permits <= Limit /\ Limit \in Nat
    BY LimitType DEF MutexInv, Types, Sems, Posts
  <2> QED BY <2>1 DEF PermitsBounded, Permits, Limit
<1> QED BY <1>1, MutexInvariance, PTL

-----------------------------------------------------------------------------
(* The invariant of the wake-ups.                                          *)

Sleepers == Count(state, CondWaits)

Coming == {"condgot", "relock", "relockwait", "relockgot"}
Served(t) ==
  IF t \in Consumers THEN (state[t] \in Coming /\ t \notin ret) \/ state[t] = "owns"
  ELSE state[t] \in Posting
Serving == {t \in Threads : Served(t)}

Locked == \A t \in Threads : state[t] \in {"take", "broadcast"} => cpu = t

Takes == \A t \in Threads : state[t] = "take" =>
           /\ items = 0 /\ t \notin Timed
           /\ \A u \in Threads : state[u] \notin Owning

Ends ==
  /\ \A t \in Threads : state[t] = "condintr" => t \in Timed
  /\ \A t \in Threads : state[t] = "condwait" => t \notin ret

Reads ==
  /\ \A t \in Threads : state[t] = "signal" /\ sval[t] >= 0 => Sleepers = 0
  /\ \A t \in Threads : state[t] = "broadcast" => Sleepers = 0 \/ Sleepers <= 0 - sval[t]

Enough == Sleepers > 0 => items <= Cardinality(Serving)

WakeupInv ==
  /\ Locked
  /\ Takes
  /\ Ends
  /\ Reads
  /\ Enough

\* The consumers that wait without a timeout receive no POSIX signals.
Undisturbed == Interrupted \intersect Consumers \subseteq Timed

\* The wake-ups are in order at the start.
LEMMA InitWakeupInv == Init => WakeupInv
<1> SUFFICES ASSUME Init PROVE WakeupInv
  OBVIOUS
<1>1. \A t \in Threads : state[t] = "idle"
  BY DEF Init
<1>2. Sleepers = 0
  BY <1>1, CountType DEF Sleepers, CondWaits
<1> QED BY <1>1, <1>2 DEF WakeupInv, Locked, Takes, Ends, Reads, Enough

\* Numbers.
LEMMA WakeupTypes ==
  ASSUME MutexInv
  PROVE  /\ Sleepers \in Nat /\ items \in Nat
         /\ IsFiniteSet(Serving) /\ Cardinality(Serving) \in Nat
         /\ \A u \in Threads : sval[u] \in Int
<1>1. IsFiniteSet(Serving)
  BY ConstantsAssumption, FS_Subset DEF Serving, ConstantsAssumption
<1> QED BY <1>1, CountType, FS_CardinalityType, ConstantsAssumption
    DEF Sleepers, MutexInv, Types, ConstantsAssumption

\* No more sleepers, no more items, and nobody gone that was to serve.
LEMMA EnoughKept ==
  ASSUME MutexInv, MutexInv', Enough, Sleepers' <= Sleepers,
         items' = 0 \/ (items' <= items /\ Serving \subseteq Serving')
  PROVE  Enough'
<1>1. /\ Sleepers \in Nat /\ items \in Nat
      /\ IsFiniteSet(Serving) /\ Cardinality(Serving) \in Nat
  BY WakeupTypes
<1>2. /\ Sleepers' \in Nat /\ items' \in Nat
      /\ IsFiniteSet(Serving') /\ Cardinality(Serving') \in Nat
  <2>1. IsFiniteSet(Serving')
    BY ConstantsAssumption, FS_Subset DEF Serving, ConstantsAssumption
  <2> QED BY <2>1, CountType, FS_CardinalityType, ConstantsAssumption
      DEF Sleepers, MutexInv, Types, ConstantsAssumption
<1>3. Serving \subseteq Serving' => Cardinality(Serving) <= Cardinality(Serving')
  BY <1>1, <1>2, FS_Subset
<1> QED BY <1>1, <1>2, <1>3 DEF Enough

\* Only t can be on its way to the semaphore when t runs.
LEMMA OnlyTakes ==
  ASSUME Locked, NEW t \in Threads, Runs(t)
  PROVE  \A u \in Threads : state[u] \in {"take", "broadcast"} => u = t
BY ConstantsAssumption DEF Locked, Runs, ConstantsAssumption

\* t runs, and nobody begins to wait or to post.
LEMMA Calm ==
  ASSUME MutexInv, WakeupInv, NEW t \in Threads, Runs(t), state[t] # "take",
         \A u \in Threads : state'[u] \in {"take", "broadcast", "condintr", "condwait", "signal"} =>
           state'[u] = state[u] /\ sval'[u] = sval[u] /\ (u \in ret' => u \in ret),
         \A u \in Threads : state[u] \in CondWaits => state'[u] \in CondWaits,
         UNCHANGED cpu
  PROVE  Locked' /\ Takes' /\ Ends' /\ Reads' /\ Sleepers' = Sleepers
<1>1. \A u \in Threads : state[u] \in CondWaits <=> state'[u] \in CondWaits
  BY DEF CondWaits
<1>2. Sleepers' = Sleepers
  BY <1>1, CountKept DEF Sleepers
<1>3. Locked'
  BY DEF WakeupInv, Locked
<1>4. Takes'
  BY OnlyTakes DEF WakeupInv, Takes
<1>5. Ends'
  BY DEF WakeupInv, Ends
<1>6. Reads'
  BY <1>2 DEF WakeupInv, Reads
<1> QED BY <1>2, <1>3, <1>4, <1>5, <1>6

\* The calm steps keep the wake-ups, when nobody that was to serve is gone.
LEMMA CalmKeeps ==
  ASSUME MutexInv, MutexInv', WakeupInv, NEW t \in Threads, Runs(t), state[t] # "take",
         \A u \in Threads : state'[u] \in {"take", "broadcast", "condintr", "condwait", "signal"} =>
           state'[u] = state[u] /\ sval'[u] = sval[u] /\ (u \in ret' => u \in ret),
         \A u \in Threads : state[u] \in CondWaits => state'[u] \in CondWaits,
         UNCHANGED cpu,
         items' = 0 \/ (items' <= items /\ Serving \subseteq Serving')
  PROVE  WakeupInv'
<1>1. Locked' /\ Takes' /\ Ends' /\ Reads' /\ Sleepers' = Sleepers
  BY Calm
<1>2. Sleepers' <= Sleepers
  BY <1>1, WakeupTypes
<1>3. Enough'
  BY <1>2, EnoughKept DEF WakeupInv
<1> QED BY <1>1, <1>3 DEF WakeupInv

\* A consumer that is given the mutex, or asks for it, serves as before.
LEMMA StillServing ==
  ASSUME \A u \in Threads : Served(u) => Served(u)'
  PROVE  Serving \subseteq Serving'
BY DEF Serving

\* pthread_mutex_lock.
LEMMA LockWakes ==
  ASSUME MutexInv, MutexInv', WakeupInv, NEW t \in Threads, Lock(t)
  PROVE  WakeupInv'
<1>1. /\ Runs(t) /\ state[t] = "idle" /\ UNCHANGED <<ret, dog, sval, cpu, items>>
      /\ Moves(t, "owns") \/ Moves(t, "lockwait")
  BY MoveFacts DEF Lock, Take, MutexInv, State
<1>2. \A u \in Threads : Served(u) => Served(u)'
  BY <1>1 DEF Served, Moves, Coming, Posting
<1>3. items' <= items
  BY <1>1, WakeupTypes
<1> QED BY <1>1, <1>2, <1>3, StillServing, CalmKeeps DEF Moves, CondWaits

\* The return of pthread_mutex_lock after a wait.
LEMMA LockReturnsWakes ==
  ASSUME MutexInv, MutexInv', WakeupInv, NEW t \in Threads, LockReturns(t)
  PROVE  WakeupInv'
<1>1. /\ Runs(t) /\ state[t] \in {"lockgot", "lockintr"} /\ UNCHANGED <<ret, dog, sval, cpu, items>>
      /\ Moves(t, "owns") \/ Moves(t, "idle")
  BY MoveFacts DEF LockReturns, MutexInv, State
<1>2. \A u \in Threads : Served(u) => Served(u)'
  BY <1>1 DEF Served, Moves, Coming, Posting
<1>3. items' <= items
  BY <1>1, WakeupTypes
<1> QED BY <1>1, <1>2, <1>3, StillServing, CalmKeeps DEF Moves, CondWaits

\* A lock by the owner.
LEMMA RelockWakes ==
  ASSUME MutexInv, MutexInv', WakeupInv, NEW t \in Threads, Relock(t)
  PROVE  WakeupInv'
<1>1. Runs(t) /\ state[t] = "owns" /\ UNCHANGED <<state, ret, dog, sval, cpu, items>>
  BY DEF Relock
<1>2. \A u \in Threads : Served(u) => Served(u)'
  BY <1>1 DEF Served
<1>3. items' <= items
  BY <1>1, WakeupTypes
<1> QED BY <1>1, <1>2, <1>3, StillServing, CalmKeeps

\* pthread_mutex_unlock: a consumer that looked for items and leaves found none.
LEMMA UnlockWakes ==
  ASSUME MutexInv, MutexInv', WakeupInv, NEW t \in Threads, Unlock(t)
  PROVE  WakeupInv'
<1> DEFINE x == IF locks[t] > 1 THEN "done" ELSE "idle"
<1>1. /\ Runs(t) /\ state[t] \in {"owns", "done"} /\ ret' = ret \ {t}
      /\ state[t] = "owns" /\ t \in Consumers => items = 0
      /\ UNCHANGED <<dog, sval, cpu, items>>
  BY DEF Unlock
<1>2. /\ state'[t] \in {"idle", "done"}
      /\ \A u \in Threads : u # t => \/ state'[u] = state[u]
                                     \/ state[u] = "lockwait" /\ state'[u] = "lockgot"
                                     \/ state[u] = "relockwait" /\ state'[u] = "relockgot"
  <2>1. state' = [state EXCEPT ![t] = x] \/ Give("mutex", [state EXCEPT ![t] = x])
    BY DEF Unlock
  <2>2. x \in {"idle", "done"} /\ x \in State
    BY DEF State
  <2>3. CASE state' = [state EXCEPT ![t] = x]
    BY <2>2, <2>3 DEF MutexInv, Types
  <2>4. CASE Give("mutex", [state EXCEPT ![t] = x])
    <3> HIDE DEF x
    <3>1. Passed(t, x)
      BY <1>1, <2>2, <2>4, GivePasses DEF MutexInv, MutexWaits
    <3> QED BY <2>2, <3>1 DEF Passed
  <2> QED BY <2>1, <2>3, <2>4
<1>3. items' <= items
  BY <1>1, WakeupTypes
<1>4. \A u \in Threads : u # t => (Served(u) => Served(u)')
  BY <1>1, <1>2 DEF Served, Coming, Posting
<1>5. items = 0 \/ ~ Served(t)
  BY <1>1 DEF Served, Coming, Posting
<1>6. items' = 0 \/ (items' <= items /\ Serving \subseteq Serving')
  BY <1>1, <1>3, <1>4, <1>5, StillServing
<1>7. \A u \in Threads : state[u] \in CondWaits => state'[u] \in CondWaits
  BY <1>1, <1>2 DEF CondWaits
<1>8. \A u \in Threads : state'[u] \in {"take", "broadcast", "condintr", "condwait", "signal"} =>
        state'[u] = state[u] /\ sval'[u] = sval[u] /\ (u \in ret' => u \in ret)
  BY <1>1, <1>2
<1> QED BY <1>1, <1>6, <1>7, <1>8, CalmKeeps

\* pthread_cond_wait locks the scheduler and gives up the mutex: nothing is there to be taken.
LEMMA CondWaitWakes ==
  ASSUME MutexInv, MutexInv', WakeupInv, NEW t \in Threads, CondWait(t)
  PROVE  WakeupInv'
<1>1. /\ Runs(t) /\ state[t] = "owns" /\ items = 0 /\ t \notin Timed /\ cpu' = t
      /\ UNCHANGED <<ret, dog, sval, items>>
  BY DEF CondWait
<1>2. Passed(t, "take")
  BY <1>1, GivePasses DEF CondWait, MutexInv, State, MutexWaits
<1>3. /\ state'[t] = "take"
      /\ \A u \in Threads : u # t => \/ state'[u] = state[u]
                                     \/ state[u] = "lockwait" /\ state'[u] = "lockgot"
                                     \/ state[u] = "relockwait" /\ state'[u] = "relockgot"
  BY <1>2 DEF Passed
<1>4. \A u \in Threads : u # t => state[u] \notin Owning
  BY <1>1, OnePoster DEF Owning
<1>5. Sleepers' = Sleepers
  <2>1. \A u \in Threads : state[u] \in CondWaits <=> state'[u] \in CondWaits
    BY <1>1, <1>3 DEF CondWaits
  <2> QED BY <2>1, CountKept DEF Sleepers
<1>6. Locked'
  BY <1>1, <1>3, OnlyTakes DEF WakeupInv, Locked
<1>7. Takes'
  <2>1. \A u \in Threads : state'[u] \notin Owning
    BY <1>3, <1>4 DEF Owning
  <2>2. \A u \in Threads : state'[u] = "take" => u = t
    BY <1>1, <1>3, OnlyTakes DEF WakeupInv
  <2> QED BY <1>1, <2>1, <2>2 DEF Takes
<1>8. Ends'
  BY <1>1, <1>3 DEF WakeupInv, Ends
<1>9. Reads'
  BY <1>1, <1>3, <1>5 DEF WakeupInv, Reads
<1>10. Enough'
  <2>1. items' = 0 /\ Sleepers' <= Sleepers
    BY <1>1, <1>5, WakeupTypes
  <2> QED BY <2>1, EnoughKept DEF WakeupInv
<1> QED BY <1>6, <1>7, <1>8, <1>9, <1>10 DEF WakeupInv

\* pthread_cond_wait takes the semaphore, before anybody can have had the mutex.
LEMMA CondTakeWakes ==
  ASSUME MutexInv, MutexInv', WakeupInv, NEW t \in Threads, CondTake(t)
  PROVE  WakeupInv'
<1>1. /\ Runs(t) /\ state[t] = "take" /\ cpu' = NoThread /\ UNCHANGED <<ret, dog, sval, items>>
      /\ Moves(t, "condgot") \/ Moves(t, "condwait")
  BY MoveFacts DEF CondTake, Take, MutexInv, State
<1>2. items = 0 /\ t \notin Timed /\ \A u \in Threads : state[u] \notin Owning
  BY <1>1 DEF WakeupInv, Takes
<1>3. state'[t] \in {"condgot", "condwait"} /\ \A u \in Threads : u # t => state'[u] = state[u]
  BY <1>1 DEF Moves
<1>4. \A u \in Threads : state'[u] \notin {"signal", "broadcast", "take"}
  BY <1>1, <1>2, <1>3, OnlyTakes DEF Owning, WakeupInv
<1>5. t \notin ret
  BY <1>2 DEF MutexInv, Types
<1>6. Ends'
  BY <1>1, <1>3, <1>5 DEF WakeupInv, Ends
<1>7. Enough'
  <2>1. items' = 0 /\ IsFiniteSet(Serving')
    BY <1>1, <1>2, ConstantsAssumption, FS_Subset DEF Serving, ConstantsAssumption
  <2>2. Cardinality(Serving') \in Nat
    BY <2>1, FS_CardinalityType
  <2> QED BY <2>1, <2>2 DEF Enough
<1> QED BY <1>4, <1>6, <1>7 DEF WakeupInv, Locked, Takes, Reads

\* pthread_cond_timedwait gives up the mutex and takes the semaphore at once.
LEMMA CondTimedWaitWakes ==
  ASSUME MutexInv, MutexInv', WakeupInv, NEW t \in Threads, CondTimedWait(t)
  PROVE  WakeupInv'
<1>1. /\ Runs(t) /\ state[t] = "owns" /\ items = 0 /\ ret' = ret \ {t}
      /\ UNCHANGED <<sval, cpu, items>>
  BY DEF CondTimedWait
<1>2. Passed(t, IF semcount["cond"] > 0 THEN "condgot" ELSE "condwait")
  BY TimedPasses
<1>3. /\ state'[t] \in {"condgot", "condwait"}
      /\ \A u \in Threads : u # t => \/ state'[u] = state[u]
                                     \/ state[u] = "lockwait" /\ state'[u] = "lockgot"
                                     \/ state[u] = "relockwait" /\ state'[u] = "relockgot"
  BY <1>2 DEF Passed
<1>4. \A u \in Threads : u # t => state[u] \notin Owning
  BY <1>1, OnePoster DEF Owning
<1>5. \A u \in Threads : state'[u] \notin {"signal", "broadcast", "take"}
  <2>1. \A u \in Threads : u # t => state[u] # "take"
    BY <1>1, OnlyTakes DEF WakeupInv
  <2> QED BY <1>3, <1>4, <2>1 DEF Owning
<1>6. Ends'
  BY <1>1, <1>3 DEF WakeupInv, Ends
<1>7. Enough'
  <2>1. items' = 0 /\ IsFiniteSet(Serving')
    BY <1>1, ConstantsAssumption, FS_Subset DEF Serving, ConstantsAssumption
  <2>2. Cardinality(Serving') \in Nat
    BY <2>1, FS_CardinalityType
  <2> QED BY <2>1, <2>2 DEF Enough
<1> QED BY <1>5, <1>6, <1>7 DEF WakeupInv, Locked, Takes, Reads

\* The end of a wait: who was woken serves on, who timed out never did.
LEMMA CondResumesWakes ==
  ASSUME MutexInv, MutexInv', WakeupInv, NEW t \in Threads, CondResumes(t)
  PROVE  WakeupInv'
<1>1. Runs(t) /\ UNCHANGED <<dog, sval, cpu, items>>
  BY DEF CondResumes
<1>2. /\ state[t] \in {"condgot", "condintr"} /\ state' = [state EXCEPT ![t] = "relock"]
      /\ ret' = ret \/ (ret' = ret \union {t} /\ state[t] = "condintr")
  BY DEF CondResumes, WakeupInv, Ends
<1>3. Moves(t, "relock")
  BY <1>2, MoveFacts DEF MutexInv, State
<1>4. \A u \in Threads : Served(u) => Served(u)'
  BY <1>2, <1>3 DEF Served, Moves, Coming, Posting
<1>5. items' <= items
  BY <1>1, WakeupTypes
<1> QED BY <1>1, <1>2, <1>3, <1>4, <1>5, StillServing, CalmKeeps DEF Moves, CondWaits

\* A consumer asks for the mutex again.
LEMMA ReacquireWakes ==
  ASSUME MutexInv, MutexInv', WakeupInv, NEW t \in Threads, Reacquire(t)
  PROVE  WakeupInv'
<1>1. /\ Runs(t) /\ state[t] = "relock" /\ UNCHANGED <<ret, sval, cpu, items>>
      /\ Moves(t, "owns") \/ Moves(t, "relockwait")
  BY MoveFacts DEF Reacquire, Take, MutexInv, State
<1>2. t \in Consumers
  BY <1>1 DEF MutexInv, Roles, CondStates
<1>3. \A u \in Threads : Served(u) => Served(u)'
  BY <1>1, <1>2 DEF Served, Moves, Coming
<1>4. items' <= items
  BY <1>1, WakeupTypes
<1> QED BY <1>1, <1>3, <1>4, StillServing, CalmKeeps DEF Moves, CondWaits

\* A consumer has the mutex again.
LEMMA ReacquiredWakes ==
  ASSUME MutexInv, MutexInv', WakeupInv, NEW t \in Threads, Reacquired(t)
  PROVE  WakeupInv'
<1>1. /\ Runs(t) /\ state[t] = "relockgot" /\ UNCHANGED <<ret, sval, cpu, items>>
      /\ Moves(t, "owns")
  BY MoveFacts DEF Reacquired, MutexInv, State
<1>2. t \in Consumers
  BY <1>1 DEF MutexInv, Roles, CondStates
<1>3. \A u \in Threads : Served(u) => Served(u)'
  BY <1>1, <1>2 DEF Served, Moves, Coming
<1>4. items' <= items
  BY <1>1, WakeupTypes
<1> QED BY <1>1, <1>3, <1>4, StillServing, CalmKeeps DEF Moves, CondWaits

\* A consumer takes an item and serves no more.
LEMMA ConsumeWakes ==
  ASSUME MutexInv, MutexInv', WakeupInv, NEW t \in Threads, Consume(t)
  PROVE  WakeupInv'
<1>1. /\ Runs(t) /\ t \in Consumers /\ state[t] = "owns" /\ items > 0 /\ items' = items - 1
      /\ UNCHANGED <<ret, sval, cpu>> /\ Moves(t, "done")
  BY MoveFacts DEF Consume, MutexInv, State
<1>2. Locked' /\ Takes' /\ Ends' /\ Reads' /\ Sleepers' = Sleepers
  BY <1>1, Calm DEF Moves, CondWaits
<1>3. Serving' = Serving \ {t} /\ t \in Serving
  BY <1>1 DEF Serving, Served, Moves, Coming
<1>4. Cardinality(Serving') = Cardinality(Serving) - 1
  BY <1>3, WakeupTypes, FS_RemoveElement
<1>5. Enough'
  BY <1>1, <1>2, <1>4, WakeupTypes DEF WakeupInv, Enough
<1> QED BY <1>2, <1>5 DEF WakeupInv

\* A producer puts an item, and is to signal it.
LEMMA ProduceWakes ==
  ASSUME MutexInv, MutexInv', WakeupInv, NEW t \in Threads, Produce(t)
  PROVE  WakeupInv'
<1>1. /\ Runs(t) /\ t \in Producers /\ state[t] = "owns" /\ items' = items + 1
      /\ UNCHANGED <<ret, sval, cpu>> /\ Moves(t, "produced")
  BY MoveFacts DEF Produce, MutexInv, State
<1>2. Locked' /\ Takes' /\ Ends' /\ Reads' /\ Sleepers' = Sleepers
  BY <1>1, Calm DEF Moves, CondWaits
<1>3. t \notin Consumers
  BY <1>1, ConstantsAssumption DEF ConstantsAssumption
<1>4. Serving' = Serving \union {t} /\ t \notin Serving
  BY <1>1, <1>3 DEF Serving, Served, Moves, Posting
<1>5. Cardinality(Serving') = Cardinality(Serving) + 1
  BY <1>4, WakeupTypes, FS_AddElement
<1>6. Enough'
  BY <1>1, <1>2, <1>5, WakeupTypes DEF WakeupInv, Enough
<1> QED BY <1>2, <1>6 DEF WakeupInv

\* A producer reads the count: it sees the sleepers there are.
LEMMA CountReadWakes ==
  ASSUME MutexInv, MutexInv', WakeupInv, NEW t \in Threads, Runs(t),
         state[t] = "produced", NEW x \in {"signal", "broadcast"},
         state' = [state EXCEPT ![t] = x], sval' = [sval EXCEPT ![t] = semcount["cond"]],
         IF x = "broadcast" THEN cpu' = t ELSE cpu' = cpu,
         UNCHANGED <<ret, items>>
  PROVE  WakeupInv'
<1>1. Moves(t, x) /\ sval'[t] = semcount["cond"]
  BY MoveFacts DEF MutexInv, State, Types
<1>2. Sleepers' = Sleepers
  <2>1. \A u \in Threads : state[u] \in CondWaits <=> state'[u] \in CondWaits
    BY <1>1 DEF Moves, CondWaits
  <2> QED BY <2>1, CountKept DEF Sleepers
<1>3. \A u \in Threads : u # t => state[u] \notin {"signal", "broadcast"}
  BY OnePoster DEF Owning
<1>4. \A u \in Threads : state[u] \notin {"take", "broadcast"}
  BY OnlyTakes DEF WakeupInv
<1>5. Locked'
  BY <1>1, <1>4 DEF Locked, Moves
<1>6. Takes'
  BY <1>1, <1>4 DEF Takes, Moves
<1>7. Ends'
  BY <1>1 DEF WakeupInv, Ends, Moves
<1>8. Reads'
  <2>1. /\ semcount["cond"] \in Int /\ Sleepers \in Nat
        /\ Sleepers > 0 <=> semcount["cond"] < 0
        /\ semcount["cond"] < 0 => semcount["cond"] = 0 - Sleepers
    BY CondSign DEF MutexInv, Sleepers
  <2>2. \A u \in Threads : state'[u] \in {"signal", "broadcast"} => u = t
    BY <1>1, <1>3 DEF Moves
  <2>3. sval'[t] >= 0 => Sleepers = 0
    BY <1>1, <2>1
  <2>4. Sleepers = 0 \/ Sleepers <= 0 - sval'[t]
    BY <1>1, <2>1
  <2> QED BY <1>2, <2>2, <2>3, <2>4 DEF Reads
<1>9. Enough'
  <2>1. t \notin Consumers
    BY ConstantsAssumption DEF MutexInv, Roles, Posting, ConstantsAssumption
  <2>2. \A u \in Threads : Served(u) => Served(u)'
    BY <1>1, <2>1 DEF Served, Moves, Posting
  <2>3. items' <= items /\ Sleepers' <= Sleepers
    BY <1>2, WakeupTypes
  <2> QED BY <2>2, <2>3, StillServing, EnoughKept DEF WakeupInv
<1> QED BY <1>5, <1>6, <1>7, <1>8, <1>9 DEF WakeupInv

\* A post wakes one sleeper, which serves from then on.
LEMMA PostWakes ==
  ASSUME MutexInv, WakeupInv, NEW st \in [Threads -> State], Give("cond", st),
         \A u \in Threads : st[u] \in CondWaits <=> state[u] \in CondWaits
  PROVE  \/ /\ Sleepers = 0 /\ Sleepers' = 0 /\ state' = st
         \/ /\ Sleepers > 0 /\ Sleepers' = Sleepers - 1
            /\ \E w \in Threads :
                 /\ state[w] = "condwait" /\ state'[w] = "condgot" /\ w \notin ret /\ w \in Consumers
                 /\ \A u \in Threads : u # w => state'[u] = st[u]
<1>1. /\ Wakes(st)
      /\ IF semcount["cond"] < 0 THEN Count(state', CondWaits) = Count(state, CondWaits) - 1
         ELSE Count(state, CondWaits) = 0 /\ Count(state', CondWaits) = 0
  BY CondGiven DEF MutexInv
<1>2. Sleepers \in Nat /\ (Sleepers > 0 <=> semcount["cond"] < 0)
  BY CondSign DEF MutexInv, Sleepers
<1>3. Sleepers = 0 <=> \A u \in Threads : state[u] \notin CondWaits
  BY CountType DEF Sleepers
<1>4. CASE \A u \in Threads : state[u] \notin CondWaits
  <2>1. state' = st
    BY <1>1, <1>4 DEF Wakes
  <2> QED BY <1>1, <1>2, <1>3, <1>4, <2>1 DEF Sleepers
<1>5. CASE ~ \A u \in Threads : state[u] \notin CondWaits
  <2>1. Sleepers > 0 /\ Sleepers' = Sleepers - 1
    BY <1>1, <1>2, <1>3, <1>5 DEF Sleepers
  <2>2. PICK w \in Threads : /\ state[w] \in CondWaits /\ state'[w] = "condgot"
                             /\ \A u \in Threads : u # w => state'[u] = st[u]
    BY <1>1, <1>5 DEF Wakes
  <2>3. state[w] = "condwait" /\ w \notin ret /\ w \in Consumers
    BY <2>2 DEF CondWaits, WakeupInv, Ends, MutexInv, Roles, CondStates
  <2> QED BY <2>1, <2>2, <2>3
<1> QED BY <1>4, <1>5

\* pthread_cond_signal posts: the sleeper takes over from the producer.
LEMMA SignalPostsWakes ==
  ASSUME MutexInv, MutexInv', WakeupInv, NEW t \in Threads, SignalPosts(t)
  PROVE  WakeupInv'
<1> DEFINE st == [state EXCEPT ![t] = "done"]
<1>1. /\ Runs(t) /\ state[t] = "signal" /\ sval' = [sval EXCEPT ![t] = 0]
      /\ UNCHANGED <<pid, nlocks, ret, dog, cpu, items, locks>>
      /\ IF sval[t] < 0 THEN Give("cond", st) ELSE state' = st
  BY DEF SignalPosts
<1>2. st \in [Threads -> State] /\ st[t] = "done" /\ \A u \in Threads : u # t => st[u] = state[u]
  BY DEF MutexInv, Types, State
<1>3. \A u \in Threads : u # t => state[u] \notin Owning /\ state[u] \notin {"signal", "broadcast"}
  BY <1>1, OnePoster DEF Owning
<1>4. \A u \in Threads : state[u] \notin {"take", "broadcast"}
  BY <1>1, OnlyTakes DEF WakeupInv
<1>5. t \notin Consumers
  BY <1>1, ConstantsAssumption DEF MutexInv, Roles, Posting, ConstantsAssumption
<1> HIDE DEF st
<1>6. CASE Sleepers' = 0 /\ state' = st
  <2>1. Locked' /\ Takes' /\ Reads'
    BY <1>2, <1>3, <1>4, <1>6 DEF Locked, Takes, Reads
  <2>2. Ends'
    BY <1>1, <1>2, <1>6 DEF WakeupInv, Ends
  <2> QED BY <1>6, <2>1, <2>2 DEF WakeupInv, Enough
<1>7. ASSUME Sleepers > 0, Sleepers' = Sleepers - 1, NEW w \in Threads,
             state[w] = "condwait", state'[w] = "condgot", w \notin ret, w \in Consumers,
             \A u \in Threads : u # w => state'[u] = st[u]
      PROVE  WakeupInv'
  <2>1. w # t
    BY <1>5, <1>7
  <2>2. state'[t] = "done" /\ \A u \in Threads : u \notin {t, w} => state'[u] = state[u]
    BY <1>2, <1>7, <2>1
  <2>3. Locked' /\ Takes' /\ Reads'
    BY <1>3, <1>4, <1>7, <2>2 DEF Locked, Takes, Reads
  <2>4. Ends'
    BY <1>1, <1>7, <2>2 DEF WakeupInv, Ends
  <2>5. Serving' = (Serving \ {t}) \union {w} /\ t \in Serving /\ w \notin Serving \ {t}
    <3>1. Served(t) /\ ~ Served(w) /\ ~ Served(t)' /\ Served(w)'
      BY <1>1, <1>5, <1>7, <2>2 DEF Served, Coming, Posting
    <3>2. \A u \in Threads : u \notin {t, w} => (Served(u)' <=> Served(u))
      BY <1>1, <2>2 DEF Served
    <3> QED BY <3>1, <3>2, <2>1 DEF Serving
  <2>6. Cardinality(Serving') = Cardinality(Serving)
    <3>1. IsFiniteSet(Serving \ {t}) /\ Cardinality(Serving \ {t}) = Cardinality(Serving) - 1
      BY <2>5, WakeupTypes, FS_RemoveElement
    <3>2. Cardinality(Serving') = Cardinality(Serving \ {t}) + 1
      BY <2>5, <3>1, FS_AddElement
    <3> QED BY <3>1, <3>2, WakeupTypes
  <2>7. Enough'
    BY <1>1, <1>7, <2>6, WakeupTypes DEF WakeupInv, Enough
  <2> QED BY <2>3, <2>4, <2>7 DEF WakeupInv
<1>8. CASE sval[t] < 0
  <2>1. \A u \in Threads : st[u] \in CondWaits <=> state[u] \in CondWaits
    BY <1>1, <1>2 DEF CondWaits
  <2> QED BY <1>1, <1>2, <1>6, <1>7, <1>8, <2>1, PostWakes
<1>9. CASE ~ (sval[t] < 0)
  <2>1. sval[t] >= 0 /\ state' = st
    BY <1>1, <1>9, WakeupTypes
  <2>2. Sleepers = 0
    BY <1>1, <2>1 DEF WakeupInv, Reads
  <2>3. Sleepers' = Sleepers
    BY <1>1, <1>2, <2>1, CountKept DEF Sleepers, CondWaits
  <2> QED BY <1>6, <2>1, <2>2, <2>3
<1> QED BY <1>8, <1>9

\* pthread_cond_broadcast posts for each sleeper it has read of, and is through when none is left.
LEMMA BroadcastPostsWakes ==
  ASSUME MutexInv, MutexInv', WakeupInv, NEW t \in Threads, BroadcastPosts(t)
  PROVE  WakeupInv'
<1>1. /\ cpu = t /\ state[t] = "broadcast" /\ UNCHANGED <<ret, items>>
      /\ sval[t] \in Int /\ Runs(t)
  BY DEF BroadcastPosts, MutexInv, Types, Runs
<1>2. \A u \in Threads : u # t => state[u] \notin Owning /\ state[u] \notin {"signal", "broadcast"}
  BY <1>1, OnePoster DEF Owning
<1>3. \A u \in Threads : state[u] # "take"
  BY <1>1, OnlyTakes DEF WakeupInv
<1>4. t \notin Consumers
  BY <1>1, ConstantsAssumption DEF MutexInv, Roles, Posting, ConstantsAssumption
<1>5. Sleepers = 0 \/ Sleepers <= 0 - sval[t]
  BY <1>1 DEF WakeupInv, Reads
<1>6. CASE sval[t] < 0
  <2>1. Give("cond", state) /\ cpu' = cpu /\ sval'[t] = sval[t] + 1
    BY <1>6 DEF BroadcastPosts, MutexInv, Types
  <2>2. state \in [Threads -> State]
    BY DEF MutexInv, Types
  <2>3. CASE Sleepers' = 0 /\ state' = state
    <3>1. Locked' /\ Takes' /\ Ends'
      BY <1>1, <1>3, <2>1, <2>3 DEF WakeupInv, Locked, Takes, Ends
    <3>2. Reads'
      BY <2>3 DEF Reads
    <3> QED BY <2>3, <3>1, <3>2 DEF WakeupInv, Enough
  <2>4. ASSUME Sleepers > 0, Sleepers' = Sleepers - 1, NEW w \in Threads,
               state[w] = "condwait", state'[w] = "condgot", w \notin ret, w \in Consumers,
               \A u \in Threads : u # w => state'[u] = state[u]
        PROVE  WakeupInv'
    <3>1. Locked' /\ Takes'
      BY <1>1, <1>3, <2>1, <2>4 DEF WakeupInv, Locked, Takes
    <3>2. Ends'
      BY <1>1, <2>4 DEF WakeupInv, Ends
    <3>3. Reads'
      <4>1. Sleepers' <= 0 - sval'[t]
        BY <1>1, <1>5, <2>1, <2>4, WakeupTypes
      <4>2. \A u \in Threads : state'[u] \in {"signal", "broadcast"} => u = t
        BY <1>2, <2>4
      <4>3. state'[t] = "broadcast"
        BY <1>1, <2>4
      <4> QED BY <4>1, <4>2, <4>3 DEF Reads
    <3>4. \A u \in Threads : Served(u) => Served(u)'
      BY <1>1, <2>4 DEF Served, Coming
    <3>5. Sleepers' <= Sleepers /\ items' <= items
      BY <1>1, <2>4, WakeupTypes
    <3>6. Enough'
      BY <3>4, <3>5, StillServing, EnoughKept DEF WakeupInv
    <3> QED BY <3>1, <3>2, <3>3, <3>6 DEF WakeupInv
  <2> QED BY <2>1, <2>2, <2>3, <2>4, PostWakes
<1>7. CASE ~ (sval[t] < 0)
  <2>1. state' = [state EXCEPT ![t] = "done"]
    BY <1>7 DEF BroadcastPosts
  <2>2. Moves(t, "done")
    BY <2>1, MoveFacts DEF MutexInv, State
  <2>3. Sleepers = 0
    BY <1>1, <1>5, <1>7, WakeupTypes
  <2>4. Sleepers' = Sleepers
    <3>1. \A u \in Threads : state[u] \in CondWaits <=> state'[u] \in CondWaits
      BY <1>1, <2>2 DEF Moves, CondWaits
    <3> QED BY <3>1, CountKept DEF Sleepers
  <2>5. Locked' /\ Takes' /\ Reads'
    BY <1>2, <1>3, <2>2 DEF Locked, Takes, Reads, Moves
  <2>6. Ends'
    BY <1>1, <2>2 DEF WakeupInv, Ends, Moves
  <2> QED BY <2>3, <2>4, <2>5, <2>6 DEF WakeupInv, Enough
<1> QED BY <1>6, <1>7

\* pthread_cond_signal in an interrupt handler only adds to those that serve.
LEMMA HandlerSignalsWakes ==
  ASSUME MutexInv, MutexInv', WakeupInv, HandlerSignals
  PROVE  WakeupInv'
<1>1. /\ semcount["cond"] < 0 /\ Give("cond", state) /\ UNCHANGED <<ret, sval, cpu, items>>
      /\ state \in [Threads -> State]
  BY DEF HandlerSignals, MutexInv, Types
<1>2. Sleepers > 0
  BY <1>1, CondSign DEF MutexInv, Sleepers
<1>3. /\ Sleepers' = Sleepers - 1
      /\ \E w \in Threads :
           /\ state[w] = "condwait" /\ state'[w] = "condgot" /\ w \notin ret /\ w \in Consumers
           /\ \A u \in Threads : u # w => state'[u] = state[u]
  BY <1>1, <1>2, PostWakes
<1>4. \A u \in Threads : state'[u] = state[u] \/ (state[u] = "condwait" /\ state'[u] = "condgot" /\ u \notin ret)
  BY <1>3
<1>5. Locked' /\ Takes' /\ Ends'
  BY <1>1, <1>4 DEF WakeupInv, Locked, Takes, Ends, Owning
<1>6. Sleepers' <= Sleepers /\ Sleepers' \in Nat
  BY <1>2, <1>3, WakeupTypes
<1>7. Reads'
  <2>1. \A u \in Threads : state'[u] \in {"signal", "broadcast"} => state'[u] = state[u] /\ sval'[u] = sval[u]
    BY <1>1, <1>4
  <2> QED BY <1>6, <2>1, WakeupTypes DEF WakeupInv, Reads
<1>8. \A u \in Threads : Served(u) => Served(u)'
  BY <1>1, <1>4 DEF Served, Coming, Posting
<1>9. Enough'
  <2>1. items' <= items
    BY <1>1, WakeupTypes
  <2> QED BY <1>6, <1>8, <2>1, StillServing, EnoughKept DEF WakeupInv
<1> QED BY <1>5, <1>7, <1>9 DEF WakeupInv

\* A wait that ends without a post takes nobody away from those that serve.
LEMMA WaitEndsWakes ==
  ASSUME MutexInv, MutexInv', WakeupInv, NEW t \in Threads, sem_waitirq(t),
         state[t] = "condwait" => t \in Timed, UNCHANGED <<ret, sval, cpu, items>>
  PROVE  WakeupInv'
<1>1. \A u \in Threads : \/ state'[u] = state[u]
                         \/ state[u] = "lockwait" /\ state'[u] = "lockintr"
                         \/ state[u] = "relockwait" /\ state'[u] = "relock"
                         \/ state[u] = "condwait" /\ state'[u] = "condintr" /\ u \in Timed
  <2>1. CASE state[t] \notin DOMAIN Ended
    BY <2>1 DEF sem_waitirq
  <2>2. CASE state[t] \in DOMAIN Ended
    <3>1. state' = [state EXCEPT ![t] = Ended[state[t]]]
      BY <2>2 DEF sem_waitirq
    <3>2. state'[t] = Ended[state[t]] /\ \A u \in Threads : u # t => state'[u] = state[u]
      BY <3>1 DEF MutexInv, Types
    <3> QED BY <2>2, <3>2, Records
  <2> QED BY <2>1, <2>2
<1>2. Sleepers' <= Sleepers /\ Sleepers' \in Nat
  <2> DEFINE A == {u \in Threads : state[u] \in CondWaits}
             B == {u \in Threads : state'[u] \in CondWaits}
  <2>1. B \subseteq A
    BY <1>1 DEF CondWaits
  <2>2. IsFiniteSet(A)
    BY ConstantsAssumption, FS_Subset DEF ConstantsAssumption
  <2>3. Cardinality(B) <= Cardinality(A) /\ IsFiniteSet(B)
    BY <2>1, <2>2, FS_Subset
  <2>4. Cardinality(B) \in Nat
    BY <2>3, FS_CardinalityType
  <2> QED BY <2>3, <2>4 DEF Sleepers, Count
<1>3. Locked' /\ Takes' /\ Ends'
  BY <1>1 DEF WakeupInv, Locked, Takes, Ends, Owning
<1>4. Reads'
  <2>1. \A u \in Threads : state'[u] \in {"signal", "broadcast"} => state'[u] = state[u] /\ sval'[u] = sval[u]
    BY <1>1
  <2> QED BY <1>2, <2>1, WakeupTypes DEF WakeupInv, Reads
<1>5. \A u \in Threads : Served(u) => Served(u)'
  BY <1>1 DEF Served, Coming, Posting
<1>6. Enough'
  <2>1. items' <= items
    BY WakeupTypes
  <2> QED BY <1>2, <1>5, <2>1, StillServing, EnoughKept DEF WakeupInv
<1> QED BY <1>3, <1>4, <1>6 DEF WakeupInv

\* Every step keeps the wake-ups in order.
LEMMA NextWakeupInv ==
  ASSUME Undisturbed, MutexInv, MutexInv', WakeupInv, [Next]_vars
  PROVE  WakeupInv'
<1>1. CASE UNCHANGED vars
  <2>1. UNCHANGED <<state, ret, sval, cpu, items>>
    BY <1>1 DEF vars
  <2>2. Sleepers' = Sleepers /\ Serving' = Serving
    BY <2>1 DEF Sleepers, Count, Serving, Served
  <2> QED BY <2>1, <2>2 DEF WakeupInv, Locked, Takes, Ends, Reads, Enough
<1>2. ASSUME NEW t \in Threads, Signal(t)
      PROVE  WakeupInv'
  BY <1>2, CountReadWakes DEF Signal
<1>3. ASSUME NEW t \in Threads, Broadcast(t)
      PROVE  WakeupInv'
  BY <1>3, CountReadWakes DEF Broadcast
<1>4. ASSUME NEW t \in Threads, Timeout(t)
      PROVE  WakeupInv'
  <2>1. t \in Timed
    BY <1>4 DEF Timeout, MutexInv, Types
  <2> QED BY <1>4, <2>1, WaitEndsWakes DEF Timeout
<1>5. ASSUME NEW t \in Threads, Interrupt(t)
      PROVE  WakeupInv'
  <2>1. state[t] = "condwait" => t \in Timed
    BY <1>5 DEF Interrupt, Undisturbed, MutexInv, Roles, CondStates
  <2> QED BY <1>5, <2>1, WaitEndsWakes DEF Interrupt
<1>6. ASSUME NEW t \in Threads, Continues(t)
      PROVE  WakeupInv'
  BY <1>2, <1>3, <1>6, LockReturnsWakes, UnlockWakes, CondWaitWakes, CondTakeWakes,
     CondTimedWaitWakes, CondResumesWakes, ReacquireWakes, ReacquiredWakes, SignalPostsWakes,
     BroadcastPostsWakes, ConsumeWakes, ProduceWakes DEF Continues
<1> QED BY <1>1, <1>4, <1>5, <1>6, LockWakes, RelockWakes, HandlerSignalsWakes DEF Next

\* Those that serve are the consumers and the producers NoLostWakeup counts.
LEMMA EnoughServe ==
  ASSUME MutexInv, WakeupInv
  PROVE  NoLostWakeup
<1> DEFINE C == {t \in Consumers : Woken(t)}
           P == {t \in Producers : state[t] \in {"produced", "signal", "broadcast"}}
<1>1. Serving = C \union P
  <2>1. \A t \in Consumers : Served(t) <=> Woken(t)
    BY DEF Served, Woken, Coming
  <2>2. \A t \in Producers : t \notin Consumers /\ (Served(t) <=> state[t] \in {"produced", "signal", "broadcast"})
    BY ConstantsAssumption DEF Served, Posting, ConstantsAssumption
  <2> QED BY <2>1, <2>2 DEF Serving, Threads
<1>2. C \intersect P = {}
  BY ConstantsAssumption DEF ConstantsAssumption
<1>3. IsFiniteSet(C) /\ IsFiniteSet(P)
  BY ConstantsAssumption, FS_Subset DEF ConstantsAssumption, Threads
<1> HIDE DEF C, P
<1>4. Cardinality(C) \in Nat /\ Cardinality(P) \in Nat /\ Cardinality({}) = 0
  BY <1>3, FS_CardinalityType, FS_EmptySet
<1>5. Cardinality(C \union P) = Cardinality(C) + Cardinality(P) - Cardinality(C \intersect P)
  BY <1>3, FS_Union
<1>6. Cardinality(Serving) = Cardinality(C) + Cardinality(P)
  <2>1. Cardinality(C \intersect P) = 0
    BY <1>2, <1>4
  <2>2. Cardinality(Serving) = Cardinality(C \union P)
    BY <1>1
  <2> QED BY <1>4, <1>5, <2>1, <2>2
<1>7. Waiting("cond") # {} => Sleepers > 0
  <2>1. Sleepers \in Nat /\ (Sleepers = 0 <=> \A u \in Threads : state[u] \notin CondWaits)
    BY CountType DEF Sleepers
  <2>2. Waiting("cond") # {} => Sleepers # 0
    BY <2>1, WaitingSets
  <2> QED BY <2>1, <2>2
<1> QED BY <1>6, <1>7 DEF WakeupInv, Enough, NoLostWakeup, C, P

\* Both invariants hold always.
THEOREM WakeupInvariance ==
  ASSUME Usage, Undisturbed
  PROVE  Spec => [](MutexInv /\ WakeupInv)
<1>1. Init => MutexInv /\ WakeupInv
  BY InitMutexInv, InitWakeupInv
<1>2. (MutexInv /\ WakeupInv) /\ [Next]_vars => (MutexInv /\ WakeupInv)'
  BY NextMutexInv, NextWakeupInv
<1> QED BY <1>1, <1>2, PTL DEF Spec

\* No wake-up of pthread_cond_signal or pthread_cond_broadcast is lost: while a consumer
\* sleeps in pthread_cond_wait or pthread_cond_timedwait, there are no more items than
\* consumers that were woken for them or are to look, and producers that are to signal them.
THEOREM NoWakeupLost ==
  ASSUME Usage, Undisturbed
  PROVE  Spec => []NoLostWakeup
BY EnoughServe, WakeupInvariance, PTL
=============================================================================
