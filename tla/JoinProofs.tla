----------------------------- MODULE JoinProofs -----------------------------
(***************************************************************************)
(* The proofs about Join, for any number of threads that join and for any  *)
(* waits that signals may interrupt.  As pthread_join and pthread_detach   *)
(* require of their callers, nobody knows the thread before pthread_create *)
(* has returned (Early = {}) and nobody detaches a thread that others join *)
(* (Mixed = FALSE).                                                        *)
(*                                                                         *)
(* The inductive invariant ties the three counters to the callers: crefs   *)
(* is the number of callers that hold a pointer, tg_joinsem lacks one      *)
(* count for each thread that holds or awaits it, and exit_sem one for     *)
(* each joiner until the thread has exited.                                *)
(***************************************************************************)
EXTENDS Join, FiniteSetTheorems, TLAPS

-----------------------------------------------------------------------------
(* Counting callers.                                                       *)

Count(st, P) == Cardinality({u \in Callers : st[u] \in P})
Bit(x, P) == IF x \in P THEN 1 ELSE 0

\* There are finitely many callers.
LEMMA CallersFinite == IsFiniteSet(Callers)
BY ConstantsAssumption, FS_Singleton, FS_Union DEF Callers, ConstantsAssumption

\* The creator is one of them.
LEMMA CreatorCalls == Creator \in Callers
BY DEF Callers

\* A count of callers is a number, and 0 only if there are none.
LEMMA CountType ==
  ASSUME NEW f, NEW P
  PROVE  /\ Count(f, P) \in Nat
         /\ Count(f, P) = 0 <=> \A u \in Callers : f[u] \notin P
<1> DEFINE A == {u \in Callers : f[u] \in P}
<1>1. IsFiniteSet(A)
  BY CallersFinite, FS_Subset
<1>2. Cardinality(A) \in Nat /\ (Cardinality(A) = 0 <=> A = {})
  BY <1>1, FS_CardinalityType, FS_EmptySet
<1> QED BY <1>2 DEF Count

\* When all callers but t stay in P or out of it, the count changes with t alone.
LEMMA CountMove ==
  ASSUME NEW f, NEW g, NEW P, NEW t \in Callers,
         \A u \in Callers : u # t => (f[u] \in P <=> g[u] \in P)
  PROVE  Count(g, P) = Count(f, P) + Bit(g[t], P) - Bit(f[t], P)
<1> DEFINE A == {u \in Callers : f[u] \in P}
           B == {u \in Callers : g[u] \in P}
<1>1. IsFiniteSet(A) /\ IsFiniteSet(B) /\ Cardinality(A) \in Nat /\ Cardinality(B) \in Nat
  BY CallersFinite, FS_Subset, FS_CardinalityType
<1>2. CASE f[t] \in P /\ g[t] \notin P
  <2>1. B = A \ {t} /\ t \in A
    BY <1>2
  <2>2. Cardinality(B) = Cardinality(A) - 1
    BY <1>1, <2>1, FS_RemoveElement
  <2> QED BY <1>1, <1>2, <2>2 DEF Count, Bit
<1>3. CASE f[t] \notin P /\ g[t] \in P
  <2>1. A = B \ {t} /\ t \in B
    BY <1>3
  <2>2. Cardinality(A) = Cardinality(B) - 1
    BY <1>1, <2>1, FS_RemoveElement
  <2> QED BY <1>1, <1>3, <2>2 DEF Count, Bit
<1>4. CASE f[t] \in P <=> g[t] \in P
  <2>1. A = B
    BY <1>4
  <2>2. Bit(g[t], P) = Bit(f[t], P) /\ Bit(f[t], P) \in {0, 1}
    BY <1>4 DEF Bit
  <2>3. Count(g, P) = Count(f, P) /\ Count(f, P) \in Nat
    BY <1>1, <2>1 DEF Count
  <2> QED BY <2>2, <2>3
<1> QED BY <1>2, <1>3, <1>4

-----------------------------------------------------------------------------
(* The inductive invariant.                                                *)

\* A caller in one of these states has a reference that crefs counts, ...
Refs == {"exitwait", "exited", "retakewait", "release", "exitintr", "retakeintr"}
\* ... holds tg_joinsem or waits for it, ...
Locks == {"joinwait", "lookup", "retakewait", "release", "detachwait", "detach"}
\* ... holds it, ...
Holds == {"lookup", "release", "detach"}
\* ... waits for exit_sem, ...
ExitWaits == {"exitwait"}
\* ... was woken by the exit of the thread, ...
Woken == {"exited", "retakewait", "release", "retakeintr"}
\* ... has read the exit value and not yet returned, ...
Returning == {"retakewait", "release", "retakeintr"}
\* ... detaches, ...
Detaches == {"detachwait", "detach", "detachintr"}
\* ... is in pthread_create.
Creates == {"startwait", "started", "destroysem"}

ChildHolds == {"exiting", "posts", "takes", "datawait", "leaves"}
Terminated == {"posts", "takes", "datawait", "leaves", "gone"}

\* The counts of the three semaphores, and the fields of the join structure.
Semaphores == [joinsem : Int, exit_sem : Int, data_sem : Int]
Structure == [crefs : Int, detached : BOOLEAN, terminated : BOOLEAN]

Types ==
  /\ listed \in BOOLEAN /\ freed \in BOOLEAN /\ waiters \in BOOLEAN
  /\ join \in Structure
  /\ sem \in Semaphores
  /\ child \in ChildState
  /\ state \in [Callers -> CallerState]
  /\ got \in [Callers -> {"nothing", "value", "detached"}]

Counters ==
  /\ join.crefs = Count(state, Refs)
  /\ sem.joinsem = 1 - Count(state, Locks) - Bit(child, ChildHolds \union {"exitwait"})
  /\ ~ join.terminated => sem.exit_sem = 0 - Count(state, ExitWaits)

Exclusion ==
  /\ \A t, u \in Callers : state[t] \in Holds /\ state[u] \in Holds => t = u
  /\ child \in ChildHolds => \A t \in Callers : state[t] \notin Holds

Life ==
  /\ join.terminated <=> child \in Terminated
  /\ \A t \in Callers : state[t] \in Woken => join.terminated
  /\ listed <=> child # "new" /\ ~ freed
  /\ freed => join.crefs = 0 /\ child = "gone" /\ \E t \in Callers : got[t] # "nothing"

Results ==
  /\ \A t \in Callers : state[t] \in Returning => got[t] = "value"
  /\ \A t \in Callers : got[t] # "nothing" => state[t] \in Returning \union {"done"}
  /\ listed /\ (\E t \in Callers : got[t] = "value") => join.crefs > 0

Creation ==
  /\ child = "new" <=> state[Creator] = "startwait"
  /\ \A t \in Callers : t # Creator => state[t] \notin Creates
  /\ state[Creator] \in Creates =>
       /\ \A t \in Callers : t # Creator => state[t] = "idle"
       /\ \A t \in Callers : got[t] = "nothing"

Detachment ==
  /\ (\E t \in Callers : got[t] = "detached" \/ state[t] \in Detaches) =>
       \A u \in Callers : \/ state[u] \in Detaches \union {"idle"} /\ got[u] = "nothing"
                          \/ state[u] = "done" /\ got[u] = "detached"
  /\ join.detached => /\ ~ (join.terminated /\ waiters)
                      /\ \E t \in Callers : got[t] = "detached"
  /\ listed /\ (\E t \in Callers : got[t] = "detached") => join.detached /\ child # "gone"

\* What callers must not do.
Usage == Early = {} /\ Mixed = FALSE

IInv ==
  /\ Types
  /\ Counters
  /\ Exclusion
  /\ Life
  /\ Results
  /\ Creation
  /\ Detachment

\* The states, and what the records of Join say about them.
LEMMA Records ==
  /\ DOMAIN Waits = {"joinwait", "exitwait", "retakewait", "detachwait"}
  /\ Waits["joinwait"] = "joinsem" /\ Waits["exitwait"] = "exit_sem"
  /\ Waits["retakewait"] = "joinsem" /\ Waits["detachwait"] = "joinsem"
  /\ Given["joinwait"] = "lookup" /\ Given["exitwait"] = "exited"
  /\ Given["retakewait"] = "release" /\ Given["detachwait"] = "detach"
  /\ Ended["joinwait"] = "joinintr" /\ Ended["exitwait"] = "exitintr"
  /\ Ended["retakewait"] = "retakeintr" /\ Ended["detachwait"] = "detachintr"
BY DEF Waits, Given, Ended

\* Who waits for tg_joinsem, and for exit_sem.
LEMMA WaitingSets ==
  /\ Waiting("joinsem") = {t \in Callers : state[t] \in {"joinwait", "retakewait", "detachwait"}}
  /\ Waiting("exit_sem") = {t \in Callers : state[t] = "exitwait"}
BY Records DEF Waiting

\* The invariant holds at the start.
LEMMA InitIInv == Init => IInv
<1> SUFFICES ASSUME Init PROVE IInv
  OBVIOUS
<1>1. \A t \in Callers : state[t] \in {"startwait", "idle"} /\ got[t] = "nothing"
  BY DEF Init
<1>2. state[Creator] = "startwait" /\ (\A t \in Callers : t # Creator => state[t] = "idle")
  BY DEF Init, Callers
<1>3. Types
  <2>1. state \in [Callers -> CallerState] /\ got \in [Callers -> {"nothing", "value", "detached"}]
    BY DEF Init, CallerState
  <2>2. join \in Structure /\ sem \in Semaphores
    BY DEF Init, Structure, Semaphores
  <2> QED BY <2>1, <2>2 DEF Init, Types, ChildState
<1>4. Counters
  <2>1. Count(state, Refs) = 0 /\ Count(state, Locks) = 0 /\ Count(state, ExitWaits) = 0
    BY <1>1, CountType DEF Refs, Locks, ExitWaits
  <2> QED BY <2>1 DEF Init, Counters, Bit, ChildHolds
<1>5. Exclusion /\ Life /\ Results
  BY <1>1 DEF Init, Exclusion, Life, Results, Holds, ChildHolds, Terminated, Woken, Returning
<1>6. Creation /\ Detachment
  BY <1>1, <1>2 DEF Init, Creation, Detachment, Creates, Detaches
<1> QED BY <1>3, <1>4, <1>5, <1>6 DEF IInv

-----------------------------------------------------------------------------
(* Steps of one caller.                                                    *)

\* A caller stays where the counts and the exclusion see it.
Stays(u) ==
  /\ state'[u] \in Refs <=> state[u] \in Refs
  /\ state'[u] \in Locks <=> state[u] \in Locks
  /\ state'[u] \in ExitWaits <=> state[u] \in ExitWaits

\* How the counters change when t moves and the others stay.
LEMMA CountsMove ==
  ASSUME NEW t \in Callers, \A u \in Callers : u # t => Stays(u)
  PROVE  /\ Count(state, Refs) \in Nat /\ Count(state, Locks) \in Nat /\ Count(state, ExitWaits) \in Nat
         /\ Count(state', Refs) = Count(state, Refs) + Bit(state'[t], Refs) - Bit(state[t], Refs)
         /\ Count(state', Locks) = Count(state, Locks) + Bit(state'[t], Locks) - Bit(state[t], Locks)
         /\ Count(state', ExitWaits)
              = Count(state, ExitWaits) + Bit(state'[t], ExitWaits) - Bit(state[t], ExitWaits)
<1>1. /\ \A u \in Callers : u # t => (state[u] \in Refs <=> state'[u] \in Refs)
      /\ \A u \in Callers : u # t => (state[u] \in Locks <=> state'[u] \in Locks)
      /\ \A u \in Callers : u # t => (state[u] \in ExitWaits <=> state'[u] \in ExitWaits)
  BY DEF Stays
<1>2. Count(state', Refs) = Count(state, Refs) + Bit(state'[t], Refs) - Bit(state[t], Refs)
  BY <1>1, CountMove
<1>3. Count(state', Locks) = Count(state, Locks) + Bit(state'[t], Locks) - Bit(state[t], Locks)
  BY <1>1, CountMove
<1>4. Count(state', ExitWaits)
        = Count(state, ExitWaits) + Bit(state'[t], ExitWaits) - Bit(state[t], ExitWaits)
  BY <1>1, CountMove
<1> QED BY <1>2, <1>3, <1>4, CountType

\* t alone moves, to x.
Moves(t, x) ==
  /\ state' \in [Callers -> CallerState]
  /\ state'[t] = x
  /\ \A u \in Callers : u # t => state'[u] = state[u] /\ Stays(u)

\* An assignment to the state of one caller.
LEMMA MoveFacts ==
  ASSUME Types, NEW t \in Callers, NEW x \in CallerState, state' = [state EXCEPT ![t] = x]
  PROVE  Moves(t, x)
BY DEF Types, Moves, Stays

\* tg_joinsem is given and exit_sem taken in one step.
LEMMA LockAndExit ==
  ASSUME Types, sem' = [sem EXCEPT !.joinsem = @ + 1, !.exit_sem = @ - 1]
  PROVE  sem' \in Semaphores /\ sem'.joinsem = sem.joinsem + 1 /\ sem'.exit_sem = sem.exit_sem - 1
<1> DEFINE r == [sem EXCEPT !.joinsem = @ + 1]
<1>1. /\ r \in Semaphores /\ r.joinsem = sem.joinsem + 1 /\ r.exit_sem = sem.exit_sem
      /\ sem' = [r EXCEPT !.exit_sem = @ - 1]
  BY DEF Types, Semaphores
<1> HIDE DEF r
<1> QED BY <1>1 DEF Semaphores

\* tg_joinsem is taken and data_sem given in one step.
LEMMA LockAndData ==
  ASSUME Types, sem' = [sem EXCEPT !.joinsem = @ - 1, !.data_sem = @ + 1]
  PROVE  sem' \in Semaphores /\ sem'.joinsem = sem.joinsem - 1 /\ sem'.exit_sem = sem.exit_sem
<1> DEFINE r == [sem EXCEPT !.joinsem = @ - 1]
<1>1. /\ r \in Semaphores /\ r.joinsem = sem.joinsem - 1 /\ r.exit_sem = sem.exit_sem
      /\ sem' = [r EXCEPT !.data_sem = @ + 1]
  BY DEF Types, Semaphores
<1> HIDE DEF r
<1> QED BY <1>1 DEF Semaphores

\* One more reference, or one less.
LEMMA CrefsChange ==
  ASSUME NEW j \in Structure, NEW c \in Int
  PROVE  /\ [j EXCEPT !.crefs = c] \in Structure
         /\ [j EXCEPT !.crefs = c].crefs = c
         /\ [j EXCEPT !.crefs = c].terminated = j.terminated
         /\ [j EXCEPT !.crefs = c].detached = j.detached
BY DEF Structure

\* When the count of tg_joinsem is positive, nobody holds it or waits for it.
LEMMA FreeLock ==
  ASSUME IInv, sem.joinsem > 0
  PROVE  child \notin ChildHolds /\ child # "exitwait" /\ \A t \in Callers : state[t] \notin Locks
<1>1. Count(state, Locks) \in Nat
  BY CountType
<1>2. Bit(child, ChildHolds \union {"exitwait"}) \in {0, 1}
  BY DEF Bit
<1>3. sem.joinsem = 1 - Count(state, Locks) - Bit(child, ChildHolds \union {"exitwait"})
  BY DEF IInv, Counters
<1>4. Count(state, Locks) = 0 /\ Bit(child, ChildHolds \union {"exitwait"}) = 0
  BY <1>1, <1>2, <1>3
<1>5. child \notin ChildHolds \union {"exitwait"}
  BY <1>4 DEF Bit
<1> QED BY <1>4, <1>5, CountType

\* pthread_takesemaphore for tg_joinsem: the lock is held by one thread.
LEMMA TakeLock ==
  ASSUME IInv, NEW t \in Callers, NEW w \in {"joinwait", "retakewait", "detachwait"},
         Take(t, "joinsem", w), state[t] \notin Locks, UNCHANGED child
  PROVE  /\ Moves(t, Given[w]) \/ Moves(t, w)
         /\ sem' = [sem EXCEPT !.joinsem = @ - 1]
         /\ Exclusion'
<1>1. w \in CallerState /\ Given[w] \in CallerState /\ Given[w] \in Holds /\ w \notin Holds
  BY Records DEF CallerState, Holds
<1>2. sem' = [sem EXCEPT !.joinsem = @ - 1]
      /\ state' = [state EXCEPT ![t] = IF sem.joinsem > 0 THEN Given[w] ELSE w]
  BY DEF Take
<1>3. CASE sem.joinsem > 0
  <2>1. Moves(t, Given[w])
    BY <1>1, <1>2, <1>3, MoveFacts DEF IInv
  <2>2. child \notin ChildHolds /\ \A u \in Callers : state[u] \notin Holds
    BY <1>3, FreeLock DEF Locks, Holds
  <2>3. Exclusion'
    BY <2>1, <2>2 DEF Moves, Exclusion
  <2> QED BY <1>2, <2>1, <2>3
<1>4. CASE ~ (sem.joinsem > 0)
  <2>1. Moves(t, w)
    BY <1>1, <1>2, <1>4, MoveFacts DEF IInv
  <2>2. Exclusion'
    BY <1>1, <2>1 DEF Moves, IInv, Exclusion
  <2> QED BY <1>2, <2>1, <2>2
<1> QED BY <1>3, <1>4

-----------------------------------------------------------------------------
(* The actions.                                                            *)

\* A signal ends the wait of t, which gives back the count it had taken.
LEMMA InterruptStep == ASSUME IInv, NEW t \in Callers, Interrupt(t) PROVE IInv'
<1> USE DEF Semaphores, Structure, Refs, Locks, Holds, ExitWaits, Woken, Returning, Detaches,
            Creates, ChildHolds, Terminated
<1>1. UNCHANGED <<listed, freed, join, child, waiters, got>>
  BY DEF Interrupt
<1>2. state[t] \in {"joinwait", "exitwait", "retakewait", "detachwait"}
  BY Records, ConstantsAssumption DEF Interrupt, ConstantsAssumption
<1>3. /\ state[t] = "exitwait" => state'[t] = "exitintr"
      /\ state[t] = "joinwait" => state'[t] = "joinintr"
      /\ state[t] = "retakewait" => state'[t] = "retakeintr"
      /\ state[t] = "detachwait" => state'[t] = "detachintr"
      /\ Moves(t, state'[t])
  <2>1. Ended[state[t]] \in CallerState /\ state' = [state EXCEPT ![t] = Ended[state[t]]]
    BY <1>2, Records DEF Interrupt, CallerState
  <2>2. Moves(t, Ended[state[t]])
    BY <2>1, MoveFacts DEF IInv
  <2> QED BY <1>2, <2>2, Records DEF Moves
<1>4. /\ sem' \in Semaphores
      /\ state[t] = "exitwait" => sem'.exit_sem = sem.exit_sem + 1 /\ sem'.joinsem = sem.joinsem
      /\ state[t] # "exitwait" => sem'.joinsem = sem.joinsem + 1 /\ sem'.exit_sem = sem.exit_sem
  BY <1>2, Records DEF Interrupt, IInv, Types
<1>5. Types'
  BY <1>1, <1>3, <1>4 DEF IInv, Types, Moves
<1>6. Counters'
  <2>1. \A u \in Callers : u # t => Stays(u)
    BY <1>3 DEF Moves
  <2> QED BY <1>1, <1>2, <1>3, <1>4, <2>1, CountsMove DEF IInv, Counters, Types, Bit
<1>7. Exclusion'
  BY <1>1, <1>2, <1>3 DEF IInv, Exclusion, Moves
<1>8. Life' /\ Results'
  BY <1>1, <1>2, <1>3 DEF IInv, Life, Results, Moves
<1>9. Creation'
  BY <1>1, <1>2, <1>3, CreatorCalls DEF IInv, Creation, Moves
<1>10. Detachment'
  BY <1>1, <1>2, <1>3 DEF IInv, Detachment, Moves
<1> QED BY <1>5, <1>6, <1>7, <1>8, <1>9, <1>10 DEF IInv

\* After the signal t waits again, or is given the count at once.
LEMMA WaitsAgainStep == ASSUME IInv, NEW t \in Callers, WaitsAgain(t) PROVE IInv'
<1> USE DEF Semaphores, Structure, Refs, Locks, Holds, ExitWaits, Woken, Returning, Detaches,
            Creates, ChildHolds, Terminated
<1>1. UNCHANGED <<listed, freed, join, child, waiters, got>>
  BY DEF WaitsAgain
<1>2. PICK w \in {"joinwait", "exitwait", "retakewait", "detachwait"} :
        state[t] = Ended[w] /\ Take(t, Waits[w], w)
  BY Records DEF WaitsAgain
<1>3. CASE w # "exitwait"
  <2>1. Take(t, "joinsem", w) /\ w \in {"joinwait", "retakewait", "detachwait"} /\ state[t] \notin Locks
    BY <1>2, <1>3, Records
  <2>2. /\ Moves(t, Given[w]) \/ Moves(t, w)
        /\ sem' = [sem EXCEPT !.joinsem = @ - 1]
        /\ Exclusion'
    BY <1>1, <2>1, TakeLock
  <2>3. /\ state[t] = "joinintr" => state'[t] \in {"joinwait", "lookup"}
        /\ state[t] = "retakeintr" => state'[t] \in {"retakewait", "release"}
        /\ state[t] = "detachintr" => state'[t] \in {"detachwait", "detach"}
        /\ state[t] \in {"joinintr", "retakeintr", "detachintr"}
        /\ Moves(t, state'[t])
    BY <1>2, <2>1, <2>2, Records DEF Moves
  <2>4. /\ sem' \in Semaphores
        /\ sem'.joinsem = sem.joinsem - 1 /\ sem'.exit_sem = sem.exit_sem
    BY <2>2 DEF IInv, Types
  <2>5. Types'
    BY <1>1, <2>3, <2>4 DEF IInv, Types, Moves
  <2>6. Counters'
    <3>1. \A u \in Callers : u # t => Stays(u)
      BY <2>3 DEF Moves
    <3> QED BY <1>1, <2>3, <2>4, <3>1, CountsMove DEF IInv, Counters, Types, Bit
  <2>7. Life' /\ Results'
    BY <1>1, <2>3 DEF IInv, Life, Results, Moves
  <2>8. Creation'
    BY <1>1, <2>3, CreatorCalls DEF IInv, Creation, Moves
  <2>9. Detachment'
    BY <1>1, <2>3 DEF IInv, Detachment, Moves
  <2> QED BY <2>2, <2>5, <2>6, <2>7, <2>8, <2>9 DEF IInv
<1>4. CASE w = "exitwait"
  <2>1. /\ state[t] = "exitintr"
        /\ sem' = [sem EXCEPT !.exit_sem = @ - 1]
        /\ state' = [state EXCEPT ![t] = IF sem.exit_sem > 0 THEN "exited" ELSE "exitwait"]
    BY <1>2, <1>4, Records DEF Take
  <2>2. /\ sem' \in Semaphores
        /\ sem'.joinsem = sem.joinsem /\ sem'.exit_sem = sem.exit_sem - 1
    BY <2>1 DEF IInv, Types
  <2>3. ~ join.terminated => sem.exit_sem <= 0
    BY CountType DEF IInv, Counters, Types
  <2>4. /\ state'[t] = "exitwait" \/ (state'[t] = "exited" /\ join.terminated)
        /\ Moves(t, state'[t])
    <3>1. CASE sem.exit_sem > 0
      <4>1. Moves(t, "exited")
        BY <2>1, <3>1, MoveFacts DEF IInv, CallerState
      <4> QED BY <2>2, <2>3, <3>1, <4>1 DEF Moves, IInv, Types
    <3>2. CASE ~ (sem.exit_sem > 0)
      <4>1. Moves(t, "exitwait")
        BY <2>1, <3>2, MoveFacts DEF IInv, CallerState
      <4> QED BY <4>1 DEF Moves
    <3> QED BY <3>1, <3>2
  <2>5. Types'
    BY <1>1, <2>2, <2>4 DEF IInv, Types, Moves
  <2>6. Counters'
    <3>1. \A u \in Callers : u # t => Stays(u)
      BY <2>4 DEF Moves
    <3>2. /\ Count(state', Refs) = Count(state, Refs) /\ Count(state', Locks) = Count(state, Locks)
          /\ ~ join.terminated => Count(state', ExitWaits) = Count(state, ExitWaits) + 1
          /\ Count(state, ExitWaits) \in Nat
      <4>1. state'[t] = "exitwait" \/ state'[t] = "exited"
        BY <2>4
      <4>2. /\ Count(state', Refs) = Count(state, Refs) /\ Count(state', Locks) = Count(state, Locks)
            /\ state'[t] = "exitwait" => Count(state', ExitWaits) = Count(state, ExitWaits) + 1
            /\ Count(state, ExitWaits) \in Nat
        <5>1. /\ Bit(state'[t], Refs) = 1 /\ Bit(state[t], Refs) = 1
              /\ Bit(state'[t], Locks) = 0 /\ Bit(state[t], Locks) = 0 /\ Bit(state[t], ExitWaits) = 0
              /\ state'[t] = "exitwait" => Bit(state'[t], ExitWaits) = 1
          BY <2>1, <4>1 DEF Bit
        <5> HIDE DEF Refs, Locks, ExitWaits
        <5> QED BY <3>1, <5>1, CountsMove
      <4> QED BY <2>4, <4>2
    <3> QED BY <1>1, <2>2, <3>2 DEF IInv, Counters, Types
  <2>7. Exclusion'
    BY <1>1, <2>4 DEF IInv, Exclusion, Moves
  <2>8. Life' /\ Results'
    BY <1>1, <2>1, <2>4 DEF IInv, Life, Results, Moves
  <2>9. Creation'
    BY <1>1, <2>1, <2>4, CreatorCalls DEF IInv, Creation, Moves
  <2>10. Detachment'
    BY <1>1, <2>1, <2>4 DEF IInv, Detachment, Moves
  <2> QED BY <2>5, <2>6, <2>7, <2>8, <2>9, <2>10 DEF IInv
<1> QED BY <1>3, <1>4

\* pthread_join asks for tg_joinsem.
LEMMA JoinStep == ASSUME Usage, IInv, NEW t \in Callers, Join(t) PROVE IInv'
<1> USE DEF Semaphores, Structure, Refs, Locks, Holds, ExitWaits, Woken, Returning, Detaches,
            Creates, ChildHolds, Terminated
<1>1. UNCHANGED <<listed, freed, join, child, waiters, got>> /\ state[t] = "idle"
  BY DEF Join
<1>2. /\ Moves(t, Given["joinwait"]) \/ Moves(t, "joinwait")
      /\ sem' = [sem EXCEPT !.joinsem = @ - 1]
      /\ Exclusion'
  BY <1>1, TakeLock DEF Join
<1>3. state'[t] \in {"joinwait", "lookup"} /\ Moves(t, state'[t])
  BY <1>2, Records DEF Moves
<1>4. /\ sem' \in Semaphores
      /\ sem'.joinsem = sem.joinsem - 1 /\ sem'.exit_sem = sem.exit_sem
  BY <1>2 DEF IInv, Types
<1>5. Types'
  BY <1>1, <1>3, <1>4 DEF IInv, Types, Moves
<1>6. Counters'
  <2>1. \A u \in Callers : u # t => Stays(u)
    BY <1>3 DEF Moves
  <2> QED BY <1>1, <1>3, <1>4, <2>1, CountsMove DEF IInv, Counters, Types, Bit
<1>7. Life' /\ Results'
  BY <1>1, <1>3 DEF IInv, Life, Results, Moves
<1>8. child # "new" /\ state[Creator] \notin Creates
  BY CreatorCalls DEF Join, Knows, Usage, IInv, Creation
<1>9. Creation'
  BY <1>1, <1>3, <1>8, CreatorCalls DEF IInv, Creation, Moves
<1>10. Detachment'
  <2>1. \A u \in Callers : got[u] # "detached" /\ state[u] \notin Detaches
    BY DEF Join, MayJoin, Usage
  <2> QED BY <1>1, <1>3, <2>1 DEF IInv, Detachment, Moves
<1> QED BY <1>2, <1>5, <1>6, <1>7, <1>9, <1>10 DEF IInv

\* pthread_detach asks for tg_joinsem.
LEMMA DetachStep == ASSUME Usage, IInv, NEW t \in Callers, Detach(t) PROVE IInv'
<1> USE DEF Semaphores, Structure, Refs, Locks, Holds, ExitWaits, Woken, Returning, Detaches,
            Creates, ChildHolds, Terminated
<1>1. UNCHANGED <<listed, freed, join, child, waiters, got>> /\ state[t] = "idle"
  BY DEF Detach
<1>2. /\ Moves(t, Given["detachwait"]) \/ Moves(t, "detachwait")
      /\ sem' = [sem EXCEPT !.joinsem = @ - 1]
      /\ Exclusion'
  BY <1>1, TakeLock DEF Detach
<1>3. state'[t] \in {"detachwait", "detach"} /\ Moves(t, state'[t])
  BY <1>2, Records DEF Moves
<1>4. /\ sem' \in Semaphores
      /\ sem'.joinsem = sem.joinsem - 1 /\ sem'.exit_sem = sem.exit_sem
  BY <1>2 DEF IInv, Types
<1>5. Types'
  BY <1>1, <1>3, <1>4 DEF IInv, Types, Moves
<1>6. Counters'
  <2>1. \A u \in Callers : u # t => Stays(u)
    BY <1>3 DEF Moves
  <2> QED BY <1>1, <1>3, <1>4, <2>1, CountsMove DEF IInv, Counters, Types, Bit
<1>7. Life' /\ Results'
  BY <1>1, <1>3 DEF IInv, Life, Results, Moves
<1>8. child # "new" /\ state[Creator] \notin Creates
  BY CreatorCalls DEF Detach, Knows, Usage, IInv, Creation
<1>9. Creation'
  BY <1>1, <1>3, <1>8, CreatorCalls DEF IInv, Creation, Moves
<1>10. \A u \in Callers : \/ state[u] \in Detaches \union {"idle"} /\ got[u] = "nothing"
                          \/ state[u] = "done" /\ got[u] = "detached"
  <2>1. \A u \in Callers : got[u] = "detached" \/ state[u] \in Detaches \union {"idle"} \union Creates
    BY DEF Detach, MayDetach, Usage
  <2>2. \A u \in Callers : state[u] \notin Creates
    BY <1>8 DEF IInv, Creation
  <2> QED BY <2>1, <2>2 DEF IInv, Results, Types
<1>11. Detachment'
  BY <1>1, <1>3, <1>10 DEF IInv, Detachment, Moves
<1> QED BY <1>2, <1>5, <1>6, <1>7, <1>9, <1>11 DEF IInv

\* pthread_create looks at the thread's state, and destroys data_sem.
LEMMA CreateStep == ASSUME IInv, CreateChecks \/ CreateReturns PROVE IInv'
<1> USE DEF Semaphores, Structure, Refs, Locks, Holds, ExitWaits, Woken, Returning, Detaches,
            Creates, ChildHolds, Terminated
<1>1. UNCHANGED <<listed, freed, join, child, waiters, got>>
  BY DEF CreateChecks, CreateReturns
<1>2. /\ state[Creator] \in {"started", "destroysem"}
      /\ state' = [state EXCEPT ![Creator] = "destroysem"] \/ state' = [state EXCEPT ![Creator] = "idle"]
  BY DEF CreateChecks, CreateReturns
<1>3. state'[Creator] \in {"destroysem", "idle"} /\ Moves(Creator, state'[Creator])
  <2>1. Moves(Creator, "destroysem") \/ Moves(Creator, "idle")
    BY <1>2, CreatorCalls, MoveFacts DEF IInv, CallerState
  <2> QED BY <2>1 DEF Moves
<1>4. /\ sem' \in Semaphores
      /\ sem'.joinsem = sem.joinsem /\ sem'.exit_sem = sem.exit_sem
  BY DEF IInv, Types, CreateChecks, CreateReturns
<1>5. Types'
  BY <1>1, <1>3, <1>4 DEF IInv, Types, Moves
<1>6. Counters'
  <2>1. \A u \in Callers : u # Creator => Stays(u)
    BY <1>3 DEF Moves
  <2> QED BY <1>1, <1>2, <1>3, <1>4, <2>1, CreatorCalls, CountsMove DEF IInv, Counters, Types, Bit
<1>7. Exclusion' /\ Life' /\ Results'
  <2>1. Exclusion'
    BY <1>1, <1>3, CreatorCalls DEF IInv, Exclusion, Moves
  <2>2. Life'
    BY <1>1, <1>3, CreatorCalls DEF IInv, Life, Moves
  <2>3. Results'
    BY <1>1, <1>2, <1>3, CreatorCalls DEF IInv, Creation, Results, Moves
  <2> QED BY <2>1, <2>2, <2>3
<1>8. Creation'
  BY <1>1, <1>2, <1>3, CreatorCalls DEF IInv, Creation, Moves
<1>9. Detachment'
  BY <1>1, <1>2, <1>3, CreatorCalls DEF IInv, Detachment, Creation, Moves
<1> QED BY <1>5, <1>6, <1>7, <1>8, <1>9 DEF IInv

\* The thread starts and registers itself.
LEMMA StartStep == ASSUME IInv, Start PROVE IInv'
<1> USE DEF Semaphores, Structure, Refs, Locks, Holds, ExitWaits, Woken, Returning, Detaches,
            Creates, ChildHolds, Terminated
<1>1. UNCHANGED <<freed, join, waiters, got>> /\ listed' = TRUE /\ child = "new" /\ child' = "runs"
  BY DEF Start
<1>2. state[Creator] = "startwait" /\ Moves(Creator, "started") /\ state'[Creator] = "started"
  BY CreatorCalls, MoveFacts DEF Start, IInv, Creation, CallerState, Moves
<1>3. /\ sem' \in Semaphores
      /\ sem'.joinsem = sem.joinsem /\ sem'.exit_sem = sem.exit_sem
  BY DEF IInv, Types, Start
<1>4. Types'
  BY <1>1, <1>2, <1>3 DEF IInv, Types, Moves, ChildState
<1>5. Counters'
  <2>1. \A u \in Callers : u # Creator => Stays(u)
    BY <1>2 DEF Moves
  <2> QED BY <1>1, <1>2, <1>3, <2>1, CreatorCalls, CountsMove DEF IInv, Counters, Types, Bit
<1>6. \A t \in Callers : got[t] = "nothing"
  BY <1>2 DEF IInv, Creation
<1>7. Exclusion' /\ Life' /\ Results'
  BY <1>1, <1>2, <1>6, CreatorCalls DEF IInv, Exclusion, Life, Results, Moves
<1>8. Creation'
  BY <1>1, <1>2, <1>6, CreatorCalls DEF IInv, Creation, Moves
<1>9. Detachment'
  BY <1>1, <1>2, <1>6, CreatorCalls DEF IInv, Detachment, Creation, Moves
<1> QED BY <1>4, <1>5, <1>7, <1>8, <1>9 DEF IInv

-----------------------------------------------------------------------------
(* Steps that give tg_joinsem up.                                          *)

\* Whoever gives tg_joinsem up, in the states st, hands it to at most one thread,
\* which waited for it.
Handed(st) ==
  /\ state' \in [Callers -> CallerState]
  /\ child' = child \/ (child = "exitwait" /\ child' = "exiting" /\ state' = st)
  /\ \A u \in Callers :
       \/ state'[u] = st[u]
       \/ /\ st[u] = state[u] /\ child' = child
          /\ \/ state[u] = "joinwait" /\ state'[u] = "lookup"
             \/ state[u] = "retakewait" /\ state'[u] = "release"
             \/ state[u] = "detachwait" /\ state'[u] = "detach"
          /\ \A v \in Callers : v # u => state'[v] = st[v]

\* The three ways of HandOver.
LEMMA HandOverEffect ==
  ASSUME Types, NEW t \in Callers, state[t] \notin {"joinwait", "retakewait", "detachwait"},
         NEW x \in CallerState, HandOver([state EXCEPT ![t] = x])
  PROVE  Handed([state EXCEPT ![t] = x])
<1> DEFINE st == [state EXCEPT ![t] = x]
<1>1. st \in [Callers -> CallerState] /\ \A u \in Callers : u # t => st[u] = state[u]
  BY DEF Types
<1> SUFFICES Handed(st)
  OBVIOUS
<1> HIDE DEF st
<1>2. CASE state' = st /\ UNCHANGED child
  BY <1>1, <1>2 DEF Handed
<1>3. CASE child = "exitwait" /\ child' = "exiting" /\ state' = st
  BY <1>1, <1>3 DEF Handed
<1>4. ASSUME NEW w \in Waiting("joinsem"), state' = [st EXCEPT ![w] = Given[state[w]]], UNCHANGED child
      PROVE  Handed(st)
  <2>1. w \in Callers /\ w # t /\ state[w] \in {"joinwait", "retakewait", "detachwait"}
    BY WaitingSets
  <2>2. Given[state[w]] \in CallerState
    BY <2>1, Records DEF CallerState
  <2>3. /\ state' \in [Callers -> CallerState] /\ state'[w] = Given[state[w]] /\ st[w] = state[w]
        /\ \A v \in Callers : v # w => state'[v] = st[v]
    BY <1>1, <1>4, <2>1, <2>2
  <2>4. \/ state[w] = "joinwait" /\ state'[w] = "lookup"
        \/ state[w] = "retakewait" /\ state'[w] = "release"
        \/ state[w] = "detachwait" /\ state'[w] = "detach"
    BY <2>1, <2>3, Records
  <2> QED BY <1>4, <2>3, <2>4 DEF Handed
<1> QED BY <1>2, <1>3, <1>4 DEF HandOver, st

\* What t, which held tg_joinsem and goes on in x, leaves behind.
LEMMA HandedFacts ==
  ASSUME IInv, NEW t \in Callers, state[t] \in Holds, NEW x \in CallerState \ (Holds \union {"joinwait", "retakewait", "detachwait"}),
         Handed([state EXCEPT ![t] = x])
  PROVE  /\ state' \in [Callers -> CallerState]
         /\ state'[t] = x
         /\ \A u \in Callers : u # t =>
              \/ state'[u] = state[u]
              \/ state[u] = "joinwait" /\ state'[u] = "lookup"
              \/ state[u] = "retakewait" /\ state'[u] = "release"
              \/ state[u] = "detachwait" /\ state'[u] = "detach"
         /\ \A u \in Callers : u # t => Stays(u)
         /\ child \notin ChildHolds
         /\ child' = child \/ (child = "exitwait" /\ child' = "exiting")
         /\ Exclusion'
<1> DEFINE st == [state EXCEPT ![t] = x]
<1>1. st[t] = x /\ \A u \in Callers : u # t => st[u] = state[u]
  BY DEF IInv, Types
<1> HIDE DEF st
<1>2. Handed(st)
  BY DEF st
<1>3. state' \in [Callers -> CallerState]
  BY <1>2 DEF Handed
<1>4. state'[t] = x
  BY <1>1, <1>2 DEF Handed, Holds
<1>5. \A u \in Callers : u # t =>
              \/ state'[u] = state[u]
              \/ state[u] = "joinwait" /\ state'[u] = "lookup"
              \/ state[u] = "retakewait" /\ state'[u] = "release"
              \/ state[u] = "detachwait" /\ state'[u] = "detach"
  BY <1>1, <1>2 DEF Handed
<1>6. \A u \in Callers : u # t => Stays(u)
  BY <1>5 DEF Stays, Refs, Locks, ExitWaits
<1>7. child \notin ChildHolds
  BY DEF IInv, Exclusion
<1>8. child' = child \/ (child = "exitwait" /\ child' = "exiting")
  BY <1>2 DEF Handed
<1>9. Exclusion'
  <2>1. \A u \in Callers : st[u] \notin Holds
    BY <1>1 DEF IInv, Exclusion
  <2>2. CASE child' = child
    BY <1>2, <1>7, <2>1, <2>2 DEF Handed, Exclusion
  <2>3. CASE child = "exitwait" /\ child' = "exiting" /\ state' = st
    BY <2>1, <2>3 DEF Exclusion
  <2> QED BY <1>2, <2>2, <2>3 DEF Handed
<1> QED BY <1>3, <1>4, <1>5, <1>6, <1>7, <1>8, <1>9

\* pthread_join finds no such thread.
LEMMA JoinMissesStep == ASSUME IInv, NEW t \in Callers, JoinMisses(t) PROVE IInv'
<1> USE DEF Semaphores, Structure, Refs, Locks, Holds, ExitWaits, Woken, Returning, Detaches,
            Creates, ChildHolds, Terminated
<1>1. /\ UNCHANGED <<listed, freed, join, waiters, got>> /\ state[t] = "lookup" /\ ~ listed
      /\ sem' = [sem EXCEPT !.joinsem = @ + 1]
  BY DEF JoinMisses
<1>2. Handed([state EXCEPT ![t] = "done"])
  BY <1>1, HandOverEffect DEF JoinMisses, IInv, CallerState
<1>3. /\ state' \in [Callers -> CallerState] /\ state'[t] = "done"
      /\ \A u \in Callers : u # t =>
           \/ state'[u] = state[u]
           \/ state[u] = "joinwait" /\ state'[u] = "lookup"
           \/ state[u] = "retakewait" /\ state'[u] = "release"
           \/ state[u] = "detachwait" /\ state'[u] = "detach"
      /\ \A u \in Callers : u # t => Stays(u)
      /\ child \notin ChildHolds
      /\ child' = child \/ (child = "exitwait" /\ child' = "exiting")
      /\ Exclusion'
  BY <1>1, <1>2, HandedFacts DEF CallerState
<1>4. /\ sem' \in Semaphores
      /\ sem'.joinsem = sem.joinsem + 1 /\ sem'.exit_sem = sem.exit_sem
  BY <1>1 DEF IInv, Types
<1>5. Types'
  BY <1>1, <1>3, <1>4 DEF IInv, Types, ChildState
<1>6. Counters'
  BY <1>1, <1>3, <1>4, CountsMove DEF IInv, Counters, Types, Bit
<1>7. Life'
  BY <1>1, <1>3 DEF IInv, Life
<1>8. Results'
  BY <1>1, <1>3 DEF IInv, Results
<1>9. Creation'
  BY <1>1, <1>3, CreatorCalls DEF IInv, Creation
<1>10. Detachment'
  BY <1>1, <1>3 DEF IInv, Detachment
<1> QED BY <1>3, <1>5, <1>6, <1>7, <1>8, <1>9, <1>10 DEF IInv

\* pthread_join finds a thread that has exited.
LEMMA JoinFindsStep == ASSUME IInv, NEW t \in Callers, JoinFinds(t) PROVE IInv'
<1> USE DEF Semaphores, Structure, Refs, Locks, Holds, ExitWaits, Woken, Returning, Detaches,
            Creates, ChildHolds, Terminated
<1>1. /\ UNCHANGED <<listed, freed, sem, child, waiters>> /\ state[t] = "lookup" /\ listed /\ join.terminated
      /\ join' = [join EXCEPT !.crefs = @ + 1] /\ got' = [got EXCEPT ![t] = "value"]
  BY DEF JoinFinds, Value
<1>2. Moves(t, "release")
  BY MoveFacts DEF JoinFinds, IInv, CallerState
<1>3. /\ join' \in Structure
      /\ join'.crefs = join.crefs + 1 /\ join'.terminated = join.terminated /\ join'.detached = join.detached
  <2>1. join.crefs + 1 \in Int /\ join \in Structure /\ join' = [join EXCEPT !.crefs = join.crefs + 1]
    BY <1>1 DEF IInv, Types
  <2> HIDE DEF Structure
  <2> QED BY <2>1, CrefsChange
<1>4. got' \in [Callers -> {"nothing", "value", "detached"}] /\ got'[t] = "value"
      /\ \A u \in Callers : u # t => got'[u] = got[u]
  BY <1>1 DEF IInv, Types
<1>5. Types'
  BY <1>1, <1>2, <1>3, <1>4 DEF IInv, Types, Moves
<1>6. Counters'
  <2>1. \A u \in Callers : u # t => Stays(u)
    BY <1>2 DEF Moves
  <2> QED BY <1>1, <1>2, <1>3, <2>1, CountsMove DEF IInv, Counters, Types, Bit, Moves
<1>7. Exclusion'
  BY <1>1, <1>2 DEF IInv, Exclusion, Moves
<1>8. Life'
  BY <1>1, <1>2, <1>3, <1>4 DEF IInv, Life, Moves
<1>9. Results'
  <2>1. join.crefs >= 0 /\ join.crefs \in Int
    BY CountType DEF IInv, Counters, Types
  <2>2. join'.crefs > 0
    BY <1>3, <2>1
  <2> QED BY <1>1, <1>2, <1>4, <2>2 DEF IInv, Results, Moves
<1>10. Creation'
  BY <1>1, <1>2, <1>4, CreatorCalls DEF IInv, Creation, Moves
<1>11. Detachment'
  BY <1>1, <1>2, <1>3, <1>4 DEF IInv, Detachment, Moves
<1> QED BY <1>5, <1>6, <1>7, <1>8, <1>9, <1>10, <1>11 DEF IInv

\* pthread_join gives tg_joinsem up and waits for the exit.
LEMMA JoinWaitsStep == ASSUME IInv, NEW t \in Callers, JoinWaits(t) PROVE IInv'
<1> USE DEF Semaphores, Structure, Refs, Locks, Holds, ExitWaits, Woken, Returning, Detaches,
            Creates, ChildHolds, Terminated
<1>1. /\ UNCHANGED <<listed, freed, waiters, got>> /\ state[t] = "lookup" /\ listed /\ ~ join.terminated
      /\ join' = [join EXCEPT !.crefs = @ + 1]
      /\ sem' = [sem EXCEPT !.joinsem = @ + 1, !.exit_sem = @ - 1]
  BY DEF JoinWaits
<1>2. ~ (sem.exit_sem > 0)
  <2>1. sem.exit_sem = 0 - Count(state, ExitWaits) /\ Count(state, ExitWaits) \in Nat
    BY <1>1, CountType DEF IInv, Counters
  <2> QED BY <2>1
<1>3. Handed([state EXCEPT ![t] = "exitwait"])
  BY <1>1, <1>2, HandOverEffect DEF JoinWaits, IInv, CallerState
<1>4. /\ state' \in [Callers -> CallerState] /\ state'[t] = "exitwait"
      /\ \A u \in Callers : u # t =>
           \/ state'[u] = state[u]
           \/ state[u] = "joinwait" /\ state'[u] = "lookup"
           \/ state[u] = "retakewait" /\ state'[u] = "release"
           \/ state[u] = "detachwait" /\ state'[u] = "detach"
      /\ \A u \in Callers : u # t => Stays(u)
      /\ child \notin ChildHolds
      /\ child' = child \/ (child = "exitwait" /\ child' = "exiting")
      /\ Exclusion'
  BY <1>1, <1>3, HandedFacts DEF CallerState
<1>5. /\ sem' \in Semaphores
      /\ sem'.joinsem = sem.joinsem + 1 /\ sem'.exit_sem = sem.exit_sem - 1
  BY <1>1, LockAndExit DEF IInv
<1>6. /\ join' \in Structure
      /\ join'.crefs = join.crefs + 1 /\ join'.terminated = join.terminated /\ join'.detached = join.detached
  <2>1. join.crefs + 1 \in Int /\ join \in Structure /\ join' = [join EXCEPT !.crefs = join.crefs + 1]
    BY <1>1 DEF IInv, Types
  <2> HIDE DEF Structure
  <2> QED BY <2>1, CrefsChange
<1>7. Types'
  BY <1>1, <1>4, <1>5, <1>6 DEF IInv, Types, ChildState
<1>8. Counters'
  BY <1>1, <1>4, <1>5, <1>6, CountsMove DEF IInv, Counters, Types, Bit
<1>9. Life'
  BY <1>1, <1>4, <1>6 DEF IInv, Life
<1>10. Results'
  <2>1. join.crefs >= 0 /\ join.crefs \in Int
    BY CountType DEF IInv, Counters, Types
  <2>2. join'.crefs > 0
    BY <1>6, <2>1
  <2> QED BY <1>1, <1>4, <2>2 DEF IInv, Results
<1>11. Creation'
  BY <1>1, <1>4, CreatorCalls DEF IInv, Creation
<1>12. Detachment'
  BY <1>1, <1>4, <1>6 DEF IInv, Detachment
<1> QED BY <1>4, <1>7, <1>8, <1>9, <1>10, <1>11, <1>12 DEF IInv

\* The woken joiner reads the exit value and asks for tg_joinsem again.
LEMMA JoinReadsStep == ASSUME IInv, NEW t \in Callers, JoinReads(t) PROVE IInv'
<1> USE DEF Semaphores, Structure, Refs, Locks, Holds, ExitWaits, Woken, Returning, Detaches,
            Creates, ChildHolds, Terminated
<1>1. /\ UNCHANGED <<listed, freed, join, waiters>> /\ state[t] = "exited" /\ join.terminated
      /\ got' = [got EXCEPT ![t] = "value"]
      /\ sem' = [sem EXCEPT !.joinsem = @ - 1, !.data_sem = @ + 1]
      /\ child' = IF child = "datawait" THEN "leaves" ELSE child
      /\ state' = [state EXCEPT ![t] = IF sem.joinsem > 0 THEN "release" ELSE "retakewait"]
  <2>1. join.terminated
    BY DEF JoinReads, IInv, Life
  <2> QED BY <2>1 DEF JoinReads, Value
<1>2. /\ Moves(t, state'[t]) /\ state'[t] \in {"release", "retakewait"}
      /\ state'[t] = "release" => child \notin ChildHolds /\ \A u \in Callers : state[u] \notin Holds
  <2>1. CASE sem.joinsem > 0
    <3>1. Moves(t, "release")
      BY <1>1, <2>1, MoveFacts DEF IInv, CallerState
    <3> QED BY <2>1, <3>1, FreeLock DEF Moves
  <2>2. CASE ~ (sem.joinsem > 0)
    <3>1. Moves(t, "retakewait")
      BY <1>1, <2>2, MoveFacts DEF IInv, CallerState
    <3> QED BY <3>1 DEF Moves
  <2> QED BY <2>1, <2>2
<1>3. /\ sem' \in Semaphores
      /\ sem'.joinsem = sem.joinsem - 1 /\ sem'.exit_sem = sem.exit_sem
  BY <1>1, LockAndData DEF IInv
<1>4. got' \in [Callers -> {"nothing", "value", "detached"}] /\ got'[t] = "value"
      /\ \A u \in Callers : u # t => got'[u] = got[u]
  BY <1>1 DEF IInv, Types
<1>5. child' = child \/ (child = "datawait" /\ child' = "leaves")
  BY <1>1
<1>6. Types'
  BY <1>1, <1>2, <1>3, <1>4, <1>5 DEF IInv, Types, Moves, ChildState
<1>7. Counters'
  <2>1. \A u \in Callers : u # t => Stays(u)
    BY <1>2 DEF Moves
  <2>2. /\ Count(state', Refs) = Count(state, Refs)
        /\ Count(state', Locks) = Count(state, Locks) + 1 /\ Count(state, Locks) \in Nat
    <3>1. /\ Bit(state'[t], Refs) = 1 /\ Bit(state[t], Refs) = 1
          /\ Bit(state'[t], Locks) = 1 /\ Bit(state[t], Locks) = 0
      BY <1>1, <1>2 DEF Bit
    <3> HIDE DEF Refs, Locks
    <3> QED BY <2>1, <3>1, CountsMove
  <2>3. Bit(child', ChildHolds \union {"exitwait"}) = Bit(child, ChildHolds \union {"exitwait"})
    BY <1>5 DEF Bit
  <2>4. Bit(child, ChildHolds \union {"exitwait"}) \in Int
    BY DEF Bit
  <2> QED BY <1>1, <1>3, <2>2, <2>3, <2>4 DEF IInv, Counters
<1>8. Exclusion'
  BY <1>2, <1>5 DEF IInv, Exclusion, Moves
<1>9. Life'
  BY <1>1, <1>2, <1>4, <1>5 DEF IInv, Life, Moves
<1>10. Results'
  <2>1. join.crefs > 0
    BY <1>1, CountType DEF IInv, Counters, Types
  <2> QED BY <1>1, <1>2, <1>4, <2>1 DEF IInv, Results, Moves
<1>11. Creation'
  BY <1>1, <1>2, <1>4, <1>5, CreatorCalls DEF IInv, Creation, Moves
<1>12. Detachment'
  BY <1>1, <1>2, <1>4, <1>5 DEF IInv, Detachment, Moves
<1> QED BY <1>6, <1>7, <1>8, <1>9, <1>10, <1>11, <1>12 DEF IInv

\* The joiner drops its reference; the last one frees the structure.
LEMMA JoinReleasesStep == ASSUME IInv, NEW t \in Callers, JoinReleases(t) PROVE IInv'
<1> USE DEF Semaphores, Structure, Refs, Locks, Holds, ExitWaits, Woken, Returning, Detaches,
            Creates, ChildHolds, Terminated
<1>1. /\ UNCHANGED <<waiters, got>> /\ state[t] = "release"
      /\ join' = [join EXCEPT !.crefs = @ - 1]
      /\ sem' = [sem EXCEPT !.joinsem = @ + 1]
      /\ IF join.crefs <= 1 THEN listed' = FALSE /\ freed' = TRUE ELSE UNCHANGED <<listed, freed>>
  BY DEF JoinReleases, destroyjoin
<1>2. Handed([state EXCEPT ![t] = "done"])
  BY <1>1, HandOverEffect DEF JoinReleases, IInv, CallerState
<1>3. /\ state' \in [Callers -> CallerState] /\ state'[t] = "done"
      /\ \A u \in Callers : u # t =>
           \/ state'[u] = state[u]
           \/ state[u] = "joinwait" /\ state'[u] = "lookup"
           \/ state[u] = "retakewait" /\ state'[u] = "release"
           \/ state[u] = "detachwait" /\ state'[u] = "detach"
      /\ \A u \in Callers : u # t => Stays(u)
      /\ child \notin ChildHolds
      /\ child' = child \/ (child = "exitwait" /\ child' = "exiting")
      /\ Exclusion'
  BY <1>1, <1>2, HandedFacts DEF CallerState
<1>4. sem' \in Semaphores /\ sem'.joinsem = sem.joinsem + 1 /\ sem'.exit_sem = sem.exit_sem
  BY <1>1 DEF IInv, Types
<1>5. /\ join' \in Structure
      /\ join'.crefs = join.crefs - 1 /\ join'.terminated = join.terminated /\ join'.detached = join.detached
  <2>1. join.crefs - 1 \in Int /\ join \in Structure /\ join' = [join EXCEPT !.crefs = join.crefs - 1]
    BY <1>1 DEF IInv, Types
  <2> HIDE DEF Structure
  <2> QED BY <2>1, CrefsChange
<1>6. join.terminated /\ child = "gone" /\ child' = "gone"
  BY <1>1, <1>3 DEF IInv, Life
<1>7. join.crefs \in Int /\ join.crefs > 0
  BY <1>1, CountType DEF IInv, Counters, Types
<1>8. listed /\ ~ freed
  BY <1>6, <1>7 DEF IInv, Life
<1> DEFINE Last == listed' = FALSE /\ freed' = TRUE /\ join'.crefs = 0
           More == listed' = listed /\ freed' = freed /\ join'.crefs > 0
<1>9. Last \/ More
  <2>1. CASE join.crefs <= 1
    <3>1. join'.crefs = 0
      BY <1>5, <1>7, <2>1
    <3> QED BY <1>1, <2>1, <3>1
  <2>2. CASE ~ (join.crefs <= 1)
    <3>1. join'.crefs > 0
      BY <1>5, <1>7, <2>2
    <3> QED BY <1>1, <2>2, <3>1
  <2> QED BY <2>1, <2>2
<1>10. Types'
  BY <1>1, <1>3, <1>4, <1>5 DEF IInv, Types, ChildState
<1>11. Counters'
  BY <1>1, <1>3, <1>4, <1>5, <1>6, CountsMove DEF IInv, Counters, Types, Bit
<1>12. Life'
  <2>1. got[t] = "value"
    BY <1>1 DEF IInv, Results
  <2>2. freed' => join'.crefs = 0 /\ listed' = FALSE
    BY <1>8, <1>9
  <2>3. ~ freed' => listed'
    BY <1>8, <1>9
  <2>4. join'.terminated
    BY <1>5, <1>6
  <2> QED BY <1>1, <1>6, <2>1, <2>2, <2>3, <2>4 DEF Life
<1>13. Results'
  <2>1. listed' => join'.crefs > 0
    BY <1>9
  <2>2. /\ \A u \in Callers : state'[u] \in Returning => got[u] = "value"
        /\ \A u \in Callers : got[u] # "nothing" => state'[u] \in Returning \union {"done"}
    BY <1>1, <1>3 DEF IInv, Results
  <2> QED BY <1>1, <2>1, <2>2 DEF Results
<1>14. Creation'
  BY <1>1, <1>3, <1>6, CreatorCalls DEF IInv, Creation
<1>15. Detachment'
  <2>1. /\ ~ join.detached
        /\ \A u \in Callers : got[u] # "detached" /\ state[u] \notin Detaches
    BY <1>1 DEF IInv, Detachment
  <2>2. ~ join'.detached
    BY <1>5, <2>1
  <2> QED BY <1>1, <1>3, <2>1, <2>2 DEF Detachment
<1> QED BY <1>3, <1>10, <1>11, <1>12, <1>13, <1>14, <1>15 DEF IInv

\* pthread_detach frees the structure of a thread that has exited, and otherwise
\* leaves that to the thread.
LEMMA DetachedStep == ASSUME IInv, NEW t \in Callers, Detached(t) PROVE IInv'
<1> USE DEF Semaphores, Structure, Refs, Locks, Holds, ExitWaits, Woken, Returning, Detaches,
            Creates, ChildHolds, Terminated
<1>1. /\ UNCHANGED waiters /\ state[t] = "detach"
      /\ got' = [got EXCEPT ![t] = "detached"]
      /\ sem' = [sem EXCEPT !.joinsem = @ + 1]
      /\ join' = IF listed /\ ~ join.terminated THEN [join EXCEPT !.detached = TRUE] ELSE join
      /\ IF listed /\ join.terminated THEN listed' = FALSE /\ freed' = TRUE ELSE UNCHANGED <<listed, freed>>
  BY DEF Detached, destroyjoin
<1>2. Handed([state EXCEPT ![t] = "done"])
  BY <1>1, HandOverEffect DEF Detached, IInv, CallerState
<1>3. /\ state' \in [Callers -> CallerState] /\ state'[t] = "done"
      /\ \A u \in Callers : u # t =>
           \/ state'[u] = state[u]
           \/ state[u] = "joinwait" /\ state'[u] = "lookup"
           \/ state[u] = "retakewait" /\ state'[u] = "release"
           \/ state[u] = "detachwait" /\ state'[u] = "detach"
      /\ \A u \in Callers : u # t => Stays(u)
      /\ child \notin ChildHolds
      /\ child' = child \/ (child = "exitwait" /\ child' = "exiting")
      /\ Exclusion'
  BY <1>1, <1>2, HandedFacts DEF CallerState
<1>4. sem' \in Semaphores /\ sem'.joinsem = sem.joinsem + 1 /\ sem'.exit_sem = sem.exit_sem
  BY <1>1 DEF IInv, Types
<1>5. /\ join' \in Structure
      /\ join'.crefs = join.crefs /\ join'.terminated = join.terminated
      /\ join'.detached = (join.detached \/ (listed /\ ~ join.terminated))
  <2>1. join \in Structure
    BY DEF IInv, Types
  <2>2. CASE listed /\ ~ join.terminated
    BY <1>1, <2>1, <2>2
  <2>3. CASE ~ (listed /\ ~ join.terminated)
    BY <1>1, <2>1, <2>3
  <2> QED BY <2>2, <2>3
<1>6. /\ got' \in [Callers -> {"nothing", "value", "detached"}] /\ got'[t] = "detached"
      /\ \A u \in Callers : u # t => got'[u] = got[u]
  BY <1>1 DEF IInv, Types
<1>7. \A u \in Callers : u # t =>
        \/ /\ state[u] \in Detaches \union {"idle"} /\ got[u] = "nothing"
           /\ state'[u] \in Detaches \union {"idle"} /\ got'[u] = "nothing"
        \/ /\ state[u] = "done" /\ got[u] = "detached"
           /\ state'[u] = "done" /\ got'[u] = "detached"
  BY <1>1, <1>3, <1>6 DEF IInv, Detachment
<1>8. child # "new" /\ state[Creator] \notin Creates
  BY <1>1, <1>7, CreatorCalls DEF IInv, Creation
<1>9. join.crefs = 0 /\ join'.crefs = 0
  BY <1>1, <1>5, <1>7, CountType DEF IInv, Counters
<1>10. Types'
  BY <1>1, <1>3, <1>4, <1>5, <1>6 DEF IInv, Types, ChildState
<1>11. Counters'
  <2>1. /\ Count(state', Refs) = Count(state, Refs) /\ Count(state', ExitWaits) = Count(state, ExitWaits)
        /\ Count(state', Locks) = Count(state, Locks) - 1 /\ Count(state, Locks) \in Nat
    BY <1>1, <1>3, CountsMove DEF Bit
  <2>2. /\ Bit(child', ChildHolds \union {"exitwait"}) = Bit(child, ChildHolds \union {"exitwait"})
        /\ Bit(child, ChildHolds \union {"exitwait"}) \in Int
    BY <1>3 DEF Bit
  <2> QED BY <1>4, <1>5, <2>1, <2>2 DEF IInv, Counters
<1>12. Life'
  <2>1. join'.terminated <=> child' \in Terminated
    BY <1>3, <1>5 DEF IInv, Life
  <2>2. \A u \in Callers : state'[u] \notin Woken
    BY <1>3, <1>7
  <2>3. join.terminated => child = "gone" /\ child' = "gone"
    BY <1>3 DEF IInv, Life
  <2>4. freed' => freed \/ join.terminated
    BY <1>1 DEF IInv, Types
  <2>5. freed' => child' = "gone"
    BY <1>3, <2>3, <2>4 DEF IInv, Life
  <2>6. listed' <=> ~ freed'
    BY <1>1, <1>8 DEF IInv, Life, Types
  <2>7. child' # "new"
    BY <1>3, <1>8
  <2> QED BY <1>6, <1>9, <2>1, <2>2, <2>5, <2>6, <2>7 DEF Life
<1>13. Results'
  BY <1>3, <1>6, <1>7 DEF Results
<1>14. Creation'
  BY <1>3, <1>7, <1>8, CreatorCalls DEF IInv, Creation
<1>15. Detachment'
  <2>1. join'.detached => ~ (join'.terminated /\ waiters')
    BY <1>1, <1>5 DEF IInv, Detachment
  <2>2. listed' => listed /\ ~ join.terminated
    BY <1>1 DEF IInv, Types
  <2>3. listed' => join'.detached /\ child' # "gone"
    BY <1>3, <1>5, <2>2 DEF IInv, Life
  <2> QED BY <1>3, <1>6, <1>7, <2>1, <2>3 DEF Detachment
<1> QED BY <1>3, <1>10, <1>11, <1>12, <1>13, <1>14, <1>15 DEF IInv

-----------------------------------------------------------------------------
(* The thread exits.                                                       *)

\* pthread_completejoin asks for tg_joinsem, and ExitTakes for data_sem.
LEMMA ExitStep == ASSUME IInv, Exit \/ ExitTakes PROVE IInv'
<1> USE DEF Semaphores, Structure, Refs, Locks, Holds, ExitWaits, Woken, Returning, Detaches,
            Creates, ChildHolds, Terminated
<1>1. UNCHANGED <<listed, freed, join, waiters, state, got>>
  BY DEF Exit, ExitTakes
<1>2. \/ /\ child = "runs" /\ sem' = [sem EXCEPT !.joinsem = @ - 1]
         /\ child' = IF sem.joinsem > 0 THEN "exiting" ELSE "exitwait"
      \/ /\ child = "takes" /\ sem' = [sem EXCEPT !.data_sem = @ - 1]
         /\ child' = IF sem.data_sem > 0 THEN "leaves" ELSE "datawait"
  BY DEF Exit, ExitTakes
<1>3. /\ sem' \in Semaphores /\ sem'.exit_sem = sem.exit_sem
      /\ child = "runs" => sem'.joinsem = sem.joinsem - 1 /\ child' \in {"exiting", "exitwait"}
      /\ child = "takes" => sem'.joinsem = sem.joinsem /\ child' \in {"leaves", "datawait"}
      /\ child \in {"runs", "takes"}
  BY <1>2 DEF IInv, Types
<1>4. Types'
  BY <1>1, <1>3 DEF IInv, Types, ChildState
<1>5. Counters'
  BY <1>1, <1>3, CountType DEF IInv, Counters, Bit, Types
<1>6. Exclusion'
  <2>1. CASE child' = "exiting"
    <3>1. sem.joinsem > 0
      BY <1>2, <2>1
    <3> QED BY <1>1, <3>1, FreeLock DEF Exclusion
  <2>2. CASE child' # "exiting"
    BY <1>1, <1>3, <2>2 DEF IInv, Exclusion
  <2> QED BY <2>1, <2>2
<1>7. Life' /\ Results' /\ Creation'
  BY <1>1, <1>3 DEF IInv, Life, Results, Creation
<1>8. Detachment'
  BY <1>1, <1>3 DEF IInv, Detachment
<1> QED BY <1>4, <1>5, <1>6, <1>7, <1>8 DEF IInv

\* The exit value is stored; the waiters are counted, and a detached thread has none.
LEMMA ExitMarksStep == ASSUME IInv, ExitMarks PROVE IInv'
<1> USE DEF Semaphores, Structure, Refs, Locks, Holds, ExitWaits, Woken, Returning, Detaches,
            Creates, ChildHolds, Terminated
<1>1. /\ UNCHANGED <<listed, freed, state, got>> /\ child = "exiting"
      /\ join' = [join EXCEPT !.terminated = TRUE] /\ waiters' = (sem.exit_sem < 0)
      /\ child' \in {"posts", "leaves"}
  BY DEF ExitMarks
<1>2. sem' \in Semaphores /\ sem'.joinsem = sem.joinsem
  BY DEF ExitMarks, IInv, Types
<1>3. /\ join' \in Structure
      /\ join'.crefs = join.crefs /\ join'.terminated = TRUE /\ join'.detached = join.detached
  BY <1>1 DEF IInv, Types
<1>4. Types'
  BY <1>1, <1>2, <1>3 DEF IInv, Types, ChildState
<1>5. Counters'
  BY <1>1, <1>2, <1>3, CountType DEF IInv, Counters, Bit
<1>6. Exclusion' /\ Life' /\ Results' /\ Creation'
  <2>1. Exclusion' /\ Creation'
    BY <1>1 DEF IInv, Exclusion, Creation
  <2>2. Life'
    BY <1>1, <1>3 DEF IInv, Life
  <2>3. Results'
    BY <1>1, <1>3 DEF IInv, Results
  <2> QED BY <2>1, <2>2, <2>3
<1>7. Detachment'
  <2>1. ASSUME join.detached PROVE ~ waiters'
    <3>1. PICK t \in Callers : got[t] = "detached"
      BY <2>1 DEF IInv, Detachment
    <3>2. \A u \in Callers : state[u] \notin ExitWaits
      BY <3>1 DEF IInv, Detachment
    <3>3. Count(state, ExitWaits) = 0
      BY <3>2, CountType
    <3>4. ~ join.terminated
      BY <1>1 DEF IInv, Life
    <3>5. sem.exit_sem = 0
      BY <3>3, <3>4 DEF IInv, Counters
    <3>6. ~ (sem.exit_sem < 0)
      BY <3>5
    <3> QED BY <1>1, <3>6, Zenon
  <2> QED BY <1>1, <1>3, <2>1 DEF IInv, Detachment
<1> QED BY <1>4, <1>5, <1>6, <1>7 DEF IInv

\* One waiter is woken, or nobody is left to wake.
LEMMA ExitPostsStep == ASSUME IInv, ExitPosts PROVE IInv'
<1> USE DEF Semaphores, Structure, Refs, Locks, Holds, ExitWaits, Woken, Returning, Detaches,
            Creates, ChildHolds, Terminated
<1>1. /\ UNCHANGED <<listed, freed, join, waiters, got>> /\ child = "posts"
      /\ sem' = [sem EXCEPT !.exit_sem = @ + 1] /\ child' \in {"posts", "takes"}
  BY DEF ExitPosts
<1>2. sem' \in Semaphores /\ sem'.joinsem = sem.joinsem
  BY <1>1 DEF IInv, Types
<1>3. /\ state' \in [Callers -> CallerState]
      /\ \A u \in Callers : state'[u] = state[u] \/ (state[u] = "exitwait" /\ state'[u] = "exited")
  <2>1. CASE state' = state
    BY <2>1 DEF IInv, Types
  <2>2. ASSUME NEW w \in Waiting("exit_sem"), state' = [state EXCEPT ![w] = "exited"]
        PROVE  /\ state' \in [Callers -> CallerState]
               /\ \A u \in Callers : state'[u] = state[u] \/ (state[u] = "exitwait" /\ state'[u] = "exited")
    BY <2>2, WaitingSets DEF IInv, Types, CallerState
  <2> QED BY <2>1, <2>2 DEF ExitPosts
<1>4. join.terminated
  BY <1>1 DEF IInv, Life
<1>5. Types'
  BY <1>1, <1>2, <1>3 DEF IInv, Types, ChildState
<1>6. Counters'
  <2>1. Count(state', Refs) = Count(state, Refs) /\ Count(state', Locks) = Count(state, Locks)
    <3>1. /\ {u \in Callers : state'[u] \in Refs} = {u \in Callers : state[u] \in Refs}
          /\ {u \in Callers : state'[u] \in Locks} = {u \in Callers : state[u] \in Locks}
      BY <1>3
    <3> QED BY <3>1 DEF Count
  <2> QED BY <1>1, <1>2, <1>4, <2>1 DEF IInv, Counters, Bit
<1>7. Exclusion'
  BY <1>1, <1>3 DEF IInv, Exclusion
<1>8. Life'
  BY <1>1, <1>3, <1>4 DEF IInv, Life
<1>9. Results'
  BY <1>1, <1>3 DEF IInv, Results
<1>10. Creation'
  BY <1>1, <1>3, CreatorCalls DEF IInv, Creation
<1>11. Detachment'
  BY <1>1, <1>3 DEF IInv, Detachment
<1> QED BY <1>5, <1>6, <1>7, <1>8, <1>9, <1>10, <1>11 DEF IInv

\* The thread gives tg_joinsem up for good, and frees its structure if it is detached.
LEMMA ExitLeavesStep == ASSUME IInv, ExitLeaves PROVE IInv'
<1> USE DEF Semaphores, Structure, Refs, Locks, Holds, ExitWaits, Woken, Returning, Detaches,
            Creates, ChildHolds, Terminated
<1>1. /\ UNCHANGED <<join, waiters, got>> /\ child = "leaves" /\ child' = "gone"
      /\ sem' = [sem EXCEPT !.joinsem = @ + 1]
      /\ IF ~ waiters /\ join.detached THEN listed' = FALSE /\ freed' = TRUE ELSE UNCHANGED <<listed, freed>>
  BY DEF ExitLeaves, destroyjoin
<1>2. sem' \in Semaphores /\ sem'.joinsem = sem.joinsem + 1 /\ sem'.exit_sem = sem.exit_sem
  BY <1>1 DEF IInv, Types
<1>3. /\ state' \in [Callers -> CallerState]
      /\ \A u \in Callers :
           \/ state'[u] = state[u]
           \/ /\ \/ state[u] = "joinwait" /\ state'[u] = "lookup"
                 \/ state[u] = "retakewait" /\ state'[u] = "release"
                 \/ state[u] = "detachwait" /\ state'[u] = "detach"
              /\ \A v \in Callers : v # u => state'[v] = state[v]
  <2>1. CASE state' = state
    BY <2>1 DEF IInv, Types
  <2>2. ASSUME NEW w \in Waiting("joinsem"), state' = [state EXCEPT ![w] = Given[state[w]]]
        PROVE  <1>3
    <3>1. w \in Callers /\ state[w] \in {"joinwait", "retakewait", "detachwait"}
      BY WaitingSets
    <3>2. Given[state[w]] \in CallerState
      BY <3>1, Records DEF CallerState
    <3>3. /\ state' \in [Callers -> CallerState] /\ state'[w] = Given[state[w]]
          /\ \A v \in Callers : v # w => state'[v] = state[v]
      BY <2>2, <3>1, <3>2 DEF IInv, Types
    <3>4. \/ state[w] = "joinwait" /\ state'[w] = "lookup"
          \/ state[w] = "retakewait" /\ state'[w] = "release"
          \/ state[w] = "detachwait" /\ state'[w] = "detach"
      BY <3>1, <3>3, Records
    <3> QED BY <3>3, <3>4
  <2> QED BY <2>1, <2>2 DEF ExitLeaves
<1>4. join.terminated /\ listed /\ ~ freed
  BY <1>1 DEF IInv, Life
<1>5. Types'
  BY <1>1, <1>2, <1>3 DEF IInv, Types, ChildState
<1>6. Counters'
  <2>1. Count(state', Refs) = Count(state, Refs) /\ Count(state', Locks) = Count(state, Locks)
    <3>1. /\ {u \in Callers : state'[u] \in Refs} = {u \in Callers : state[u] \in Refs}
          /\ {u \in Callers : state'[u] \in Locks} = {u \in Callers : state[u] \in Locks}
      BY <1>3
    <3> QED BY <3>1 DEF Count
  <2>2. Count(state, Locks) \in Nat
    BY CountType
  <2> QED BY <1>1, <1>2, <1>4, <2>1, <2>2 DEF IInv, Counters, Bit
<1>7. Exclusion'
  BY <1>1, <1>3 DEF IInv, Exclusion
<1>8. /\ join.detached => listed' = FALSE /\ freed' = TRUE
      /\ ~ join.detached => listed' = TRUE /\ freed' = FALSE
  <2>1. join.detached => ~ waiters
    BY <1>4 DEF IInv, Detachment
  <2> QED BY <1>1, <1>4, <2>1 DEF IInv, Types
<1>9. join.detached => join.crefs = 0 /\ \E t \in Callers : got[t] = "detached"
  <2> SUFFICES ASSUME join.detached PROVE join.crefs = 0 /\ \E t \in Callers : got[t] = "detached"
    OBVIOUS
  <2>1. PICK t \in Callers : got[t] = "detached"
    BY DEF IInv, Detachment
  <2>2. \A u \in Callers : state[u] \notin Refs
    BY <2>1 DEF IInv, Detachment
  <2> QED BY <2>1, <2>2, CountType DEF IInv, Counters
<1>10. Life'
  <2>1. \A u \in Callers : state'[u] \in Woken => state[u] \in Woken
    BY <1>3
  <2> QED BY <1>1, <1>4, <1>8, <1>9, <2>1 DEF IInv, Life
<1>11. Results'
  BY <1>1, <1>3, <1>4, <1>8 DEF IInv, Results
<1>12. Creation'
  BY <1>1, <1>3, CreatorCalls DEF IInv, Creation
<1>13. Detachment'
  <2>1. listed' => ~ \E t \in Callers : got[t] = "detached"
    BY <1>4, <1>8 DEF IInv, Detachment
  <2> QED BY <1>1, <1>3, <2>1 DEF IInv, Detachment
<1> QED BY <1>5, <1>6, <1>7, <1>10, <1>11, <1>12, <1>13 DEF IInv

-----------------------------------------------------------------------------
(* The theorems.                                                           *)

\* Every step keeps the invariant.
LEMMA NextStep == ASSUME Usage, IInv, [Next]_vars PROVE IInv'
<1>1. ASSUME NEW t \in Callers, Join(t) \/ Detach(t) \/ Continues(t) \/ Interrupt(t) PROVE IInv'
  <2>1. CASE Join(t) \/ Detach(t) \/ Interrupt(t)
    BY <2>1, JoinStep, DetachStep, InterruptStep
  <2>2. CASE Continues(t)
    BY <2>2, WaitsAgainStep, JoinMissesStep, JoinFindsStep, JoinWaitsStep, JoinReadsStep,
       JoinReleasesStep, DetachedStep, CreateStep DEF Continues
  <2> QED BY <1>1, <2>1, <2>2
<1>2. CASE Start \/ Exit
  BY <1>2, StartStep, ExitStep
<1>3. CASE Exits
  BY <1>3, ExitStep, ExitMarksStep, ExitPostsStep, ExitLeavesStep DEF Exits
<1>4. CASE UNCHANGED vars
  BY <1>4 DEF vars, IInv, Types, Counters, Exclusion, Life, Results, Creation, Detachment
<1> QED BY <1>1, <1>2, <1>3, <1>4 DEF Next, Over

\* The invariant holds in every state.
THEOREM Invariance == ASSUME Usage PROVE Spec => []IInv
<1>1. IInv /\ [Next]_vars => IInv'
  BY NextStep
<1> QED BY <1>1, InitIInv, PTL DEF Spec

\* Nobody uses the join structure after it was freed, by the last joiner, by
\* pthread_detach or by the thread itself.
THEOREM NeverUsedAfterFree == ASSUME Usage PROVE Spec => []NoUseAfterFree
<1>1. IInv => NoUseAfterFree
  <2> SUFFICES ASSUME IInv, freed PROVE NoUseAfterFree
    BY DEF NoUseAfterFree
  <2>1. ~ listed /\ child = "gone" /\ Count(state, Refs) = 0 /\ \E t \in Callers : got[t] # "nothing"
    BY DEF IInv, Life, Counters
  <2>2. \A t \in Callers : state[t] \notin Refs
    BY <2>1, CountType
  <2>3. \A t \in Callers : state[t] \notin Creates
    BY <2>1, CreatorCalls DEF IInv, Creation
  <2> QED BY <2>1, <2>2, <2>3 DEF NoUseAfterFree, References, Refs, Creates
<1> QED BY <1>1, Invariance, PTL

\* Every pthread_join that succeeds has the exit value of the thread.
THEOREM ValueCorrect == ASSUME Usage PROVE Spec => []ValueExact
<1>1. IInv => ValueExact
  BY DEF IInv, Types, ValueExact
<1> QED BY <1>1, Invariance, PTL

\* When all is over, the structure of a thread that was joined or detached was freed.
THEOREM NeverLeaked == ASSUME Usage PROVE Spec => []NoLeak
<1>1. IInv => NoLeak
  <2> SUFFICES ASSUME IInv, Quiet PROVE freed <=> \E t \in Callers : got[t] # "nothing"
    BY DEF NoLeak
  <2>1. freed => \E t \in Callers : got[t] # "nothing"
    BY DEF IInv, Life
  <2>2. ASSUME NEW t \in Callers, got[t] # "nothing", ~ freed PROVE FALSE
    <3>1. listed /\ child = "gone"
      BY <2>2 DEF Quiet, IInv, Life
    <3>2. join.crefs = 0
      <4>1. \A u \in Callers : state[u] \notin Refs
        BY DEF Quiet, Refs
      <4> QED BY <4>1, CountType DEF IInv, Counters
    <3>3. got[t] = "value" \/ got[t] = "detached"
      BY <2>2 DEF IInv, Types
    <3> QED BY <3>1, <3>2, <3>3 DEF IInv, Results, Detachment
  <2> QED BY <2>1, <2>2 DEF IInv, Types
<1> QED BY <1>1, Invariance, PTL
=============================================================================
