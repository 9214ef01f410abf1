------------------------------ MODULE LockSpec ------------------------------
(***************************************************************************)
(* What a semaphore used as a lock promises to the threads that use it:    *)
(* a lock has so many permits; a permit is free, owned or handed straight  *)
(* from the owner that releases it to a thread that waits; a permit is     *)
(* free only when nobody waits; and a thread that gives up waiting leaves  *)
(* the permits alone.                                                      *)
(***************************************************************************)
EXTENDS Naturals

CONSTANTS Tasks, Locks, Permits     \* Permits \in [Locks -> Nat]

VARIABLES free, waiting, owners

vars == <<free, waiting, owners>>

Init ==
  /\ free = Permits
  /\ waiting = [s \in Locks |-> {}]
  /\ owners = [s \in Locks |-> {}]

Acquire(t, s) ==
  /\ t \notin owners[s]
  /\ waiting[s] = {}
  /\ free[s] > 0
  /\ free' = [free EXCEPT ![s] = @ - 1]
  /\ owners' = [owners EXCEPT ![s] = @ \union {t}]
  /\ UNCHANGED waiting

Wait(t, s) ==
  /\ t \notin owners[s]
  /\ free[s] = 0
  /\ waiting' = [waiting EXCEPT ![s] = @ \union {t}]
  /\ UNCHANGED <<free, owners>>

Release(t, s) ==
  /\ t \in owners[s]
  /\ waiting[s] = {}
  /\ free' = [free EXCEPT ![s] = @ + 1]
  /\ owners' = [owners EXCEPT ![s] = @ \ {t}]
  /\ UNCHANGED waiting

HandOver(t, s, w) ==
  /\ t \in owners[s]
  /\ w \in waiting[s]
  /\ waiting' = [waiting EXCEPT ![s] = @ \ {w}]
  /\ owners' = [owners EXCEPT ![s] = (@ \ {t}) \union {w}]
  /\ UNCHANGED free

GiveUp(w, s) ==
  /\ w \in waiting[s]
  /\ waiting' = [waiting EXCEPT ![s] = @ \ {w}]
  /\ UNCHANGED <<free, owners>>

Next ==
  \E t \in Tasks, s \in Locks :
    \/ Acquire(t, s) \/ Wait(t, s) \/ Release(t, s) \/ GiveUp(t, s)
    \/ \E w \in Tasks : HandOver(t, s, w)

Spec == Init /\ [][Next]_vars
=============================================================================
