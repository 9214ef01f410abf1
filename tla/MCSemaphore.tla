---------------------------- MODULE MCSemaphore ----------------------------
(***************************************************************************)
(* Instances of Semaphore for TLC: three threads of a low, a middle and a  *)
(* high priority.                                                          *)
(***************************************************************************)
EXTENDS Semaphore, TLC

CONSTANTS L, M, H, mutex, mutex2, event

Distinct == (L :> 1 @@ M :> 2 @@ H :> 3)

UsesAll == [t \in Tasks |-> Sems]
\* L and H share the lock, M only waits for events.
LAndHShare == [t \in Tasks |-> IF t = M THEN Sems \ LockSems ELSE Sems]
\* H and M share one lock, M and L another.
Chain == (L :> {mutex2, event} @@ M :> {mutex, mutex2, event} @@ H :> {mutex, event})

OneEach == [s \in Sems |-> IF s = event THEN 0 ELSE 1]
TwoEach == [s \in Sems |-> IF s = event THEN 0 ELSE 2]
=============================================================================
