---------------------------- MODULE MCWorkQueue ----------------------------
(***************************************************************************)
(* Instances of WorkQueue for TLC.                                         *)
(***************************************************************************)
EXTENDS WorkQueue

CONSTANTS a, b, c

\* Clients queue every work with every delay.
AnyDelay == [w \in Works |-> Delays]
\* Only a queues itself again, at once or with the shortest positive delay.
OnlyA == [w \in Works |-> IF w = a THEN Delays \intersect {0, 1} ELSE {}]
\* A periodic work a with a short delay, a single work b with a longer one.
Mixed == [w \in Works |-> IF w = a THEN {1} ELSE {3}]
=============================================================================
