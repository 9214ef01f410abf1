------------------------------ MODULE MCMQueue ------------------------------
(***************************************************************************)
(* Instances of MQueue for TLC: senders and receivers of two priorities.   *)
(***************************************************************************)
EXTENDS MQueue

CONSTANTS s1, s2, r1, r2, f1, i1, d1, d2, d3

Priorities == [t \in Threads |-> IF t \in {s1, r1} THEN 1 ELSE 2]
=============================================================================
