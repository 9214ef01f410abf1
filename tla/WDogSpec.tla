------------------------------ MODULE WDogSpec ------------------------------
(***************************************************************************)
(* What the watchdog timers promise to their users: a watchdog that is     *)
(* started expires exactly at its deadline, once, unless it is cancelled   *)
(* or started anew before.                                                 *)
(***************************************************************************)
EXTENDS Integers

CONSTANTS
  Dogs,     \* the watchdogs
  Delays    \* the delays they are started with

Off == -1   \* what is left of the delay of a watchdog that is not running

VARIABLE left   \* [Dogs -> Nat \union {Off}], the ticks to the deadline

Init == left = [d \in Dogs |-> Off]

\* A delay of zero is one tick: nothing expires in the tick it is started in.
Start(d, delay) ==
  /\ left[d] = Off
  /\ left' = [left EXCEPT ![d] = IF delay <= 0 THEN 1 ELSE delay]

Cancel(d) ==
  /\ left[d] # Off
  /\ left' = [left EXCEPT ![d] = Off]

Expire(d) ==
  /\ left[d] = 0
  /\ left' = [left EXCEPT ![d] = Off]

\* Time passes only after everything that was due has expired.
Tick ==
  /\ \A d \in Dogs : left[d] # 0
  /\ left' = [d \in Dogs |-> IF left[d] = Off THEN Off ELSE left[d] - 1]

Next ==
  \/ Tick
  \/ \E d \in Dogs : \/ Cancel(d)
                     \/ Expire(d)
                     \/ \E delay \in Delays : Start(d, delay)

Spec == Init /\ [][Next]_left
=============================================================================
