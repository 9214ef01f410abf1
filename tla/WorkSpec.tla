------------------------------ MODULE WorkSpec ------------------------------
(***************************************************************************)
(* What a work queue promises to its users: a work that is queued starts   *)
(* after its delay and not before, once for each time it is queued, unless *)
(* it is cancelled first; one work runs at a time.                         *)
(***************************************************************************)
EXTENDS Naturals

CONSTANTS Works, Delays, NoWork, NotQueued

VARIABLES
  due,      \* the ticks a queued work still has to wait
  running   \* the work that runs

vars == <<due, running>>

Init ==
  /\ due = [w \in Works |-> NotQueued]
  /\ running = NoWork

Queue(w, d) ==
  /\ due[w] = NotQueued
  /\ due' = [due EXCEPT ![w] = d]
  /\ UNCHANGED running

Cancel(w) ==
  /\ due[w] # NotQueued
  /\ due' = [due EXCEPT ![w] = NotQueued]
  /\ UNCHANGED running

Start(w) ==
  /\ running = NoWork
  /\ due[w] = 0
  /\ due' = [due EXCEPT ![w] = NotQueued]
  /\ running' = w

Finish ==
  /\ running # NoWork
  /\ running' = NoWork
  /\ UNCHANGED due

Tick ==
  /\ due' = [w \in Works |-> IF due[w] \in {NotQueued, 0} THEN due[w] ELSE due[w] - 1]
  /\ UNCHANGED running

Next ==
  \/ \E w \in Works : Cancel(w) \/ Start(w) \/ \E d \in Delays : Queue(w, d)
  \/ Finish
  \/ Tick

Spec == Init /\ [][Next]_vars
=============================================================================
