----------------------------- MODULE MCSignals ------------------------------
EXTENDS Signals

\* The handler of one signal masks the next one.
NextMasked == [s \in Caught |-> {s + 1} \intersect Signals]

\* One structure in the list for all, one in the reserve, and the others in the heap.
TypeOf(n) == IF n = 1 THEN "fixed" ELSE IF n = 2 THEN "irq" ELSE "heap"
SlotTypes == [k \in Slots |-> TypeOf(k)]
ActionTypes == [a \in Actions |-> TypeOf(a)]
=============================================================================
