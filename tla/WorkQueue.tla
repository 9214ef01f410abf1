----------------------------- MODULE WorkQueue -----------------------------
(***************************************************************************)
(* A kernel work queue (os/kernel/wqueue) with its worker thread, the      *)
(* threads and interrupt handlers that queue and cancel work, and works    *)
(* that queue themselves again.                                            *)
(*                                                                         *)
(* work_process looks at the list with interrupts disabled up to the       *)
(* moment it calls a work or goes to sleep, so that is one step.           *)
(* work_queue adds the work and signals the worker in two critical         *)
(* sections: a thread may be switched out between them.  SIGWORK wakes the *)
(* worker out of sigwaitinfo or usleep and is dropped at any other time,   *)
(* for the worker neither blocks nor catches it.                           *)
(*                                                                         *)
(* CONFIG_SCHED_WORKQUEUE_SORTING is on and the pool has one worker, as in *)
(* the reference configuration.                                            *)
(***************************************************************************)
EXTENDS Integers, Sequences

CONSTANTS
  Works,      \* the work structures of the clients
  NoWork,     \* not a work
  NotQueued,  \* not a number
  Delays,     \* the delays, in ticks, given to work_queue
  ClientDelays,  \* [Works -> SUBSET Delays], used by threads and handlers
  RequeueDelays, \* [Works -> SUBSET Delays], used by the work itself
  Callers     \* the threads that queue and cancel work

ASSUME ConstantsAssumption ==
  /\ NoWork \notin Works
  /\ NotQueued \notin Nat
  /\ Delays \subseteq Nat
  /\ \E d \in Delays : \A e \in Delays : e <= d  \* a delay is a 32-bit number
  /\ ClientDelays \in [Works -> SUBSET Delays]
  /\ RequeueDelays \in [Works -> SUBSET Delays]

VARIABLES
  q,        \* wqueue->q
  worker,   \* the works whose work->worker is not NULL
  delay,    \* work->delay
  age,      \* clock_systimer() - work->qtime, up to work->delay
  pc,       \* the worker thread: about to begin a pass ("loop"), in a work
            \* ("run"), back from it ("again"), in sigwaitinfo ("wait"), in
            \* usleep ("sleep")
  running,  \* the work it runs
  left,     \* the ticks its usleep still lasts
  polled,   \* ctick - stick, up to MaxPolled
  caller    \* [Callers -> {"idle", "queued"}]: a thread between the two halves
            \* of work_queue is "queued"

vars == <<q, worker, delay, age, pc, running, left, polled, caller>>
clientVars == <<q, worker, delay, age>>
workerVars == <<pc, running, left, polled>>

\* Elapsed time beyond the longest delay makes no difference.
MaxPolled == CHOOSE d \in Delays : \A e \in Delays : e <= d

Min(a, b) == IF a < b THEN a ELSE b

-----------------------------------------------------------------------------
Init ==
  /\ q = <<>>
  /\ worker = {}
  /\ delay = [w \in Works |-> 0]
  /\ age = [w \in Works |-> 0]
  /\ pc = "loop"
  /\ running = NoWork
  /\ left = 0
  /\ polled = 0
  /\ caller = [c \in Callers |-> "idle"]

MutantPlaceFirst(d, i) == i = 1

\* The place of a new work: before the first one with a longer delay.
Place(d, i) ==
  /\ i \in 1 .. Len(q) + 1
  /\ \A k \in 1 .. i - 1 : delay[q[k]] <= d
  /\ i <= Len(q) => delay[q[i]] > d

InQueue(w) == \E i \in DOMAIN q : q[i] = w

\* A work that is in the list already is refused with EALREADY.
work_qqueue(w, d) ==
  /\ ~InQueue(w)
  /\ \E i \in 1 .. Len(q) + 1 :
       /\ Place(d, i)
       /\ q' = SubSeq(q, 1, i - 1) \o <<w>> \o SubSeq(q, i, Len(q))
  /\ worker' = worker \union {w}
  /\ delay' = [delay EXCEPT ![w] = d]
  /\ age' = [age EXCEPT ![w] = 0]

\* kill(pid, SIGWORK) as the worker sees it.
work_signal ==
  /\ pc' = IF pc \in {"wait", "sleep"} THEN "loop" ELSE pc
  /\ left' = IF pc = "sleep" THEN 0 ELSE left
  /\ UNCHANGED <<running, polled>>

\* A thread queues work, and signals the worker in a later step.
QueueFirst(c, w, d) ==
  /\ caller[c] = "idle"
  /\ d \in ClientDelays[w]
  /\ work_qqueue(w, d)
  /\ caller' = [caller EXCEPT ![c] = "queued"]
  /\ UNCHANGED workerVars

QueueSecond(c) ==
  /\ caller[c] = "queued"
  /\ work_signal
  /\ caller' = [caller EXCEPT ![c] = "idle"]
  /\ UNCHANGED clientVars

MutantQueueIrq(w, d) ==
  /\ d \in ClientDelays[w]
  /\ work_qqueue(w, d)
  /\ UNCHANGED <<workerVars, caller>>

\* An interrupt handler queues work; the worker cannot come between.
QueueIrq(w, d) ==
  /\ d \in ClientDelays[w]
  /\ work_qqueue(w, d)
  /\ work_signal
  /\ UNCHANGED caller

\* The work that runs queues itself again; the worker signals itself in vain.
QueueSelf(d) ==
  /\ pc = "run"
  /\ d \in RequeueDelays[running]
  /\ work_qqueue(running, d)
  /\ work_signal
  /\ UNCHANGED caller

\* work_qcancel: a work that is not in the list is left alone (ENOENT), the
\* one that runs included.  Nobody is signalled.
Cancel(w) ==
  /\ w \in worker
  /\ \E i \in DOMAIN q :
       /\ q[i] = w
       /\ q' = SubSeq(q, 1, i - 1) \o SubSeq(q, i + 1, Len(q))
  /\ worker' = worker \ {w}
  /\ UNCHANGED <<delay, age, workerVars, caller>>

-----------------------------------------------------------------------------
(* work_process.                                                           *)

MutantElapsed(w, p) == age[w] + p >= delay[w]

\* The delay of w is over, p ticks after the pass began.
Elapsed(w, p) == age[w] >= delay[w]

MutantRemaining(w, p) == delay[w] - (age[w] + p)

\* How long to sleep for w.  The ticks of this pass are counted twice: age
\* holds them already.
Remaining(w, p) == delay[w] - Min(age[w] + p, delay[w])

\* One look at the head of the list, p ticks after the pass began.
Process(p) ==
  \/ \* nothing is queued: sigwaitinfo
     /\ q = <<>>
     /\ pc' = "wait"
     /\ UNCHANGED <<q, worker, running, left>>
  \/ \* the head is ready: it leaves the list and is called
     /\ q # <<>>
     /\ Elapsed(Head(q), p)
     /\ q' = Tail(q)
     /\ worker' = worker \ {Head(q)}
     /\ pc' = "run"
     /\ running' = Head(q)
     /\ UNCHANGED left
  \/ \* the head is not ready: usleep, or once more round the loop
     /\ q # <<>>
     /\ ~Elapsed(Head(q), p)
     /\ left' = Remaining(Head(q), p)
     /\ pc' = IF left' > 0 THEN "sleep" ELSE "loop"
     /\ UNCHANGED <<q, worker, running>>

\* A pass begins: stick is read.
Poll ==
  /\ pc = "loop"
  /\ Process(0)
  /\ polled' = 0
  /\ UNCHANGED <<delay, age, caller>>

WorkReturns ==
  /\ pc = "run"
  /\ pc' = "again"
  /\ running' = NoWork
  /\ UNCHANGED <<clientVars, left, polled, caller>>

\* After a work the same pass goes on, at the head of the list.
Again ==
  /\ pc = "again"
  /\ Process(polled)
  /\ UNCHANGED <<delay, age, polled, caller>>

\* The timer interrupt: the clock goes on, the sleep of the worker may end.
Tick ==
  /\ age' = [w \in Works |-> Min(age[w] + 1, delay[w])]
  /\ polled' = IF pc \in {"run", "again"} THEN Min(polled + 1, MaxPolled) ELSE polled
  /\ left' = IF pc = "sleep" THEN left - 1 ELSE left
  /\ pc' = IF pc = "sleep" /\ left = 1 THEN "loop" ELSE pc
  /\ UNCHANGED <<q, worker, delay, running, caller>>

-----------------------------------------------------------------------------
Next ==
  \/ \E w \in Works, d \in Delays : QueueIrq(w, d) \/ \E c \in Callers : QueueFirst(c, w, d)
  \/ \E c \in Callers : QueueSecond(c)
  \/ \E d \in Delays : QueueSelf(d)
  \/ \E w \in Works : Cancel(w)
  \/ Poll
  \/ WorkReturns
  \/ Again
  \/ Tick

Spec == Init /\ [][Next]_vars

\* The worker gets the CPU, works return, time passes, and a thread that has
\* queued work comes to its work_signal.
Fairness ==
  /\ WF_vars(Poll)
  /\ WF_vars(WorkReturns)
  /\ WF_vars(Again)
  /\ WF_vars(Tick)
  /\ \A c \in Callers : WF_vars(QueueSecond(c))

FairSpec == Spec /\ Fairness

-----------------------------------------------------------------------------
(* Properties.                                                             *)

TypeOK ==
  /\ q \in Seq(Works)
  /\ worker \subseteq Works
  /\ delay \in [Works -> Nat]
  /\ age \in [Works -> Nat]
  /\ pc \in {"loop", "run", "again", "wait", "sleep"}
  /\ running \in Works \union {NoWork}
  /\ left \in Nat
  /\ polled \in Nat
  /\ caller \in [Callers -> {"idle", "queued"}]

\* A work is in the list once or not at all, and its callback is set exactly
\* while it is there: the integrity that work_qcancel asserts.
ListIntegrity ==
  /\ \A w \in Works : InQueue(w) <=> w \in worker
  /\ \A i, j \in DOMAIN q : q[i] = q[j] => i = j

\* The list is sorted by delay, and works of one delay stand in the order in
\* which they were queued, so the head is the first of them to be ready.
ListOrder ==
  \A i, j \in DOMAIN q : i < j =>
    /\ delay[q[i]] <= delay[q[j]]
    /\ delay[q[i]] = delay[q[j]] => age[q[i]] >= age[q[j]]

SignalComing == \E c \in Callers : caller[c] = "queued"

\* No wake-up is lost: unless a signal is still to come, the worker waits
\* without limit only for an empty list, and the rest of its sleep is no longer
\* than the delay of any work in the list, also when works were cancelled.
NoLostWakeup ==
  ~SignalComing =>
    /\ pc = "wait" => q = <<>>
    /\ pc = "sleep" => \A i \in DOMAIN q : left <= delay[q[i]]

\* No client may use a shorter delay than that of w, other than none at all.
Urgent(w) == \A d \in Delays : d = 0 \/ delay[w] <= d

\* A work that is ready is not left in the list by a worker that sleeps, if its
\* delay is the shortest in use: "Delay (in clock ticks) from the time queue
\* until the worker is invoked".
ReadyIsServed ==
  pc \in {"wait", "sleep"} /\ ~SignalComing =>
    \A i \in DOMAIN q : Urgent(q[i]) => age[q[i]] < delay[q[i]]

Abs == INSTANCE WorkSpec WITH
  due <- [w \in Works |-> IF w \in worker THEN delay[w] - age[w] ELSE NotQueued],
  running <- running

\* The work queue keeps the promise of WorkSpec: no work starts before its
\* delay, twice, or after it was cancelled.
ImplementsWorkSpec == Abs!Spec

\* A work queued with the shortest delay in use leaves the list, however often
\* others are queued with that delay and works queue themselves again.
ShortestPerformed ==
  \A w \in Works :
    w \in worker /\ (\A d \in Delays : delay[w] <= d) ~> w \notin worker

\* Every work that is queued leaves the list: "All queued work will be performed
\* on the worker thread of of execution".
AllPerformed == \A w \in Works : w \in worker ~> w \notin worker
=============================================================================
