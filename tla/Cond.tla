-------------------------------- MODULE Cond --------------------------------
(***************************************************************************)
(* A pthread mutex and a condition variable (os/kernel/pthread) with       *)
(* threads that consume and produce items under the mutex, timed waits,    *)
(* POSIX signals, and interrupt handlers that signal the condition.        *)
(*                                                                         *)
(* The semaphores beneath are as LockSpec promises: a post hands the count *)
(* to a waiter, and a timeout or a signal ends the wait of a thread that   *)
(* was not given it.  Priorities are arbitrary: a post wakes any waiter,   *)
(* and any thread that is ready may run, unless one has the scheduler      *)
(* locked.  A step is what neither a thread nor an interrupt can split as  *)
(* far as the mutex and the condition are concerned.                       *)
(*                                                                         *)
(* CONFIG_PTHREAD_MUTEX_UNSAFE and CONFIG_PTHREAD_MUTEX_TYPES are set, as  *)
(* in the reference configuration.                                         *)
(***************************************************************************)
EXTENDS Integers, FiniteSets

CONSTANTS
  Consumers, Producers,
  NoThread,      \* a pid of -1
  Timed,         \* the consumers that use pthread_cond_timedwait
  type,          \* mutex->type: "normal", "errorcheck" or "recursive"
  Relockers,     \* the threads that lock the mutex while they own it
  MaxLocks,      \* bound: how often they do
  MaxItems,      \* bound: the items that wait to be consumed
  Interrupted,   \* the threads that receive POSIX signals in a call
  HandlersSignal \* do interrupt handlers call pthread_cond_signal?

Threads == Consumers \union Producers
Sems == {"mutex", "cond"}
State == {"idle", "lockwait", "lockgot", "lockintr", "owns", "produced", "signal",
          "broadcast", "done", "take", "condwait", "condgot", "condintr",
          "relock", "relockwait", "relockgot"}

ASSUME ConstantsAssumption ==
  /\ IsFiniteSet(Threads)
  /\ Consumers \intersect Producers = {}
  /\ NoThread \notin Threads
  /\ Timed \subseteq Consumers
  /\ type \in {"normal", "errorcheck", "recursive"}
  /\ Relockers \subseteq Threads /\ Interrupted \subseteq Threads
  /\ MaxLocks \in Nat \ {0} /\ MaxItems \in Nat \ {0}
  /\ HandlersSignal \in BOOLEAN

VARIABLES
  semcount,  \* [Sems -> Int], the counts of mutex->sem and cond->sem
  pid,       \* mutex->pid
  nlocks,    \* mutex->nlocks
  state,     \* how far each thread is
  ret,       \* the threads whose timed wait ended with ETIMEDOUT
  dog,       \* the threads whose watchdog is active
  sval,      \* the count of cond->sem that each thread read
  cpu,       \* the thread that has the scheduler locked
  items,     \* what the client protects with the mutex
  locks      \* history: the locks that each thread believes to hold

vars == <<semcount, pid, nlocks, state, ret, dog, sval, cpu, items, locks>>

Waiting(s) == {t \in Threads :
                 state[t] \in IF s = "mutex" THEN {"lockwait", "relockwait"} ELSE {"condwait"}}

Init ==
  /\ semcount = [s \in Sems |-> IF s = "mutex" THEN 1 ELSE 0]
  /\ pid = NoThread
  /\ nlocks = 0
  /\ state = [t \in Threads |-> "idle"]
  /\ ret = {}
  /\ dog = {}
  /\ sval = [t \in Threads |-> 0]
  /\ cpu = NoThread
  /\ items = 0
  /\ locks = [t \in Threads |-> 0]

-----------------------------------------------------------------------------
(* Semaphores.                                                             *)

Runs(t) == cpu \in {NoThread, t}

\* What a thread that waited does next when it is given the count.
Given == [lockwait |-> "lockgot", relockwait |-> "relockgot", condwait |-> "condgot"]

\* pthread_givesemaphore(s) by t, or by a handler, when the states of the threads
\* are st: the count goes to a waiter, if there is one.
Give(s, st) ==
  /\ semcount' = [semcount EXCEPT ![s] = @ + 1]
  /\ \/ Waiting(s) = {} /\ state' = st
     \/ \E w \in Waiting(s) : state' = [st EXCEPT ![w] = Given[state[w]]]

\* sem_wait(s) by t, which goes on to got, or to wait if the count is taken.
Take(t, s, got, wait) ==
  /\ semcount' = [semcount EXCEPT ![s] = @ - 1]
  /\ state' = [state EXCEPT ![t] = IF semcount[s] > 0 THEN got ELSE wait]

\* A mutant of Ended: the mutex counts as taken although the wait was interrupted.
MutantEnded == [lockwait |-> "lockintr", relockwait |-> "relockgot", condwait |-> "condintr"]

\* What a thread that waited does next when a signal ends the wait (EINTR).
\* pthread_takesemaphore waits again, unless it is called for a lock.
Ended == [lockwait |-> "lockintr", relockwait |-> "relock", condwait |-> "condintr"]

\* sem_waitirq, as sig_tcbdispatch calls it.
sem_waitirq(t) ==
  IF state[t] \in DOMAIN Ended
  THEN /\ semcount' = [semcount EXCEPT ![IF state[t] = "condwait" THEN "cond" ELSE "mutex"] = @ + 1]
       /\ state' = [state EXCEPT ![t] = Ended[state[t]]]
  ELSE UNCHANGED <<semcount, state>>

-----------------------------------------------------------------------------
(* pthread_mutex_lock and pthread_mutex_unlock.                            *)

\* The call of a thread that does not own the mutex.
Lock(t) ==
  /\ Runs(t)
  /\ state[t] = "idle"
  /\ Take(t, "mutex", "owns", "lockwait")
  /\ pid' = IF semcount["mutex"] > 0 THEN t ELSE pid
  /\ nlocks' = IF semcount["mutex"] > 0 THEN 1 ELSE nlocks
  /\ locks' = IF semcount["mutex"] > 0 THEN [locks EXCEPT ![t] = 1] ELSE locks
  /\ UNCHANGED <<ret, dog, sval, cpu, items>>

\* pthread_mutex_trylock does no more than the first case of Lock, or of Relock.
LockReturns(t) ==
  /\ Runs(t)
  /\ state[t] \in {"lockgot", "lockintr"}
  /\ IF state[t] = "lockgot"
     THEN /\ pid' = t
          /\ nlocks' = 1
          /\ locks' = [locks EXCEPT ![t] = 1]
          /\ state' = [state EXCEPT ![t] = "owns"]
     ELSE /\ state' = [state EXCEPT ![t] = "idle"]
          /\ UNCHANGED <<pid, nlocks, locks>>
  /\ UNCHANGED <<semcount, ret, dog, sval, cpu, items>>

\* An owner locks once more; other types return EDEADLK, or block for ever.
Relock(t) ==
  /\ Runs(t)
  /\ t \in Relockers /\ type = "recursive"
  /\ state[t] = "owns"
  /\ pid = t
  /\ locks[t] < MaxLocks
  /\ nlocks' = nlocks + 1
  /\ locks' = [locks EXCEPT ![t] = @ + 1]
  /\ UNCHANGED <<semcount, pid, state, ret, dog, sval, cpu, items>>

\* A consumer unlocks when it has an item, or gives up; a producer when it has
\* produced one, or has no room.
Unlock(t) ==
  /\ Runs(t)
  /\ \/ state[t] = "done"
     \/ state[t] = "owns" /\ items = IF t \in Consumers THEN 0 ELSE MaxItems
  /\ locks' = [locks EXCEPT ![t] = @ - 1]
  /\ LET refused == semcount["mutex"] >= 1 \/ (type # "normal" /\ pid # t)
         inner   == type = "recursive" /\ nlocks > 1
         st      == [state EXCEPT ![t] = IF locks[t] > 1 THEN "done" ELSE "idle"]
     IN  IF refused \/ inner
         THEN /\ nlocks' = IF refused THEN nlocks ELSE nlocks - 1
              /\ state' = st
              /\ UNCHANGED <<semcount, pid>>
         ELSE /\ nlocks' = 0
              /\ pid' = NoThread
              /\ Give("mutex", st)
  /\ ret' = ret \ {t}
  /\ UNCHANGED <<dog, sval, cpu, items>>

-----------------------------------------------------------------------------
(* pthread_cond_wait and pthread_cond_timedwait.                           *)

\* A mutant of CondWait: the scheduler is not locked.
MutantCondWait(t) ==
  /\ Runs(t)
  /\ t \in Consumers \ Timed
  /\ state[t] = "owns" /\ items = 0
  /\ pid = t
  /\ pid' = NoThread
  /\ Give("mutex", [state EXCEPT ![t] = "take"])
  /\ UNCHANGED <<nlocks, ret, dog, sval, cpu, items, locks>>

\* A consumer that finds nothing waits.  pthread_cond_wait locks the scheduler
\* and gives up the mutex; interrupts may come before it takes the semaphore.
CondWait(t) ==
  /\ Runs(t)
  /\ t \in Consumers \ Timed
  /\ state[t] = "owns" /\ items = 0
  /\ pid = t
  /\ pid' = NoThread
  /\ Give("mutex", [state EXCEPT ![t] = "take"])
  /\ cpu' = t
  /\ UNCHANGED <<nlocks, ret, dog, sval, items, locks>>

CondTake(t) ==
  /\ Runs(t)
  /\ state[t] = "take"
  /\ Take(t, "cond", "condgot", "condwait")
  /\ cpu' = NoThread
  /\ UNCHANGED <<pid, nlocks, ret, dog, sval, items, locks>>

\* pthread_cond_timedwait has interrupts disabled as well: the mutex is given up,
\* the watchdog started and the semaphore taken in one step.
CondTimedWait(t) ==
  /\ Runs(t)
  /\ t \in Timed
  /\ state[t] = "owns" /\ items = 0
  /\ pid = t
  /\ pid' = NoThread
  /\ semcount' = [semcount EXCEPT !["mutex"] = @ + 1, !["cond"] = @ - 1]
  /\ \E w \in IF Waiting("mutex") = {} THEN {t} ELSE Waiting("mutex") :
       state' = [u \in Threads |->
                   IF u = t THEN IF semcount["cond"] > 0 THEN "condgot" ELSE "condwait"
                   ELSE IF u = w THEN Given[state[u]] ELSE state[u]]
  /\ dog' = dog \union {t}
  /\ ret' = ret \ {t}
  /\ UNCHANGED <<nlocks, sval, cpu, items, locks>>

\* A mutant of CondResumes: a timed wait goes on after its timeout.
MutantCondResumes(t) ==
  /\ Runs(t)
  /\ \/ /\ state[t] = "condgot"
        /\ state' = [state EXCEPT ![t] = "relock"]
        /\ UNCHANGED semcount
     \/ /\ state[t] = "condintr"
        /\ Take(t, "cond", "condgot", "condwait")
  /\ UNCHANGED <<pid, nlocks, ret, dog, sval, cpu, items, locks>>

\* The wait for the condition is over, or is begun again: pthread_cond_wait waits
\* again after a signal, pthread_cond_timedwait takes it for its timeout.
CondResumes(t) ==
  /\ Runs(t)
  /\ \/ /\ state[t] = "condgot"
        /\ state' = [state EXCEPT ![t] = "relock"]
        /\ UNCHANGED <<semcount, ret>>
     \/ /\ state[t] = "condintr" /\ t \in Timed
        /\ state' = [state EXCEPT ![t] = "relock"]
        /\ ret' = ret \union {t}
        /\ UNCHANGED semcount
     \/ /\ state[t] = "condintr" /\ t \notin Timed
        /\ Take(t, "cond", "condgot", "condwait")
        /\ UNCHANGED ret
  /\ UNCHANGED <<pid, nlocks, dog, sval, cpu, items, locks>>

\* The mutex is taken again.  The watchdog is deleted only then.
Reacquire(t) ==
  /\ Runs(t)
  /\ state[t] = "relock"
  /\ Take(t, "mutex", "owns", "relockwait")
  /\ pid' = IF semcount["mutex"] > 0 THEN t ELSE pid
  /\ dog' = IF semcount["mutex"] > 0 THEN dog \ {t} ELSE dog
  /\ UNCHANGED <<nlocks, ret, sval, cpu, items, locks>>

Reacquired(t) ==
  /\ Runs(t)
  /\ state[t] = "relockgot"
  /\ pid' = t
  /\ dog' = dog \ {t}
  /\ state' = [state EXCEPT ![t] = "owns"]
  /\ UNCHANGED <<semcount, nlocks, ret, sval, cpu, items, locks>>

-----------------------------------------------------------------------------
(* pthread_cond_signal and pthread_cond_broadcast.                         *)

\* The count is read; the thread may be switched out before it posts.
Signal(t) ==
  /\ Runs(t)
  /\ state[t] = "produced"
  /\ sval' = [sval EXCEPT ![t] = semcount["cond"]]
  /\ state' = [state EXCEPT ![t] = "signal"]
  /\ UNCHANGED <<semcount, pid, nlocks, ret, dog, cpu, items, locks>>

\* A mutant of SignalPosts: it posts whether anybody waits or not.
MutantSignalPosts(t) ==
  /\ Runs(t)
  /\ state[t] = "signal"
  /\ Give("cond", [state EXCEPT ![t] = "done"])
  /\ sval' = [sval EXCEPT ![t] = 0]
  /\ UNCHANGED <<pid, nlocks, ret, dog, cpu, items, locks>>

SignalPosts(t) ==
  /\ Runs(t)
  /\ state[t] = "signal"
  /\ LET st == [state EXCEPT ![t] = "done"] IN
     IF sval[t] < 0 THEN Give("cond", st) ELSE state' = st /\ UNCHANGED semcount
  /\ sval' = [sval EXCEPT ![t] = 0]
  /\ UNCHANGED <<pid, nlocks, ret, dog, cpu, items, locks>>

\* The scheduler is locked, but interrupts may end waits during the loop.
Broadcast(t) ==
  /\ Runs(t)
  /\ state[t] = "produced"
  /\ sval' = [sval EXCEPT ![t] = semcount["cond"]]
  /\ state' = [state EXCEPT ![t] = "broadcast"]
  /\ cpu' = t
  /\ UNCHANGED <<semcount, pid, nlocks, ret, dog, items, locks>>

BroadcastPosts(t) ==
  /\ cpu = t /\ state[t] = "broadcast"
  /\ IF sval[t] < 0
     THEN /\ Give("cond", state)
          /\ sval' = [sval EXCEPT ![t] = @ + 1]
          /\ UNCHANGED cpu
     ELSE /\ state' = [state EXCEPT ![t] = "done"]
          /\ sval' = [sval EXCEPT ![t] = 0]
          /\ cpu' = NoThread
          /\ UNCHANGED semcount
  /\ UNCHANGED <<pid, nlocks, ret, dog, items, locks>>

\* pthread_cond_signal in an interrupt handler, without the mutex.
HandlerSignals ==
  /\ HandlersSignal
  /\ semcount["cond"] < 0
  /\ Give("cond", state)
  /\ UNCHANGED <<pid, nlocks, ret, dog, sval, cpu, items, locks>>

\* pthread_condtimedout: the watchdog sends SIGCONDTIMEDOUT, whatever the thread
\* waits for.
Timeout(t) ==
  /\ t \in dog
  /\ dog' = dog \ {t}
  /\ sem_waitirq(t)
  /\ UNCHANGED <<pid, nlocks, ret, sval, cpu, items, locks>>

\* Any other signal to a thread that waits.
Interrupt(t) ==
  /\ t \in Interrupted
  /\ state[t] \in DOMAIN Ended
  /\ sem_waitirq(t)
  /\ UNCHANGED <<pid, nlocks, ret, dog, sval, cpu, items, locks>>

-----------------------------------------------------------------------------
(* The client.                                                             *)

Consume(t) ==
  /\ Runs(t)
  /\ t \in Consumers
  /\ state[t] = "owns" /\ items > 0
  /\ items' = items - 1
  /\ state' = [state EXCEPT ![t] = "done"]
  /\ UNCHANGED <<semcount, pid, nlocks, ret, dog, sval, cpu, locks>>

Produce(t) ==
  /\ Runs(t)
  /\ t \in Producers
  /\ state[t] = "owns" /\ items < MaxItems
  /\ items' = items + 1
  /\ state' = [state EXCEPT ![t] = "produced"]
  /\ UNCHANGED <<semcount, pid, nlocks, ret, dog, sval, cpu, locks>>

\* A thread in a call, or one that owns the mutex, goes on.
Continues(t) ==
  \/ LockReturns(t) \/ Unlock(t) \/ CondWait(t) \/ CondTake(t) \/ CondTimedWait(t)
  \/ CondResumes(t) \/ Reacquire(t) \/ Reacquired(t) \/ Signal(t) \/ SignalPosts(t)
  \/ Broadcast(t) \/ BroadcastPosts(t) \/ Consume(t) \/ Produce(t)

Next ==
  \/ \E t \in Threads : Lock(t) \/ Relock(t) \/ Continues(t) \/ Timeout(t) \/ Interrupt(t)
  \/ HandlerSignals

\* Threads get the CPU in the end, and watchdogs expire.
Fairness ==
  /\ \A t \in Threads : SF_vars(Continues(t))
  /\ \A t \in Threads : WF_vars(Timeout(t))

Spec == Init /\ [][Next]_vars /\ Fairness

-----------------------------------------------------------------------------
(* Properties.                                                             *)

TypeOK ==
  /\ semcount \in [Sems -> Int] /\ semcount["mutex"] <= 1
  /\ pid \in Threads \union {NoThread}
  /\ nlocks \in Nat
  /\ state \in [Threads -> State]
  /\ ret \subseteq Timed /\ dog \subseteq Timed
  /\ sval \in [Threads -> Int]
  /\ cpu \in Threads \union {NoThread}
  /\ items \in 0 .. MaxItems
  /\ locks \in [Threads -> 0 .. MaxLocks]

Owners == {t \in Threads : state[t] \in {"owns", "produced", "signal", "broadcast", "done"}}
OnTheWay(t) == state[t] \in {"lockgot", "relockgot"}

\* The mutex has one owner, which pid names, or is on its way to one, or is free:
\* also through waits that give it up and take it back, timeouts and signals.
OwnerExact ==
  /\ Cardinality(Owners) + Cardinality({t \in Threads : OnTheWay(t)})
     + (IF semcount["mutex"] = 1 THEN 1 ELSE 0) = 1
  /\ \A t \in Owners : pid = t
  /\ Owners = {} => pid = NoThread

\* While a consumer sleeps, there are no more items than consumers that were
\* woken for them, or are about to look, or to be woken.
Woken(t) ==
  \/ state[t] \in {"condgot", "relock", "relockwait", "relockgot"} /\ t \notin ret
  \/ state[t] = "owns"
NoLostWakeup ==
  Waiting("cond") # {} =>
    items <= Cardinality({t \in Consumers : Woken(t)})
             + Cardinality({t \in Producers : state[t] \in {"produced", "signal", "broadcast"}})

\* The posts that are left over when timeouts and handlers end waits in the middle of a
\* signal or broadcast, and that end later waits at once, do not pile up.
PermitsBounded == semcount["cond"] <= Cardinality(Consumers)

\* A consumer that sleeps while there are items is not left alone with them.
ItemsTaken == items > 0 /\ Waiting("cond") # {} ~> items = 0 \/ Waiting("cond") = {}

\* What the comment of pthread_mutex_lock says: EINTR is never returned.
NotInterrupted == \A t \in Threads : state[t] # "lockintr"

\* A timed wait returns ETIMEDOUT only when its watchdog has expired.
TimeoutIsTimeout == \A t \in Timed : t \in ret /\ state[t] = "relock" => t \notin dog
=============================================================================
