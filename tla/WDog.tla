-------------------------------- MODULE WDog --------------------------------
(***************************************************************************)
(* The watchdog timers (os/kernel/wdog): a pool of watchdogs, and the list *)
(* of the active ones in which each keeps its delay relative to the one    *)
(* before it.                                                              *)
(*                                                                         *)
(* Every call runs with interrupts disabled.  wd_start is a step up to the *)
(* walk along the list, a step per position of the walk, and the insertion;*)
(* nothing else happens meanwhile.  wd_timer is a step, and so is each     *)
(* watchdog that wd_expiration takes off the list; between them the        *)
(* function of that watchdog runs and may use the watchdogs itself.        *)
(*                                                                         *)
(* The users are timers (drivers, POSIX timers), which keep a watchdog and *)
(* use it from threads and handlers, and threads in a timed wait           *)
(* (sem_timedwait.c), whose watchdog is named by their TCB and taken back  *)
(* by wd_recover if the thread is deleted.                                 *)
(***************************************************************************)
EXTENDS Integers, SequencesExt

CONSTANTS
  Pool,         \* g_wdpool, CONFIG_PREALLOC_WDOGS of them
  Heap,         \* the watchdogs that kmm_malloc can return
  Static,       \* statically allocated watchdogs
  NoDog,        \* a NULL WDOG_ID
  INTRESERVE,   \* CONFIG_WDOG_INTRESERVE
  Timers,       \* users that keep a watchdog
  StaticDog,    \* [Timers -> Static \union {NoDog}]
  Waiters,      \* threads that make timed waits
  NoUser,
  Delays,       \* the delays that are asked for
  MaxCalls,     \* bound: calls made by the function of one watchdog
  KillAt        \* the points of a timed wait at which the thread is deleted

Dogs == Pool \union Heap \union Static
WaitPoint == {"idle", "created", "blocked", "ready", "cancelled", "deleted"}

ASSUME ConstantsAssumption ==
  /\ IsFiniteSet(Dogs)
  /\ Pool \intersect Heap = {} /\ Pool \intersect Static = {} /\ Heap \intersect Static = {}
  /\ NoDog \notin Dogs
  /\ INTRESERVE \in Nat
  /\ StaticDog \in [Timers -> Static \union {NoDog}]
  /\ \A u, v \in Timers : StaticDog[u] = StaticDog[v] /\ u # v => StaticDog[u] = NoDog
  /\ Timers \intersect Waiters = {}
  /\ NoUser \notin Timers \union Waiters
  /\ Delays \subseteq Nat
  /\ MaxCalls \in Nat
  /\ KillAt \subseteq WaitPoint \ {"idle"}

VARIABLES
  list,     \* g_wdactivelist
  lag,      \* wdog->lag
  active,   \* the watchdogs with WDOGF_ACTIVE
  parm,     \* wdog->func and wdog->parm: on whose behalf the watchdog runs
  free,     \* g_wdfreelist
  nfree,    \* g_wdnfree
  heap,     \* the watchdogs allocated from the heap
  handle,   \* [Timers -> Dogs \union {NoDog}], the watchdog of each timer
  waitdog,  \* tcb->waitdog of each thread
  at,       \* [Waiters -> WaitPoint], how far each timed wait is
  irq,      \* the timer interrupt: "none", "expiration" or "function"
  caller,   \* the user whose function runs
  calls,    \* what that function may still call
  walk,     \* wd_start on its way along the list
  left,     \* history: the ticks to the deadline of each watchdog
  reserved  \* history: the watchdogs of the pool taken by threads

lists == <<list, lag, active, left>>
pool  == <<free, nfree, heap, reserved>>
users == <<handle, waitdog, at>>
vars  == <<list, lag, active, parm, free, nfree, heap, handle, waitdog, at,
           irq, caller, calls, walk, left, reserved>>

Off == -1
NoWalk == [dog |-> NoDog, delay |-> 0, curr |-> 0, now |-> 0]

IndexOf(d) == CHOOSE i \in DOMAIN list : list[i] = d

\* A watchdog that exists: not in the free list, or allocated, or static.
InUse == (Pool \ Range(free)) \union heap \union Static

-----------------------------------------------------------------------------
(* The functions.                                                          *)

\* wd_initialize
Init ==
  /\ list = <<>>
  /\ lag = [d \in Dogs |-> 0]
  /\ active = {}
  /\ parm = [d \in Dogs |-> NoUser]
  /\ free \in SetToSeqs(Pool)
  /\ nfree = Len(free)
  /\ heap = {}
  /\ handle = StaticDog
  /\ waitdog = [t \in Waiters |-> NoDog]
  /\ at = [t \in Waiters |-> "idle"]
  /\ irq = "none"
  /\ caller = NoUser
  /\ calls = 0
  /\ walk = NoWalk
  /\ left = [d \in Dogs |-> Off]
  /\ reserved = {}

\* A mutant of Unlink: the next watchdog does not inherit the remaining ticks.
MutantUnlink(d) ==
  /\ list' = RemoveAt(list, IndexOf(d))
  /\ active' = active \ {d}
  /\ left' = [left EXCEPT ![d] = Off]
  /\ UNCHANGED lag

\* wd_cancel of an active watchdog: the next one inherits the remaining ticks.
Unlink(d) ==
  LET i == IndexOf(d) IN
  /\ list' = RemoveAt(list, i)
  /\ lag' = IF i = Len(list) THEN lag ELSE [lag EXCEPT ![list[i + 1]] = @ + lag[d]]
  /\ active' = active \ {d}
  /\ left' = [left EXCEPT ![d] = Off]

wd_cancel(d) == IF d \in active THEN Unlink(d) ELSE UNCHANGED lists

\* A mutant of wd_delete: an active watchdog is not cancelled.
MutantDelete(d) ==
  /\ heap' = heap \ {d}
  /\ free' = IF d \in Pool THEN Append(free, d) ELSE free
  /\ nfree' = IF d \in Pool THEN nfree + 1 ELSE nfree
  /\ reserved' = reserved \ {d}
  /\ UNCHANGED lists

\* wd_delete: cancel, then give back to the heap or to the pool.
wd_delete(d) ==
  /\ wd_cancel(d)
  /\ heap' = heap \ {d}
  /\ free' = IF d \in Pool THEN Append(free, d) ELSE free
  /\ nfree' = IF d \in Pool THEN nfree + 1 ELSE nfree
  /\ reserved' = reserved \ {d}

\* A mutant of wd_create: the reserve is taken by threads too.
MutantCreate(d, in_handler) ==
  /\ d = IF free = <<>> THEN NoDog ELSE Head(free)
  /\ free' = IF free = <<>> THEN free ELSE Tail(free)
  /\ nfree' = IF free = <<>> THEN nfree ELSE nfree - 1
  /\ active' = active \ {d}
  /\ reserved' = IF in_handler THEN reserved ELSE reserved \union {d}
  /\ UNCHANGED <<heap, list, lag, left>>

\* wd_create: the watchdog d comes from the pool in a handler, or if more than
\* the reserve is free; otherwise from the heap, which may have none.
wd_create(d, in_handler) ==
  IF nfree > INTRESERVE \/ in_handler
  THEN /\ d = IF free = <<>> THEN NoDog ELSE Head(free)
       /\ free' = IF free = <<>> THEN free ELSE Tail(free)
       /\ nfree' = IF free = <<>> THEN nfree ELSE nfree - 1
       /\ active' = active \ {d}
       /\ reserved' = IF in_handler THEN reserved ELSE reserved \union {d}
       /\ UNCHANGED <<heap, list, lag, left>>
  ELSE /\ d \in {NoDog} \union (Heap \ heap)
       /\ heap' = heap \union ({d} \ {NoDog})
       /\ active' = active \ {d}
       /\ UNCHANGED <<free, nfree, reserved, list, lag, left>>

\* A mutant of wd_start: a delay of zero is not made one tick.
MutantStart(d, delay, u) ==
  /\ wd_cancel(d)
  /\ parm' = [parm EXCEPT ![d] = u]
  /\ walk' = [dog |-> d, delay |-> delay, curr |-> 0, now |-> 0]

\* wd_start up to the walk: an active watchdog is cancelled first.
wd_start(d, delay, u) ==
  /\ wd_cancel(d)
  /\ parm' = [parm EXCEPT ![d] = u]
  /\ walk' = [dog |-> d, delay |-> IF delay <= 0 THEN 1 ELSE delay, curr |-> 0, now |-> 0]

\* wd_gettime: the lags up to that of d.
wd_gettime(d) ==
  LET delay[i \in 0 .. Len(list)] == IF i = 0 THEN 0 ELSE delay[i - 1] + lag[list[i]]
  IN  IF d \in active THEN delay[IndexOf(d)] ELSE 0

-----------------------------------------------------------------------------
(* wd_start: the walk along the list and the insertion.                    *)

\* Advance past the shorter delays, and past equal ones.
Advance ==
  /\ walk # NoWalk
  /\ walk.curr < Len(list)
  /\ walk.now <= walk.delay
  /\ walk' = [walk EXCEPT !.curr = @ + 1, !.now = @ + lag[list[walk.curr + 1]]]
  /\ UNCHANGED <<lists, pool, users, parm, irq, caller, calls>>

\* Before curr, whose lag becomes relative to the new watchdog, or at the end.
Insert ==
  /\ walk # NoWalk
  /\ ~(walk.curr < Len(list) /\ walk.now <= walk.delay)
  /\ LET d == walk.dog
         c == walk.curr
         before == walk.delay < walk.now
         relative == IF before THEN walk.delay - (walk.now - lag[list[c]])
                               ELSE walk.delay - walk.now
     IN  /\ list' = IF before THEN InsertAt(list, c, d) ELSE Append(list, d)
         /\ lag' = IF before THEN [lag EXCEPT ![list[c]] = @ - relative, ![d] = relative]
                             ELSE [lag EXCEPT ![d] = relative]
         /\ active' = active \union {d}
         /\ left' = [left EXCEPT ![d] = walk.delay]
  /\ walk' = NoWalk
  /\ UNCHANGED <<pool, users, parm, irq, caller, calls>>

-----------------------------------------------------------------------------
(* wd_timer and wd_expiration: the timer interrupt.                        *)

wd_timer ==
  /\ irq = "none" /\ walk = NoWalk
  /\ list # <<>>
  /\ lag' = [lag EXCEPT ![list[1]] = @ - 1]
  /\ left' = [d \in Dogs |-> IF d \in active THEN left[d] - 1 ELSE left[d]]
  /\ irq' = IF lag'[list[1]] <= 0 THEN "expiration" ELSE "none"
  /\ UNCHANGED <<pool, users, list, active, parm, caller, calls, walk>>

\* A mutant of Expire: the timed wait is not ended.
MutantExpire ==
  /\ irq = "expiration"
  /\ list # <<>>
  /\ LET d == list[1] IN
     /\ lag[d] <= 0
     /\ list' = Tail(list)
     /\ lag' = IF Len(list) > 1 THEN [lag EXCEPT ![list[2]] = @ + lag[d]] ELSE lag
     /\ active' = active \ {d}
     /\ left' = [left EXCEPT ![d] = Off]
     /\ caller' = parm[d]
     /\ calls' = IF parm[d] \in Timers THEN MaxCalls ELSE 0
  /\ irq' = "function"
  /\ UNCHANGED <<pool, parm, handle, waitdog, at, walk>>

\* The head of the list is removed and its function called; that of a timed
\* wait (sem_timeout) makes the thread ready if it is still blocked.
Expire ==
  /\ irq = "expiration"
  /\ list # <<>>
  /\ LET d == list[1] IN
     /\ lag[d] <= 0
     /\ list' = Tail(list)
     /\ lag' = IF Len(list) > 1 THEN [lag EXCEPT ![list[2]] = @ + lag[d]] ELSE lag
     /\ active' = active \ {d}
     /\ left' = [left EXCEPT ![d] = Off]
     /\ caller' = parm[d]
     /\ calls' = IF parm[d] \in Timers THEN MaxCalls ELSE 0
     /\ at' = IF parm[d] \in Waiters /\ at[parm[d]] = "blocked"
              THEN [at EXCEPT ![parm[d]] = "ready"] ELSE at
  /\ irq' = "function"
  /\ UNCHANGED <<pool, parm, handle, waitdog, walk>>

FunctionReturns ==
  /\ irq = "function" /\ walk = NoWalk
  /\ irq' = "expiration"
  /\ caller' = NoUser
  /\ calls' = 0
  /\ UNCHANGED <<lists, pool, users, parm, walk>>

InterruptReturns ==
  /\ irq = "expiration"
  /\ list # <<>> => lag[list[1]] > 0
  /\ irq' = "none"
  /\ UNCHANGED <<lists, pool, users, parm, caller, calls, walk>>

-----------------------------------------------------------------------------
(* The users.  A timer uses its watchdog from threads, from handlers of    *)
(* other devices, and from the functions of watchdogs.                     *)

Call(in_handler) ==
  /\ walk = NoWalk
  /\ \/ /\ irq = "none"
        /\ UNCHANGED calls
     \/ /\ irq = "function" /\ in_handler
        /\ calls > 0
        /\ calls' = calls - 1
  /\ UNCHANGED <<irq, caller>>

TimerCreate(u, in_handler) ==
  /\ Call(in_handler)
  /\ handle[u] = NoDog
  /\ \E d \in Dogs \union {NoDog} :
       /\ wd_create(d, in_handler)
       /\ handle' = [handle EXCEPT ![u] = d]
  /\ UNCHANGED <<parm, waitdog, at, walk>>

TimerStart(u, delay) ==
  /\ Call(TRUE)
  /\ handle[u] # NoDog
  /\ wd_start(handle[u], delay, u)
  /\ UNCHANGED <<pool, users>>

TimerCancel(u) ==
  /\ Call(TRUE)
  /\ handle[u] # NoDog
  /\ wd_cancel(handle[u])
  /\ UNCHANGED <<pool, users, parm, walk>>

TimerDelete(u) ==
  /\ Call(TRUE)
  /\ handle[u] # NoDog
  /\ wd_delete(handle[u])
  /\ handle' = IF handle[u] \in Static THEN handle ELSE [handle EXCEPT ![u] = NoDog]
  /\ UNCHANGED <<parm, waitdog, at, walk>>

Running == irq = "none" /\ walk = NoWalk /\ UNCHANGED <<irq, caller, calls, handle>>

WaitCreate(t) ==
  /\ Running
  /\ at[t] = "idle"
  /\ \E d \in Dogs \union {NoDog} :
       /\ wd_create(d, FALSE)
       /\ waitdog' = [waitdog EXCEPT ![t] = d]
       /\ at' = IF d = NoDog THEN at ELSE [at EXCEPT ![t] = "created"]
  /\ UNCHANGED <<parm, walk>>

WaitStart(t, delay) ==
  /\ Running
  /\ at[t] = "created"
  /\ delay > 0
  /\ wd_start(waitdog[t], delay, t)
  /\ at' = [at EXCEPT ![t] = "blocked"]
  /\ UNCHANGED <<pool, waitdog>>

\* The semaphore is posted, or a signal ends the wait.
WaitPosted(t) ==
  /\ irq = "none" /\ walk = NoWalk
  /\ at[t] = "blocked"
  /\ at' = [at EXCEPT ![t] = "ready"]
  /\ UNCHANGED <<lists, pool, parm, handle, waitdog, irq, caller, calls, walk>>

\* A mutant of WaitCancel: the watchdog is deleted here as well.
MutantWaitCancel(t) ==
  /\ Running
  /\ at[t] = "ready"
  /\ wd_delete(waitdog[t])
  /\ at' = [at EXCEPT ![t] = "cancelled"]
  /\ UNCHANGED <<parm, waitdog, walk>>

WaitCancel(t) ==
  /\ Running
  /\ at[t] = "ready"
  /\ wd_cancel(waitdog[t])
  /\ at' = [at EXCEPT ![t] = "cancelled"]
  /\ UNCHANGED <<pool, parm, waitdog, walk>>

\* Interrupts are enabled again; the semaphore may have been free at once.
WaitDelete(t) ==
  /\ Running
  /\ at[t] \in {"created", "cancelled"}
  /\ wd_delete(waitdog[t])
  /\ at' = [at EXCEPT ![t] = "deleted"]
  /\ UNCHANGED <<parm, waitdog, walk>>

WaitClear(t) ==
  /\ Running
  /\ at[t] = "deleted"
  /\ waitdog' = [waitdog EXCEPT ![t] = NoDog]
  /\ at' = [at EXCEPT ![t] = "idle"]
  /\ UNCHANGED <<lists, pool, parm, walk>>

\* wd_recover: another thread deletes this one; a new one takes its place.
wd_recover(t) ==
  /\ Running
  /\ at[t] \in KillAt
  /\ wd_delete(waitdog[t])
  /\ waitdog' = [waitdog EXCEPT ![t] = NoDog]
  /\ at' = [at EXCEPT ![t] = "idle"]
  /\ UNCHANGED <<parm, walk>>

Next ==
  \/ Advance \/ Insert
  \/ wd_timer \/ Expire \/ FunctionReturns \/ InterruptReturns
  \/ \E u \in Timers :
       \/ \E h \in BOOLEAN : TimerCreate(u, h)
       \/ \E delay \in Delays : TimerStart(u, delay)
       \/ TimerCancel(u) \/ TimerDelete(u)
  \/ \E t \in Waiters :
       \/ WaitCreate(t)
       \/ \E delay \in Delays : WaitStart(t, delay)
       \/ WaitPosted(t) \/ WaitCancel(t) \/ WaitDelete(t) \/ WaitClear(t)
       \/ wd_recover(t)

\* Interrupts are not disabled for ever, and the timer interrupt, which stays
\* pending meanwhile, is then taken; the functions of watchdogs return.
Fairness ==
  /\ SF_vars(wd_timer)
  /\ WF_vars(Advance \/ Insert)
  /\ WF_vars(Expire \/ FunctionReturns \/ InterruptReturns)

Spec == Init /\ [][Next]_vars /\ Fairness

-----------------------------------------------------------------------------
(* Properties.                                                             *)

User == Timers \union Waiters \union {NoUser}

TypeOK ==
  /\ list \in Seq(Dogs)
  /\ lag \in [Dogs -> Int]
  /\ active \subseteq Dogs
  /\ parm \in [Dogs -> User]
  /\ free \in Seq(Pool)
  /\ nfree \in Nat
  /\ heap \subseteq Heap
  /\ handle \in [Timers -> Dogs \union {NoDog}]
  /\ waitdog \in [Waiters -> Dogs \union {NoDog}]
  /\ at \in [Waiters -> WaitPoint]
  /\ irq \in {"none", "expiration", "function"}
  /\ caller \in User
  /\ calls \in 0 .. MaxCalls
  /\ walk \in [dog : Dogs \union {NoDog}, delay : Nat, curr : Nat, now : Int]
  /\ left \in [Dogs -> Nat \union {Off}]
  /\ reserved \subseteq Pool

\* The watchdogs marked active are those in the list, each once, and none of
\* them is free: the search of wd_cancel always finds its watchdog, whatever
\* starts, cancels, deletes and expirations came before.
ActiveExact ==
  /\ IsInjective(list)
  /\ Range(list) = active
  /\ active \subseteq InUse

\* g_wdnfree counts the free list, no watchdog is freed twice, and a watchdog
\* that somebody may still use is not free and has one owner.
Owned(t) == at[t] \notin {"idle", "deleted"}
FreeExact ==
  /\ nfree = Len(free)
  /\ IsInjective(free)
  /\ \A u \in Timers : handle[u] \in InUse \union {NoDog}
  /\ \A t \in Waiters : Owned(t) => waitdog[t] \in InUse
  /\ \A u, v \in Timers : handle[u] = handle[v] /\ u # v => handle[u] = NoDog
  /\ \A t, w \in Waiters : Owned(t) /\ Owned(w) /\ t # w => waitdog[t] # waitdog[w]
  /\ \A u \in Timers, t \in Waiters : Owned(t) => waitdog[t] # handle[u]

\* Threads leave CONFIG_WDOG_INTRESERVE watchdogs of the pool to the handlers,
\* whatever is taken and given back in between.
ReserveKept == Cardinality(reserved) <= Max({0, Cardinality(Pool) - INTRESERVE})

\* wd_gettime returns the ticks to the deadline, also in the middle of an
\* expiration in which other watchdogs are started and cancelled.
GetTimeExact ==
  walk = NoWalk =>
    \A d \in Dogs : wd_gettime(d) = IF left[d] = Off THEN 0 ELSE left[d]

\* Watchdogs expire exactly at their deadlines, once, in the tick in which they
\* are due, and never after a cancellation.
Abstract == INSTANCE WDogSpec
ImplementsWDogSpec == Abstract!Spec

\* A timed wait ends although nobody posts: its watchdog is neither lost nor
\* kept from its turn by watchdogs that are started over and over.
TimedWaitEnds == \A t \in Waiters : at[t] = "blocked" ~> at[t] # "blocked"

\* The assertion of wd_delete.
FreeWithinPool == nfree <= Cardinality(Pool)
=============================================================================
