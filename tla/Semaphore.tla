----------------------------- MODULE Semaphore -----------------------------
(***************************************************************************)
(* The kernel's counting semaphores with priority inheritance              *)
(* (os/kernel/semaphore), on one CPU under the preemptive priority         *)
(* scheduler (os/kernel/sched).                                            *)
(*                                                                         *)
(* Every call runs with interrupts disabled, so a call is one step, except *)
(* where the kernel itself switches context in the middle of it: blocking  *)
(* in sem_wait, and lowering the priority of the running task              *)
(* (sched_setpriority -> up_reprioritize_rtr), which suspends sem_post,    *)
(* sem_waitirq and sem_recover half way.  What is left of a suspended call *)
(* is kept in cont[t] and is a step of its own.                            *)
(*                                                                         *)
(* Abstractions.  The ready-to-run list is the set of READY tasks: any     *)
(* ready task of the highest sched_priority may be the running one (equal  *)
(* priorities rotate by time slice or sched_yield).  g_waitingforsemaphore *)
(* is the set of WAIT_SEM tasks, ordered by priority and, among equals, by *)
(* the relation ahead.  g_freeholders is the number of unused containers.  *)
(* A TCB address is never reused.                                          *)
(***************************************************************************)
EXTENDS Integers, Sequences, FiniteSets

CONSTANTS
  Tasks,            \* the threads
  Sems,             \* the semaphores
  NoSem,            \* a NULL sem_t pointer
  NoTask,           \* a NULL tcb pointer
  BasePriority,     \* [Tasks -> Nat \ {0}], the priority each thread starts with
  InitCount,        \* [Sems -> Nat], the value given to sem_init
  LockSems,         \* semaphores used as locks: only an owner posts them
  IsrSems,          \* used only through sem_wait_for_isr / sem_post_from_isr
  NoInherit,        \* semaphores with PRIOINHERIT_FLAGS_DISABLE set
  Uses,             \* [Tasks -> SUBSET Sems], the semaphores each thread waits for
  NestWaits,        \* may a thread wait for a semaphore while it owns a lock?
  Disturbances,     \* what may end a wait early or end a thread
  Signallers,       \* the threads that signal or delete other threads
  SEM_VALUE_MAX,    \* the largest count (a bound: 0x7fff in limits.h)
  SEM_PREALLOCHOLDERS, \* CONFIG_SEM_PREALLOCHOLDERS
  SEM_NNESTPRIO,    \* CONFIG_SEM_NNESTPRIO
  MaxHolds,         \* bound: counts of one semaphore a thread holds at a time
  MaxPend           \* bound: pending priorities of a holder when another waits

Disturbance == {"timeout", "signal_irq", "signal_task", "kill", "exit"}

ASSUME ConstantsAssumption ==
  /\ IsFiniteSet(Tasks)
  /\ NoSem \notin Sems
  /\ NoTask \notin Tasks
  /\ SEM_VALUE_MAX \in Nat \ {0}
  /\ BasePriority \in [Tasks -> Nat \ {0}]
  /\ InitCount \in [Sems -> 0 .. SEM_VALUE_MAX]
  /\ LockSems \subseteq Sems
  /\ IsrSems \subseteq Sems \ LockSems
  /\ NoInherit \subseteq Sems
  /\ Uses \in [Tasks -> SUBSET Sems]
  /\ NestWaits \in BOOLEAN
  /\ Disturbances \subseteq Disturbance
  /\ Signallers \subseteq Tasks
  /\ SEM_PREALLOCHOLDERS \in Nat
  /\ SEM_NNESTPRIO \in Nat
  /\ MaxHolds \in Nat
  /\ MaxPend \in Nat

VARIABLES
  task_state,   \* [Tasks -> {"READY", "WAIT_SEM", "DEAD"}]
  waitsem,      \* tcb->waitsem
  pterrno,      \* tcb->pterrno as sem_wait reads it: "OK", "EINTR", "ETIMEDOUT"
  waitdog,      \* the threads whose tcb->waitdog is running
  tcb,          \* the priority fields of each TCB
  semcount,     \* sem->semcount
  holders,      \* sem->hhead: the holder list, most recent first
  ahead,        \* pairs of waiting threads of one priority, in the order of the
                \* list g_waitingforsemaphore
  cont,         \* what each thread has left of a call that switched context
  locks         \* the locks each thread owns, as its own code sees it

vars == <<task_state, waitsem, pterrno, waitdog, tcb, semcount, holders, ahead, cont,
          locks>>

-----------------------------------------------------------------------------
(* Scheduling.                                                             *)

Alive(t) == task_state[t] # "DEAD"          \* sched_verifytcb
Ready(t) == task_state[t] = "READY"

\* The thread at the head of g_readytorun.
Running(t) ==
  /\ Ready(t)
  /\ \A u \in Tasks : Ready(u) => tcb[u].sched_priority <= tcb[t].sched_priority

NoCont == [kind |-> "none"]

\* t runs its own code, not the rest of a call that was switched out.
Free(t) == Running(t) /\ cont[t] = NoCont

\* The thread an interrupt handler finds at the head of g_readytorun: NoTask
\* is the idle task.  One handler may end several waits (a tick that expires
\* several watchdogs), so the head may be a thread it has just woken, still in
\* sem_wait; a call that was switched out goes on with interrupts disabled.
Interrupted(r) ==
  \/ r \in Tasks /\ Running(r) /\ cont[r].kind \in {"none", "wait"}
  \/ r = NoTask /\ \A t \in Tasks : ~Ready(t)

IrqEnabled == \E r \in Tasks \union {NoTask} : Interrupted(r)

ReadyTasks == {t \in Tasks : Ready(t)}

-----------------------------------------------------------------------------
(* Holder lists.                                                           *)

Holder(t, n) == [htcb |-> t, counts |-> n]
HolderTasks(hs) == {hs[k].htcb : k \in DOMAIN hs}
AllHolders == UNION {{<<s, k>> : k \in DOMAIN holders[s]} : s \in Sems}

\* sem_findholder: the place of t's container, one past the end if it has none.
Position(hs, t) ==
  IF t \in HolderTasks(hs) THEN CHOOSE k \in DOMAIN hs : hs[k].htcb = t ELSE Len(hs) + 1

sem_releaseholder(hs, t) ==
  LET k == Position(hs, t) IN
  IF t \in HolderTasks(hs) /\ hs[k].counts > 0 THEN [hs EXCEPT ![k].counts = @ - 1] ELSE hs

\* Priority inheritance may be off for s, and the containers may be used up.
sem_addholder_tcb(s, hs, t) ==
  IF s \in NoInherit THEN hs
  ELSE IF t \in HolderTasks(hs) THEN [hs EXCEPT ![Position(hs, t)].counts = @ + 1]
  ELSE IF Cardinality(AllHolders) < SEM_PREALLOCHOLDERS THEN <<Holder(t, 1)>> \o hs
  ELSE hs

\* sem_freeholder, for the containers of the threads in gone.
Without(hs, gone) ==
  LET rest[k \in 0 .. Len(hs)] ==
        IF k = 0 THEN <<>>
        ELSE IF hs[k].htcb \in gone THEN rest[k - 1] ELSE Append(rest[k - 1], hs[k])
  IN  rest[Len(hs)]

\* Removal of the stale handles that a walk over the list meets.
FreeStale(hs) == Without(hs, {t \in Tasks : ~Alive(t)})

MutantFreeIfEmpty(hs, t) == hs

\* The container of t is freed once it holds no more counts.
FreeIfEmpty(hs, t) ==
  IF t \in HolderTasks(hs) /\ hs[Position(hs, t)].counts = 0 THEN Without(hs, {t}) ELSE hs

-----------------------------------------------------------------------------
(* Priority inheritance: one TCB h, and the priority p of a waiter.        *)

RemoveAt(pend, i) ==
  SubSeq([pend EXCEPT ![i] = pend[Len(pend)]], 1, Len(pend) - 1)

FirstMax(pend) ==
  CHOOSE j \in DOMAIN pend :
    /\ \A i \in DOMAIN pend : pend[i] <= pend[j]
    /\ \A i \in 1 .. j - 1 : pend[i] < pend[j]

MutantBoost(h, p) == h

sem_boostholderprio(h, p) ==
  IF p <= h.base_priority THEN h
  ELSE IF p > h.sched_priority
  THEN [h EXCEPT !.sched_priority = p,
                 !.pend_reprios =
                    IF h.sched_priority > h.base_priority /\ Len(@) < SEM_NNESTPRIO
                    THEN Append(@, h.sched_priority) ELSE @]
  ELSE [h EXCEPT !.pend_reprios = Append(@, p)]

\* The three ways sem_restoreholderprio lowers a boosted holder.
ToBase(h) == h.sched_priority # h.base_priority /\ h.pend_reprios = <<>>
ToPending(h, p) ==
  h.sched_priority # h.base_priority /\ h.pend_reprios # <<>> /\ h.sched_priority <= p
ForgetPending(h, p) ==
  h.sched_priority # h.base_priority /\ h.pend_reprios # <<>> /\ h.sched_priority > p

MutantRestore(h, p) == h

sem_restoreholderprio(h, p) ==
  CASE ToBase(h) -> [h EXCEPT !.sched_priority = h.base_priority]
    [] ToPending(h, p) ->
         LET j == FirstMax(h.pend_reprios) IN
         [h EXCEPT !.sched_priority = h.pend_reprios[j],
                   !.pend_reprios = RemoveAt(@, j)]
    [] ForgetPending(h, p) ->
         IF \E i \in DOMAIN h.pend_reprios : h.pend_reprios[i] = p
         THEN LET i == CHOOSE i \in DOMAIN h.pend_reprios :
                         /\ h.pend_reprios[i] = p
                         /\ \A k \in 1 .. i - 1 : h.pend_reprios[k] # p
              IN [h EXCEPT !.pend_reprios = RemoveAt(@, i)]
         ELSE h
    [] OTHER -> h

\* Does sem_restoreholderprio call sched_setpriority?
Lowers(h, p) == ToBase(h) \/ ToPending(h, p)

Raises(h, p) == p > h.base_priority /\ p > h.sched_priority

sem_boostpriority(st, hs, r) ==
  [t \in Tasks |-> IF t \in HolderTasks(hs) /\ Alive(t)
                   THEN sem_boostholderprio(st[t], st[r].sched_priority) ELSE st[t]]

\* sem_foreachholder over hs with sem_restoreholderprio and stcb, leaving out
\* the threads in skip.  Once stcb itself has been visited, the holders after
\* it are compared with the priority stcb was lowered to.
Visited(hs, skip, t) == t \in HolderTasks(hs) \ skip /\ Alive(t)

SeenPrio(st, hs, stcb, skip, t) ==
  IF Visited(hs, skip, stcb) /\ Position(hs, stcb) < Position(hs, t)
  THEN sem_restoreholderprio(st[stcb], st[stcb].sched_priority).sched_priority
  ELSE st[stcb].sched_priority

RestoreHolders(st, hs, stcb, skip) ==
  [t \in Tasks |-> IF Visited(hs, skip, t)
                   THEN sem_restoreholderprio(st[t], SeenPrio(st, hs, stcb, skip, t))
                   ELSE st[t]]

\* The threads a walk gives to sched_setpriority, which takes a waiting thread
\* out of its list and puts it back behind its equals (sched_addprioritized).
Boosted(st, hs, r) ==
  {t \in HolderTasks(hs) : Alive(t) /\ Raises(st[t], st[r].sched_priority)}
Restored(st, hs, stcb, skip) ==
  {t \in Tasks : Visited(hs, skip, t) /\ Lowers(st[t], SeenPrio(st, hs, stcb, skip, t))}

\* ahead after a step that put the waiting threads in moved back, in the order
\* of the walk over hs.
Requeue(moved, hs) ==
  LET waiting == {t \in Tasks : task_state'[t] = "WAIT_SEM"} IN
  ahead' = {p \in waiting \X waiting :
              /\ p[1] # p[2]
              /\ tcb'[p[1]].sched_priority = tcb'[p[2]].sched_priority
              /\ IF p[2] \in moved
                 THEN p[1] \notin moved \/ Position(hs, p[1]) < Position(hs, p[2])
                 ELSE p[1] \notin moved /\ p \in ahead}

-----------------------------------------------------------------------------
Init ==
  /\ task_state = [t \in Tasks |-> "READY"]
  /\ waitsem = [t \in Tasks |-> NoSem]
  /\ pterrno = [t \in Tasks |-> "OK"]
  /\ waitdog = {}
  /\ tcb = [t \in Tasks |-> [sched_priority |-> BasePriority[t],
                             base_priority |-> BasePriority[t],
                             pend_reprios |-> <<>>]]
  /\ semcount = InitCount
  /\ holders = [s \in Sems |-> <<>>]
  /\ ahead = {}
  /\ cont = [t \in Tasks |-> NoCont]
  /\ locks = [t \in Tasks |-> {}]

\* The threads whose TCB says they wait for s.
Waiters(s) == {t \in Tasks : task_state[t] = "WAIT_SEM" /\ waitsem[t] = s}

\* The first TCB of the prioritized list g_waitingforsemaphore that waits for s.
FirstWaiter(s, w) ==
  /\ w \in Waiters(s)
  /\ \A u \in Waiters(s) :
       /\ tcb[u].sched_priority <= tcb[w].sched_priority
       /\ <<u, w>> \notin ahead

\* How the code outside the kernel uses semaphores: a thread does not wait for
\* a lock it owns, and waits while it owns a lock only when NestWaits says so.
\* The bounds on counts and pending priorities are guards here.
MayWait(t, s) ==
  /\ s \in Uses[t] \ locks[t]
  /\ NestWaits \/ locks[t] = {}
  /\ \A k \in DOMAIN holders[s] :
       /\ holders[s][k].htcb = t => holders[s][k].counts < MaxHolds
       /\ Len(tcb[holders[s][k].htcb].pend_reprios) < MaxPend

OwnLock(t, s) == IF s \in LockSems THEN [locks EXCEPT ![t] = @ \union {s}] ELSE locks
DropLock(t, s) == [locks EXCEPT ![t] = @ \ {s}]

-----------------------------------------------------------------------------
(* sem_wait, sem_trywait, sem_tickwait, sem_timedwait, sem_wait_for_isr.   *)

\* A count is available: sem_wait, sem_trywait and the timed waits take it.
Take(t, s) ==
  /\ Free(t)
  /\ s \notin IsrSems
  /\ MayWait(t, s)
  /\ semcount[s] > 0
  /\ semcount' = [semcount EXCEPT ![s] = @ - 1]
  /\ holders' = [holders EXCEPT ![s] = sem_addholder_tcb(s, @, t)]
  /\ waitsem' = [waitsem EXCEPT ![t] = NoSem]
  /\ locks' = OwnLock(t, s)
  /\ UNCHANGED <<task_state, pterrno, waitdog, tcb, ahead, cont>>

\* No count is available: the thread boosts the holders and blocks.  With
\* timed, sem_tickwait or sem_timedwait has started the watchdog before.
Block(t, s, timed) ==
  /\ Free(t)
  /\ s \notin IsrSems
  /\ MayWait(t, s)
  /\ timed => "timeout" \in Disturbances
  /\ semcount[s] <= 0
  /\ semcount' = [semcount EXCEPT ![s] = @ - 1]
  /\ waitsem' = [waitsem EXCEPT ![t] = s]
  /\ tcb' = sem_boostpriority(tcb, holders[s], t)
  /\ holders' = [holders EXCEPT ![s] = FreeStale(@)]
  /\ pterrno' = [pterrno EXCEPT ![t] = "OK"]
  /\ task_state' = [task_state EXCEPT ![t] = "WAIT_SEM"]
  /\ waitdog' = IF timed THEN waitdog \union {t} ELSE waitdog
  /\ Requeue(Boosted(tcb, holders[s], t) \union {t}, Without(holders[s], {t}))
  /\ cont' = [cont EXCEPT ![t] = [kind |-> "wait", sem |-> s]]
  /\ UNCHANGED locks

\* sem_wait_for_isr keeps out of priority inheritance.
TakeIsr(t, s) ==
  /\ Free(t)
  /\ s \in IsrSems
  /\ MayWait(t, s)
  /\ semcount[s] > 0
  /\ semcount' = [semcount EXCEPT ![s] = @ - 1]
  /\ waitsem' = [waitsem EXCEPT ![t] = NoSem]
  /\ UNCHANGED <<task_state, pterrno, waitdog, tcb, holders, ahead, cont, locks>>

BlockIsr(t, s) ==
  /\ Free(t)
  /\ s \in IsrSems
  /\ MayWait(t, s)
  /\ semcount[s] <= 0
  /\ semcount' = [semcount EXCEPT ![s] = @ - 1]
  /\ waitsem' = [waitsem EXCEPT ![t] = s]
  /\ pterrno' = [pterrno EXCEPT ![t] = "OK"]
  /\ task_state' = [task_state EXCEPT ![t] = "WAIT_SEM"]
  /\ cont' = [cont EXCEPT ![t] = [kind |-> "wait", sem |-> s]]
  /\ UNCHANGED <<waitdog, tcb, holders, locks>>
  /\ Requeue({t}, <<>>)

MutantWaitReturn(t) ==
  /\ Running(t)
  /\ cont[t].kind = "wait"
  /\ locks' = OwnLock(t, cont[t].sem)
  /\ cont' = [cont EXCEPT ![t] = NoCont]
  /\ UNCHANGED <<task_state, waitsem, pterrno, waitdog, tcb, semcount, holders, ahead>>

\* The woken thread runs again: it reads errno, stops its watchdog and returns.
WaitReturn(t) ==
  /\ Running(t)
  /\ cont[t].kind = "wait"
  /\ waitdog' = waitdog \ {t}
  /\ locks' = IF pterrno[t] = "OK" THEN OwnLock(t, cont[t].sem) ELSE locks
  /\ cont' = [cont EXCEPT ![t] = NoCont]
  /\ UNCHANGED <<task_state, waitsem, pterrno, tcb, semcount, holders, ahead>>

-----------------------------------------------------------------------------
(* sem_post, sem_post_from_isr.                                            *)

\* The ASSERT of sem_post and sem_post_from_isr.
CanPost(s) == semcount[s] < SEM_VALUE_MAX

\* sched_setpriority gives the running thread r a priority: it loses the CPU
\* when a thread of the ready-to-run list has at least that priority (threads
\* woken under sched_lock are on g_pendingtasks and do not count).
SwitchesOut(st, r, listed) ==
  \E u \in listed \ {r} : st[r].sched_priority <= st[u].sched_priority

\* A post that finds no waiter.
PostCount(r, s) ==
  /\ Waiters(s) = {} \/ semcount[s] >= 0
  /\ holders' = [holders EXCEPT ![s] = FreeIfEmpty(sem_releaseholder(@, r), r)]
  /\ UNCHANGED <<task_state, waitsem, tcb, ahead, cont>>

\* A post that gives the count to w.  The holders other than the poster are
\* restored first, the poster last: that may switch the poster out before it
\* has removed its own empty holder container.
PostWake(r, s, w) ==
  LET hs   == sem_addholder_tcb(s, sem_releaseholder(holders[s], r), w)
      stA  == RestoreHolders(tcb, hs, w, {r})
      seen == stA[w].sched_priority
      stB  == IF r \in HolderTasks(hs)
              THEN [stA EXCEPT ![r] = sem_restoreholderprio(@, seen)] ELSE stA
      listed == IF tcb[w].sched_priority > tcb[r].sched_priority
                THEN ReadyTasks ELSE ReadyTasks \union {w}
      suspended == /\ r \in HolderTasks(hs)
                   /\ Lowers(stA[r], seen)
                   /\ SwitchesOut(stB, r, listed)
  IN  /\ semcount[s] < 0
      /\ FirstWaiter(s, w)
      /\ task_state' = [task_state EXCEPT ![w] = "READY"]
      /\ waitsem' = [waitsem EXCEPT ![w] = NoSem]
      /\ tcb' = stB
      /\ Requeue(Restored(tcb, hs, w, {r}), hs)
      /\ holders' = [holders EXCEPT ![s] =
                        IF suspended THEN FreeStale(hs) ELSE FreeIfEmpty(FreeStale(hs), r)]
      /\ cont' = IF suspended
                 THEN [cont EXCEPT ![r] = [kind |-> "post", sem |-> s,
                                           wipe |-> ToBase(stA[r])]]
                 ELSE cont

Post(r, s) ==
  /\ Free(r)
  /\ s \notin IsrSems
  /\ s \in LockSems => s \in locks[r]
  /\ CanPost(s)
  /\ semcount' = [semcount EXCEPT ![s] = @ + 1]
  /\ locks' = DropLock(r, s)
  /\ PostCount(r, s) \/ \E w \in Tasks : PostWake(r, s, w)
  /\ UNCHANGED <<pterrno, waitdog>>

\* The rest of a post whose thread was switched out in sched_setpriority.
PostResume(r) ==
  /\ Running(r)
  /\ cont[r].kind = "post"
  /\ tcb' = IF cont[r].wipe THEN [tcb EXCEPT ![r].pend_reprios = <<>>] ELSE tcb
  /\ holders' = [holders EXCEPT ![cont[r].sem] = FreeIfEmpty(@, r)]
  /\ cont' = [cont EXCEPT ![r] = NoCont]
  /\ UNCHANGED <<task_state, waitsem, pterrno, waitdog, semcount, ahead, locks>>

\* sem_post in an interrupt handler: sem_releaseholder charges the interrupted
\* thread r, and no empty container is removed.
IrqPost(r, s) ==
  LET hs == sem_releaseholder(holders[s], r) IN
  /\ Interrupted(r)
  /\ s \notin LockSems \union IsrSems
  /\ CanPost(s)
  /\ semcount' = [semcount EXCEPT ![s] = @ + 1]
  /\ \/ /\ Waiters(s) = {} \/ semcount[s] >= 0
        /\ holders' = [holders EXCEPT ![s] = hs]
        /\ UNCHANGED <<task_state, waitsem, tcb, ahead>>
     \/ \E w \in Tasks :
          LET hs2 == sem_addholder_tcb(s, hs, w) IN
          /\ semcount[s] < 0
          /\ FirstWaiter(s, w)
          /\ task_state' = [task_state EXCEPT ![w] = "READY"]
          /\ waitsem' = [waitsem EXCEPT ![w] = NoSem]
          /\ tcb' = RestoreHolders(tcb, hs2, w, {})
          /\ Requeue(Restored(tcb, hs2, w, {}), hs2)
          /\ holders' = [holders EXCEPT ![s] = FreeStale(hs2)]
  /\ UNCHANGED <<pterrno, waitdog, cont, locks>>

\* sem_post_from_isr keeps out of priority inheritance.
PostFromIsr(s) ==
  /\ IrqEnabled
  /\ UNCHANGED tcb
  /\ s \in IsrSems
  /\ CanPost(s)
  /\ semcount' = [semcount EXCEPT ![s] = @ + 1]
  /\ \/ /\ Waiters(s) = {} \/ semcount[s] >= 0
        /\ UNCHANGED <<task_state, waitsem, ahead>>
     \/ \E w \in Tasks :
          /\ semcount[s] < 0
          /\ FirstWaiter(s, w)
          /\ task_state' = [task_state EXCEPT ![w] = "READY"]
          /\ waitsem' = [waitsem EXCEPT ![w] = NoSem]
          /\ Requeue({}, <<>>)
  /\ UNCHANGED <<pterrno, waitdog, holders, cont, locks>>

-----------------------------------------------------------------------------
(* A wait that ends early: sem_timeout, sem_waitirq, sem_recover.          *)

MutantEndWait(w, s, err) ==
  /\ waitsem' = [waitsem EXCEPT ![w] = NoSem]
  /\ task_state' = [task_state EXCEPT ![w] = IF err = "DEAD" THEN "DEAD" ELSE "READY"]
  /\ pterrno' = [pterrno EXCEPT ![w] = IF err = "DEAD" THEN @ ELSE err]
  /\ UNCHANGED semcount

\* The wait of w is over (sem_waitirq) or w is gone (task_terminate).
EndWait(w, s, err) ==
  /\ semcount' = [semcount EXCEPT ![s] = @ + 1]
  /\ waitsem' = [waitsem EXCEPT ![w] = NoSem]
  /\ IF err = "DEAD"
     THEN /\ task_state' = [task_state EXCEPT ![w] = "DEAD"]
          /\ UNCHANGED pterrno
     ELSE /\ task_state' = [task_state EXCEPT ![w] = "READY"]
          /\ pterrno' = [pterrno EXCEPT ![w] = err]

\* sem_waitirq in an interrupt handler: sem_canceled runs to its end.
CancelIrq(w, err) ==
  LET s == waitsem[w] IN
  /\ tcb' = RestoreHolders(tcb, holders[s], w, {})
  /\ holders' = [holders EXCEPT ![s] = FreeStale(@)]
  /\ EndWait(w, s, err)
  /\ Requeue(Restored(tcb, holders[s], w, {}), holders[s])
  /\ UNCHANGED <<cont, locks>>

\* The watchdog of a timed wait expires.
Timeout(w) ==
  /\ IrqEnabled
  /\ w \in waitdog
  /\ waitdog' = waitdog \ {w}
  /\ IF task_state[w] = "WAIT_SEM"
     THEN CancelIrq(w, "ETIMEDOUT")
     ELSE UNCHANGED <<task_state, waitsem, pterrno, tcb, semcount, holders, ahead, cont,
                      locks>>

\* An interrupt handler signals a thread that waits for a semaphore.
SignalIrq(w) ==
  /\ "signal_irq" \in Disturbances
  /\ IrqEnabled
  /\ task_state[w] = "WAIT_SEM"
  /\ CancelIrq(w, "EINTR")
  /\ UNCHANGED waitdog

\* sem_canceled called by the thread r for the waiter w.  When r itself is a
\* boosted holder, restoring it may switch it out: the holders after it, the
\* count and the waiter are then left for CancelResume.
CancelTask(r, w, err) ==
  LET s    == waitsem[w]
      hs   == holders[s]
      at   == CHOOSE k \in DOMAIN hs : hs[k].htcb = r
      before == RestoreHolders(tcb, SubSeq(hs, 1, at - 1), w, {})
      after  == RestoreHolders(tcb, SubSeq(hs, 1, at), w, {})
      suspended == /\ r \in HolderTasks(hs)
                   /\ Lowers(before[r], before[w].sched_priority)
                   /\ SwitchesOut(after, r, ReadyTasks)
  IN  IF suspended
      THEN /\ tcb' = after
           /\ holders' = [holders EXCEPT ![s] = FreeStale(SubSeq(hs, 1, at))
                                                \o SubSeq(hs, at + 1, Len(hs))]
           /\ cont' = [cont EXCEPT ![r] =
                [kind |-> "cancel", sem |-> s, wipe |-> ToBase(before[r]),
                 waiter |-> w, err |-> err,
                 next |-> IF at < Len(hs) THEN hs[at + 1].htcb ELSE NoTask]]
           /\ UNCHANGED <<task_state, waitsem, pterrno, semcount>>
           /\ Requeue(Restored(tcb, SubSeq(hs, 1, at), w, {}), hs)
      ELSE /\ tcb' = RestoreHolders(tcb, hs, w, {})
           /\ holders' = [holders EXCEPT ![s] = FreeStale(@)]
           /\ cont' = IF err = "DEAD" THEN [cont EXCEPT ![w] = NoCont] ELSE cont
           /\ EndWait(w, s, err)
           /\ Requeue(Restored(tcb, hs, w, {}), hs)

\* The rest of a cancellation whose thread was switched out: the walk goes on
\* from the container it had read, the wait is ended without another look at
\* the state of the waiter.  The ASSERT of up_unblock_task stops the system
\* when the waiter no longer waits.
CancelResume(r) ==
  LET c    == cont[r]
      hs   == holders[c.sem]
      wiped == IF c.wipe THEN [tcb EXCEPT ![r].pend_reprios = <<>>] ELSE tcb
      from == IF c.next \in HolderTasks(hs)
              THEN CHOOSE k \in DOMAIN hs : hs[k].htcb = c.next ELSE Len(hs) + 1
      rest == SubSeq(hs, from, Len(hs))
  IN  /\ Running(r)
      /\ c.kind = "cancel"
      /\ c.err = "EINTR" => task_state[c.waiter] = "WAIT_SEM"
      /\ tcb' = RestoreHolders(wiped, rest, c.waiter, {r})
      /\ holders' = [holders EXCEPT ![c.sem] = SubSeq(hs, 1, from - 1) \o FreeStale(rest)]
      /\ cont' = [t \in Tasks |-> IF t = r \/ (t = c.waiter /\ c.err = "DEAD")
                                  THEN NoCont ELSE cont[t]]
      /\ EndWait(c.waiter, c.sem, c.err)
      /\ Requeue(Restored(wiped, rest, c.waiter, {r}), rest)
      /\ UNCHANGED <<waitdog, locks>>

\* A thread signals a thread that waits for a semaphore.
SignalTask(r, w) ==
  /\ "signal_task" \in Disturbances
  /\ r \in Signallers
  /\ Free(r)
  /\ task_state[w] = "WAIT_SEM"
  /\ CancelTask(r, w, "EINTR")
  /\ UNCHANGED <<waitdog, locks>>

\* A thread deletes a waiting thread.
KillWaiter(r, w) ==
  /\ "kill" \in Disturbances
  /\ r \in Signallers
  /\ Free(r)
  /\ task_state[w] = "WAIT_SEM"
  /\ waitdog' = waitdog \ {w}
  /\ CancelTask(r, w, "DEAD")
  /\ UNCHANGED locks

\* A thread ends, or is deleted while it does not run.  Its counts are lost:
\* they are in no TCB, and its holder containers become stale.
Die(w) ==
  /\ \/ "exit" \in Disturbances /\ Free(w)
     \/ "kill" \in Disturbances /\ Ready(w) /\ \E r \in Signallers \ {w} : Free(r)
  /\ task_state' = [task_state EXCEPT ![w] = "DEAD"]
  /\ waitdog' = waitdog \ {w}
  /\ UNCHANGED <<waitsem, pterrno, tcb, semcount, holders, ahead, cont, locks>>

-----------------------------------------------------------------------------
Next ==
  \/ \E t \in Tasks, s \in Sems :
       \/ Take(t, s) \/ Block(t, s, FALSE) \/ Block(t, s, TRUE)
       \/ TakeIsr(t, s) \/ BlockIsr(t, s)
       \/ Post(t, s)
  \/ \E r \in Tasks \union {NoTask}, s \in Sems : IrqPost(r, s)
  \/ \E s \in Sems : PostFromIsr(s)
  \/ \E t \in Tasks : WaitReturn(t) \/ PostResume(t) \/ CancelResume(t)
  \/ \E w \in Tasks : Timeout(w) \/ SignalIrq(w) \/ Die(w)
  \/ \E r \in Tasks, w \in Tasks : SignalTask(r, w) \/ KillWaiter(r, w)

Spec == Init /\ [][Next]_vars

\* A thread that has the CPU finishes the call it is in and, if it owns a
\* lock, gives it back in the end: the code outside the kernel is trusted to
\* post what it took.  No other fairness is needed.
Fairness ==
  \A t \in Tasks :
    /\ WF_vars(WaitReturn(t))
    /\ WF_vars(PostResume(t))
    /\ WF_vars(CancelResume(t))
    /\ \A s \in LockSems : WF_vars(Post(t, s))

FairSpec == Spec /\ Fairness

-----------------------------------------------------------------------------
(* Properties.                                                             *)

Continuation ==
  {NoCont}
    \union [kind : {"wait"}, sem : Sems]
    \union [kind : {"post"}, sem : Sems, wipe : BOOLEAN]
    \union [kind : {"cancel"}, sem : Sems, wipe : BOOLEAN, waiter : Tasks,
            err : {"EINTR", "DEAD"}, next : Tasks \union {NoTask}]

\* The part of the type invariant that the wait and post protocol rests on.
ProtocolTypeOK ==
  /\ task_state \in [Tasks -> {"READY", "WAIT_SEM", "DEAD"}]
  /\ waitsem \in [Tasks -> Sems \union {NoSem}]
  /\ pterrno \in [Tasks -> {"OK", "EINTR", "ETIMEDOUT"}]
  /\ waitdog \subseteq Tasks
  /\ semcount \in [Sems -> Int]
  /\ \A s \in Sems : semcount[s] <= SEM_VALUE_MAX
  /\ cont \in [Tasks -> Continuation]
  /\ locks \in [Tasks -> SUBSET LockSems]

\* The part that priority inheritance adds: priorities are positive, holder
\* containers name threads.
InheritTypeOK ==
  /\ tcb \in [Tasks -> [sched_priority : Nat \ {0}, base_priority : Nat \ {0},
                        pend_reprios : Seq(Nat \ {0})]]
  /\ holders \in [Sems -> Seq([htcb : Tasks, counts : Nat])]
  /\ ahead \subseteq Tasks \X Tasks

\* Every variable keeps its type; in particular sem_post keeps the count of
\* every semaphore within SEM_VALUE_MAX.
TypeOK == ProtocolTypeOK /\ InheritTypeOK

\* The count of a semaphore is the number of its waiters, negated, or no
\* thread waits: sem_post finds a waiter exactly when the count it leaves is
\* not positive (sem_post.c), whatever ended the other waits.
CountMatchesWaiters ==
  \A s \in Sems :
    Cardinality(Waiters(s)) = IF semcount[s] < 0 THEN -semcount[s] ELSE 0

\* The threads that got the count of s and have not yet returned from sem_wait.
Granted(s) ==
  {t \in Tasks : /\ cont[t].kind = "wait"
                 /\ cont[t].sem = s
                 /\ task_state[t] # "WAIT_SEM"
                 /\ pterrno[t] = "OK"}
Owners(s) == {t \in Tasks : s \in locks[t]} \union Granted(s)

\* A lock has no more owners than its initial count, and no count is lost or
\* made by a timeout or a signal that races the post.
CountsConserved ==
  \A s \in LockSems :
    Cardinality(Owners(s)) + (IF semcount[s] > 0 THEN semcount[s] ELSE 0) = InitCount[s]

\* The locks keep the promise of LockSpec: no permit is lost or made, no free
\* permit is left while a thread waits, a post hands its permit to a waiter.
Abs == INSTANCE LockSpec WITH
  Locks <- LockSems,
  Permits <- [s \in LockSems |-> InitCount[s]],
  free <- [s \in LockSems |-> IF semcount[s] > 0 THEN semcount[s] ELSE 0],
  waiting <- [s \in LockSems |-> Waiters(s)],
  owners <- [s \in LockSems |-> Owners(s)]

ImplementsLockSpec == Abs!Spec

\* The counts of s that the holder list of the kernel charges to t.
HeldBy(s, t) ==
  LET at == {k \in DOMAIN holders[s] : holders[s][k].htcb = t}
  IN  IF at = {} THEN 0 ELSE holders[s][CHOOSE k \in at : TRUE].counts

\* While containers suffice, the holder list of a lock charges one count to
\* each living owner and none to any other thread, and an empty container
\* stays only until its thread is back from the sem_post that emptied it.
HoldersExact ==
  \A s \in LockSems \ NoInherit, t \in Tasks :
    Alive(t) =>
      /\ HeldBy(s, t) = IF t \in Owners(s) THEN 1 ELSE 0
      /\ t \in HolderTasks(holders[s]) /\ t \notin Owners(s) =>
           cont[t].kind = "post" /\ cont[t].sem = s

\* Priority inheritance: an owner of a lock runs at no lower priority than any
\* thread that waits for the lock.
NoInversion ==
  \A s \in LockSems \ NoInherit : \A o \in Owners(s), w \in Waiters(s) :
    Alive(o) => tcb[o].sched_priority >= tcb[w].sched_priority

\* A thread that holds no count and is in no call has its base priority.
BaseAfterPost ==
  \A t \in Tasks :
    /\ Alive(t) /\ cont[t] = NoCont
    /\ \A s \in Sems : t \notin HolderTasks(holders[s])
    => tcb[t].sched_priority = tcb[t].base_priority

\* The pending priorities fit in pend_reprios[CONFIG_SEM_NNESTPRIO].
PendWithinArray ==
  \A t \in Tasks : Len(tcb[t].pend_reprios) <= SEM_NNESTPRIO

\* A priority a holder may be restored to is above its base priority and no
\* higher than its present one: restoring never raises a thread.
PendOrdered ==
  \A t \in Tasks : \A k \in DOMAIN tcb[t].pend_reprios :
    /\ tcb[t].pend_reprios[k] <= tcb[t].sched_priority
    /\ tcb[t].pend_reprios[k] > tcb[t].base_priority

\* No watchdog outlives the wait it was started for.
NoStaleWatchdog ==
  \A t \in waitdog : cont[t].kind = "wait"

\* sem_post in an interrupt handler takes no count from any holder.
IrqPostInjects ==
  [][\A r \in Tasks \union {NoTask}, s \in Sems :
       IrqPost(r, s) => \A t \in Tasks : HeldBy(s, t)' >= HeldBy(s, t)]_vars

\* The thread of the highest priority gets the lock it waits for, although a
\* thread of middle priority may never give up the CPU.
HighestServed ==
  \A t \in Tasks, s \in LockSems :
    (\A u \in Tasks \ {t} : BasePriority[u] < BasePriority[t]) =>
      (t \in Waiters(s) ~> t \notin Waiters(s))

=============================================================================
