# TLA+ models of the ARTIK-05x RA8875 firmware

The repository is a fork of TizenRT (a NuttX derivative) for the Samsung
ARTIK 053 module (one Cortex-R4 core) that adds a driver for the RA8875 LCD
controller on SPI.  This directory holds TLA+ models of the parts of the
firmware whose correctness depends on the order in which threads, interrupt
handlers and timers act, the TLC instances that check them, and TLAPS proofs of
the safety properties for any number of threads, semaphores, timers, messages
and signals.

| module | models | extends |
|---|---|---|
| `Semaphore` | semaphores with priority inheritance on the scheduler | |
| `LockSpec` | what a lock promises to its users | |
| `SemaphoreProofs` | proofs of the protocol, the holder lists, priority inheritance and the refinement | `Semaphore` |
| `WorkQueue` | a kernel work queue and its worker | |
| `WorkSpec` | what a work queue promises to its users | |
| `WorkQueueProofs` | proofs of the list, the wake-ups and the refinement | `WorkQueue` |
| `RA8875` | the display driver and the controller behind it | |
| `RA8875Proofs` | proofs of the panel, the cursor and the picture | `RA8875` |
| `WDog` | the watchdog timers with the threads and functions that use them | |
| `WDogSpec` | what a watchdog promises: to expire at its deadline | |
| `WDogProofs` | proofs of the list, the pool, the remaining time and the refinement | `WDog` |
| `MQueue` | a message queue with its pools, waits, timeouts and notification | |
| `MQueueSpec` | what a message queue promises to its users | |
| `MQueueProofs` | proofs of the pools, the counters, the wake-ups and the refinement | `MQueue` |
| `Cond` | a pthread mutex and a condition variable | |
| `CondProofs` | proofs of mutual exclusion and of the wake-ups | `Cond` |
| `Join` | the join structure of a pthread from creation to its release | |
| `JoinProofs` | proofs of the life of the join structure | `Join` |
| `Signals` | POSIX signals sent to one thread, with nested deliveries | |
| `SignalsProofs` | proofs of the structures, masks, deliveries and results | `Signals` |
| `MC...` | instances for TLC | the module of the name |

`Semaphore`, `WorkQueue`, `WDog` and `MQueue` refine `LockSpec`, `WorkSpec`,
`WDogSpec` and `MQueueSpec` through `INSTANCE`.  These abstract specifications
are what the components assume of each other: `Cond` and `Join` take the
semaphores beneath them to be as `LockSpec` promises (a post hands the count to
a waiter; a timeout or signal ends a wait that was not given it), and `MQueue`,
`Cond` and `Signals` take a watchdog to expire once unless it is cancelled, as
`WDogSpec` promises.  The driver is used by one thread and shares no state with
the kernel modules, so it stands alone.  `PROJECT.json` lists the runs, the
mutation of the code that breaks each property, and the lines each definition
models.

The reference configuration is `build/configs/artik053/ra8875/defconfig`:
priority inheritance on (16 holder containers, 16 pending priorities), 10 ms
ticks, no tickless mode, both kernel work queues with sorting, 32 watchdogs of
which 4 are reserved for interrupt handlers, 480x272 RA8875 in landscape
orientation on a 4-wire SPI bus.  Where a definition depends on an option, it
follows this configuration.

Paths below are relative to `src/`.

## 1. Inventory

| component | state it keeps | operations | interacts with | what makes it hard | what makes it correct |
|---|---|---|---|---|---|
| Semaphores (`os/kernel/semaphore`) | count, holder list and flags of a `sem_t`; `waitsem`, `pterrno`, priorities and pending priorities of a TCB; pool of holder containers | wait, trywait, timed waits, post, ISR variants, cancellation of a wait, recovery of a deleted thread | scheduler lists, watchdog (timed waits), signals, task deletion; everything in the kernel that locks | a post or a cancellation switches context half way when it lowers the running thread; timeouts and signals race posts; boosts from several waiters overlap | counts match waiters and owners, holder lists match owners, boosts end, the highest thread is served |
| Scheduler lists (`os/kernel/sched`) | ready-to-run, pending and prioritized wait lists, lock count | add, remove, merge pending, set priority, lock, unlock | semaphore, signal, message queue, pthread | nested locks, tasks made pending | the head is the highest ready thread, no thread on two lists |
| Work queues (`os/kernel/wqueue`) | a list of work sorted by delay, worker states | queue, cancel, process, signal | signals, clock, semaphores (LP inheritance) | callers and workers interleave; the worker sleeps for a computed time; works queue themselves again | each queued work runs once, in time, and is not forgotten by a sleeping worker |
| Watchdog timers (`os/kernel/wdog`) | delta list of active timers, free list, reserve counters | create, start, cancel, delete, tick | every timed wait, POSIX timers, callbacks in the tick interrupt | callbacks start and cancel timers during expiration; reserve for interrupts | every timer fires once, at its deadline |
| Message queues (`os/kernel/mqueue`) | sorted message list, message pools, waiter counts | send, receive, timed variants, notify, recover | scheduler, watchdog, signals | a waiter woken or timed out between two critical sections | no message lost, bound respected, waiters woken |
| pthread (`os/kernel/pthread`) | mutexes, condition variables, barriers, join lists, keys | lock, unlock, wait, signal, broadcast, join, exit | semaphores | several semaphores per operation, timed waits | mutual exclusion, no lost wake-up, join returns once |
| Signals (`os/kernel/signal`) | pending signals, actions, masks | kill, dispatch, wait, deliver | all waits | wakes threads out of every wait | no signal lost while blocked |
| POSIX timers (`os/kernel/timer`) | timer list | create, settime, gettime, delete | watchdog, signals | expiry racing delete | reference count |
| Tasks, groups (`os/kernel/task`, `os/kernel/group`) | TCBs, groups, exit hooks | create, exit, delete, restart, waitpid | all of the kernel | deletion of a thread in any state | everything a thread holds is recovered |
| Heap and granule allocator (`os/mm`) | free lists, chunk headers, bit maps | malloc, free, realloc, extend | a semaphore with an owner count | nested use by the owner, use from an exiting thread | chunks tile the heap, free neighbours merge |
| Pipes (`os/drivers/pipes`; off in this configuration) | ring buffer, reader and writer counts, poll slots | open, close, read, write, poll | semaphores | readers and writers block with the device semaphore released | bytes in order, blocked sides woken |
| Serial (`os/drivers/serial`) | two ring buffers shared with the interrupt handlers | read, write, poll, xmit/recv interrupt | semaphores, interrupts | unlocked rings shared with handlers | no character lost or duplicated |
| RA8875 driver (`os/drivers/lcd`) | shadow cursor and mode in `struct ra8875_dev_s`, controller registers, SPI bus | putrun, getrun, power, contrast, draw line, rectangle, circle, fill | SPI driver, NX graphics | multi-byte bus protocol, shadow state, engine polled with a give-up count | what the display shows is what was drawn; bus speed and mode restored |
| NX graphics (`os/graphics`) | windows, cached rectangles, server queue | open, move, fill, blit, bring to front | message queues, LCD driver | clients and server exchange messages | clipping, z-order |
| SmartFS, MTD (`os/fs`) | sectors, logical map, wear levels, journal | allocate, write, relocate, erase | flash driver | power loss between two writes | mapping one-to-one, committed data kept |
| lwIP network stack (`os/net`), Wi-Fi drivers | pcbs, buffers, timers | sockets, netif | work queue, semaphores | third-party code | - |
| DM, framework, applications (`framework`, `apps`) | - | - | POSIX API | thin clients | - |
| Vendored code (`external`) | - | - | - | - | - |

## 2. Plan

The order follows what the rest of the system stands on.

1. **Semaphore** with priority inheritance, cancellation and deletion, on the
   preemptive scheduler; **LockSpec**, what it promises to its users;
   **SemaphoreProofs**. Done.
2. **WorkQueue**: callers, sleeping worker, self-requeueing work; **WorkSpec**,
   what it promises to its users; **WorkQueueProofs**. Done.
3. **RA8875**: shadow cursor against the controller's, byte stream of a run,
   drawing engine with its give-up count, restarts; **RA8875Proofs**. Done.
4. **WDog**: the delta list against absolute deadlines (**WDogSpec**), functions
   that start and cancel timers, the interrupt reserve, timed waits and their
   recovery; **WDogProofs**. Done.
5. **MQueue** and **MQueueSpec**: senders, receivers, handlers, timeouts, message
   pools; **MQueueProofs**. Done.
6. **Cond** and **Join**: mutex and condition variable, joins; **CondProofs** and
   **JoinProofs**. Done.
7. **Signals**: pending signals, masks and nested deliveries; **SignalsProofs**.
   Done.
8. Pipes, serial rings, POSIX timers, heap chunks, scheduler lists with
   `sched_lock`. Left.

Theorems: every safety property and every refinement that a passing run checks
is a theorem, under the assumptions that the section on its component gives.

## 3. Semaphores

### 3.1 State and actions

`Semaphore.tla` models `os/kernel/semaphore` for a set of threads on one CPU.

| variable | code |
|---|---|
| `task_state`, `waitsem`, `pterrno` | the TCB fields of the same names |
| `waitdog` | the threads whose `tcb->waitdog` runs |
| `tcb` | `sched_priority`, `base_priority`, `pend_reprios[0..npend_reprio-1]` |
| `semcount`, `holders` | `sem->semcount`, the list from `sem->hhead` with its `htcb` and `counts` |
| `ahead` | the order among waiters of one priority in `g_waitingforsemaphore` |
| `cont` | what a thread has left of a call that switched context |
| `locks` | the locks a thread owns in its own view (ghost) |

| action | code |
|---|---|
| `Take`, `Block`, `WaitReturn` | `sem_wait`, `sem_trywait`, `sem_tickwait`, `sem_timedwait`; `TakeIsr`, `BlockIsr`: `sem_wait_for_isr` |
| `Post`, `PostResume` | `sem_post` by a thread, with `sem_restorebaseprio_task` |
| `IrqPost`, `PostFromIsr` | `sem_post` in an interrupt handler, `sem_post_from_isr` |
| `Timeout`, `SignalIrq` | `sem_timeout`, and `sig_tcbdispatch` from an interrupt handler, both through `sem_waitirq` |
| `SignalTask`, `CancelResume` | `sig_tcbdispatch` by a thread through `sem_waitirq` |
| `KillWaiter`, `Die` | `task_terminate` with `task_recover`, `sem_recover`; thread exit |

All of these calls run with interrupts off, so a call is one step unless the
kernel itself switches context inside it.  That happens in two places:
`up_block_task` in `sem_wait`, and `sched_setpriority` on the running thread,
which calls `up_reprioritize_rtr`.  The second suspends `sem_post` between the
restoration of the poster's priority and the removal of its empty holder
container, and `sem_waitirq` between the restoration of a holder that is the
caller itself and the end of the wait it cancels.  `cont` holds the rest of the
call; it is resumed by `PostResume` and `CancelResume` when the scheduler gives
the thread the CPU again.

Abstractions.  The ready-to-run list is the set of READY threads; any ready
thread of the highest priority may be the one that runs, since equal priorities
rotate by time slice.  The waiting list is ordered by priority and, among
equals, by `ahead`, which `Requeue` maintains as `sched_addprioritized` does:
a thread whose priority is set goes behind its equals.  The pool of containers
is a number.  Interrupts arrive when the head of the ready list runs its own
code, is idle, or has just been woken by the same handler; a suspended call goes
on with interrupts off.  The address of a TCB is not reused.  A cancellation
that is resumed goes on with its walk only if the container it had read is still
in the list.  Clients behave: only its owner posts a lock, and no thread waits
for a lock it owns.

Left out: `sem_destroy`, re-initialisation, `sem_reset`, `sem_setprotocol`
(the flag is the constant set `NoInherit`), named semaphores,
`sched_setparam`, and cancellation points, which are off in this configuration.

### 3.2 Properties and runs

Three threads L < M < H are the smallest instance with overlapping boosts and
an innocent middle thread; a semaphore of count 0 (`event`) lets interrupt
handlers wake threads at any moment, so that every interleaving of a post with a
wake-up is reached.  `MaxPend` bounds the pending priorities, which otherwise
grow without limit (a finding), `MaxHolds` the counts a thread takes of a
counting semaphore.  `SEM_VALUE_MAX` is 1 or 2 instead of 0x7fff.

| run | instance | checks |
|---|---|---|
| `sem_locks` | one lock shared by all three, timeouts and signals from handlers | `HoldersExact`; refinement of `LockSpec` |
| `sem_served` | lock shared by L and H, M independent, under fairness | `NoInversion`, `BaseAfterPost`, `HighestServed`: priority inheritance does its job when two threads share a lock; H always gets it although M may keep the CPU |
| `sem_death` | threads exit; L deletes and signals others; ISR-only semaphore; two containers | `CountMatchesWaiters`, `CountsConserved` (a dead owner keeps its count: the code recovers only the wait) |
| `v_base_priority` | one lock shared by all three | refutes `BaseAfterPost`: a poster suspended inside `sem_post` still has an empty container, is boosted through it by the next waiter, then frees the container, and nobody restores it; `sched_reprioritize.c` says that the base priority is what "the thread would return to once it posts the semaphore" |

Deadlock is checked in all runs but `sem_death`, where all threads may be dead.

On the instance of `sem_locks`, `TypeOK`, `CountMatchesWaiters`,
`CountsConserved`, `PendOrdered` and `NoStaleWatchdog` hold too.  With several
holders of one semaphore (`sem_locks` with `InitCount <- TwoEach`,
`NestWaits = TRUE`, `SEM_VALUE_MAX = 2`, `MaxPend = 3`; below: the pool instance)
`CountsConserved` and `HoldersExact` hold.

The same modules refute further statements of the code's comments.  Each of
these is obtained from a listed configuration by the change given:

| from | change | refuted | why |
|---|---|---|---|
| `v_base_priority` | check `PendWithinArray` | the pending priorities fit in `pend_reprios[CONFIG_SEM_NNESTPRIO]` (`os/kernel/Kconfig:686`) | the second append of `sem_boostholderprio` (`sem_holder.c:344`) has no bound check, and entries outlive their waiters |
| `v_base_priority` | `NestWaits = TRUE`, `Disturbances = {"signal_irq"}`, check `NoInversion` | `sem_canceled` "restores the correct thread priority of each holder" (`sem_holder.c:989`) | the boost of the cancelled waiter is taken as the only one: a holder with no pending priority drops to base while a higher thread waits |
| `v_base_priority` | `Sems = {mutex, mutex2, event}`, `LockSems = {mutex, mutex2}`, `Uses <- Chain`, `NestWaits = TRUE`, check `NoInversion` | a boost due to another semaphore survives a post (`sem_holder.c:461`) | posting one lock drops the boost of the other |
| `v_base_priority` | `SPECIFICATION FairSpec`, check `HighestServed` | priority inheritance bounds the wait of H | a leaked boost lets M keep the CPU from the owner for ever |
| `v_base_priority` | `NoInherit = {}`, `Uses <- LAndHShare`, check `IrqPostInjects` | a handler "externally injects the new count without otherwise participating" (`sem_holder.c:971`) | `sem_releaseholder` charges the interrupted thread |
| `v_base_priority` | `Disturbances = {"timeout", "signal_task"}`, `Signallers = {L}`, check `CountsConserved` | the count is adjusted once per wait | `sem_waitirq` (`sem_waitirq.c:138`) looks at the waiter once and is switched out in `sem_canceled`; a timeout ends the wait in between, and the count is incremented twice |
| pool instance | `Disturbances = {"signal_task"}`, `Signallers = {L}` | `CountsConserved` | the same race, with the post of a second holder in the place of the timeout |

Not modelled, and seen while reading: the address of a TCB that is freed and
used again while a container names it (`sem_holder.c:142`), and a `sem_destroy`
by the thread that was given the count while its poster is suspended in
`sem_post` (`sem_holder.c:687`).

Fairness (`FairSpec`): a thread that has the CPU finishes the call it is in, and
an owner of a lock that stays running posts it.  Nothing is assumed of M, of
interrupts or of timeouts.

### 3.3 Proofs

`SemaphoreProofs.tla` proves, for any finite set of threads, any set of
semaphores, any priorities and any pool size, under the assumption that no
thread signals or deletes another (`Signallers = {}`; the last rows of the table
in section 3.2 show that it is needed):

* `CountTheorem`: `Spec => []CountMatchesWaiters`;
* `ConservationTheorem`: `Spec => []CountsConserved` (mutual exclusion);
* `ProtocolTypes`: the types of the protocol variables, counts at most
  `SEM_VALUE_MAX`;
* `RefinementTheorem`: `Spec => ImplementsLockSpec`;
* `TypeCorrect`: `Spec => []TypeOK`, the holder lists and the priorities too;
* `OrderTheorem`: `Spec => []PendOrdered`: restoring never raises a thread;
* `HoldersTheorem`: `Spec => []HoldersExact`, if there is a container for each
  lock that each thread waits for (`EnoughContainers`: 3 of the 4 in `sem_locks`;
  without one, `sem_addholder_tcb` drops the charge);
* `InversionTheorem`: `Spec => []NoInversion`, and `BaseTheorem`:
  `Spec => []BaseAfterPost`, if moreover the locks are used by pairs (`Paired`).

`Paired` says that an inheriting lock is shared by at most two threads and starts
with a count, that no thread waits for anything while it owns a lock, and that a
semaphore which is no lock does not inherit.  `sem_served` is such an instance, with
any number of locks and pairs in its place in the theorem.  With three threads
TLC refutes both (`v_base_priority`, with `NoInversion` in the place of
`BaseAfterPost` too), and with nested waits `NoInversion` (third row of the table
in section 3.2).

The argument: counts never depend on priorities or holder lists.  `StepEffects`
reduces every action to its effect on the protocol variables
(`EffTake`, `EffBlock`, ...), and the inductive invariant `ProtocolInv` is proved
of each effect.  Neither `CountMatchesWaiters` nor `CountsConserved` is inductive
alone: `WaitConsistent` adds that a WAIT_SEM thread is inside `sem_wait` for the
semaphore its TCB names with errno clear and does not own it, so that waking it
moves it from the waiters to `Granted`.  The refinement maps free counts, waiters
and owners; a post with a waiter is `HandOver`.

`HoldersInv` adds to it that a list names each thread once and only threads that
use the semaphore (so that `EnoughContainers` leaves a free one, lemma
`ContainerLeft`, by counting), that the semaphore of a suspended call is one its
thread uses and no longer owns, and, for each inheriting lock and each living
thread, the exact charge.  It rests on what the list operations do (`ReleaseIs`,
`AddIs`, `FreeStaleIs`, `FreeIfEmptyIs`); the removal from a list is a recursive
function, and the induction along it (`WalkExists`, `WithoutIs`) goes by the
least counterexample, since an induction rule with an operator as parameter
cannot be used.  `InheritInv` types the priorities, keeps each base priority and
orders the pending ones (`BoostIs`, `RestoreIs`).  `PairInv` gives every living
thread its exact priority: the higher of its own and the waiter's base priority
for the owner of a lock that is waited for, the base priority for all others, with
nothing pending; and it says that a thread owns at most one lock.  The exact
holder lists are needed here: a walk over a list must meet the owner, and no living
thread but the owner and the one that is given the lock (`OnlyOwner`).

Only model-checked: liveness (`HighestServed`).

## 4. Work queues

### 4.1 State and actions

`WorkQueue.tla` models one queue of `os/kernel/wqueue` with one worker thread
(the high-priority queue, or the low-priority one with `LPNTHREADS` 1).

| variable | code |
|---|---|
| `q`, `worker`, `delay` | `wqueue->q`; the works whose `work->worker` is set; `work->delay` |
| `age` | `clock_systimer() - work->qtime`, up to the delay: beyond it nothing changes |
| `pc`, `running` | where the worker thread is, and the work it runs |
| `left` | the ticks left of the `usleep` of `work_process` |
| `polled` | `ctick - stick` of the pass, up to the longest delay |
| `caller` | threads between `work_qqueue` and `work_signal` |

| action | code |
|---|---|
| `QueueFirst`, `QueueSecond` | `work_queue` in a thread: `work_qqueue`, then `work_signal` |
| `QueueIrq`, `QueueSelf` | `work_queue` in an interrupt handler, or in the work that runs |
| `Cancel` | `work_cancel` |
| `Poll`, `WorkReturns`, `Again` | a pass of `work_process` up to a call of a work or a sleep, and its continuation after the work |
| `Tick` | the timer interrupt: `clock_timer`, and `wd_timer` for the sleep of the worker |

`work_process` keeps interrupts off from its look at the list to the moment it
calls a work or sleeps, hence one step.  SIGWORK ends `sigwaitinfo` and `usleep`
and has no effect at any other time.  `usleep` of n ticks ends at the n-th tick
(the watchdog counts whole ticks).  Left out: garbage collection, the pool of
several workers, the unsorted list, `kwork_inherit.c` (no caller in this
configuration), a SIGWORK that interrupts a wait of a work, and a `usleep` that
finds no watchdog.

### 4.2 Properties and runs

Three works, delays 0, 1 and 3: the smallest set in which a short delay can
overtake a longer one that is older.  One thread is enough to be caught between
the two halves of `work_queue`, since handlers queue at any moment.  Time is not
bounded: ages stop at the delay.

| run | instance | checks |
|---|---|---|
| `work_any` | any delays, a self-requeueing work, under fairness | `TypeOK`; `NoLostWakeup`; `ReadyIsServed`; refinement of `WorkSpec`: no work starts early, twice, or after it was cancelled; `ShortestPerformed` |

The instance has 123,854 states; `ListIntegrity` (what `work_qcancel` asserts)
and `ListOrder` hold in it too.  `ReadyIsServed` and `ShortestPerformed` are
stated for works with the shortest delay in use, because the list is sorted by
delay and the worker looks no further than the first work that is not ready:

| from | change | refuted | why |
|---|---|---|---|
| `work_any` | `Works = {a, b}`, `Delays = {1, 3}`, `ClientDelays <- Mixed`, `Callers = {}`, check `AllPerformed` | "All queued work will be performed" (`kwork_queue.c:96`) | a queues itself with delay 1 and goes to the head (`kwork_queue.c:139`), not ready, at every pass; b is ready and never performed |

Not modelled: one work structure given to both queues, whose membership is
looked up in one list only (`kwork_queue.c:133`).

Fairness: the worker runs (the configuration gives it a high priority), works
return, ticks come, a preempted caller goes on.  No fairness is put on queueing
or cancelling.  The double count of the ticks of a pass (`Remaining`) only makes
the worker wake up early, since the code caps it; without the cap the unsigned
difference wraps, which is the mutant of `TypeOK`.

### 4.3 Proofs

`WorkQueueProofs.tla` proves for any works, delays and callers, without a further
assumption:

* `TypeCorrect`: `Spec => []TypeOK`;
* `ListCorrect`: `Spec => [](ListIntegrity /\ ListOrder)`;
* `NoWakeupLost`: `Spec => []NoLostWakeup`;
* `ReadyServed`: `Spec => []ReadyIsServed`;
* `Implementation`: `Spec => ImplementsWorkSpec`.

Of the delays it is assumed that there is a longest one (`ConstantsAssumption`; a
delay is a 32-bit number), since the tick count of a pass stops there.

The argument.  An insertion at the place where the loop of `work_qqueue` stops, a
removal anywhere, and the passing of time keep the list sorted by delay and, among
equal delays, by age (`WorkList`); time keeps it so because an age stops at the
delay, and works of one delay stop alike.  `NoLostWakeup` and `ReadyIsServed` are not
inductive alone: that a ready work is not overslept rests on `SleepInTime`, that
the sleep ends no later than the delay of every work of the shortest delay, which
holds when the worker falls asleep because the first work of the list is the
oldest of the shortest delay.  One lemma per action shows
`Good == IInv' /\ [Abs!Next]_<<Due, running>>`: the step keeps the invariant and is
a step, or none, of `WorkSpec`.

Only model-checked: `ShortestPerformed`.

## 5. RA8875

### 5.1 State and actions

`RA8875.tla` models the driver (`os/drivers/lcd/ra8875.c`, `ra8875_spi.c`)
together with the controller it talks to.

| variable | code |
|---|---|
| `power`, `shadow` | `priv->power`, `priv->shadow_w_curh` and `_curv` |
| `todo`, `polls`, `booting` | where the call in progress is: drawings left, the counter of `ra8875_waitreg`, inside `board_lcd_initialize` |
| `speed` | the frequency last given to `SPI_SETFREQUENCY`, between calls |
| `cursor`, `panel`, `gram`, `engine` | the controller: CURH/CURV, P1CR/P1DCR/PWRR, the memory, the drawing in progress (external) |
| `want`, `late` | the picture that the calls so far asked for; whether a wait for the engine ran out since the start (ghosts) |

| action | code |
|---|---|
| `putrun`, `getrun`, `setpower` | the methods of the same names |
| `clear`, `drawrectangle`, `drawline`, `drawfigure` | the drawing functions; triangles and circles are given sets of pixels |
| `StartEngine`, `Poll` | the register writes that start a drawing, one turn of `ra8875_waitreg` |
| `EngineDone` | the controller finishes a drawing (external) |
| `Restart` | the processor restarts and runs `board_lcd_initialize` |

What the repository does not say about the controller is a constant, or left
open: a drawing may take any number of polls, or never end.  `TypedStream`: the first
byte of each bus cycle selects its type, as all cycles of the driver but the
pixel stream assume.  `ResetWorks`: a restart of the processor resets the
controller.  A drawing that is started while another is in progress replaces it;
the cursor stays at the right edge after a run that ends there.  The model is of
the configured landscape orientation, where MWCR0 always has its reset value and
is left out, and of one client at a time, for the driver has no lock.

### 5.2 Properties and runs

A screen of 2x2 pixels holds runs that end at each edge, a second run at,
before and after the cursor, and overlapping shapes.  The colours 0 and 0xffff
have first bytes of different cycle types.  `MaxPolls` is 2 instead of 200: one
busy poll and the last one are what matters.

| run | instance | checks |
|---|---|---|
| `lcd_ops` | restarts at any moment that reset the controller; an engine that may be late or never finish; rectangles two pixels wide and high, or at the edge | `PictureExact`: the display shows what was drawn, as long as no drawing was late; `PowerExact`; `CallsReturn`: the poll count lets every call return |
| `v_lcd_restart` | restarts without a reset, as configured | refutes `PictureExact`: after the restart the shadow is 0 and the cursor is elsewhere, and the next run at column or row 0 goes to the wrong place; "the LCD ready to use" (`ra8875.c:1072`) |

`TypeOK` and `ShadowExact` hold on the instance of `lcd_ops` too.  Further
statements that the module refutes, from `v_lcd_restart` with
`Restarts = FALSE`:

| change | refuted | why |
|---|---|---|
| `TypedStream = TRUE` | `PictureExact` | `spi_pwrite_prepare` sends no type byte before the pixels (`ra8875_spi.c:143`), unlike every other cycle |
| `Rects` set to all rectangles on the screen | `PictureExact` | a rectangle of width or height 1 that does not end at the edge is also drawn as a line that is one pixel too long (`ra8875.c:1192`) |
| `PictureExact` without `~late` (and `want` kept up to date by `Ask` and `Poll`) | `PictureExact` | `ra8875_waitreg` gives up (`ra8875.c:370`) where `ra8875.c:517` says "Wait for operation to finish"; the late drawing overwrites a newer one |
| check `BusRestored` | `BusRestored` | the frequency is restored after a `return` (`ra8875_spi.c:134`, `:140`) |

Two more things depend on what the controller and the clients do: where the
cursor is after a run that ends at the right edge (`ra8875.c:689`; the model
leaves it there), and two threads in the driver at once, which has no lock of
its own (`ra8875.c:595`; one client in the model).

Fairness: the thread in the call goes on.  Nothing is assumed of the controller.

### 5.3 Proofs

`RA8875Proofs.tla` proves for any screen, colours, power levels, shapes and number
of polls:

* `PowerCorrect`: `Spec => []PowerExact`, also if only the processor restarts;
* `ShadowCorrect`: `Spec /\ [][~ LosesBytes /\ ~ KeepsCursor]_vars => []ShadowExact`;
* `PictureCorrect`: `Spec /\ [][~ LosesBytes /\ ~ KeepsCursor /\ ~ DrawsTooLong]_vars
  => []PictureExact`.

The last two assume nothing of the constants, that is of the controller and of the
clients.  They speak of every behaviour up to the first of three steps of the
driver that go wrong, and say that there is no fourth:

| step | code |
|---|---|
| `LosesBytes` | a run is streamed to a controller that takes its first byte for the type of the cycle (`ra8875_spi.c:143`) |
| `KeepsCursor` | the processor restarts, the controller is not reset, and keeps its cursor (`ra8875.c:1056`) |
| `DrawsTooLong` | a rectangle one pixel wide or high that does not end at the edge of the screen is drawn with the line that is too long (`ra8875.c:1192`) |

The run `v_lcd_restart` and the first two rows of the table above show that each
of the three does spoil the picture.  `ShapesAssumption` says of the constants that
shapes lie on the screen and that lines are horizontal or vertical.

The argument.  `RunStored`: unless a type byte is taken from them, the bytes of a run are
paired by the controller into the pixels it was made of, and the cursor ends where the driver's arithmetic puts
the shadow (`CursorInv`, which a step keeps because the driver skips the write of
a cursor register exactly if the shadow has the value).  For the drawings, the
picture is not exact in the middle of a call, and a call may draw lines before the
rectangle.  `PictureInv` therefore says that the last drawing of a call paints
over all that the others paint, so that the memory with the last drawing painted
on it is what was asked for, at every moment of the call; `PaintAbsorbs` is the
lemma.  An engine that is not late is idle whenever the next drawing starts.

Only model-checked: `CallsReturn`.

## 6. Watchdogs

### 6.1 State and actions

`WDog.tla` models `os/kernel/wdog` together with its two kinds of users.

| variable | code |
|---|---|
| `list`, `lag`, `active`, `parm` | `g_wdactivelist`; `wdog->lag`; `WDOGF_ACTIVE`; `wdog->func` and `parm` |
| `free`, `nfree`, `heap` | `g_wdfreelist`, `g_wdnfree`, the watchdogs from `kmm_malloc` |
| `handle` | the watchdog that a driver or a POSIX timer keeps |
| `waitdog`, `at` | `tcb->waitdog` of a thread in a timed wait, and how far the wait is |
| `irq`, `caller`, `calls` | the timer interrupt and the watchdog function that runs in it |
| `walk` | the local variables of `wd_start` on its way along the list |
| `left`, `reserved` | ticks to each deadline, watchdogs of the pool taken by threads (ghosts) |

| action | code |
|---|---|
| `TimerCreate`, `TimerStart`, `TimerCancel`, `TimerDelete` | `wd_create`, `wd_start` up to the walk, `wd_cancel`, `wd_delete`, called in threads, handlers and watchdog functions |
| `Advance`, `Insert` | the loop of `wd_start` and what follows it |
| `wd_timer`, `Expire`, `FunctionReturns`, `InterruptReturns` | `wd_timer` and `wd_expiration`, with the function of each watchdog between two turns of its loop |
| `WaitCreate` ... `WaitClear` | the watchdog of `sem_timedwait`: create, start, cancel, delete, and the assignment of NULL to `waitdog` |
| `wd_recover` | the deletion of a thread in a timed wait |

All calls run with interrupts off.  `wd_start` is split into one step per
position so that the walk is translated as the loop it is; nothing else runs
meanwhile.  Left out: the tickless mode (not configured) and the parameters of
watchdog functions.

### 6.2 Properties and runs

The run `wdog` has a pool of two watchdogs, one of them the interrupt reserve,
one on the heap and one static; one timer with the static watchdog, one that
creates and deletes its own, and one thread in timed waits; delays 0, 1 and 2,
and one call from each watchdog function (`MaxCalls`).  Three active watchdogs
with equal and different delays are enough for an insertion before, between and
behind others and for expirations of several in one tick, in the middle of which
others are started, cancelled and deleted.  880,852 states.

| property | says |
|---|---|
| `ActiveExact` | the marked watchdogs are those in the list, each once, and none is free: the search of `wd_cancel` finds what it looks for |
| `FreeExact` | `g_wdnfree` counts the free list, nothing is freed twice, every watchdog has one owner |
| `ReserveKept` | threads leave `CONFIG_WDOG_INTRESERVE` watchdogs of the pool to the handlers |
| `GetTimeExact` | `wd_gettime` returns the ticks to the deadline, in the middle of an expiration too |
| `ImplementsWDogSpec` | the differences in the list implement absolute deadlines |
| `TimedWaitEnds` | under fairness a timed wait ends although nobody posts |

`TypeOK` holds on the instance too.  Fairness: interrupts are not disabled for
ever (strong fairness of the tick, which stays pending while they are), a call
of `wd_start` goes on, watchdog functions return.

Refuted:

| from | change | refuted | why |
|---|---|---|---|
| `wdog` | add `"deleted"` to `KillAt` | `FreeExact`, and the assertion `FreeWithinPool` (`wd_delete.c:161`) | a timed wait deletes its watchdog with interrupts on and sets `tcb->waitdog` to NULL afterwards (`sem_timedwait.c:295-297`, `sem_tickwait.c:207-209`); a thread deleted in between has its watchdog given back once more by `wd_recover`, to whom it may belong by then |

### 6.3 Proofs

`WDogProofs.tla` proves for any pool, reserve, users and delays, under the
assumption `"deleted" \notin KillAt` (the table above shows that it is needed):

* `TypeCorrect`: `Spec => []TypeOK`;
* `ListCorrect`: `Spec => []ActiveExact`;
* `PoolCorrect`: `Spec => [](FreeExact /\ FreeWithinPool)`;
* `ReserveCorrect`: `Spec => []ReserveKept`;
* `TimeCorrect`: `Spec => []GetTimeExact`;
* `Implementation`: `Spec => ImplementsWDogSpec`.

The argument.  The first lemmas are about any list: what the removal of a
watchdog, an insertion and a tick do to a `DeltaList`, that is a list in which
each watchdog stands once, exactly the active ones stand, the deadlines rise,
and each lag is the difference of two deadlines.  Then come the lemmas about the
free list.  The inductive invariant `IInv` joins the `DeltaList` of the state,
`FreeInv` (the free list is counted, has no doubles, and is disjoint from what is
in use), `NothingDue` (outside of the interrupt no deadline has passed), `WalkOK`
(where a walk stands, all positions before it have smaller or equal deadlines and
`now` is the deadline at the position), and `OwnersOK` (what users hold is in
use and belongs to one of them).  `ActiveExact` alone is not inductive: an
insertion keeps the list free of doubles only because the walk began with a
cancellation, and expirations happen at the deadline only because the lags are
exact.  One lemma per action shows `Good == IInv' /\ [Abstract!Next]_left`: the
step keeps the invariant and is a step, or none, of `WDogSpec`.

`TimeCorrect`: `wd_gettime` adds up the lags from the head of the list to the
watchdog.  That the sum to any position is the deadline there (`SumsExact`) is
shown by the least position at which it is not, which exists because the positions
are a set of numbers; the rule of induction itself is not needed.

Only model-checked: `TimedWaitEnds`.

## 7. Message queues

### 7.1 State and actions

`MQueue.tla` models `os/kernel/mqueue` for one queue.  `msglist`, `nmsgs`,
`nwaitnotfull`, `nwaitnotempty` and `ntpid` are the fields of `mqueue_inode_s`;
`notfull` and `notempty` are the prioritised lists of waiting threads; `msgfree`,
`msgfreeirq` and `heap` the pools of messages; `state` says where a thread is in
its call, `errno` which waits ended with an error, `dog` which watchdogs run;
`cpu` is the thread that has the scheduler locked.

| action | code |
|---|---|
| `Send`, `SendResumes` | `mq_send`, `mq_timedsend` up to and after the wait of `mq_waitsend` |
| `Alloc`, `HeapReturns`, `Insert`, `Notify`, `Detach`, `Wake` | `mq_msgalloc`, and the parts of `mq_dosend` between which interrupts are on |
| `Receive`, `ReceiveResumes` | `mq_receive`, `mq_timedreceive` with `mq_waitreceive` |
| `Free`, `Check`, `Find` | `mq_doreceive`: `mq_msgfree`, the test of `nwaitnotfull`, the search for the waiting sender |
| `HandlerSends` | `mq_send` in an interrupt handler |
| `Timeout`, `Signal` | `mq_sndtimeout`, `mq_rcvtimeout` and signals, through `mq_waitirq` |
| `mq_notify` | the function of that name |
| `mq_recover`, `Removed` | the deletion of a thread |

Left out: open, close and unlink, several queues, and cancellation points.

### 7.2 Properties and runs

The run `mq`: two senders and two receivers of two priorities on a queue of one
message, so that each side fills, empties and waits; timed and untimed calls,
signals, a handler that sends, notification, and the deletion of waiting threads;
one structure in each free list and three on the heap.  1,332,228 states.  Both
sides may wait for each other for ever, so deadlock is not checked.

| property | says |
|---|---|
| `CountsExact` | the counters that decide whether somebody is woken agree with the lists that are then searched |
| `NoMessageMissed`, `NoRoomMissed` | nobody sleeps beside a message, or beside room, unless enough others are on their way to it |
| `SlotsExact` | every message structure is in one place, and returns to the pool it came from |
| `OvershootBounded` | threads exceed `maxmsgs` by less than one message each |
| `ImplementsMQueueSpec` | each message goes to one receiver, the oldest of the highest priority first |

`TypeOK` holds on the instance too.  Statements of the code that are refuted, all
from `mq`:

| change | refuted | why |
|---|---|---|
| check `WaiterFound` | the assertion at `mq_rcvinternal.c:317` | `nwaitnotfull` is tested at `:302` with interrupts on; a timeout or a handler's signal may end the only wait before the search |
| `Senders = {s1}`, `Timed = {r1}`, `Notified`, `Signalled`, `KillAt` empty; check `TimedCallsReturn` | "a ceiling on the time" for which the call will block (documentation of `mq_timedreceive`) | the watchdog is started once (`mq_timedreceive.c:288`); a timeout that comes while the thread is awake and finds the message gone is lost, and it waits again without limit (fairness: ready threads run in the end, watchdogs expire) |
| check `NotifiedOnce` | the registration is removed when the notification is sent | `mq_dosend` reads `ntmqdes` and detaches it later (`mq_sndinternal.c:401-417`); a handler that sends in between notifies too |
| check `BoundKept` | `mq_send` waits until the queue is not full | the bound is checked before an allocation that may block (`mq_send.c:179`) |
| `HandlersInDeletion = TRUE` | `CountsExact`, `NoMessageMissed` | `mq_recover` corrects the counters before the thread leaves the list, and a handler may wake or signal it in between |
| `KillAt = {"ready"}` | `NoMessageMissed` | a receiver that was woken is deleted, and its wake-up is given to nobody else |

### 7.3 Proofs

`MQueueProofs.tla` proves for any finite set of threads, any priorities, bound and
pools:

* `SlotsCorrect`: `Spec => []SlotsExact`;
* `OvershootCorrect`: `Spec => []OvershootBounded`;
* `Implementation`: `Spec => ImplementsMQueueSpec`;
* `CountsCorrect`: `Spec => []CountsExact`, under `Quiet` (no handler uses the queue
  in the middle of a deletion);
* `NoMessageLost`, `NoRoomLost`: `Spec => []NoMessageMissed` and `[]NoRoomMissed`,
  under `Quiet` and `KilledWaiting` (threads are deleted while they wait, not
  between the wake-up and the next step).

The last two rows of the table above show that `Quiet` and `KilledWaiting` are
needed.

The argument has three invariants, each on top of the one before.  `QueueInv`: the
list is a sorted rearrangement of the messages in the order of their arrival
(`Order`), a structure is in one place (`Places`), a thread has one exactly in the
steps between the allocation and the insertion, or the removal and the release
(`Hands`), and the queue with the messages on their way to it is bounded
(`Overshoot`): the bound alone is not inductive, since the messages that exceed it
are in the hands of senders that passed the check before.  `WaitInv`: the lists
hold the waiting threads, each once, and the counters their number without the one
that is being deleted, whose watchdog no longer runs (`Disarmed`).  `MissedInv`: the
two properties are inductive together with the first two invariants; the work is
in the counts of the threads that a step moves from one set to another.

## 8. Mutexes and condition variables

### 8.1 State and actions

`Cond.tla` models one mutex and one condition variable with clients that produce
and consume items.  `semcount` holds the counts of `mutex->sem` and `cond->sem`,
`pid` and `nlocks` the fields of the mutex, `sval` what a signal or broadcast
read of the count, `ret` the timed waits that ended with ETIMEDOUT; `items` is
what the clients protect, `locks` a ghost.

| action | code |
|---|---|
| `Lock`, `LockReturns`, `Relock`, `Unlock` | `pthread_mutex_lock`, `pthread_mutex_trylock`, `pthread_mutex_unlock`, recursive mutexes included |
| `CondWait`, `CondTake` | `pthread_cond_wait`: the mutex is given up, the semaphore taken; interrupts may come in between |
| `CondTimedWait` | `pthread_cond_timedwait`, with interrupts off |
| `CondResumes`, `Reacquire`, `Reacquired` | the end of a wait and the mutex taken again |
| `Signal`, `SignalPosts`, `Broadcast`, `BroadcastPosts`, `HandlerSignals` | the count is read, then posts follow |
| `Timeout`, `Interrupt` | `pthread_condtimedout` and other signals |

Robust mutexes are not configured; barriers, keys, once and read-write locks are
not modelled.

### 8.2 Properties and runs

The run `cond`: three consumers, two of them in timed waits, one producer, at most
two items, a recursive mutex that the producer locks twice, handlers that signal,
and signals to the producer and to a timed consumer.  181,343 states.

| property | says |
|---|---|
| `OwnerExact` | the mutex has one owner, `pid` names it, or it is on its way to one |
| `NoLostWakeup` | while a consumer sleeps, there are no more items than consumers woken for them, or about to look |
| `PermitsBounded` | posts left over by a signal that raced a timeout do not pile up |
| `ItemsTaken` | under fairness no consumer sleeps beside an item for ever |

`TypeOK` holds on the instance too.  Fairness: threads get the CPU in the end,
watchdogs expire.  Refuted, all from `cond`:

| change | refuted | why |
|---|---|---|
| `c3` in `Interrupted` | `NoLostWakeup`, `ItemsTaken` | `pthread_takesemaphore` waits again after EINTR (`pthread_initialize.c:139-149`); a signal that ends the wait just before the post leaves the wake-up to nobody |
| `Relockers = {c1}` | `OwnerExact` | a condition wait gives up a mutex that is locked twice and does not restore `nlocks` |
| check `NotInterrupted` | `pthread_mutex_lock` does not return EINTR (its documentation) | it passes `intr = true` to `pthread_takesemaphore` |
| check `TimeoutIsTimeout` | ETIMEDOUT only after the watchdog expired | any signal that ends the wait is taken for the timeout |

### 8.3 Proofs

`CondProofs.tla` proves for any finite sets of producers and consumers, any type of
mutex and any bounds, under `Usage` (no consumer has the mutex locked twice when it
waits; the second row above):

* `TypeCorrect`: `Spec => []TypeOK`;
* `OwnerCorrect`: `Spec => []OwnerExact`;
* `PermitsCorrect`: `Spec => []PermitsBounded`;
* `NoWakeupLost`: `Spec => []NoLostWakeup`, if moreover no signal reaches a consumer
  that waits without a timeout (`Undisturbed`; the first row above).

The argument.  `MutexInv` ties the counts to the threads: the count of the mutex
lacks one for each thread that has it, was given it or waits for it, and of those
that have it or were given it there is at most one; the count of the condition is
that of the sleepers, negated, or nobody sleeps.  `PermitsBounded` is not inductive:
a signaller acts on a count it read before.  `Posts` says that what was read leaves
room for the posts that follow.  For the wake-ups, `WakeupInv` adds what may happen
between two steps of one call: who gave up the mutex to sleep has seen no items, and
nobody can have the mutex before he sleeps (`Locked`, `Takes`); what a signaller has
read covers all who sleep (`Reads`); only a timed wait ends without a post (`Ends`).
`Enough` then counts the threads that serve the items, consumers on their way to the
mutex and producers on their way to the signal, and is kept by every step that adds an
item, a sleeper or takes a thread off the way.

Only model-checked: `ItemsTaken`.

## 9. Joins

### 9.1 State and actions

`Join.tla` follows the join structure of one thread from `pthread_create` to the
moment it is freed.  `listed` and `freed` say where the structure is, `join` holds
its fields, `sem` the counts of `tg_joinsem`, `exit_sem` and `data_sem`, `child`
and `state` how far the thread and its callers are, `got` what each has read.

| action | code |
|---|---|
| `Start`, `CreateChecks`, `CreateReturns` | `pthread_start`, and `pthread_create` after the thread has run |
| `Join`, `JoinMisses`, `JoinFinds`, `JoinWaits`, `JoinReads`, `JoinReleases` | `pthread_join` |
| `Detach`, `Detached` | `pthread_detach` |
| `Exit`, `ExitMarks`, `ExitPosts`, `ExitTakes`, `ExitLeaves` | `pthread_exit`, `pthread_completejoin`, `pthread_notifywaiters` |
| `Interrupt`, `WaitsAgain` | a signal to a caller that waits, and its next turn |

Left out: `pthread_cancel` and the release of all structures with the group.

### 9.2 Properties and runs

The run `join`: the creator and three others join, or the creator, one of them or
both at once detach; waits for `tg_joinsem` are interrupted.  10,653 states.

| property | says |
|---|---|
| `NoUseAfterFree` | whoever still uses the structure finds it allocated |
| `ValueExact` | every join that succeeds has the exit value |
| `NoLeak` | when all is over, the structure was freed if anybody joined or detached |
| `JoinReturns` | under fairness every join of a thread that exits returns |

`TypeOK` holds on the instance too.  Fairness: threads in a call get the CPU in
the end.  Refuted, all from `join`:

| change | refuted | why |
|---|---|---|
| `Early = {a}` | `NoUseAfterFree` | `pthread_create` uses the structure after it unlocked the scheduler (`pthread_create.c:448`, `:453`), when a thread that knows the new one may have joined and freed it |
| `Mixed = TRUE` | `NoUseAfterFree` | `pthread_detach` frees the structure of a thread that has exited without a look at `crefs` (`pthread_detach.c:137-140`) |
| `InterruptAt = {"exitwait"}` | `JoinReturns` | `pthread_notifywaiters` posts once per waiter it counted; a waiter that waits again after EINTR counts again, and no post is left for it |
| check `AllHaveValue` | the exiting thread goes on when all threads it woke have the value (comments of `pthread_notifywaiters`) | for more than one waiter `sem_init` is asked for a negative count (`pthread_completejoin.c:110-114`), refuses it, and `data_sem` keeps an old count |

### 9.3 Proofs

`JoinProofs.tla` proves for any finite set of callers, whichever waits are
interrupted, under `Usage` (nobody joins before `pthread_create` has returned, and
a thread is not joined by some and detached by others; the first two rows above):

* `NeverUsedAfterFree`: `Spec => []NoUseAfterFree`;
* `ValueCorrect`: `Spec => []ValueExact`;
* `NeverLeaked`: `Spec => []NoLeak`.

The argument.  The three properties are about the end of the structure; the
invariant counts references all through its life.  `Counters`: `crefs` is the
number of callers that hold a pointer to the structure, `tg_joinsem` lacks one count
for every thread that holds it or waits for it, `exit_sem` one for every joiner until
the thread exits.  `Exclusion`: one
thread holds `tg_joinsem`, and so finding the structure and counting a reference
cannot be separated by its release.  `Life` says in which states of the thread the
structure is listed, and that who frees it is the last with a reference; `Results`
that a joiner was woken only when the exit value is there; `Creation` restricts the
creator, and `Detachment` says that whoever detaches does so beside others that
detach, never beside a join: one of them marks the structure, and it is freed by the
exit of the thread or by the first to find it terminated.

Only model-checked: `JoinReturns`.

## 10. Signals

### 10.1 State and actions

`Signals.tla` models `os/kernel/signal` for one receiving thread.  Most variables
are fields of its TCB or group under their own names.  `frames` is the stack of
the calls it is in: a delivery (`sig_deliver`) runs on the receiver's own stack,
in its own code, in a handler, or on top of a wait that it ended.

| action | code |
|---|---|
| `SendUnmasked`, `SendMasked`, `SendAdds` | `sig_tcbdispatch` by a thread; the look for a pending signal and its addition are two steps |
| `Interrupt` | `sig_tcbdispatch` by a handler |
| `sig_timeout` | the watchdog of `sigtimedwait` |
| `up_sigdeliver`, `DeliverFetch`, `DeliverTake`, `HandlerReturns` | `up_sigdeliver` and the loop of `sig_deliver` |
| `UnmaskNext`, `UnmaskRelease`, `UnmaskDone` | `sig_unmaskpendingsignal` |
| `SetMask` | `sigprocmask` |
| `TimedwaitPending`, `TimedwaitBlocks`, `TimedwaitReturns` | `sigtimedwait` |
| `SuspendPending`, `SuspendBlocks`, `SuspendReturns` | `sigsuspend`, which takes a pending signal without calling its handler |

Structures of pending signals (`Slots`) and of actions (`Actions`) are of three
types, as `sig_allocatependingsignal` and `sig_allocatependingsigaction` take them:
from a common list, then, by handlers, from a reserve, or, by threads, from the
heap, of which the constants give as much as is left.  `free` has the lists of the
former, and `releasependingsignal` gives a structure back to where it came from;
for the latter it is enough to know which are in use.  When there is none left, a
pending signal stops the system (the assertion in `sig_tcbdispatch`; the step is
not possible), while an action is lost: `sig_queueaction` returns `-ENOMEM`, which
`kill` reports and `sig_unmaskpendingsignal` ignores, although its comment says that
the allocation "will force a system crash" (`sig_dispatch.c:124`).

`sig_deliver` remembers the action behind the one it delivers.  When a delivery
nested in the handler takes that action and frees it, the outer one goes on with a
structure that is free, or used for another signal (`sig_deliver.c:122`).  What
happens then depends on the contents of free memory; the model says nothing of it:
behaviours end in the states where `EntriesLive` is false, and no step but the end
of a wait by its watchdog or of a call by the sender is possible there.

`twice` is a history variable: the signals that were pending already when they were
last added.

Left out: `sigaction` at run time, several threads in a group, `nanosleep`, and the
cleanup of a thread.

### 10.2 Properties and runs

The run `sig`: three signals, one of them ignored, whose handlers mask the next
one; a thread sends two of them and handlers two, one of them the same, so that a
handler can add the very signal that the thread has just looked for.  Up to two actions are queued
(`Burst` 2), and `MaxDepth` 2 nests a delivery in a handler or a wait.  Of the four
structures of each kind one is in the common list and one in the reserve, so that
the second of each has to come from elsewhere.  401,922 states.  A receiver in
`sigsuspend` may wait for ever, so deadlock is not checked.

| property | says |
|---|---|
| `SlotsExact` | each structure is in the list of its type, pending, or in use, once, through nested deliveries |
| `PendingOnce` | a signal is pending at most once, or twice if a handler added it between the look and the addition of a thread (`twice`), which happens only to signals that both send |
| `NothingForgotten` | back in its own code the receiver has had every action and every unmasked signal, up to the second copy of one that was added twice, and has the mask it set |
| `ResultExact` | what a wait reports is what ended it |
| `ActionsRun` | under fairness every action is delivered, unless the behaviour ends because `EntriesLive` is false |

`TypeOK` holds on the instance too.  Fairness: the sender finishes its call, and
the receiver gets the CPU in the end.  Refuted, all from `sig`:

| change | refuted | why |
|---|---|---|
| check `EntriesLive` | the entries a delivery points to are still queued | `sig_deliver` keeps `next` while it runs a handler (`sig_deliver.c:122`); a delivery nested in the handler takes and frees that entry |
| `Limit(s) == 1` | `PendingOnce`; "will queue only one entry for each pending signal" | the look and the addition of `sig_addpendingsignal` (`sig_dispatch.c:253`) are two critical sections, and a handler may add the signal in between |
| `HandlersWait = TRUE`, `MaxDepth = 3` | `ResultExact` | a handler that waits overwrites `sigunbinfo` of the wait it interrupted |
| `WatchdogsRunOut = TRUE` | `ResultExact` | without a watchdog the call does not wait, and reports what ended an earlier one (`sig_timedwait.c:299`, marked REVISIT) |
| check `PendingResultExact` | "the return value" is the number of the pending signal | it is read from the structure after it was given back and interrupts enabled (`sig_timedwait.c:241`) |

A signal that was added twice is unmasked once: `sig_unmaskpendingsignal` "implicitly
assumes that only one instance for a given signal number is pending", so the second copy stays pending, unmasked, until the
next unmasking.  That is what `NothingForgotten` allows, and no more.

### 10.3 Proofs

`SignalsProofs.tla` proves for any signals, senders, handlers, masks, pools, number of
queued actions and depth of nesting:

* `TypeCorrect`: `Spec => []TypeOK`;
* `SlotsCorrect`: `Spec => []SlotsExact`;
* `PendingCorrect`: `Spec => []PendingOnce`;
* `DeliveryCorrect`: `Spec => []NothingForgotten`;
* `ResultCorrect`: `Spec => []ResultExact`, if handlers do not wait and watchdogs do
  not run out (`WaitsOutside`; the third and fourth row of the table above).

The argument.  All variables of interest hang on the stack of calls, which is
pushed, popped or changed at its top; the first lemmas say what each of these does
to a property of all positions.  `CoreInv` has the types and the places of the
structures; it is kept by every step whatever is nested.  `OnceInv` adds that what a
thread is about to add is pending at most once, and then one that handlers send too:
it was masked and not pending when the thread looked, nobody but handlers runs in
between, and they add a signal only if it is not pending.  `MaskInv`
finds the mask that was asked for in force, or kept by the outermost call that
restores one: in the middle of a delivery the mask says nothing by itself.
`UnmaskInv` says that a signal that is not masked and pending as often as it can be is
in the set that some `sig_unmaskpendingsignal` on the stack has yet to go through.
`EntryInv`: no two queued actions share a structure, and while actions are queued,
`up_sigdeliver` is to come, or some delivery on the stack goes on with the first of
them, unless a nested delivery took what one points to.  When the stack is empty there
is no such delivery, and so no action.  `OuterInv`: only the outermost call waits, and what
ended its wait is in `sigunbinfo` until it returns.

Only model-checked: `ActionsRun`.

## 11. Not modelled

* POSIX timers (their use of watchdogs is in `WDog`), pipes, serial rings, heap
  chunks and the scheduler lists beyond what semaphores use: planned (section 2).
* Barriers, keys, read-write locks, cancellation; open, close and unlink of
  message queues and semaphores.
* SmartFS and MTD, NX graphics (not configured), lwIP, Wi-Fi, the framework and
  the applications: each a project of its own, or third-party code.
* Start-up, memory protection, the SPI driver of the SoC: register-level I/O.

Out of the prover's reach and left to TLC: liveness (`HighestServed`,
`ShortestPerformed`, `CallsReturn`, `TimedWaitEnds`, `ItemsTaken`, `JoinReturns`,
`ActionsRun`).
