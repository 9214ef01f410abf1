------------------------------- MODULE MQueue -------------------------------
(***************************************************************************)
(* A message queue (os/kernel/mqueue) with sending and receiving threads,  *)
(* interrupt handlers that send, timeouts, signals, notifications, and     *)
(* the deletion of threads.                                                *)
(*                                                                         *)
(* A step is what runs with interrupts disabled, or a read or write that   *)
(* an interrupt cannot split.  A thread in a call has the scheduler        *)
(* locked: until it blocks or returns only interrupts come in between.     *)
(* The allocation of a message from the heap may block.                    *)
(*                                                                         *)
(* The watchdog of a timed call is as WDogSpec promises: once started it   *)
(* expires at some time, unless it is cancelled.                           *)
(***************************************************************************)
EXTENDS Integers, SequencesExt

CONSTANTS
  Senders, Receivers,
  NoThread,
  Priority,      \* [Threads -> Nat], sched_priority
  Timed,         \* the threads that use mq_timedsend and mq_timedreceive
  NonBlock,      \* the threads with O_NONBLOCK
  Notified,      \* the threads that ask for a notification
  Signalled,     \* the threads that are signalled in a call
  HandlerPrios,  \* the priorities of messages that handlers send
  MsgPrios,      \* the priorities of messages
  Fixed,         \* g_msgfree at the start, messages of type MQ_ALLOC_FIXED
  Irq,           \* g_msgfreeirq at the start, of type MQ_ALLOC_IRQ
  Dyn,           \* what kmm_malloc can return, of type MQ_ALLOC_DYN
  NoSlot,
  maxmsgs,
  Deleter,       \* task_terminate, when it has the scheduler locked
  KillAt,        \* the states in which threads are deleted
  HandlersInDeletion  \* TRUE if the dying thread's queue is used by handlers

Threads == Senders \union Receivers
Slots == Fixed \union Irq \union Dyn
State == {"idle", "notfull", "notempty", "ready", "alloc", "heap", "insert",
          "notify", "detach", "wake", "free", "check", "find", "assert"}

ASSUME ConstantsAssumption ==
  /\ Senders \intersect Receivers = {} /\ IsFiniteSet(Threads)
  /\ NoThread \notin Threads /\ Deleter \notin Threads \union {NoThread}
  /\ Priority \in [Threads -> Nat]
  /\ Timed \union NonBlock \union Notified \union Signalled \subseteq Threads
  /\ MsgPrios \subseteq Nat /\ HandlerPrios \subseteq MsgPrios
  /\ IsFiniteSet(Slots) /\ NoSlot \notin Slots
  /\ Fixed \intersect Irq = {} /\ Fixed \intersect Dyn = {} /\ Irq \intersect Dyn = {}
  /\ maxmsgs \in Nat \ {0}
  /\ KillAt \subseteq {"notfull", "notempty", "ready"}
  /\ HandlersInDeletion \in BOOLEAN

VARIABLES
  msglist,        \* msgq->msglist, of [slot, prio]
  nmsgs,          \* msgq->nmsgs
  nwaitnotfull,   \* msgq->nwaitnotfull
  nwaitnotempty,  \* msgq->nwaitnotempty
  notfull,        \* g_waitingformqnotfull
  notempty,       \* g_waitingformqnotempty
  ntpid,          \* msgq->ntpid and ntmqdes: who is to be notified
  msgfree,        \* g_msgfree
  msgfreeirq,     \* g_msgfreeirq
  heap,           \* the messages allocated from the heap
  state,          \* how far each thread is in its call
  errno,          \* the threads whose wait ended with an error
  dog,            \* the threads whose watchdog is active
  msg,            \* [Threads -> the message each has in hand]
  pid,            \* [Threads -> the thread each is about to notify]
  cpu,            \* who has the scheduler locked
  dying,          \* the thread that is being deleted
  arrived,        \* history: the queued messages in the order of arrival
  handled         \* history: the queued messages that handlers sent

queue == <<msglist, nmsgs, arrived, handled>>
waits == <<nwaitnotfull, nwaitnotempty, notfull, notempty, errno>>
pools == <<msgfree, msgfreeirq, heap>>
vars == <<msglist, nmsgs, nwaitnotfull, nwaitnotempty, notfull, notempty, ntpid,
          msgfree, msgfreeirq, heap, state, errno, dog, msg, pid, cpu, dying, arrived, handled>>

Waiting == {t \in Threads : state[t] \in {"notfull", "notempty"}}

Init ==
  /\ msglist = <<>> /\ nmsgs = 0 /\ arrived = <<>> /\ handled = {}
  /\ nwaitnotfull = 0 /\ nwaitnotempty = 0
  /\ notfull = <<>> /\ notempty = <<>>
  /\ ntpid = NoThread
  /\ msgfree = Fixed /\ msgfreeirq = Irq /\ heap = {}
  /\ state = [t \in Threads |-> "idle"]
  /\ errno = {}
  /\ dog = {}
  /\ msg = [t \in Threads |-> NoSlot]
  /\ pid = [t \in Threads |-> NoThread]
  /\ cpu = NoThread
  /\ dying = NoThread

-----------------------------------------------------------------------------
(* Helpers.                                                                *)

\* The list s with e before the first of the positions lower, or at the end.
Before(s, lower, e) == InsertAt(s, Min(lower \union {Len(s) + 1}), e)

\* sched_addblocked, for the prioritised lists
AddPrioritized(s, t) == Before(s, {i \in DOMAIN s : Priority[s[i]] < Priority[t]}, t)

\* The scheduler: nobody else has it locked, and no thread of a higher priority
\* is ready.
Runs(t) ==
  \/ cpu = t
  \/ /\ cpu = NoThread
     /\ \A u \in Threads : state[u] = "ready" => Priority[u] <= Priority[t]

Full == nmsgs >= maxmsgs

\* A mutant of WaitNotFull: the sender is not counted.
MutantWaitNotFull(t) ==
  /\ notfull' = AddPrioritized(notfull, t)
  /\ state' = [state EXCEPT ![t] = "notfull"]
  /\ errno' = errno \ {t}
  /\ cpu' = NoThread
  /\ UNCHANGED <<nwaitnotfull, nwaitnotempty, notempty>>

\* mq_waitsend and mq_waitreceive block the thread.
WaitNotFull(t) ==
  /\ notfull' = AddPrioritized(notfull, t)
  /\ nwaitnotfull' = nwaitnotfull + 1
  /\ state' = [state EXCEPT ![t] = "notfull"]
  /\ errno' = errno \ {t}
  /\ cpu' = NoThread
  /\ UNCHANGED <<nwaitnotempty, notempty>>

WaitNotEmpty(t) ==
  /\ notempty' = AddPrioritized(notempty, t)
  /\ nwaitnotempty' = nwaitnotempty + 1
  /\ state' = [state EXCEPT ![t] = "notempty"]
  /\ errno' = errno \ {t}
  /\ cpu' = NoThread
  /\ UNCHANGED <<nwaitnotfull, notfull>>

\* A call that ends, or a step within a call, with the scheduler locked.
Return(t) == state' = [state EXCEPT ![t] = "idle"] /\ cpu' = NoThread
Proceed(t, to) == state' = [state EXCEPT ![t] = to] /\ cpu' = t

\* A mutant of Queue: every message goes to the end.
MutantQueue(m, from_handler) ==
  /\ handled' = IF from_handler THEN handled \union {m.slot} ELSE handled \ {m.slot}
  /\ msglist' = Append(msglist, m)
  /\ nmsgs' = nmsgs + 1
  /\ arrived' = Append(arrived, m)

\* The insertion of mq_dosend, behind all messages of at least its priority.
Queue(m, from_handler) ==
  /\ handled' = IF from_handler THEN handled \union {m.slot} ELSE handled \ {m.slot}
  /\ msglist' = Before(msglist, {i \in DOMAIN msglist : msglist[i].prio < m.prio}, m)
  /\ nmsgs' = nmsgs + 1
  /\ arrived' = Append(arrived, m)

\* mq_waitreceive with a message: sq_remfirst and the decrement.
Dequeue(t) ==
  /\ msglist' = Tail(msglist)
  /\ nmsgs' = nmsgs - 1
  /\ msg' = [msg EXCEPT ![t] = Head(msglist).slot]
  /\ arrived' = RemoveFirst(arrived, Head(msglist))
  /\ handled' = handled \ {Head(msglist).slot}

\* up_unblock_task: of t with an error, if it waits, and of w, which waits, or NoThread.
Unblock(t, w) ==
  LET S == {t, w} \intersect Waiting IN
  /\ notfull' = RemoveFirst(RemoveFirst(notfull, t), w)
  /\ notempty' = RemoveFirst(RemoveFirst(notempty, t), w)
  /\ nwaitnotfull' = nwaitnotfull - Cardinality({u \in S : state[u] = "notfull"})
  /\ nwaitnotempty' = nwaitnotempty - Cardinality({u \in S : state[u] = "notempty"})
  /\ errno' = errno \union ({t} \intersect Waiting)
Ready(t, w) == [u \in Threads |-> IF u \in {t, w} \intersect Waiting THEN "ready" ELSE state[u]]

\* mq_waitirq: it is the thread that is restarted, if it waits.
mq_waitirq(t) == Unblock(t, NoThread)

-----------------------------------------------------------------------------
(* mq_send and mq_timedsend.                                               *)

\* A mutant of Send: the bound is not checked.
MutantSend(t) ==
  /\ Runs(t)
  /\ state[t] = "idle"
  /\ Proceed(t, "alloc")
  /\ UNCHANGED <<queue, waits, dog, pools, ntpid, msg, pid, dying>>

\* The queue is not full, or the thread waits.  It returns at once, with an
\* error, if the queue is full and the thread does not block, or is late.
Send(t) ==
  /\ Runs(t)
  /\ state[t] = "idle"
  /\ \/ ~Full /\ Proceed(t, "alloc") /\ UNCHANGED <<waits, dog>>
     \/ Full /\ t \notin NonBlock
        /\ WaitNotFull(t)
        /\ dog' = dog \union ({t} \intersect Timed)
  /\ UNCHANGED <<queue, pools, ntpid, msg, pid, dying>>

\* The loop of mq_waitsend, and what follows it.  The watchdog is not started
\* anew when the thread waits again.
SendResumes(t) ==
  /\ Runs(t)
  /\ state[t] = "ready"
  /\ \/ t \in errno /\ Return(t) /\ dog' = dog \ {t} /\ UNCHANGED waits
     \/ t \notin errno /\ Full /\ WaitNotFull(t) /\ UNCHANGED dog
     \/ t \notin errno /\ ~Full /\ Proceed(t, "alloc") /\ dog' = dog \ {t} /\ UNCHANGED waits
  /\ UNCHANGED <<queue, pools, ntpid, msg, pid, dying>>

\* mq_msgalloc: from the free list, or from the heap, for which the thread may
\* have to wait.
Alloc(t) ==
  /\ cpu = t /\ state[t] = "alloc"
  /\ \/ \E s \in msgfree :
          /\ msgfree' = msgfree \ {s}
          /\ msg' = [msg EXCEPT ![t] = s]
          /\ Proceed(t, "insert")
     \/ /\ msgfree = {}
        /\ state' = [state EXCEPT ![t] = "heap"]
        /\ cpu' = NoThread
        /\ UNCHANGED <<msgfree, msg>>
  /\ UNCHANGED <<queue, waits, msgfreeirq, heap, ntpid, dog, pid, dying>>

HeapReturns(t) ==
  /\ cpu = NoThread /\ state[t] = "heap"
  /\ \E s \in Dyn \ heap :
       /\ heap' = heap \union {s}
       /\ msg' = [msg EXCEPT ![t] = s]
  /\ Proceed(t, "insert")
  /\ UNCHANGED <<queue, waits, msgfree, msgfreeirq, ntpid, dog, pid, dying>>

\* mq_dosend: the insertion, the notification, and the wake-up of a receiver.
Insert(t) ==
  /\ cpu = t /\ state[t] = "insert"
  /\ \E p \in MsgPrios : Queue([slot |-> msg[t], prio |-> p], FALSE)
  /\ msg' = [msg EXCEPT ![t] = NoSlot]
  /\ Proceed(t, "notify")
  /\ UNCHANGED <<waits, pools, ntpid, dog, pid, dying>>

Notify(t) ==
  /\ cpu = t /\ state[t] = "notify"
  /\ pid' = [pid EXCEPT ![t] = ntpid]
  /\ Proceed(t, IF ntpid = NoThread THEN "wake" ELSE "detach")
  /\ UNCHANGED <<queue, waits, pools, ntpid, dog, msg, dying>>

Detach(t) ==
  /\ cpu = t /\ state[t] = "detach"
  /\ ntpid' = NoThread
  /\ mq_waitirq(pid[t])
  /\ state' = [Ready(pid[t], NoThread) EXCEPT ![t] = "wake"]
  /\ pid' = [pid EXCEPT ![t] = NoThread]
  /\ UNCHANGED <<queue, pools, dog, msg, cpu, dying>>

\* A mutant of Wake: only the first message wakes a receiver.
MutantWake(t) ==
  /\ cpu = t /\ state[t] = "wake"
  /\ LET w == IF nwaitnotempty > 0 /\ nmsgs = 1 THEN Head(notempty) ELSE NoThread IN
     /\ Unblock(NoThread, w)
     /\ state' = [Ready(NoThread, w) EXCEPT ![t] = "idle"]
  /\ cpu' = NoThread
  /\ UNCHANGED <<queue, pools, ntpid, dog, msg, pid, dying>>

Wake(t) ==
  /\ cpu = t /\ state[t] = "wake"
  /\ LET w == IF nwaitnotempty > 0 THEN Head(notempty) ELSE NoThread IN
     /\ Unblock(NoThread, w)
     /\ state' = [Ready(NoThread, w) EXCEPT ![t] = "idle"]
  /\ cpu' = NoThread
  /\ UNCHANGED <<queue, pools, ntpid, dog, msg, pid, dying>>

-----------------------------------------------------------------------------
(* mq_receive and mq_timedreceive.                                         *)

Receive(t) ==
  /\ Runs(t)
  /\ state[t] = "idle"
  /\ \/ /\ msglist # <<>>
        /\ Dequeue(t) /\ Proceed(t, "free")
        /\ UNCHANGED <<waits, dog>>
     \/ /\ msglist = <<>> /\ t \notin NonBlock
        /\ WaitNotEmpty(t)
        /\ dog' = dog \union ({t} \intersect Timed)
        /\ UNCHANGED <<queue, msg>>
  /\ UNCHANGED <<pools, ntpid, pid, dying>>

\* The loop of mq_waitreceive: the message may be gone again.
ReceiveResumes(t) ==
  /\ Runs(t)
  /\ state[t] = "ready"
  /\ \/ /\ t \in errno /\ Return(t)
        /\ dog' = dog \ {t}
        /\ UNCHANGED <<queue, waits, msg>>
     \/ /\ t \notin errno /\ msglist = <<>>
        /\ WaitNotEmpty(t)
        /\ UNCHANGED <<queue, dog, msg>>
     \/ /\ t \notin errno /\ msglist # <<>>
        /\ Dequeue(t) /\ Proceed(t, "free")
        /\ dog' = dog \ {t}
        /\ UNCHANGED waits
  /\ UNCHANGED <<pools, ntpid, pid, dying>>

\* A mutant of Free: messages for handlers are given to everybody.
MutantFree(t) ==
  /\ cpu = t /\ state[t] = "free"
  /\ msgfree' = msgfree \union ({msg[t]} \ Dyn)
  /\ heap' = heap \ {msg[t]}
  /\ msg' = [msg EXCEPT ![t] = NoSlot]
  /\ Proceed(t, "check")
  /\ UNCHANGED <<queue, waits, msgfreeirq, ntpid, dog, pid, dying>>

\* mq_doreceive: mq_msgfree, the test of nwaitnotfull with interrupts enabled,
\* and the search for the waiting sender.
Free(t) ==
  /\ cpu = t /\ state[t] = "free"
  /\ msgfree' = msgfree \union ({msg[t]} \intersect Fixed)
  /\ msgfreeirq' = msgfreeirq \union ({msg[t]} \intersect Irq)
  /\ heap' = heap \ {msg[t]}
  /\ msg' = [msg EXCEPT ![t] = NoSlot]
  /\ Proceed(t, "check")
  /\ UNCHANGED <<queue, waits, ntpid, dog, pid, dying>>

Check(t) ==
  /\ cpu = t /\ state[t] = "check"
  /\ IF nwaitnotfull > 0 THEN Proceed(t, "find") ELSE Return(t)
  /\ UNCHANGED <<queue, waits, pools, ntpid, dog, msg, pid, dying>>

\* ASSERT(btcb) stops the system if no sender waits any more.
Find(t) ==
  /\ cpu = t /\ state[t] = "find"
  /\ \/ /\ notfull # <<>>
        /\ Unblock(NoThread, Head(notfull))
        /\ state' = [Ready(NoThread, Head(notfull)) EXCEPT ![t] = "idle"]
        /\ cpu' = NoThread
     \/ /\ notfull = <<>>
        /\ Proceed(t, "assert")
        /\ UNCHANGED waits
  /\ UNCHANGED <<queue, pools, ntpid, dog, msg, pid, dying>>

-----------------------------------------------------------------------------
(* Interrupts, signals and notifications.                                  *)

Stopped == \E t \in Threads : state[t] = "assert"

\* The watchdog of a timed call, mq_sndtimeout or mq_rcvtimeout.
Timeout(t) ==
  /\ ~Stopped
  /\ t \in dog
  /\ dog' = dog \ {t}
  /\ mq_waitirq(t)
  /\ state' = Ready(t, NoThread)
  /\ UNCHANGED <<queue, pools, ntpid, msg, pid, cpu, dying>>

\* A signal, sent by a handler or by a thread.
Signal(t) ==
  /\ ~Stopped
  /\ t \in Waiting \intersect Signalled
  /\ t = dying => HandlersInDeletion
  /\ mq_waitirq(t)
  /\ state' = Ready(t, NoThread)
  /\ UNCHANGED <<queue, pools, ntpid, dog, msg, pid, cpu, dying>>

\* mq_send in an interrupt handler, which does not heed maxmsgs and does not
\* block: without a free message it returns an error.
HandlerSends(p) ==
  /\ ~Stopped
  /\ dying # NoThread => HandlersInDeletion
  /\ \E s \in IF msgfree # {} THEN msgfree ELSE msgfreeirq :
       /\ msgfree' = msgfree \ {s}
       /\ msgfreeirq' = msgfreeirq \ {s}
       /\ Queue([slot |-> s, prio |-> p], TRUE)
  /\ LET rest == RemoveFirst(notempty, ntpid)
         n == nwaitnotempty - (Len(notempty) - Len(rest))
         woken == IF n > 0 THEN Head(rest) ELSE NoThread
     IN  /\ Unblock(ntpid, woken)
         /\ state' = Ready(ntpid, woken)
  /\ ntpid' = NoThread
  /\ UNCHANGED <<heap, dog, msg, pid, cpu, dying>>

\* mq_notify attaches the notification of t, or detaches it.
mq_notify(t) ==
  /\ Runs(t)
  /\ state[t] = "idle"
  /\ ntpid \in {NoThread, t}
  /\ ntpid' = IF ntpid = t THEN NoThread ELSE t
  /\ UNCHANGED <<queue, waits, pools, state, dog, msg, pid, cpu, dying>>

-----------------------------------------------------------------------------
(* The deletion of a thread: task_terminate calls mq_recover, then removes *)
(* the TCB from its list.  A new thread takes its place.                   *)

\* A mutant of mq_recover: the counters are left alone.
MutantRecover(t) ==
  /\ cpu = NoThread
  /\ state[t] \in KillAt
  /\ dog' = dog \ {t}
  /\ dying' = t
  /\ cpu' = Deleter
  /\ UNCHANGED <<queue, pools, waits, ntpid, state, msg, pid>>

mq_recover(t) ==
  /\ cpu = NoThread
  /\ state[t] \in KillAt
  /\ nwaitnotfull' = IF state[t] = "notfull" THEN nwaitnotfull - 1 ELSE nwaitnotfull
  /\ nwaitnotempty' = IF state[t] = "notempty" THEN nwaitnotempty - 1 ELSE nwaitnotempty
  /\ dog' = dog \ {t}
  /\ dying' = t
  /\ cpu' = Deleter
  /\ UNCHANGED <<queue, pools, notfull, notempty, errno, ntpid, state, msg, pid>>

Removed(t) ==
  /\ dying = t
  /\ notfull' = RemoveFirst(notfull, t)
  /\ notempty' = RemoveFirst(notempty, t)
  /\ state' = [state EXCEPT ![t] = "idle"]
  /\ errno' = errno \ {t}
  /\ ntpid' = IF ntpid = t THEN NoThread ELSE ntpid
  /\ dying' = NoThread
  /\ cpu' = NoThread
  /\ UNCHANGED <<queue, pools, nwaitnotfull, nwaitnotempty, dog, msg, pid>>

-----------------------------------------------------------------------------

SendContinues(t) ==
  SendResumes(t) \/ Alloc(t) \/ HeapReturns(t) \/ Insert(t) \/ Notify(t) \/ Detach(t) \/ Wake(t)
ReceiveContinues(t) == ReceiveResumes(t) \/ Free(t) \/ Check(t) \/ Find(t)

Next ==
  \/ \E t \in Senders : Send(t) \/ SendContinues(t)
  \/ \E t \in Receivers : Receive(t) \/ ReceiveContinues(t)
  \/ \E t \in Threads : Timeout(t) \/ Signal(t) \/ mq_recover(t) \/ Removed(t)
  \/ \E t \in Notified : mq_notify(t)
  \/ \E p \in HandlerPrios : HandlerSends(p)

\* Ready threads are run in the end, and watchdogs expire.
Fairness ==
  /\ \A t \in Senders : SF_vars(SendContinues(t))
  /\ \A t \in Receivers : SF_vars(ReceiveContinues(t))
  /\ \A t \in Threads : WF_vars(Timeout(t)) /\ WF_vars(Removed(t))

Spec == Init /\ [][Next]_vars /\ Fairness

-----------------------------------------------------------------------------
(* Properties.                                                             *)

TypeOK ==
  /\ msglist \in Seq([slot : Slots, prio : MsgPrios])
  /\ arrived \in Seq([slot : Slots, prio : MsgPrios])
  /\ nmsgs \in Nat
  /\ nwaitnotfull \in Nat /\ nwaitnotempty \in Nat
  /\ notfull \in Seq(Senders) /\ notempty \in Seq(Receivers)
  /\ ntpid \in Notified \union {NoThread}
  /\ msgfree \subseteq Slots /\ msgfreeirq \subseteq Slots /\ heap \subseteq Dyn
  /\ state \in [Threads -> State]
  /\ errno \subseteq Threads
  /\ dog \subseteq Timed
  /\ msg \in [Threads -> Slots \union {NoSlot}]
  /\ pid \in [Threads -> Notified \union {NoThread}]
  /\ cpu \in Threads \union {NoThread, Deleter}
  /\ dying \in Threads \union {NoThread}
  /\ handled \subseteq Slots

\* The counters that decide whether somebody is woken agree with the lists that
\* are then searched, and nmsgs with the queue, however waits end.
CountsExact ==
  /\ nmsgs = Len(msglist)
  /\ nwaitnotfull = Cardinality({t \in Range(notfull) : t # dying})
  /\ nwaitnotempty = Cardinality({t \in Range(notempty) : t # dying})
  /\ \A t \in Threads : /\ t \in Range(notfull) <=> state[t] = "notfull"
                        /\ t \in Range(notempty) <=> state[t] = "notempty"

\* A message does not lie in the queue while a receiver sleeps, unless as many
\* receivers are already woken, or about to be, as there are messages.
NoMessageMissed ==
  Range(notempty) \ {dying} # {} =>
    nmsgs <= Cardinality({t \in Receivers : state[t] = "ready" /\ t \notin errno})
             + Cardinality({t \in Senders : state[t] \in {"notify", "detach", "wake"}})

\* There is no room in the queue while a sender sleeps, unless as many senders
\* are already woken, or sending, or about to be woken.
NoRoomMissed ==
  Range(notfull) \ {dying} # {} =>
    maxmsgs - nmsgs <=
      Cardinality({t \in Senders : \/ state[t] \in {"alloc", "heap", "insert"}
                                   \/ state[t] = "ready" /\ t \notin errno})
      + Cardinality({t \in Receivers : state[t] \in {"free", "check", "find"}})

\* Every message structure is in one place: in a free list of its own type, in
\* the queue, or in the hands of a thread.
SlotsExact ==
  LET queued == {msglist[i].slot : i \in DOMAIN msglist}
      held == {msg[t] : t \in Threads} \ {NoSlot}
  IN  /\ msgfree \subseteq Fixed /\ msgfreeirq \subseteq Irq
      /\ Cardinality(queued) = Len(msglist)
      /\ \A t, u \in Threads : msg[t] = msg[u] /\ t # u => msg[t] = NoSlot
      /\ queued \intersect held = {}
      /\ (msgfree \union msgfreeirq) \intersect (queued \union held) = {}
      /\ msgfree \union msgfreeirq \union queued \union held = Fixed \union Irq \union heap

\* The threads together exceed maxmsgs only by those that found room at the
\* same time and then waited for memory; what handlers send comes on top.
FromThreads == {i \in DOMAIN msglist : msglist[i].slot \notin handled}
OvershootBounded == Cardinality(FromThreads) < maxmsgs + Cardinality(Senders)

\* A message goes to one receiver, the oldest of the highest priority first.
Abstract == INSTANCE MQueueSpec
ImplementsMQueueSpec == Abstract!Spec

\* What mq_timedreceive and mq_timedsend promise: a ceiling on the time for
\* which the call will block.
TimedCallsReturn == \A t \in Timed : state[t] # "idle" ~> state[t] = "idle"

\* The assertion of mq_doreceive.
WaiterFound == \A t \in Threads : state[t] # "assert"

\* What mq_notify promises: the registration is removed when the notification
\* is sent, so that it is sent once.
NotifiedOnce == \A t \in Threads : state[t] = "detach" => ntpid = pid[t]

\* What mq_send promises: it waits until the queue is not full.
BoundKept == Cardinality(FromThreads) <= maxmsgs
=============================================================================
