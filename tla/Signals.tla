------------------------------ MODULE Signals -------------------------------
(***************************************************************************)
(* POSIX signals (os/kernel/signal) sent to one thread, the receiver, by   *)
(* another thread and by interrupt handlers: signals that are masked are   *)
(* pending, others are queued as actions and delivered on the receiver's   *)
(* own stack, where one delivery may interrupt another.                    *)
(*                                                                         *)
(* The receiver is alone in its task group.  Its calls are kept on a stack *)
(* of frames, the innermost last; without a frame it runs its own code.    *)
(* All of the calls lock the scheduler, so that the sender runs only while *)
(* the receiver waits or is in its own code.                               *)
(*                                                                         *)
(* Structures of pending signals and of actions are of three types: those  *)
(* of a list for all, of a reserve for interrupt handlers, and of the heap *)
(* for threads.  sig_deliver remembers the action behind the one that it   *)
(* delivers; when a nested delivery takes that one the outer one will use  *)
(* a structure that is free again, and the model ends there (EntriesLive). *)
(***************************************************************************)
EXTENDS Integers, Sequences, FiniteSets, SequencesExt

CONSTANTS
  Signals,            \* signal numbers
  Caught,             \* the ones that have a handler
  sa_mask,            \* sa_mask[s]: what is masked while the handler of s runs
  ThreadSignals,      \* the signals that the sender sends
  IrqSignals,         \* the signals that interrupt handlers send
  Slots,              \* the structures of pending signals
  slottype,           \* slottype[k]: where structure k comes from
  Actions,            \* the structures of actions
  actiontype,         \* actiontype[a]: where structure a comes from
  Burst,              \* bound: unmasked signals come while fewer actions than this are queued
  MaxDepth,           \* bound: the frames on the stack when a signal arrives
  HandlersWait,       \* do signal handlers call sigtimedwait?
  WatchdogsRunOut     \* may wd_create fail?

NoSignal == 0
Timeout == -1         \* SIG_WAIT_TIMEOUT
NoSlot == 0
NoAction == 0
NoEntry == [id |-> NoAction, signo |-> NoSignal]
Entries == [id : Actions, signo : Caught]
Types == {"fixed", "irq", "heap"}     \* SIG_ALLOC_FIXED, SIG_ALLOC_IRQ, SIG_ALLOC_DYN

ASSUME ConstantsAssumption ==
  /\ Signals \subseteq Nat \ {0} /\ IsFiniteSet(Signals)
  /\ Caught \subseteq Signals
  /\ sa_mask \in [Caught -> SUBSET Signals]
  /\ ThreadSignals \subseteq Signals /\ IrqSignals \subseteq Signals
  /\ IsFiniteSet(Slots) /\ NoSlot \notin Slots /\ slottype \in [Slots -> Types]
  /\ Actions \subseteq Nat \ {NoAction} /\ actiontype \in [Actions -> Types]
  /\ Burst \in Nat \ {0} /\ MaxDepth \in Nat \ {0}
  /\ HandlersWait \in BOOLEAN /\ WatchdogsRunOut \in BOOLEAN

VARIABLES
  task,           \* "runs", "waits" (TSTATE_WAIT_SIG) or "ready" (woken)
  sigprocmask,    \* the signals that are masked
  sigwaitmask,    \* the signals that sigtimedwait waits for
  sigunbinfo,     \* what ended the last wait
  sigpendingq,    \* sequence of slots
  info,           \* the signal number in each slot; one that nobody reads again is forgotten
  free,           \* per type a sequence of slots: g_sigpendingsignal, g_sigpendingirqsignal, the heap
  sigpendactionq, \* sequence of entries
  armed,          \* xcp.sigdeliver is set: the receiver continues in up_sigdeliver
  frames,         \* the calls that the receiver is in
  sender,         \* the signal that the sender is about to add, or NoSignal
  asked,          \* history: the mask that the receiver has asked for
  twice           \* history: the signals that, when last added, were pending already

vars == <<task, sigprocmask, sigwaitmask, sigunbinfo, sigpendingq, info, free,
          sigpendactionq, armed, frames, sender, asked, twice>>
pending == <<sigpendingq, info, free, twice>>

\* op: what the call does next; irqoff: it runs with interrupts disabled; sigs: the
\* signals to unmask or to wait for; saved: the mask to restore; cur, next: the entries
\* of sig_deliver; slot: a structure in use; got: what the wait was ended by.
Frame == [op : {"deliver", "fetched", "handler", "unmask", "timedwait", "suspend", "return"},
          irqoff : BOOLEAN, sigs : SUBSET Signals, saved : SUBSET Signals,
          cur : Entries \union {NoEntry}, next : Entries \union {NoEntry},
          slot : Slots \union {NoSlot}, got : Signals \union {NoSignal, Timeout}]
Empty == [op |-> "deliver", irqoff |-> FALSE, sigs |-> {}, saved |-> {}, cur |-> NoEntry,
          next |-> NoEntry, slot |-> NoSlot, got |-> NoSignal]

Init ==
  /\ task = "runs"
  /\ sigprocmask = {}
  /\ sigwaitmask = {}
  /\ sigunbinfo = NoSignal
  /\ sigpendingq = <<>>
  /\ info = [k \in Slots |-> NoSignal]
  /\ free = [t \in Types |-> SetToSeq({k \in Slots : slottype[k] = t})]
  /\ sigpendactionq = <<>>
  /\ armed = FALSE
  /\ frames = <<>>
  /\ sender = NoSignal
  /\ asked = {}
  /\ twice = {}

-----------------------------------------------------------------------------
(* Helpers.                                                                *)

Top == Last(frames)
Change(f) == [frames EXCEPT ![Len(frames)] = f]

\* Every entry that a sig_deliver still points to is queued: no nested one took it.
Queued == {sigpendactionq[i] : i \in DOMAIN sigpendactionq}
EntriesLive ==
  \A i \in DOMAIN frames :
    /\ frames[i].next \in Queued \union {NoEntry}
    /\ frames[i].op = "fetched" => frames[i].cur \in Queued

\* The receiver has the CPU and nothing to deliver first; it is in its own code, or
\* about to go on with the call on top of the stack.
InUser == sender = NoSignal /\ ~ armed /\ frames = <<>>
Continues(op) ==
  /\ EntriesLive /\ sender = NoSignal /\ ~ armed /\ task # "waits"
  /\ frames # <<>> /\ Top.op = op
  /\ task' = "runs"

lowest(S) == CHOOSE s \in S : \A r \in S : s <= r

\* sig_pendingset
pendingset == {info[sigpendingq[i]] : i \in DOMAIN sigpendingq}

\* sig_removependingsignal removes the first structure of a pending signal.
PendingIndex(s) == SelectInSeq(sigpendingq, LAMBDA k : info[k] = s)
PendingSlot(s) == sigpendingq[PendingIndex(s)]
removependingsignal(s) == sigpendingq' = RemoveAt(sigpendingq, PendingIndex(s))

\* Where a structure comes from when the common list is empty.
Other(irq) == IF irq THEN "irq" ELSE "heap"

\* sig_allocatependingsignal, by an interrupt handler or a thread; the signal is put into the
\* structure, behind the pending ones.  Without a structure the assertion in
\* sig_tcbdispatch stops the system.
Adds(s, irq) ==
  LET t == IF free["fixed"] # <<>> THEN "fixed" ELSE Other(irq)
  IN  /\ free[t] # <<>>
      /\ sigpendingq' = Append(sigpendingq, Head(free[t]))
      /\ info' = [info EXCEPT ![Head(free[t])] = s]
      /\ free' = [free EXCEPT ![t] = Tail(free[t])]

\* A mutant of addpendingsignal: a signal that is pending is added once more.
MutantAddPending(s) == Adds(s, TRUE) /\ twice' = twice \ {s}

\* sig_addpendingsignal by an interrupt handler.
addpendingsignal(s) ==
  IF s \in pendingset THEN UNCHANGED pending ELSE Adds(s, TRUE) /\ twice' = twice \ {s}

\* A mutant of releasependingsignal: the structure is not put back into the list of its type.
MutantRelease(k) == free' = [free EXCEPT !["fixed"] = Append(free["fixed"], k)]

\* sig_releasependingsignal
releasependingsignal(k) == free' = [free EXCEPT ![slottype[k]] = Append(free[slottype[k]], k)]

\* sig_allocatependingsigaction.  A structure is in use while it is queued or, in sigpostedq,
\* delivered; which one of a list is taken makes no difference.
UsedIds == {sigpendactionq[i].id : i \in DOMAIN sigpendactionq}
           \union {frames[i].cur.id : i \in DOMAIN frames}
FreeIds(t) == {a \in Actions \ UsedIds : actiontype[a] = t}
allocatependingsigaction(irq) ==
  LET S == IF FreeIds("fixed") # {} THEN FreeIds("fixed") ELSE FreeIds(Other(irq))
  IN  IF S = {} THEN NoAction ELSE lowest(S)

\* sig_queueaction: nothing is queued for a signal without a handler; an action that gets no
\* structure is lost.
queueaction(s, irq) ==
  LET a == allocatependingsigaction(irq)
  IN  sigpendactionq' = IF s \in Caught /\ a # NoAction
                        THEN Append(sigpendactionq, [id |-> a, signo |-> s])
                        ELSE sigpendactionq

\* The first action of sig_deliver, when the queue is q.
deliver(q, irqoff) ==
  [Empty EXCEPT !.irqoff = irqoff, !.next = IF q = <<>> THEN NoEntry ELSE Head(q)]

\* up_unblock_task, if the receiver waits.
Unblock(s) ==
  IF task = "waits"
  THEN /\ task' = "ready"
       /\ sigunbinfo' = s
       /\ sigwaitmask' = {}
       /\ frames' = Change([Top EXCEPT !.got = s])
  ELSE UNCHANGED <<task, sigunbinfo, sigwaitmask, frames>>

-----------------------------------------------------------------------------
(* sig_tcbdispatch.                                                        *)

\* The receiver waits for the masked signal s.
WaitsFor(s) == task = "waits" /\ s \in sigwaitmask

\* A mutant of Unmasked: the receiver is not told of the action.
MutantUnmasked(s, irq) ==
  /\ s \notin sigprocmask
  /\ Len(sigpendactionq) < Burst
  /\ queueaction(s, irq)
  /\ Unblock(s)
  /\ UNCHANGED <<sigprocmask, pending, armed, sender, asked>>

\* A signal that is not masked is queued as an action, the receiver is made to go on
\* in up_sigdeliver (once, if several signals arrive), and its wait is ended.
Unmasked(s, irq) ==
  /\ s \notin sigprocmask
  /\ Len(sigpendactionq) < Burst
  /\ queueaction(s, irq)
  /\ armed' = TRUE
  /\ Unblock(s)
  /\ UNCHANGED <<sigprocmask, pending, sender, asked>>

\* The sender runs, with the scheduler locked, while the receiver waits, is about to
\* go on, or is in its own code.
SenderRuns == EntriesLive /\ (frames = <<>> \/ task # "runs")

SendUnmasked(s) ==
  /\ SenderRuns /\ sender = NoSignal
  /\ Len(frames) < MaxDepth
  /\ Unmasked(s, FALSE)

\* A masked signal ends a wait for it; otherwise the sender looks whether it is pending
\* and then adds it, and interrupts may come in between.
SendMasked(s) ==
  /\ SenderRuns /\ sender = NoSignal
  /\ s \in sigprocmask
  /\ IF WaitsFor(s)
     THEN /\ Unblock(s)
          /\ UNCHANGED sender
     ELSE /\ sender' = IF s \in pendingset THEN NoSignal ELSE s
          /\ UNCHANGED <<task, sigunbinfo, sigwaitmask, frames>>
  /\ UNCHANGED <<sigprocmask, pending, sigpendactionq, armed, asked>>

SendAdds ==
  /\ sender # NoSignal
  /\ Adds(sender, FALSE)
  /\ twice' = IF sender \in pendingset THEN twice \union {sender} ELSE twice \ {sender}
  /\ sender' = NoSignal
  /\ UNCHANGED <<task, sigprocmask, sigwaitmask, sigunbinfo, sigpendactionq, armed, frames, asked>>

\* Calls of the receiver may have disabled interrupts.
InterruptsOn ==
  EntriesLive /\ (task # "runs" \/ \A i \in DOMAIN frames : ~ frames[i].irqoff)

Interrupt(s) ==
  /\ InterruptsOn
  /\ Len(frames) < MaxDepth
  /\ \/ Unmasked(s, TRUE)
     \/ /\ s \in sigprocmask
        /\ IF WaitsFor(s)
           THEN Unblock(s) /\ UNCHANGED pending
           ELSE addpendingsignal(s) /\ UNCHANGED <<task, sigunbinfo, sigwaitmask, frames>>
        /\ UNCHANGED <<sigprocmask, sigpendactionq, armed, sender, asked>>

\* A mutant of sig_timeout: it does not look whether the receiver still waits.
MutantTimeout ==
  /\ frames # <<>> /\ Top.op = "timedwait"
  /\ task' = "ready"
  /\ sigunbinfo' = Timeout
  /\ frames' = IF task = "waits" THEN Change([Top EXCEPT !.got = Timeout]) ELSE frames
  /\ UNCHANGED <<sigprocmask, sigwaitmask, pending, sigpendactionq, armed, sender, asked>>

\* sig_timeout: the watchdog of a wait expires.
sig_timeout ==
  /\ task = "waits" /\ Top.op = "timedwait"
  /\ task' = "ready"
  /\ sigunbinfo' = Timeout
  /\ frames' = Change([Top EXCEPT !.got = Timeout])
  /\ UNCHANGED <<sigprocmask, sigwaitmask, pending, sigpendactionq, armed, sender, asked>>

-----------------------------------------------------------------------------
(* up_sigdeliver and sig_deliver.                                          *)

\* The receiver continues in up_sigdeliver, with the interrupt state of the code that it
\* was in: a thread that waited had them disabled.
up_sigdeliver ==
  /\ EntriesLive /\ armed /\ sender = NoSignal /\ task # "waits"
  /\ armed' = FALSE
  /\ task' = "runs"
  /\ frames' = Append(frames, deliver(sigpendactionq, task = "ready"))
  /\ UNCHANGED <<sigprocmask, sigwaitmask, sigunbinfo, pending, sigpendactionq, sender, asked>>

\* The entry behind e in the queue of actions.
flink(e) ==
  LET i == SelectInSeq(sigpendactionq, LAMBDA x : x = e)
  IN  IF i \in 1 .. Len(sigpendactionq) - 1 THEN sigpendactionq[i + 1] ELSE NoEntry

\* The head of the loop, where sig_deliver ends.
DeliverFetch ==
  /\ Continues("deliver")
  /\ frames' = IF Top.next = NoEntry THEN Front(frames)
               ELSE Change([Top EXCEPT !.op = "fetched", !.cur = Top.next, !.next = flink(Top.next)])
  /\ UNCHANGED <<sigprocmask, sigwaitmask, sigunbinfo, pending, sigpendactionq, armed, sender, asked>>

\* The action is taken off the queue and its handler called.
DeliverTake ==
  /\ Continues("fetched")
  /\ sigpendactionq' = RemoveFirst(sigpendactionq, Top.cur)
  /\ sigprocmask' = sigprocmask \union sa_mask[Top.cur.signo] \union {Top.cur.signo}
  /\ frames' = Change([Top EXCEPT !.op = "handler", !.saved = sigprocmask])
  /\ UNCHANGED <<sigwaitmask, sigunbinfo, pending, armed, sender, asked>>

\* A mutant of HandlerReturns: the signals that came meanwhile are not looked for.
MutantHandlerReturns ==
  /\ Continues("handler")
  /\ sigprocmask' = Top.saved
  /\ frames' = Change([Top EXCEPT !.op = "unmask"])
  /\ UNCHANGED <<sigwaitmask, sigunbinfo, pending, sigpendactionq, armed, sender, asked>>

\* The mask is restored; signals that have come meanwhile are to be unmasked.
HandlerReturns ==
  /\ Continues("handler")
  /\ sigprocmask' = Top.saved
  /\ frames' = Change([Top EXCEPT !.op = "unmask", !.sigs = pendingset \ Top.saved])
  /\ UNCHANGED <<sigwaitmask, sigunbinfo, pending, sigpendactionq, armed, sender, asked>>

\* sig_unmaskpendingsignal: the lowest signal is dispatched to the receiver itself.  Its
\* action is delivered at once, with interrupts disabled, and with it all that are queued.
UnmaskNext ==
  /\ Continues("unmask") /\ Top.slot = NoSlot /\ Top.sigs # {}
  /\ LET s == lowest(Top.sigs)
         f == [Top EXCEPT !.sigs = @ \ {s}]
     IN  IF s \in pendingset
         THEN /\ removependingsignal(s)
              /\ queueaction(s, FALSE)
              /\ frames' = Append(Change([f EXCEPT !.slot = PendingSlot(s)]),
                                 deliver(sigpendactionq', TRUE))
         ELSE /\ frames' = Change(f)
              /\ UNCHANGED <<sigpendingq, sigpendactionq>>
  /\ UNCHANGED <<sigprocmask, sigwaitmask, sigunbinfo, info, free, armed, sender, asked, twice>>

\* The structure is given back.
UnmaskRelease ==
  /\ Continues("unmask") /\ Top.slot # NoSlot
  /\ releasependingsignal(Top.slot)
  /\ info' = [info EXCEPT ![Top.slot] = NoSignal]
  /\ frames' = Change([Top EXCEPT !.slot = NoSlot])
  /\ UNCHANGED <<sigprocmask, sigwaitmask, sigunbinfo, sigpendingq, sigpendactionq, armed,
                 sender, asked, twice>>

\* sig_deliver gives back the entry and goes on; sigprocmask and sigsuspend return.
UnmaskDone ==
  /\ Continues("unmask") /\ Top.slot = NoSlot /\ Top.sigs = {}
  /\ frames' = IF Top.cur # NoEntry
               THEN Change([Top EXCEPT !.op = "deliver", !.cur = NoEntry, !.saved = {}])
               ELSE Front(frames)
  /\ UNCHANGED <<sigprocmask, sigwaitmask, sigunbinfo, pending, sigpendactionq, armed, sender, asked>>

-----------------------------------------------------------------------------
(* Calls of the receiver.                                                  *)

\* sigprocmask(SIG_SETMASK, &set), and the other functions to the same effect.
SetMask(set) ==
  /\ InUser
  /\ set # sigprocmask
  /\ sigprocmask' = set
  /\ asked' = set
  /\ frames' = <<[Empty EXCEPT !.op = "unmask", !.sigs = pendingset \ set]>>
  /\ UNCHANGED <<task, sigwaitmask, sigunbinfo, pending, sigpendactionq, armed, sender>>

\* The receiver calls sigtimedwait in its own code, or in a signal handler.
MayWait ==
  /\ EntriesLive /\ sender = NoSignal /\ ~ armed /\ task = "runs"
  /\ Len(frames) < MaxDepth
  /\ frames # <<>> => HandlersWait /\ Top.op = "handler"

\* The lowest pending signal of S is removed, and its structure given back.
TakePending(S) ==
  /\ removependingsignal(lowest(S))
  /\ releasependingsignal(PendingSlot(lowest(S)))

\* sigtimedwait of signals that are pending: the number is read from the structure again
\* when it was given back and interrupts are enabled.
TimedwaitPending(set) ==
  /\ MayWait
  /\ LET S == set \intersect pendingset IN
     /\ S # {}
     /\ TakePending(S)
     /\ UNCHANGED info
     /\ frames' = Append(frames, [Empty EXCEPT !.op = "return", !.got = lowest(S),
                                               !.slot = PendingSlot(lowest(S))])
  /\ UNCHANGED <<task, sigprocmask, sigwaitmask, sigunbinfo, sigpendactionq, armed, sender, asked, twice>>

\* Nothing is pending: the receiver waits; a wait with a timeout that gets no watchdog does not block.
TimedwaitBlocks(set) ==
  /\ MayWait
  /\ set \intersect pendingset = {}
  /\ task' \in {"waits"} \union (IF WatchdogsRunOut THEN {"runs"} ELSE {})
  /\ sigwaitmask' = IF task' = "waits" THEN set ELSE sigwaitmask
  /\ frames' = Append(frames, [Empty EXCEPT !.op = "timedwait", !.irqoff = TRUE, !.sigs = set])
  /\ UNCHANGED <<sigprocmask, sigunbinfo, pending, sigpendactionq, armed, sender, asked>>

\* The call returns the signal, or EINTR, or EAGAIN, as sigunbinfo says.
TimedwaitReturns ==
  /\ Continues("timedwait") \/ Continues("return")
  /\ frames' = Front(frames)
  /\ sigwaitmask' = IF Top.op = "timedwait" THEN {} ELSE sigwaitmask
  /\ info' = [k \in Slots |-> IF k = Top.slot /\ Contains(free[slottype[k]], k) THEN NoSignal ELSE info[k]]
  /\ UNCHANGED <<sigprocmask, sigunbinfo, sigpendingq, free, sigpendactionq, armed, sender, asked, twice>>

\* sigsuspend takes a signal that is pending, and does not call its handler.
SuspendPending(set) ==
  /\ InUser
  /\ pendingset \ set # {}
  /\ TakePending(pendingset \ set)
  /\ info' = [info EXCEPT ![PendingSlot(lowest(pendingset \ set))] = NoSignal]
  /\ UNCHANGED <<task, sigprocmask, sigwaitmask, sigunbinfo, sigpendactionq, armed, frames, sender, asked,
                 twice>>

SuspendBlocks(set) ==
  /\ InUser
  /\ pendingset \ set = {}
  /\ sigprocmask' = set
  /\ sigwaitmask' = {}
  /\ frames' = <<[Empty EXCEPT !.op = "suspend", !.irqoff = TRUE, !.saved = sigprocmask]>>
  /\ task' = "waits"
  /\ UNCHANGED <<sigunbinfo, pending, sigpendactionq, armed, sender, asked>>

\* Awake, the old mask is restored, and what came meanwhile unmasked.
SuspendReturns ==
  /\ Continues("suspend")
  /\ sigprocmask' = Top.saved
  /\ frames' = Change([Top EXCEPT !.op = "unmask", !.irqoff = FALSE, !.saved = {}, !.got = NoSignal,
                                  !.sigs = pendingset \ Top.saved])
  /\ UNCHANGED <<sigwaitmask, sigunbinfo, pending, sigpendactionq, armed, sender, asked>>

-----------------------------------------------------------------------------
Delivers ==
  \/ up_sigdeliver \/ DeliverFetch \/ DeliverTake \/ HandlerReturns
  \/ UnmaskNext \/ UnmaskRelease \/ UnmaskDone
  \/ TimedwaitReturns \/ SuspendReturns

Calls ==
  \E set \in SUBSET Signals :
    \/ SetMask(set)
    \/ TimedwaitPending(set) \/ TimedwaitBlocks(set)
    \/ SuspendPending(set) \/ SuspendBlocks(set)

Next ==
  \/ \E s \in ThreadSignals : SendUnmasked(s) \/ SendMasked(s)
  \/ SendAdds
  \/ \E s \in IrqSignals : Interrupt(s)
  \/ sig_timeout
  \/ Delivers
  \/ Calls

\* The sender finishes its call, and the receiver gets the CPU in the end.
Fairness == WF_vars(SendAdds) /\ SF_vars(Delivers)

Spec == Init /\ [][Next]_vars /\ Fairness

-----------------------------------------------------------------------------
(* Properties.                                                             *)

TypeOK ==
  /\ task \in {"runs", "waits", "ready"}
  /\ sigprocmask \subseteq Signals /\ sigwaitmask \subseteq Signals /\ asked \subseteq Signals
  /\ sigunbinfo \in Signals \union {NoSignal, Timeout}
  /\ sigpendingq \in Seq(Slots) /\ free \in [Types -> Seq(Slots)] /\ info \in [Slots -> Signals \union {NoSignal}]
  /\ sigpendactionq \in Seq(Entries)
  /\ armed \in BOOLEAN
  /\ frames \in Seq(Frame)
  /\ sender \in Signals \union {NoSignal} /\ twice \subseteq Signals

\* Every structure of a pending signal is in one place: the list of its type, the pending
\* signals, or the hands of sig_unmaskpendingsignal, through all nested deliveries.
Held == {i \in DOMAIN frames : frames[i].op # "return" /\ frames[i].slot # NoSlot}
SlotsExact ==
  \A k \in Slots :
    Cardinality({i \in DOMAIN free[slottype[k]] : free[slottype[k]][i] = k})
    + Cardinality({i \in DOMAIN sigpendingq : sigpendingq[i] = k})
    + Cardinality({i \in Held : frames[i].slot = k}) = 1

\* A signal is pending once, as sig_addpendingsignal says, and twice only when a handler has
\* added it between the look of a thread and its addition: then neither adds it once more.
Shared == ThreadSignals \intersect IrqSignals
Limit(s) == IF s \in twice THEN 2 ELSE 1
Copies(s) == Cardinality({k \in Range(sigpendingq) : info[k] = s})
PendingOnce == twice \subseteq Shared /\ \A s \in Signals : Copies(s) <= Limit(s)

\* When the receiver is back in its own code, every action was run, its mask is the one that
\* it set, and every unmasked signal was delivered, up to the second copy of a signal that
\* was added twice, however deliveries and waits were nested.
NothingForgotten ==
  InUser => /\ \A s \in Signals \ sigprocmask : Copies(s) < Limit(s)
            /\ sigpendactionq = <<>>
            /\ sigprocmask = asked

\* What sigtimedwait returns is what ended its wait, although other signals, the timeout and
\* handlers come before it runs again.
ResultExact ==
  frames # <<>> /\ task # "waits" /\ Top.op = "timedwait" => sigunbinfo = Top.got

\* Every action is delivered, also those that come in a burst, unless a nested delivery takes
\* an action that an outer one points to.
ActionsRun == sigpendactionq # <<>> ~> sigpendactionq = <<>> \/ ~ EntriesLive

\* What the comment in sigtimedwait says: the return value is the number of the signal that
\* was pending.
PendingResultExact == frames # <<>> /\ Top.op = "return" => info[Top.slot] = Top.got
=============================================================================
