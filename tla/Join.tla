-------------------------------- MODULE Join --------------------------------
(***************************************************************************)
(* The join structure of one pthread (os/kernel/pthread): the thread is    *)
(* created, registers itself and exits, while others join or detach it.    *)
(* The structure is freed by whoever finds that nobody else needs it.      *)
(*                                                                         *)
(* The semaphores beneath are as LockSpec promises.  Priorities are        *)
(* arbitrary: a post wakes any waiter and any ready thread may run.  A     *)
(* step is what other threads and the signals of interrupt handlers cannot *)
(* split as far as the join structure is concerned; a thread that has the  *)
(* scheduler locked makes one step until it blocks or unlocks it.          *)
(***************************************************************************)
EXTENDS Integers, FiniteSets

CONSTANTS
  Creator,     \* the thread that calls pthread_create, and may join
  Others,      \* the other threads that may join
  Detachers,   \* the threads that may call pthread_detach
  Early,       \* those that know the thread before pthread_create has returned
  Mixed,       \* do threads join and detach the thread at the same time?
  InterruptAt  \* the waits that POSIX signals may interrupt

Callers == {Creator} \union Others
Waits == [joinwait |-> "joinsem", exitwait |-> "exit_sem", retakewait |-> "joinsem",
          detachwait |-> "joinsem"]

ASSUME ConstantsAssumption ==
  /\ IsFiniteSet(Others)
  /\ Creator \notin Others
  /\ Detachers \subseteq Callers /\ Early \subseteq Others
  /\ Mixed \in BOOLEAN
  /\ InterruptAt \subseteq DOMAIN Waits

VARIABLES
  listed,   \* is the structure in tg_joinhead?
  freed,    \* was it deallocated?
  join,     \* its fields crefs, detached, terminated
  sem,      \* the counts of tg_joinsem, and of its exit_sem and data_sem
  child,    \* how far the thread is
  waiters,  \* what pthread_notifywaiters returns
  state,    \* how far each caller is
  got       \* the exit value that each caller has read

vars == <<listed, freed, join, sem, child, waiters, state, got>>

CallerState == {"startwait", "started", "destroysem", "idle", "done",
                "joinwait", "lookup", "exitwait", "exited", "retakewait", "release",
                "detachwait", "detach", "joinintr", "exitintr", "retakeintr", "detachintr"}
ChildState == {"new", "runs", "exitwait", "exiting", "posts", "takes", "datawait",
               "leaves", "gone"}

\* pthread_create has activated the thread and waits for it to start.
Init ==
  /\ listed = FALSE
  /\ freed = FALSE
  /\ join = [crefs |-> 0, detached |-> FALSE, terminated |-> FALSE]
  /\ sem = [joinsem |-> 1, exit_sem |-> 0, data_sem |-> -1]
  /\ child = "new"
  /\ waiters = FALSE
  /\ state = [t \in Callers |-> IF t = Creator THEN "startwait" ELSE "idle"]
  /\ got = [t \in Callers |-> "nothing"]

-----------------------------------------------------------------------------
(* Semaphores.                                                             *)

\* What a caller does next when it is given the count it waits for.
Given == [joinwait |-> "lookup", exitwait |-> "exited", retakewait |-> "release",
          detachwait |-> "detach"]

\* What it does next when a signal ends its wait: it waits again.
Ended == [joinwait |-> "joinintr", exitwait |-> "exitintr", retakewait |-> "retakeintr",
          detachwait |-> "detachintr"]

Waiting(s) == {t \in Callers : state[t] \in DOMAIN Waits /\ Waits[state[t]] = s}

\* tg_joinsem is given to a thread that waits for it, if there is one, when the
\* states of the callers are st.
HandOver(st) ==
  \/ /\ Waiting("joinsem") = {} /\ child # "exitwait"
     /\ state' = st /\ UNCHANGED child
  \/ /\ child = "exitwait"
     /\ child' = "exiting" /\ state' = st
  \/ \E w \in Waiting("joinsem") :
       state' = [st EXCEPT ![w] = Given[state[w]]] /\ UNCHANGED child

\* pthread_takesemaphore(s) by t, which goes on or waits.
Take(t, s, wait) ==
  /\ sem' = [sem EXCEPT ![s] = @ - 1]
  /\ state' = [state EXCEPT ![t] = IF sem[s] > 0 THEN Given[wait] ELSE wait]

\* pthread_destroyjoin.
destroyjoin == listed' = FALSE /\ freed' = TRUE

\* A signal to a caller that waits.
Interrupt(t) ==
  /\ state[t] \in InterruptAt
  /\ sem' = [sem EXCEPT ![Waits[state[t]]] = @ + 1]
  /\ state' = [state EXCEPT ![t] = Ended[state[t]]]
  /\ UNCHANGED <<listed, freed, join, child, waiters, got>>

WaitsAgain(t) ==
  /\ \E w \in DOMAIN Waits : state[t] = Ended[w] /\ Take(t, Waits[w], w)
  /\ UNCHANGED <<listed, freed, join, child, waiters, got>>

-----------------------------------------------------------------------------
(* pthread_create and pthread_start.                                       *)

\* The thread registers its join structure and wakes its creator.
Start ==
  /\ child = "new"
  /\ child' = "runs"
  /\ listed' = TRUE
  /\ sem' = [sem EXCEPT !.data_sem = @ + 1]
  /\ state' = [state EXCEPT ![Creator] = "started"]
  /\ UNCHANGED <<freed, join, waiters, got>>

\* The creator looks whether the thread has started; then it unlocks the scheduler ...
CreateChecks ==
  /\ state[Creator] = "started"
  /\ state' = [state EXCEPT ![Creator] = "destroysem"]
  /\ UNCHANGED <<listed, freed, join, sem, child, waiters, got>>

\* ... and destroys data_sem: the count becomes 1 unless somebody waits.
CreateReturns ==
  /\ state[Creator] = "destroysem"
  /\ sem' = IF sem.data_sem >= 0 THEN [sem EXCEPT !.data_sem = 1] ELSE sem
  /\ state' = [state EXCEPT ![Creator] = "idle"]
  /\ UNCHANGED <<listed, freed, join, child, waiters, got>>

-----------------------------------------------------------------------------
(* pthread_join and pthread_detach.                                        *)

\* t knows the thread.
Knows(t) == child # "new" /\ (t \in Early \/ state[Creator] \notin {"started", "destroysem"})

\* Unless calls are mixed, threads join or threads detach, not both.
MayJoin == Mixed \/ ~ \E t \in Callers :
  got[t] = "detached" \/ state[t] \in {"detachwait", "detach", "detachintr"}
MayDetach == Mixed \/ \A t \in Callers :
  \/ got[t] = "detached"
  \/ state[t] \in {"idle", "started", "destroysem", "detachwait", "detach", "detachintr"}

Join(t) ==
  /\ state[t] = "idle" /\ Knows(t) /\ MayJoin
  /\ Take(t, "joinsem", "joinwait")
  /\ UNCHANGED <<listed, freed, join, child, waiters, got>>

Value == IF join.terminated THEN "value" ELSE "garbage"

\* With tg_joinsem: there is no such thread any more (ESRCH) ...
JoinMisses(t) ==
  /\ state[t] = "lookup" /\ ~ listed
  /\ sem' = [sem EXCEPT !.joinsem = @ + 1]
  /\ HandOver([state EXCEPT ![t] = "done"])
  /\ UNCHANGED <<listed, freed, join, waiters, got>>

\* ... or it has exited ...
JoinFinds(t) ==
  /\ state[t] = "lookup" /\ listed /\ join.terminated
  /\ join' = [join EXCEPT !.crefs = @ + 1]
  /\ got' = [got EXCEPT ![t] = Value]
  /\ state' = [state EXCEPT ![t] = "release"]
  /\ UNCHANGED <<listed, freed, sem, child, waiters>>

\* ... or it is to be waited for: tg_joinsem is given up and exit_sem taken with
\* the scheduler locked.
JoinWaits(t) ==
  /\ state[t] = "lookup" /\ listed /\ ~ join.terminated
  /\ join' = [join EXCEPT !.crefs = @ + 1]
  /\ sem' = [sem EXCEPT !.joinsem = @ + 1, !.exit_sem = @ - 1]
  /\ HandOver([state EXCEPT ![t] = IF sem.exit_sem > 0 THEN "exited" ELSE "exitwait"])
  /\ UNCHANGED <<listed, freed, waiters, got>>

\* A mutant of JoinReads: the exiting thread is not told.
MutantJoinReads(t) ==
  /\ state[t] = "exited"
  /\ got' = [got EXCEPT ![t] = Value]
  /\ sem' = [sem EXCEPT !.joinsem = @ - 1]
  /\ state' = [state EXCEPT ![t] = IF sem.joinsem > 0 THEN "release" ELSE "retakewait"]
  /\ UNCHANGED <<listed, freed, join, child, waiters>>

\* The exit value is read, the exiting thread told, and tg_joinsem taken again.
JoinReads(t) ==
  /\ state[t] = "exited"
  /\ got' = [got EXCEPT ![t] = Value]
  /\ sem' = [sem EXCEPT !.joinsem = @ - 1, !.data_sem = @ + 1]
  /\ child' = IF child = "datawait" THEN "leaves" ELSE child
  /\ state' = [state EXCEPT ![t] = IF sem.joinsem > 0 THEN "release" ELSE "retakewait"]
  /\ UNCHANGED <<listed, freed, join, waiters>>

\* A mutant of JoinReleases: the structure is freed one reference too early.
MutantJoinReleases(t) ==
  /\ state[t] = "release"
  /\ join' = [join EXCEPT !.crefs = @ - 1]
  /\ IF join.crefs <= 2 THEN destroyjoin ELSE UNCHANGED <<listed, freed>>
  /\ sem' = [sem EXCEPT !.joinsem = @ + 1]
  /\ HandOver([state EXCEPT ![t] = "done"])
  /\ UNCHANGED <<waiters, got>>

\* The last one frees the structure.
JoinReleases(t) ==
  /\ state[t] = "release"
  /\ join' = [join EXCEPT !.crefs = @ - 1]
  /\ IF join.crefs <= 1 THEN destroyjoin ELSE UNCHANGED <<listed, freed>>
  /\ sem' = [sem EXCEPT !.joinsem = @ + 1]
  /\ HandOver([state EXCEPT ![t] = "done"])
  /\ UNCHANGED <<waiters, got>>

Detach(t) ==
  /\ t \in Detachers
  /\ state[t] = "idle" /\ Knows(t) /\ MayDetach
  /\ Take(t, "joinsem", "detachwait")
  /\ UNCHANGED <<listed, freed, join, child, waiters, got>>

\* With tg_joinsem: the structure is freed, or left for the thread to free.
Detached(t) ==
  /\ state[t] = "detach"
  /\ IF listed /\ join.terminated THEN destroyjoin ELSE UNCHANGED <<listed, freed>>
  /\ join' = IF listed /\ ~ join.terminated THEN [join EXCEPT !.detached = TRUE] ELSE join
  /\ got' = [got EXCEPT ![t] = "detached"]
  /\ sem' = [sem EXCEPT !.joinsem = @ + 1]
  /\ HandOver([state EXCEPT ![t] = "done"])
  /\ UNCHANGED waiters

-----------------------------------------------------------------------------
(* pthread_exit and pthread_completejoin.  The thread has blocked signals. *)

Exit ==
  /\ child = "runs"
  /\ sem' = [sem EXCEPT !.joinsem = @ - 1]
  /\ child' = IF sem.joinsem > 0 THEN "exiting" ELSE "exitwait"
  /\ UNCHANGED <<listed, freed, join, waiters, state, got>>

\* A mutant of ExitMarks: the thread is not marked before waiters are looked for.
MutantExitMarks ==
  /\ child = "exiting"
  /\ waiters' = (sem.exit_sem < 0)
  /\ sem' = IF sem.exit_sem = -1 THEN [sem EXCEPT !.data_sem = 0] ELSE sem
  /\ child' = IF sem.exit_sem < 0 THEN "posts" ELSE "leaves"
  /\ UNCHANGED <<listed, freed, join, state, got>>

\* The exit value is stored and the waiters are counted.  For n waiters sem_init is
\* asked for a count of 1 - n: as an unsigned number that is too large unless n = 1,
\* and sem_init then changes nothing.
ExitMarks ==
  /\ child = "exiting"
  /\ join' = [join EXCEPT !.terminated = TRUE]
  /\ waiters' = (sem.exit_sem < 0)
  /\ sem' = IF sem.exit_sem = -1 THEN [sem EXCEPT !.data_sem = 0] ELSE sem
  /\ child' = IF sem.exit_sem < 0 THEN "posts" ELSE "leaves"
  /\ UNCHANGED <<listed, freed, state, got>>

\* One of the waiters is woken, until none is left.
ExitPosts ==
  /\ child = "posts"
  /\ sem' = [sem EXCEPT !.exit_sem = @ + 1]
  /\ state' \in IF Waiting("exit_sem") = {} THEN {state}
                ELSE {[state EXCEPT ![w] = "exited"] : w \in Waiting("exit_sem")}
  /\ child' = IF sem.exit_sem < -1 THEN "posts" ELSE "takes"
  /\ UNCHANGED <<listed, freed, join, waiters, got>>

ExitTakes ==
  /\ child = "takes"
  /\ sem' = [sem EXCEPT !.data_sem = @ - 1]
  /\ child' = IF sem.data_sem > 0 THEN "leaves" ELSE "datawait"
  /\ UNCHANGED <<listed, freed, join, waiters, state, got>>

\* A detached thread that nobody waits for frees the structure itself.
ExitLeaves ==
  /\ child = "leaves"
  /\ IF ~ waiters /\ join.detached THEN destroyjoin ELSE UNCHANGED <<listed, freed>>
  /\ sem' = [sem EXCEPT !.joinsem = @ + 1]
  /\ child' = "gone"
  /\ state' \in IF Waiting("joinsem") = {} THEN {state}
                ELSE {[state EXCEPT ![w] = Given[state[w]]] : w \in Waiting("joinsem")}
  /\ UNCHANGED <<join, waiters, got>>

-----------------------------------------------------------------------------
Continues(t) ==
  \/ WaitsAgain(t) \/ JoinMisses(t) \/ JoinFinds(t) \/ JoinWaits(t) \/ JoinReads(t)
  \/ JoinReleases(t) \/ Detached(t)
  \/ t = Creator /\ (CreateChecks \/ CreateReturns)

Exits == ExitMarks \/ ExitPosts \/ ExitTakes \/ ExitLeaves

\* Nobody has anything left to do.
Quiet == child = "gone" /\ \A t \in Callers : state[t] \in {"idle", "done"}
Over == Quiet /\ UNCHANGED vars

Next ==
  \/ \E t \in Callers : Join(t) \/ Detach(t) \/ Continues(t) \/ Interrupt(t)
  \/ Start \/ Exit \/ Exits \/ Over

\* Threads in a call get the CPU in the end.
Fairness == SF_vars(Exits) /\ \A t \in Callers : SF_vars(Continues(t))

Spec == Init /\ [][Next]_vars /\ Fairness

-----------------------------------------------------------------------------
(* Properties.                                                             *)

TypeOK ==
  /\ listed \in BOOLEAN /\ freed \in BOOLEAN /\ waiters \in BOOLEAN
  /\ join \in [crefs : 0 .. Cardinality(Callers), detached : BOOLEAN, terminated : BOOLEAN]
  /\ sem \in [{"joinsem", "exit_sem", "data_sem"} -> Int]
  /\ sem.joinsem <= 1 /\ sem.exit_sem <= 0
  /\ child \in ChildState
  /\ state \in [Callers -> CallerState]
  /\ got \in [Callers -> {"nothing", "value", "garbage", "detached"}]

\* The states in which a caller, or the thread, uses its pointer to the structure.
References == {"startwait", "started", "destroysem", "exitwait", "exited", "retakewait",
               "release", "exitintr", "retakeintr"}

\* Nobody uses the structure after it was freed.
NoUseAfterFree ==
  freed => /\ ~ listed
           /\ \A t \in Callers : state[t] \notin References
           /\ child = "gone"

\* Every pthread_join that succeeded has the exit value, however it raced with the exit.
ValueExact == \A t \in Callers : got[t] # "garbage"

\* When the thread is gone and no call is under way, the structure was freed if anybody has
\* joined or detached the thread: nobody relied on another to do so.
NoLeak ==
  Quiet => (freed <=> \E t \in Callers : got[t] # "nothing")

\* Every pthread_join of a thread that exits returns.
JoinReturns ==
  \A t \in Callers :
    child \notin {"new", "runs"} /\ state[t] \in {"joinwait", "lookup", "exitwait", "exited"}
      ~> state[t] = "done"

\* What the comments in pthread_notifywaiters say: the exiting thread goes on when all the
\* threads that it woke have the exit value.
AllHaveValue == child \in {"leaves", "gone"} => \A t \in Callers : state[t] # "exited"
=============================================================================
