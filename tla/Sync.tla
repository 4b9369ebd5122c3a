-------------------------------- MODULE Sync ---------------------------------
(***************************************************************************)
(* The synchronisation calls of sync.c (condition variables and mutexes)   *)
(* and the end of a thread, which is built on them (st_thread_exit and     *)
(* st_thread_join of sched.c), on top of the virtual processor.  The wait  *)
(* queues are lists through thread->wait_links.  A loop over a wait queue  *)
(* is one step per iteration; no other fiber runs in between.              *)
(*                                                                         *)
(* Calls that fail without changing anything (EDEADLK, EPERM, EBUSY,       *)
(* EINVAL) are stuttering steps and have no action.                        *)
(***************************************************************************)
EXTENDS VProc, FiniteSets

CONSTANTS
  Cond,          \* condition variables of the program
  Mutex,         \* mutexes of the program
  ExplicitExit   \* threads also end by calling st_thread_exit themselves

CondVar == Cond \cup TermCond
WaitObj == CondVar \cup Mutex
WNode   == Thread \cup WaitObj

ASSUME SyncAssumption ==
  /\ NULL \notin WaitObj
  /\ Thread \cap WaitObj = {}
  /\ Cond \cap TermCond = {}
  /\ Mutex \cap CondVar = {}
  /\ ExplicitExit \in BOOLEAN

VARIABLES
  wlinks,     \* thread->wait_links and the wait_q heads
  owner,      \* lock->owner
  obj,        \* the cvar or lock argument of the call each thread is in
  iter,       \* `q` of the loop the executing fiber is in, or NULL
  joinee,     \* the `thread` argument of the st_thread_join it is in
  allocated,  \* the termination condition variables not freed
  held,       \* what each thread knows: its lock calls that returned 0
  signalled   \* waiters made runnable by a signal and not yet resumed

waitVars == <<wlinks, obj, iter, signalled>>
lockVars == <<owner, held>>
joinVars == <<joinee, allocated>>
syncVars == <<waitVars, lockVars, joinVars>>
vars     == <<vpVars, syncVars>>

SyncInit ==
  /\ wlinks = LET p == [n \in WNode |-> IF n \in Thread THEN NULL ELSE n]
              IN  [next |-> p, prev |-> p]
  /\ owner = [m \in Mutex |-> NULL]
  /\ obj = [s \in Slot |-> NULL]
  /\ iter = NULL
  /\ joinee = [t \in Thread |-> NULL]
  /\ allocated = {}
  /\ held = [t \in Thread |-> {}]
  /\ signalled = {}

Init == VpInit /\ SyncInit

GoTo(label) == pc' = [pc EXCEPT ![fiber] = label]

(* The test for a waiter on a condition variable in st_cond_destroy and    *)
(* st_thread_join.  Mutant: it is left out.                                *)
BusyUntested(cvar) == FALSE
Busy(cvar) == wlinks.next[cvar] # cvar

-----------------------------------------------------------------------------
(* st_thread_create with its termination condition variable, if joinable.  *)
Create(thread, joinable) ==
  /\ \E c \in (IF joinable THEN TermCond \ allocated ELSE {NULL}) :
       /\ StThreadCreate(thread, c)
       /\ allocated' = allocated \cup ({c} \ {NULL})
       /\ wlinks' = IF c = NULL THEN wlinks
                    ELSE [next |-> [wlinks.next EXCEPT ![c] = c],
                          prev |-> [wlinks.prev EXCEPT ![c] = c]]
  /\ obj' = [obj EXCEPT ![thread] = NULL]
  /\ UNCHANGED <<lockVars, iter, joinee, signalled>>

-----------------------------------------------------------------------------
(* st_cond_timedwait up to its switch; resumes at label.  The timeout NULL *)
(* is ST_UTIME_NO_TIMEOUT.                                                 *)
CondBlock(cvar, timeout, label) ==
  /\ ~Interrupted(current)
  /\ wlinks' = InsertBefore(wlinks, current, cvar)
  /\ IF timeout = NULL THEN UNCHANGED timeVars
                       ELSE AddSleepQ(current, timeout)
  /\ VpSchedule(links, [state EXCEPT ![current] = "COND_WAIT"])
  /\ obj' = [obj EXCEPT ![current] = cvar]
  /\ GoTo(label)
  /\ UNCHANGED lifeVars

StCondTimedwait(cvar, timeout) ==
  /\ InUserCode
  /\ CondBlock(cvar, timeout, "cond")
  /\ UNCHANGED <<lockVars, joinVars, iter, signalled>>

(* The flags a resumed waiter leaves: it has reported ETIME or EINTR.      *)
(* Mutant: the time-out is reported and not cleared.                       *)
ReportedKeepsTimedout(fl) == fl \ {"INTERRUPT"}
Reported(fl) == fl \ {"TIMEDOUT", "INTERRUPT"}

(* The rest of st_cond_timedwait, in the fiber of the waiter: it takes     *)
(* itself off the wait queue and reports ETIME or EINTR.                   *)
CondResume(label) ==
  /\ wlinks' = RemoveLink(wlinks, fiber)
  /\ flags' = [flags EXCEPT ![fiber] = Reported(@)]
  /\ signalled' = signalled \ {fiber}
  /\ GoTo(label)
  /\ UNCHANGED <<runVars, lifeVars, due, sleepq>>

StCondReturn ==
  /\ fiber \in Thread
  /\ pc[fiber] = "cond"
  /\ CondResume("run")
  /\ obj' = [obj EXCEPT ![fiber] = NULL]
  /\ UNCHANGED <<lockVars, joinVars, iter>>

(* _st_cond_signal enters its loop; label tells a signal from a broadcast. *)
StCondSignal(cvar, label) ==
  /\ InUserCode
  /\ iter' = wlinks.next[cvar]
  /\ obj' = [obj EXCEPT ![fiber] = cvar]
  /\ GoTo(label)
  /\ UNCHANGED <<runVars, timeVars, lifeVars, lockVars, joinVars, wlinks,
                 signalled>>

(* The fiber is in the loop of _st_cond_signal.  st_thread_exit calls it   *)
(* on the thread's own termination condition variable.                     *)
SignalLoop == fiber \in Slot /\ pc[fiber] \in {"signal", "broadcast",
                                               "exited", "exitcalled"}

(* A signal goes to a waiter nothing else has woken.  Mutant: to any.      *)
SignalsAny(t) == TRUE
StillWaits(t) == state[t] = "COND_WAIT"

(* One iteration: a waiter still in COND_WAIT is made runnable, and a      *)
(* signal stops there; one that already timed out or was interrupted is    *)
(* passed over.                                                            *)
SignalOne ==
  /\ SignalLoop
  /\ iter # obj[fiber]
  /\ IF StillWaits(iter)
     THEN /\ WakeUp(iter, {})
          /\ signalled' = signalled \cup {iter}
          /\ iter' = IF pc[fiber] = "broadcast" THEN wlinks.next[iter]
                                                ELSE obj[fiber]
     ELSE /\ iter' = wlinks.next[iter]
          /\ UNCHANGED <<timeVars, state, links, signalled>>
  /\ UNCHANGED <<lifeVars, lockVars, joinVars, current, fiber, pc, wlinks,
                 obj>>

(* The loop of st_cond_signal or st_cond_broadcast is over.                *)
SignalReturn ==
  /\ fiber \in Thread
  /\ pc[fiber] \in {"signal", "broadcast"}
  /\ iter = obj[fiber]
  /\ iter' = NULL
  /\ obj' = [obj EXCEPT ![fiber] = NULL]
  /\ GoTo("run")
  /\ UNCHANGED <<runVars, timeVars, lifeVars, lockVars, joinVars, wlinks,
                 signalled>>

-----------------------------------------------------------------------------
(* "Got the mutex": the caller becomes the owner of a free mutex.          *)
GotTheMutex(lock) ==
  /\ owner[lock] = NULL
  /\ owner' = [owner EXCEPT ![lock] = current]
  /\ held' = [held EXCEPT ![fiber] = @ \cup {lock}]
  /\ UNCHANGED <<waitVars, joinVars, vpVars>>

(* st_mutex_lock on a free mutex.                                          *)
LockFree(lock) == InUserCode /\ ~Interrupted(current) /\ GotTheMutex(lock)

(* st_mutex_trylock, which does not look at the interrupt flag.            *)
StMutexTrylock(lock) == InUserCode /\ GotTheMutex(lock)

(* st_mutex_lock on a mutex of another thread, up to its switch.           *)
LockBlock(lock) ==
  /\ InUserCode
  /\ ~Interrupted(current)
  /\ owner[lock] \notin {NULL, current}
  /\ wlinks' = InsertBefore(wlinks, current, lock)
  /\ VpSchedule(links, [state EXCEPT ![current] = "LOCK_WAIT"])
  /\ obj' = [obj EXCEPT ![current] = lock]
  /\ GoTo("lock")
  /\ UNCHANGED <<timeVars, lifeVars, lockVars, joinVars, iter, signalled>>

(* When a waiter that resumes gives up with EINTR.  Mutants: whenever it   *)
(* was interrupted, and never.                                             *)
GivesUpIfInterrupted(me) == Interrupted(me)
NeverGivesUp(me) == FALSE
GivesUp(me) == Interrupted(me) /\ owner[obj[me]] # me

(* The rest of st_mutex_lock: EINTR only if the mutex was not handed over, *)
(* otherwise the pending interrupt stays pending and the call returns 0.   *)
LockReturn ==
  /\ fiber \in Thread
  /\ pc[fiber] = "lock"
  /\ wlinks' = RemoveLink(wlinks, fiber)
  /\ IF GivesUp(fiber)
     THEN /\ flags' = [flags EXCEPT ![fiber] = @ \ {"INTERRUPT"}]
          /\ UNCHANGED held
     ELSE /\ held' = [held EXCEPT ![fiber] = @ \cup {obj[fiber]}]
          /\ UNCHANGED flags
  /\ obj' = [obj EXCEPT ![fiber] = NULL]
  /\ GoTo("run")
  /\ UNCHANGED <<runVars, lifeVars, joinVars, due, sleepq, owner, iter,
                 signalled>>

(* Where the loop of st_mutex_unlock starts.  Mutant: no waiter is looked  *)
(* for, the mutex is simply freed.                                         *)
NoWaiterSought(lock) == lock
FirstWaiter(lock) == wlinks.next[lock]

(* st_mutex_unlock by the owner enters its loop.  From here on the caller  *)
(* no longer relies on the mutex.                                          *)
StMutexUnlock(lock) ==
  /\ InUserCode
  /\ owner[lock] = current
  /\ iter' = FirstWaiter(lock)
  /\ obj' = [obj EXCEPT ![fiber] = lock]
  /\ held' = [held EXCEPT ![fiber] = @ \ {lock}]
  /\ GoTo("unlock")
  /\ UNCHANGED <<runVars, timeVars, lifeVars, joinVars, wlinks, owner,
                 signalled>>

(* One iteration: the first waiter still in LOCK_WAIT becomes the owner    *)
(* and the call returns; an interrupted waiter is passed over.             *)
UnlockOne ==
  /\ fiber \in Thread
  /\ pc[fiber] = "unlock"
  /\ iter # obj[fiber]
  /\ IF state[iter] = "LOCK_WAIT"
     THEN /\ owner' = [owner EXCEPT ![obj[fiber]] = iter]
          /\ MakeRunnable(iter)
          /\ iter' = NULL
          /\ obj' = [obj EXCEPT ![fiber] = NULL]
          /\ GoTo("run")
     ELSE /\ iter' = wlinks.next[iter]
          /\ UNCHANGED <<state, links, owner, obj, pc>>
  /\ UNCHANGED <<timeVars, lifeVars, joinVars, current, fiber, wlinks, held,
                 signalled>>

(* No waiter: the mutex is free.                                           *)
UnlockNone ==
  /\ fiber \in Thread
  /\ pc[fiber] = "unlock"
  /\ iter = obj[fiber]
  /\ owner' = [owner EXCEPT ![obj[fiber]] = NULL]
  /\ iter' = NULL
  /\ obj' = [obj EXCEPT ![fiber] = NULL]
  /\ GoTo("run")
  /\ UNCHANGED <<runVars, timeVars, lifeVars, joinVars, wlinks, held,
                 signalled>>

-----------------------------------------------------------------------------
(* The contract of a thread's own code: it gives its mutexes back before   *)
(* it ends.                                                                *)
GivesBackItsMutexes == held[fiber] = {}

(* Bound: a thread that calls st_thread_exit lowers the count by two, so   *)
(* it would fall for ever.                                                 *)
CountBound == active > 0

(* The start function of a thread returns to _st_thread_main, or calls     *)
(* st_thread_exit; the latter returns to it, and then it returns.          *)
EndOfThread ==
  /\ \/ InUserCode /\ GivesBackItsMutexes /\ GoTo("exit")
     \/ /\ ExplicitExit /\ CountBound
        /\ InUserCode /\ GivesBackItsMutexes /\ GoTo("exitcall")
     \/ fiber \in Thread /\ pc[fiber] = "landed" /\ GoTo("exit")
  /\ UNCHANGED <<runVars, timeVars, lifeVars, syncVars>>

(* st_thread_exit up to the signal on the termination condition variable.  *)
ExitBegin ==
  /\ fiber \in Slot
  /\ pc[fiber] \in {"exit", "exitcall"}
  /\ active' = active - 1
  /\ state' = [state EXCEPT ![current] = "ZOMBIE"]
  /\ IF term[current] # NULL
     THEN /\ links' = AddZombieq(links, current)
          /\ iter' = wlinks.next[term[current]]
     ELSE UNCHANGED <<links, iter>>
  /\ obj' = [obj EXCEPT ![current] = term[current]]
  /\ GoTo(IF pc[fiber] = "exit" THEN "exited" ELSE "exitcalled")
  /\ UNCHANGED <<timeVars, lockVars, joinVars, term, slinks, current,
                 fiber, wlinks, signalled>>

(* The rest of st_thread_exit.  _ST_SWITCH_CONTEXT(thread) switches to the *)
(* fiber that is executing, so it returns at once, both times.  The        *)
(* condition variable is freed unless its joiner is still queued on it;    *)
(* the segment goes to the free list; _st_thread_main then swaps out to    *)
(* the native fiber, while a call from user code comes back to its caller. *)
ExitEnd ==
  /\ fiber \in Slot
  /\ pc[fiber] \in {"exited", "exitcalled"}
  /\ iter = obj[fiber]
  /\ LET c == term[current]
     IN  allocated' = IF c # NULL /\ ~Busy(c)
                      THEN allocated \ {c} ELSE allocated
  /\ term' = [term EXCEPT ![current] = NULL]
  /\ slinks' = StackFree(slinks, current)
  /\ iter' = NULL
  /\ obj' = [obj EXCEPT ![current] = NULL]
  /\ IF pc[fiber] = "exited" THEN GoTo("dead") /\ fiber' = MAIN
                             ELSE GoTo("landed") /\ fiber' = fiber
  /\ UNCHANGED <<timeVars, lockVars, state, links, active, current, wlinks,
                 joinee, signalled>>

-----------------------------------------------------------------------------
(* st_thread_join with its tests: the target is joinable, is not the       *)
(* caller and nobody waits for it.                                         *)
StThreadJoin(thread) ==
  /\ InUserCode
  /\ term[thread] # NULL
  /\ thread # current
  /\ ~Busy(term[thread])
  /\ joinee' = [joinee EXCEPT ![fiber] = thread]
  /\ obj' = [obj EXCEPT ![fiber] = term[thread]]
  /\ GoTo("join")
  /\ UNCHANGED <<runVars, timeVars, lifeVars, lockVars, wlinks, iter,
                 allocated, signalled>>

(* Its loop: the target has not exited, so wait for it.                    *)
JoinWait ==
  /\ fiber \in Thread
  /\ pc[fiber] = "join"
  /\ state[joinee[fiber]] # "ZOMBIE"
  /\ CondBlock(obj[fiber], NULL, "joincond")
  /\ UNCHANGED <<lockVars, joinVars, iter, signalled>>

(* The wait is interrupted before or after it blocks: st_thread_join       *)
(* returns -1.  Otherwise the loop goes on.                                *)
JoinGiveUp ==
  /\ fiber \in Thread
  /\ pc[fiber] = "join"
  /\ state[joinee[fiber]] # "ZOMBIE"
  /\ Interrupted(current)
  /\ flags' = [flags EXCEPT ![current] = @ \ {"INTERRUPT"}]
  /\ joinee' = [joinee EXCEPT ![fiber] = NULL]
  /\ obj' = [obj EXCEPT ![fiber] = NULL]
  /\ GoTo("run")
  /\ UNCHANGED <<runVars, lifeVars, lockVars, due, sleepq, wlinks, iter,
                 allocated, signalled>>

JoinCondReturn ==
  /\ fiber \in Thread
  /\ pc[fiber] = "joincond"
  /\ LET failed == Interrupted(fiber)
     IN  /\ CondResume(IF failed THEN "run" ELSE "join")
         /\ joinee' = [joinee EXCEPT ![fiber] = IF failed THEN NULL ELSE @]
         /\ obj' = [obj EXCEPT ![fiber] = IF failed THEN NULL ELSE @]
  /\ UNCHANGED <<lockVars, iter, allocated>>

(* The target is a zombie: it is made RUNNABLE and moved from the zombie   *)
(* queue to the run queue, "when it gets scheduled later, it will do the   *)
(* clean up".                                                              *)
JoinReap ==
  /\ fiber \in Thread
  /\ pc[fiber] = "join"
  /\ LET thread == joinee[fiber]
     IN  /\ state[thread] = "ZOMBIE"
         /\ state' = [state EXCEPT ![thread] = "RUNNABLE"]
         /\ links' = AddRunq(RemoveLink(links, thread), thread)
  /\ joinee' = [joinee EXCEPT ![fiber] = NULL]
  /\ obj' = [obj EXCEPT ![fiber] = NULL]
  /\ GoTo("run")
  /\ UNCHANGED <<timeVars, lifeVars, lockVars, current, fiber, wlinks, iter,
                 allocated, signalled>>

-----------------------------------------------------------------------------
(* The process has ended.                                                  *)
Ended == fiber = EXITED /\ UNCHANGED vars

VpStep == (VpNext \/ IdleLoop) /\ UNCHANGED syncVars

CondStep ==
  \/ \E c \in Cond : \E d \in Timeouts \cup {NULL} : StCondTimedwait(c, d)
  \/ StCondReturn
  \/ \E c \in Cond : \E k \in {"signal", "broadcast"} : StCondSignal(c, k)
  \/ SignalOne
  \/ SignalReturn

MutexStep ==
  \/ \E m \in Mutex : LockFree(m) \/ StMutexTrylock(m)
  \/ \E m \in Mutex : LockBlock(m) \/ StMutexUnlock(m)
  \/ LockReturn
  \/ UnlockOne
  \/ UnlockNone

LifeStep ==
  \/ \E t \in Thread : \E j \in Joinable : Create(t, j)
  \/ EndOfThread
  \/ ExitBegin
  \/ ExitEnd
  \/ \E t \in Thread : StThreadJoin(t)
  \/ JoinWait
  \/ JoinGiveUp
  \/ JoinCondReturn
  \/ JoinReap

Next == VpStep \/ CondStep \/ MutexStep \/ LifeStep \/ Ended

Spec == Init /\ [][Next]_vars

(* Fairness.  The OS thread goes on executing whatever fiber it is in; a   *)
(* thread does not compute for ever but makes a blocking call again and    *)
(* again, which either returns EINTR or gives the processor up, or it ends *)
(* (the contract of a cooperative scheduler); and the clock moves on       *)
(* between clock checks.                                                   *)
GiveUp     == Next /\ fiber \in Thread /\ fiber' # fiber
TryBlock   == BlockingCallEINTR /\ UNCHANGED syncVars
ClockMoves == (\E e \in Elapsed : e > 0 /\ CheckClock(e)) /\ UNCHANGED syncVars

FairSpec == /\ Spec
            /\ WF_vars(Next)
            /\ SF_vars(GiveUp)
            /\ SF_vars(TryBlock)
            /\ SF_vars(ClockMoves)

-----------------------------------------------------------------------------
Runnable   == {t \in Thread : state[t] = "RUNNABLE"}
Live       == {t \in Thread : state[t] \notin {"UNUSED", "ZOMBIE"}}
Waiting(t) == pc[t] \in {"cond", "lock", "joincond"}
Waiters(w) == {t \in Thread : Waiting(t) /\ obj[t] = w}

Labels ==
  {"setup", "loop", "clock", "expire", "run", "cond", "lock", "signal",
   "broadcast", "unlock", "exit", "exitcall", "exited", "exitcalled",
   "landed", "dead", "join", "joincond"}

(* The types of the variables other than the link fields of the run queue  *)
(* and of the free list; a deadline is kept exactly for the threads in the *)
(* timeout heap.                                                           *)
DataTypes ==
  /\ state \in [Slot -> States]
  /\ flags \in [Slot -> SUBSET Flags]
  /\ due \in [Thread -> Int]
  /\ sleepq \in SUBSET Thread
  /\ \A t \in Thread \ sleepq : due[t] = 0
  /\ term \in [Slot -> TermCond \cup {NULL}]
  /\ active \in Int
  /\ current \in Slot \cup {NULL}
  /\ fiber \in Slot \cup {MAIN, EXITED}
  /\ pc \in [Slot \cup {MAIN} -> Labels]
  /\ wlinks \in ListState(WNode)
  /\ owner \in [Mutex -> Thread \cup {NULL}]
  /\ obj \in [Slot -> WaitObj \cup {NULL}]
  /\ iter \in WNode \cup {NULL}
  /\ joinee \in [Thread -> Thread \cup {NULL}]
  /\ allocated \in SUBSET TermCond
  /\ held \in [Thread -> SUBSET Mutex]
  /\ signalled \in SUBSET Thread

(* Every variable has its type.                                            *)
TypeOK ==
  /\ DataTypes
  /\ links \in ListState(Node)
  /\ slinks \in ListState(SNode)

(* The run queue is one well-linked list of exactly the RUNNABLE threads:  *)
(* nothing is inserted twice, left on it when it blocks, or RUNNABLE and   *)
(* off it (_ST_ADD_RUNQ and _ST_DEL_RUNQ at every call site).              *)
RunqWellFormed == Ring(links, RUNQ, {RUNQ} \cup Runnable)

(* Every wait queue is a well-linked list of exactly the threads inside a  *)
(* blocking call on it, so a loop over it ends and meets only waiters.     *)
WaitqWellFormed == \A w \in WaitObj : Ring(wlinks, w, {w} \cup Waiters(w))

(* The sleep-queue flag tells the truth about the timeout heap, and a      *)
(* thread in the heap is blocked: a timeout can never hit a thread that is *)
(* already on the run queue.                                               *)
SleepqConsistent ==
  \A t \in Thread : /\ t \in sleepq <=> "ON_SLEEPQ" \in flags[t]
                    /\ t \in sleepq => state[t] \in {"SLEEPING", "COND_WAIT"}

(* Only the thread whose fiber executes is RUNNING, and _st_this_thread    *)
(* names it whenever the fiber of a thread executes.                       *)
OneRunning ==
  /\ \A t \in Thread : state[t] = "RUNNING" => fiber \in {t, EXITED}
  /\ fiber \in Slot => current = fiber

(* No thread is lost: whatever a blocked thread waits for, something that  *)
(* can still wake it knows of it.                                          *)
NoLostThread ==
  \A t \in Thread :
    /\ state[t] = "SLEEPING"  => t \in sleepq
    /\ state[t] = "COND_WAIT" => obj[t] \in CondVar /\ t \in Waiters(obj[t])
    /\ state[t] = "LOCK_WAIT" => /\ obj[t] \in Mutex /\ t \in Waiters(obj[t])
                                /\ owner[obj[t]] \notin {NULL, t}

(* A thread that was told it has the mutex is its owner, so two threads    *)
(* never both believe they hold it (hand-over in st_mutex_unlock racing an *)
(* interrupt of the waiter).                                               *)
MutexSafety == \A t \in Thread : \A m \in held[t] : owner[m] = t

(* The converse: an owner knows it, or will be told when its st_mutex_lock *)
(* resumes, or is just giving it up; a waiter that reports EINTR is never  *)
(* left as the owner.                                                      *)
OwnerKnows ==
  \A m \in Mutex : owner[m] # NULL =>
    \/ m \in held[owner[m]]
    \/ obj[owner[m]] = m /\ pc[owner[m]] \in {"lock", "unlock"}

(* A waiter that was woken returns for one reason: a signal is never spent *)
(* on a thread that has timed out, and a return of 0 means a signal.       *)
WokenForAReason ==
  \A t \in Thread :
    /\ t \in signalled => Waiting(t) /\ "TIMEDOUT" \notin flags[t]
    /\ pc[t] = "cond" /\ state[t] \in {"RUNNABLE", "RUNNING"} =>
         t \in signalled \/ "TIMEDOUT" \in flags[t] \/ "INTERRUPT" \in flags[t]

(* The time-out of one wait is never reported by a later one.              *)
TimeoutNotStale ==
  \A t \in Thread : "TIMEDOUT" \in flags[t] =>
     pc[t] = "cond" /\ state[t] \in {"RUNNABLE", "RUNNING"}

(* "Active thread count": the number of threads that have been created and *)
(* have not exited.                                                        *)
ActiveCount == active = Cardinality(Live)

(* A segment _st_stack_new can find on the free list carries no thread     *)
(* that is still in use, so no thread object is overwritten.               *)
FreeStacksUnused ==
  \A t \in OnFreeList \cap Thread : pc[t] = "dead" /\ state[t] = "ZOMBIE"

(* "Multiple threads can't wait on the same joinable thread": whatever the *)
(* joiners' interrupts and the reuse of slots do, no two threads wait on   *)
(* one termination condition variable.                                     *)
OneJoiner ==
  \A t, u \in Thread :
    pc[t] = "joincond" /\ pc[u] = "joincond" /\ obj[t] = obj[u] => t = u

(* A termination condition variable is never freed under a joiner, or      *)
(* under a thread that will still signal it when it exits.                 *)
TermCondInUse ==
  \A t \in Thread :
    /\ pc[t] \in {"join", "joincond"} => obj[t] \in allocated
    /\ term[t] # NULL => term[t] \in allocated

(* What the comment in st_thread_join promises for a joined thread: "When  *)
(* it gets scheduled later, it will do the clean up", so a thread that is  *)
(* scheduled always has code left to execute.                              *)
ScheduledHasCode == fiber \in Slot => pc[fiber] # "dead"

-----------------------------------------------------------------------------
(* No RUNNABLE thread is starved: the run queue is first in, first out.    *)
RunnableRuns ==
  \A t \in Thread :
    state[t] = "RUNNABLE" ~> (state[t] # "RUNNABLE" \/ fiber = EXITED)

(* A deadline is noticed, provided the virtual processor gets idle again   *)
(* and again: only the idle thread looks at the clock, so threads that     *)
(* keep each other runnable keep sleepers waiting for ever.                *)
DeadlineNoticed ==
  []<>(fiber = Idle) =>
    \A t \in Thread : t \in sleepq ~> (t \notin sleepq \/ fiber = EXITED)

(* Mutexes are not starved: if every thread is again and again without a   *)
(* mutex, a waiter gets it (or is interrupted).                            *)
MutexGranted ==
  (\A t \in Thread : []<>(held[t] = {} \/ fiber = EXITED)) =>
    \A t \in Thread :
      state[t] = "LOCK_WAIT" ~> (state[t] # "LOCK_WAIT" \/ fiber = EXITED)

=============================================================================
