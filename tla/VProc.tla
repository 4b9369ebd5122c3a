-------------------------------- MODULE VProc --------------------------------
(***************************************************************************)
(* The virtual processor of State Threads on Windows fibers: sched.c, the  *)
(* queue macros of common.h and st_usleep of sync.c.  One fiber executes   *)
(* at a time and gives the processor up only inside _st_vp_schedule or by  *)
(* leaving its start function, so a step of this model is the code between *)
(* two such points, or one iteration of a loop of it.                      *)
(*                                                                         *)
(* A thread object lives at the top of its stack segment and a segment on  *)
(* the free list is handed out again by the next st_thread_create, so a    *)
(* member of Thread is a SLOT (a segment and the object in it) that may    *)
(* carry several threads, one after the other.                             *)
(*                                                                         *)
(* Clock values are kept relative to vp.last_clock: due[t] is t's deadline *)
(* minus last_clock, 0 when t is not on the sleep queue (no code reads the *)
(* deadline then).  The timeout heap is the set of its members, from which *)
(* the head is any member with the smallest deadline.                      *)
(***************************************************************************)
EXTENDS CList

CONSTANTS
  Thread,     \* slots a thread object can live in
  Idle,       \* the thread object made by st_init (vp.idle_thread)
  RUNQ,       \* list head vp.run_q
  ZOMBIEQ,    \* list head vp.zombie_q
  FREEQ,      \* list head _st_free_stacks
  MAIN,       \* the native fiber, which is not a State Threads thread
  EXITED,     \* the value of `fiber` once the OS thread is gone
  Timeouts,   \* finite timeouts the callers pass, in clock units
  Elapsed,    \* how far the wall clock may move between two clock checks
  MaxDue,     \* bound: a clock set back moves no deadline further than this
  TermCond,   \* condition variables calloc can give to joinable threads
  Joinable,   \* the values of `joinable` passed to st_thread_create
  MainKind    \* what the native fiber does once it has created its threads

Slot == Thread \cup {Idle}
Node == Slot \cup {RUNQ, ZOMBIEQ}
SNode == Slot \cup {FREEQ}

ASSUME VProcAssumption ==
  /\ NULL \notin Node \cup {MAIN, EXITED, FREEQ} \cup TermCond
  /\ Idle \notin Thread
  /\ RUNQ \notin Slot
  /\ ZOMBIEQ \notin Slot \cup {RUNQ}
  /\ FREEQ \notin Slot
  /\ MAIN \notin Slot
  /\ EXITED \notin Slot \cup {MAIN}
  /\ Timeouts \subseteq Nat
  /\ Elapsed \subseteq Int
  /\ MaxDue \in Nat
  /\ \A d \in Timeouts : d <= MaxDue
  /\ Joinable \subseteq BOOLEAN
  /\ MainKind \in {"usleep", "idle_run", "forever"}

VARIABLES
  state,      \* thread->state, "UNUSED" for a slot never handed out
  flags,      \* thread->flags, the set of bits that are on
  due,        \* thread->due - vp.last_clock
  sleepq,     \* members of the timeout heap vp.sleep_q
  links,      \* thread->links and the heads of the run and zombie queues
  term,       \* thread->term
  slinks,     \* thread->stack->links and the head of the free list
  active,     \* _st_active_count
  current,    \* _st_this_thread
  fiber,      \* the fiber the OS thread executes
  pc          \* where each fiber continues when it is switched to

runVars  == <<state, links, current, fiber>>
timeVars == <<flags, due, sleepq>>
lifeVars == <<term, slinks, active>>
vpVars   == <<runVars, timeVars, lifeVars, pc>>

States == {"UNUSED", "RUNNING", "RUNNABLE", "IO_WAIT", "LOCK_WAIT",
           "COND_WAIT", "SLEEPING", "ZOMBIE", "SUSPENDED"}
Flags  == {"ON_SLEEPQ", "INTERRUPT", "TIMEDOUT"}

(* After st_init: the idle thread has been created, put on the run queue   *)
(* and taken off it again, and is not counted as active.                   *)
VpInit ==
  /\ state = [s \in Slot |-> IF s = Idle THEN "RUNNABLE" ELSE "UNUSED"]
  /\ flags = [s \in Slot |-> {}]
  /\ due = [t \in Thread |-> 0]
  /\ sleepq = {}
  /\ links = LET p == [n \in Node |-> IF n \in Thread THEN NULL
                                      ELSE IF n = Idle THEN RUNQ ELSE n]
             IN  [next |-> p, prev |-> p]
  /\ term = [s \in Slot |-> NULL]
  /\ slinks = LET p == [n \in SNode |-> IF n = FREEQ THEN FREEQ ELSE NULL]
              IN  [next |-> p, prev |-> p]
  /\ active = 0
  /\ current = NULL
  /\ fiber = MAIN
  /\ pc = [f \in Slot \cup {MAIN} |-> IF f = MAIN THEN "setup"
                                      ELSE IF f = Idle THEN "loop" ELSE "run"]

-----------------------------------------------------------------------------
(* _ST_ADD_RUNQ and _ST_ADD_ZOMBIEQ: append to the queue.                  *)
AddRunq(L, t)    == InsertBefore(L, t, RUNQ)
AddZombieq(L, t) == InsertBefore(L, t, ZOMBIEQ)

(* _st_vp_schedule, called when the handler around it has left the link    *)
(* fields as L and the thread states as st: the head of the run queue is   *)
(* taken off; a head that is not RUNNABLE is dropped and the idle thread   *)
(* runs; a head that is the caller itself goes back and the idle thread    *)
(* runs.  If the link of the head is a stray pointer to the other list     *)
(* head there is no thread object around it, and nothing is said of what   *)
(* follows.                                                                *)
VpSchedule(L, st) ==
  LET head   == L.next[RUNQ]
      L1     == IF head = RUNQ THEN L ELSE RemoveLink(L, head)
      picked == IF head = RUNQ \/ st[head] # "RUNNABLE" THEN Idle ELSE head
      again  == picked = current /\ picked # Idle
      thread == IF again THEN Idle ELSE picked
  IN  IF head \in Slot \cup {RUNQ}
      THEN /\ links' = IF again THEN AddRunq(L1, picked) ELSE L1
           /\ state' = [st EXCEPT ![thread] = "RUNNING"]
           /\ current' = thread
           /\ fiber' = thread
      ELSE /\ links' = L1
           /\ state' = st
           /\ current' = current
           /\ fiber' = EXITED

(* _st_add_sleep_q: the deadline is last_clock + timeout.                  *)
AddSleepQ(t, timeout) ==
  /\ due' = [due EXCEPT ![t] = timeout]
  /\ flags' = [flags EXCEPT ![t] = @ \cup {"ON_SLEEPQ"}]
  /\ sleepq' = sleepq \cup {t}

(* _st_del_sleep_q on a member of the heap; `more` are flags that the same *)
(* handler sets.                                                           *)
DelSleepQ(t, more) ==
  /\ due' = [due EXCEPT ![t] = 0]
  /\ flags' = [flags EXCEPT ![t] = (@ \cup more) \ {"ON_SLEEPQ"}]
  /\ sleepq' = sleepq \ {t}

(* A mutant of MakeRunnable: the state is set, the queue is forgotten.     *)
MakeRunnableOffQueue(t) ==
  /\ state' = [state EXCEPT ![t] = "RUNNABLE"]
  /\ UNCHANGED links

(* "Make thread runnable", the last two lines of every wake-up.            *)
MakeRunnable(t) ==
  /\ state' = [state EXCEPT ![t] = "RUNNABLE"]
  /\ links' = AddRunq(links, t)

(* A mutant of WakeUp: the thread's timeout stays in the heap.             *)
WakeUpKeepsTimer(t, more) ==
  /\ flags' = [flags EXCEPT ![t] = @ \cup more]
  /\ UNCHANGED <<due, sleepq>>
  /\ MakeRunnable(t)

(* A wake-up of a thread that may have a deadline (st_thread_interrupt,    *)
(* _st_cond_signal).                                                       *)
WakeUp(t, more) ==
  /\ IF "ON_SLEEPQ" \in flags[t]
     THEN DelSleepQ(t, more)
     ELSE /\ flags' = [flags EXCEPT ![t] = @ \cup more]
          /\ UNCHANGED <<due, sleepq>>
  /\ MakeRunnable(t)

(* The test every blocking call starts with: a pending interrupt is        *)
(* cleared and the call returns EINTR.                                     *)
Interrupted(me) == "INTERRUPT" \in flags[me]
ReturnEINTR(me) ==
  /\ Interrupted(me)
  /\ flags' = [flags EXCEPT ![me] = @ \ {"INTERRUPT"}]
  /\ UNCHANGED <<runVars, lifeVars, due, sleepq, pc>>

-----------------------------------------------------------------------------
(* The fiber of a thread executes the thread's own code.                   *)
InUserCode == fiber \in Thread /\ pc[fiber] = "run"

(* st_usleep without its EINTR return.  Nothing is read after the switch,  *)
(* so the caller simply goes on when it is resumed.  The native fiber      *)
(* comes here with _st_this_thread NULL or a thread that has exited, and   *)
(* only schedules.                                                         *)
UsleepBlock(timeout) ==
  /\ IF current # NULL /\ state[current] # "ZOMBIE"
     THEN /\ ~Interrupted(current)
          /\ VpSchedule(links, [state EXCEPT ![current] = "SLEEPING"])
          /\ IF state[current] # "SLEEPING"
             THEN AddSleepQ(current, timeout)
             ELSE UNCHANGED timeVars
     ELSE VpSchedule(links, state) /\ UNCHANGED timeVars
  /\ UNCHANGED <<lifeVars, pc>>

StUsleep(timeout) == InUserCode /\ UsleepBlock(timeout)

(* st_usleep(ST_UTIME_NO_TIMEOUT), st_sleep with a negative argument.      *)
StSuspend ==
  /\ InUserCode
  /\ ~Interrupted(current)
  /\ VpSchedule(links, [state EXCEPT ![current] = "SUSPENDED"])
  /\ UNCHANGED <<timeVars, lifeVars, pc>>

(* A blocking call made while an interrupt is pending.                     *)
BlockingCallEINTR == InUserCode /\ ReturnEINTR(current)

(* The tests of st_thread_interrupt: a dead thread is left alone, and one  *)
(* that is not blocked is only marked.  Mutants: the dead thread is        *)
(* forgotten, the thread on the run queue is forgotten.                    *)
InterruptsDead(thread) == state[thread] # "UNUSED"
Interruptible(thread)  == state[thread] \notin {"UNUSED", "ZOMBIE"}
OnlyRunning(thread)    == state[thread] = "RUNNING"
NotBlocked(thread)     == state[thread] \in {"RUNNING", "RUNNABLE"}

(* st_thread_interrupt on a handle; a handle of a thread that has exited   *)
(* names whatever thread the slot carries now.                             *)
StThreadInterrupt(thread) ==
  /\ InUserCode
  /\ Interruptible(thread)
  /\ IF NotBlocked(thread)
     THEN /\ flags' = [flags EXCEPT ![thread] = @ \cup {"INTERRUPT"}]
          /\ UNCHANGED <<state, due, sleepq, links>>
     ELSE WakeUp(thread, {"INTERRUPT"})
  /\ UNCHANGED <<lifeVars, current, fiber, pc>>

(* The pool of stack segments.  _st_stack_free inserts before the last     *)
(* element of the free list, not after it; _st_stack_new walks the list    *)
(* for a segment that is large enough.  Sizes are abstracted: any element  *)
(* may be the first to fit, or none is and, when the walk comes back to    *)
(* the head, a fresh segment is made.                                      *)
StackFree(L, e) == InsertBefore(L, e, L.prev[FREEQ])
OnFreeList == Reach(slinks, SNode, slinks.next[FREEQ])

(* A mutant of StackNew: the segment is not taken off the list.            *)
StackNewKeepsLink(L, e) == L
StackNew(L, e) ==
  LET R == RemoveLink(L, e)
  IN  [next |-> [R.next EXCEPT ![e] = NULL],
       prev |-> [R.prev EXCEPT ![e] = NULL]]

(* st_thread_create by the native fiber before it starts to schedule, or   *)
(* by a thread.  The thread object is zeroed.                              *)
StThreadCreate(thread, c) ==
  /\ InUserCode \/ (fiber = MAIN /\ pc[MAIN] = "setup")
  /\ \/ /\ pc[thread] = "dead"
        /\ thread \in OnFreeList
        /\ slinks' = StackNew(slinks, thread)
     \/ /\ state[thread] = "UNUSED"
        /\ FREEQ \in OnFreeList
        /\ UNCHANGED slinks
  /\ state' = [state EXCEPT ![thread] = "RUNNABLE"]
  /\ flags' = [flags EXCEPT ![thread] = {}]
  /\ due' = [due EXCEPT ![thread] = 0]
  /\ term' = [term EXCEPT ![thread] = c]
  /\ links' = AddRunq(links, thread)
  /\ active' = active + 1
  /\ pc' = [pc EXCEPT ![thread] = "run"]
  /\ UNCHANGED <<sleepq, current, fiber>>

(* The free list holds the segment of a thread that has not ended, or that *)
(* of vp.idle_thread, and the call builds its thread object over that one: *)
(* nothing is said of what follows.                                        *)
CreateOverLiveThread ==
  /\ InUserCode
  /\ \E thread \in OnFreeList \ {FREEQ} :
       thread = Idle \/ pc[thread] # "dead"
  /\ fiber' = EXITED
  /\ UNCHANGED <<timeVars, lifeVars, state, links, current, pc>>

-----------------------------------------------------------------------------
(* The loops that call _st_vp_check_clock: the idle thread                 *)
(* (_st_idle_thread_start) and, when the program calls it,                 *)
(* st_idle_thread_run on the native fiber.                                 *)
ChecksClock == fiber = Idle \/ (fiber = MAIN /\ MainKind = "idle_run")

(* Top of the loop, then _ST_VP_IDLE() with no descriptor polled, which    *)
(* returns at once.                                                        *)
IdleLoop ==
  /\ ChecksClock
  /\ pc[fiber] = "loop"
  /\ active > 0
  /\ pc' = [pc EXCEPT ![fiber] = "clock"]
  /\ UNCHANGED <<runVars, timeVars, lifeVars>>

(* The time to a deadline once last_clock has moved by `elapsed`.  Mutant: *)
(* the new clock value is not stored in last_clock.                        *)
RemainingStale(t, elapsed) == due[t]
Remaining(t, elapsed) == IF t \in sleepq THEN due[t] - elapsed ELSE 0

(* _st_vp_check_clock reads the wall clock, which may have been set back.  *)
CheckClock(elapsed) ==
  /\ ChecksClock
  /\ pc[fiber] = "clock"
  /\ \A t \in sleepq : due[t] - elapsed <= MaxDue
  /\ due' = [t \in Thread |-> Remaining(t, elapsed)]
  /\ pc' = [pc EXCEPT ![fiber] = "expire"]
  /\ UNCHANGED <<runVars, lifeVars, flags, sleepq>>

(* One iteration of its loop: the head of the heap is due.                 *)
ExpireOne(t) ==
  /\ ChecksClock
  /\ pc[fiber] = "expire"
  /\ t \in sleepq
  /\ \A u \in sleepq : due[t] <= due[u]
  /\ due[t] <= 0
  /\ DelSleepQ(t, IF state[t] = "COND_WAIT" THEN {"TIMEDOUT"} ELSE {})
  /\ MakeRunnable(t)
  /\ UNCHANGED <<lifeVars, current, fiber, pc>>

(* The head of the heap is not due, or there is none.                      *)
NoneDue == \A t \in sleepq : due[t] > 0

(* The rest of the idle thread's loop body: RUNNABLE again (never on the   *)
(* run queue), then schedule, or leave the start function.                 *)
IdleSchedule ==
  /\ fiber = Idle
  /\ pc[Idle] = "expire"
  /\ NoneDue
  /\ LET st == [state EXCEPT ![Idle] = IF @ = "ZOMBIE" THEN @ ELSE "RUNNABLE"]
     IN  IF active > 0
         THEN VpSchedule(links, st) /\ pc' = [pc EXCEPT ![Idle] = "loop"]
         ELSE /\ state' = st
              /\ pc' = [pc EXCEPT ![Idle] = "exit"]
              /\ UNCHANGED <<links, current, fiber>>
  /\ UNCHANGED <<timeVars, lifeVars>>

(* The idle thread's loop condition fails.                                 *)
IdleReturns ==
  /\ fiber = Idle
  /\ pc[Idle] = "loop"
  /\ active <= 0
  /\ pc' = [pc EXCEPT ![Idle] = "exit"]
  /\ UNCHANGED <<runVars, timeVars, lifeVars>>

(* The rest of the loop body of st_idle_thread_run.                        *)
MainSchedule ==
  /\ fiber = MAIN
  /\ pc[MAIN] = "expire"
  /\ NoneDue
  /\ VpSchedule(links, state)
  /\ pc' = [pc EXCEPT ![MAIN] = "loop"]
  /\ UNCHANGED <<timeVars, lifeVars>>

(* The native fiber has created its threads.                               *)
MainStart ==
  /\ fiber = MAIN
  /\ pc[MAIN] = "setup"
  /\ pc' = [pc EXCEPT ![MAIN] = "loop"]
  /\ UNCHANGED <<runVars, timeVars, lifeVars>>

(* `while (st_active_count() > 0) st_usleep(1);` of a program's main; the  *)
(* kind "forever" sleeps without looking at the count.                     *)
MainUsleep(timeout) ==
  /\ fiber = MAIN
  /\ pc[MAIN] = "loop"
  /\ \/ MainKind = "usleep" /\ active > 0
     \/ MainKind = "forever"
  /\ UsleepBlock(timeout)

(* main leaves its loop and returns: the process ends.                     *)
MainReturns ==
  /\ fiber = MAIN
  /\ pc[MAIN] = "loop"
  /\ MainKind # "forever"
  /\ active <= 0
  /\ fiber' = EXITED
  /\ UNCHANGED <<timeVars, lifeVars, state, links, current, pc>>

(* A fiber that has left _st_thread_main through swapOutFiber is switched  *)
(* to again: its start routine returns and Windows ends the OS thread.     *)
DeadFiberResumed ==
  /\ fiber \in Slot
  /\ pc[fiber] = "dead"
  /\ fiber' = EXITED
  /\ UNCHANGED <<timeVars, lifeVars, state, links, current, pc>>

(* The steps above that touch nothing but the virtual processor, except    *)
(* the poll for I/O.                                                       *)
VpNext ==
  \/ \E d \in Timeouts : StUsleep(d) \/ MainUsleep(d)
  \/ StSuspend
  \/ BlockingCallEINTR
  \/ \E t \in Thread : StThreadInterrupt(t)
  \/ CreateOverLiveThread
  \/ \E e \in Elapsed : CheckClock(e)
  \/ \E t \in Thread : ExpireOne(t)
  \/ IdleSchedule
  \/ IdleReturns
  \/ MainSchedule
  \/ MainStart
  \/ MainReturns
  \/ DeadFiberResumed

=============================================================================
