------------------------------- MODULE SyncInv -------------------------------
(***************************************************************************)
(* The inductive invariants of Sync.  Core holds for every program.        *)
(* RunInv adds that the run queue is intact, which is so in programs whose *)
(* threads are not joinable; IInv adds that the free list is intact, for   *)
(* threads that also end by returning from their start function.  They are *)
(* local: they speak of one thread, or of one link and its neighbours, at  *)
(* a time.  SyncProofs shows that they are inductive; TLC checks them      *)
(* first.                                                                  *)
(***************************************************************************)
EXTENDS Sync

Awake == {"RUNNABLE", "RUNNING"}

(* What the place a thread's fiber is at says of the state it is in.  A    *)
(* thread that has ended may be RUNNABLE: st_thread_join makes it so.      *)
ThreadControl(t) ==
  /\ fiber = t => state[t] \in {"RUNNING", "ZOMBIE"}
  /\ state[t] = "UNUSED" => pc[t] = "run"
  /\ pc[t] \in {"run", "cond", "lock", "join", "joincond", "signal",
                "broadcast", "unlock", "exit", "exitcall", "exited",
                "exitcalled", "landed", "dead"}
  /\ pc[t] = "run"  => state[t] \in {"UNUSED", "SLEEPING", "SUSPENDED"} \cup Awake
  /\ pc[t] \in {"cond", "joincond"} => state[t] \in {"COND_WAIT"} \cup Awake
  /\ pc[t] = "lock" => state[t] \in {"LOCK_WAIT"} \cup Awake
  /\ pc[t] \in {"signal", "broadcast", "unlock", "join", "exitcall"} =>
       fiber = t /\ state[t] = "RUNNING"
  /\ pc[t] = "exit" => fiber = t
  /\ pc[t] \in {"exited", "exitcalled", "landed"} =>
       fiber = t /\ state[t] = "ZOMBIE"
  /\ pc[t] = "dead" => state[t] \in {"ZOMBIE"} \cup Awake

(* What holds of the fibers that are not threads.                          *)
OtherControl ==
  /\ pc[MAIN] \in {"setup", "loop", "clock", "expire"}
  /\ pc[Idle] \in {"loop", "clock", "expire", "exit", "exited", "dead"}
  /\ pc[Idle] \in {"exit", "exited"} => fiber = Idle
  /\ pc[Idle] = "exited" => state[Idle] = "ZOMBIE"
  /\ fiber = MAIN => current = NULL \/ state[current] = "ZOMBIE"
  /\ pc[MAIN] = "setup" => fiber = MAIN /\ current = NULL

(* The argument of a call in progress, and its loop variable: it stays on  *)
(* the wait queue that the loop walks.  st_thread_exit of a joinable       *)
(* thread walks the queue of its termination condition variable.           *)
Exiting(s) == pc[s] \in {"exited", "exitcalled"}
InLoop(t)  == \/ pc[t] \in {"signal", "broadcast", "unlock"}
              \/ Exiting(t) /\ obj[t] # NULL

LoopInv ==
  /\ \A t \in Thread :
       /\ pc[t] \in {"cond", "signal", "broadcast"} => obj[t] \in Cond
       /\ pc[t] \in {"lock", "unlock"} => obj[t] \in Mutex
       /\ InLoop(t) => iter \in {obj[t]} \cup Waiters(obj[t])
       /\ pc[t] = "unlock" => owner[obj[t]] = t /\ obj[t] \notin held[t]
  /\ \A s \in Slot : Exiting(s) => obj[s] = term[s]
  /\ iter # NULL => fiber \in Thread /\ InLoop(fiber)

(* The termination condition variables: each belongs to one thread object, *)
(* and is not freed, as long as the object names it; a joiner names one    *)
(* that is not freed, and no two joiners name the same.                    *)
Joining(t) == pc[t] \in {"join", "joincond"}

JoinInv ==
  /\ term[Idle] = NULL
  /\ \A s \in Slot : term[s] # NULL => term[s] \in allocated
  /\ \A s, u \in Slot : term[s] # NULL /\ term[s] = term[u] => s = u
  /\ \A t \in Thread : Joining(t) => obj[t] \in allocated /\ joinee[t] # NULL
  /\ \A t, u \in Thread : Joining(t) /\ Joining(u) /\ obj[t] = obj[u] => t = u

(* A waiter for a mutex does not own it, and one that was woken without    *)
(* owning it was interrupted.                                              *)
LockInv ==
  \A t \in Thread : pc[t] = "lock" =>
    /\ state[t] = "LOCK_WAIT" => owner[obj[t]] # t
    /\ state[t] \in Awake => owner[obj[t]] = t \/ "INTERRUPT" \in flags[t]
    /\ obj[t] \notin held[t]

(* A signal wakes its waiter, and a joiner waits without a deadline.       *)
SignalledAwake ==
  /\ \A t \in signalled : pc[t] \in {"cond", "joincond"} /\ state[t] \in Awake
  /\ \A t \in sleepq : pc[t] # "joincond"

(* The invariant of every program, by what it is about: the types, the     *)
(* control state, the timeouts and wake-ups, the calls in progress, the    *)
(* mutexes and the joins, and the shape of the wait queues.                *)
Control == (\A t \in Thread : ThreadControl(t)) /\ OtherControl /\ OneRunning
Wakeups == /\ SleepqConsistent
           /\ SignalledAwake
           /\ TimeoutNotStale
           /\ WokenForAReason
Calls   == LoopInv /\ LockInv /\ MutexSafety /\ OwnerKnows

Core == DataTypes /\ Control /\ Wakeups /\ Calls /\ JoinInv /\ WaitqWellFormed

(* The link fields of the list heads, of the idle thread and of the slots  *)
(* that have been used point to one another: whatever becomes of the       *)
(* queues, the scheduler follows no NULL pointer.                          *)
LinksUsed == (Node \ Thread) \cup {t \in Thread : state[t] # "UNUSED"}
LinksSet ==
  /\ links \in ListState(Node)
  /\ \A n \in LinksUsed : links.next[n] \in LinksUsed /\ links.prev[n] \in LinksUsed

-----------------------------------------------------------------------------
(* In a program that creates no joinable thread: nobody joins, so a thread *)
(* that has ended stays so, and the run queue is intact.                   *)
NotJoinable ==
  /\ \A s \in Slot : term[s] = NULL
  /\ \A t \in Thread : ~Joining(t)
  /\ \A t \in Thread : pc[t] = "dead" => state[t] = "ZOMBIE"

RunInv == NotJoinable /\ links \in ListState(Node) /\ RunqWellFormed

(* If besides no thread calls st_thread_exit, each one exits once.         *)
ReturnsOnly ==
  \A t \in Thread : /\ pc[t] \notin {"exitcall", "exitcalled", "landed"}
                    /\ pc[t] = "exit" => state[t] = "RUNNING"

(* The free list holds exactly the segments of the threads that have       *)
(* ended.                                                                  *)
Dead == {s \in Slot : pc[s] = "dead"}
FreeListInv == slinks \in ListState(SNode) /\ Circular(slinks, {FREEQ} \cup Dead)

IInv == Core /\ RunInv /\ ReturnsOnly /\ FreeListInv

-----------------------------------------------------------------------------
(* What is needed besides for NoLostThread: a sleeper has a deadline, a    *)
(* mutex that is waited for has an owner, and the loop of st_mutex_unlock  *)
(* has not passed a waiter that it could give the mutex to.  `Ahead` is    *)
(* the rest of the wait queue: the least set that has the loop variable    *)
(* and goes on up to the head.                                             *)
StillWaiting(m) == {t \in Waiters(m) : state[t] = "LOCK_WAIT"}

NonePassed(m) ==
  \A Ahead \in SUBSET ({m} \cup Waiters(m)) :
    iter \in Ahead /\ (\A n \in Ahead \ {m} : wlinks.next[n] \in Ahead) =>
      StillWaiting(m) \subseteq Ahead

WaitInv ==
  /\ \A t \in Thread : state[t] = "SLEEPING" => t \in sleepq
  /\ \A t \in Thread : state[t] = "LOCK_WAIT" => owner[obj[t]] # NULL
  /\ \A t \in Thread : pc[t] = "unlock" => NonePassed(obj[t])

(* What is needed besides for ActiveCount, in a program whose main waits   *)
(* for its threads to end: the idle thread and the loop of                 *)
(* st_idle_thread_run are at work only while there are threads, so that    *)
(* the idle thread never ends.                                             *)
CountInv ==
  /\ IsFiniteSet(Live)
  /\ ActiveCount
  /\ pc[Idle] \notin {"exit", "exited", "dead"}
  /\ fiber = Idle => active > 0
  /\ pc[MAIN] \in {"clock", "expire"} => fiber = MAIN /\ active > 0

=============================================================================
