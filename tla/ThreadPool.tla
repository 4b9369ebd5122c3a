----------------------------- MODULE ThreadPool ------------------------------
(***************************************************************************)
(* The pool of connection threads of each server process of                *)
(* examples/server.c, on one listening socket.  Threads of a process are   *)
(* alike, so the model counts them: those just created, those in st_accept *)
(* and those in a session.  WAIT_THREADS and BUSY_THREADS are the counters *)
(* the program keeps itself and bases its decisions on.  The code between  *)
(* two blocking calls is one step.                                         *)
(***************************************************************************)
EXTENDS Integers, FiniteSetsExt

CONSTANTS
  Pid,             \* process ids
  VpCount,         \* vp_count as configured
  ConfigWait, ConfigMax,   \* option -t; 0 is the default
  FdLimit,         \* st_getfdlimit()
  SkCount          \* number of listening sockets

MAX_WAIT_THREADS_DEFAULT == 8
MIN_WAIT_THREADS == 2
FD_PER_THREAD == 2

(* set_thread_throttling: totals over all processes and their share of it, *)
(* rounded up.                                                             *)
CeilDiv(a, b) == IF a % b # 0 THEN a \div b + 1 ELSE a \div b

TotalMax == IF ConfigMax = 0
            THEN ((FdLimit * VpCount) \div FD_PER_THREAD) \div SkCount
            ELSE ConfigMax
TotalWait == Min({TotalMax, IF ConfigWait = 0
                            THEN MAX_WAIT_THREADS_DEFAULT * VpCount
                            ELSE ConfigWait})
MaxThreads == CeilDiv(TotalMax, VpCount)
MaxWait    == CeilDiv(TotalWait, VpCount)
MinWait    == Min({MIN_WAIT_THREADS, MaxWait})

ASSUME PoolAssumption ==
  /\ VpCount \in Nat \ {0} /\ SkCount \in Nat \ {0}
  /\ {ConfigWait, ConfigMax, FdLimit} \subseteq Nat
  /\ TotalMax > 0

VARIABLE pool   \* threads and counters of each process

NoPool == [wait |-> 0, busy |-> 0, new |-> 0, accepting |-> 0, session |-> 0,
           failed |-> FALSE]

-----------------------------------------------------------------------------
(* start_threads: n of the MaxWait threads could be created.  `failed` is  *)
(* history: a thread the pool wanted could not be created.                 *)
StartedPool(n) ==
  [NoPool EXCEPT !.wait = n, !.new = n, !.failed = n < MaxWait]

(* The head of the loop: a thread goes into st_accept, or leaves the pool  *)
(* when there are too many spare ones.                                     *)
(* Mutant: one thread too many leaves.                                     *)
StaysBelow(n) == n < MaxWait
Stays(n) == n <= MaxWait

LoopHead(w) ==
  IF Stays(w.wait) THEN [w EXCEPT !.accepting = @ + 1]
                   ELSE [w EXCEPT !.wait = @ - 1]

(* A thread that was created runs for the first time.                      *)
ThreadStarts(p) ==
  /\ pool[p].new > 0
  /\ pool' = [pool EXCEPT ![p] = LoopHead([pool[p] EXCEPT !.new = @ - 1])]

(* st_accept fails: back to the head of the loop.                          *)
AcceptFails(p) ==
  /\ pool[p].accepting > 0
  /\ pool' = [pool EXCEPT ![p] = LoopHead([pool[p] EXCEPT !.accepting = @ - 1])]

(* Another spare thread is wanted.  Mutant: whatever number there is.      *)
WantsSpareAtLimit(w) == w.wait < MinWait
WantsSpare(w) == w.wait < MinWait /\ w.wait + w.busy < MaxThreads

(* A connection: the thread becomes busy and creates another spare thread  *)
(* if it must; created tells whether that works.                           *)
Accept(p, created) ==
  LET w == [pool[p] EXCEPT !.accepting = @ - 1, !.session = @ + 1,
                           !.wait = @ - 1, !.busy = @ + 1]
  IN  /\ pool[p].accepting > 0
      /\ WantsSpare(w) \/ created
      /\ pool' = [pool EXCEPT ![p] =
           IF ~WantsSpare(w) THEN w
           ELSE IF created THEN [w EXCEPT !.wait = @ + 1, !.new = @ + 1]
           ELSE [w EXCEPT !.failed = TRUE]]

(* handle_session returns, whatever became of the request, and the thread  *)
(* is a spare one again.                                                   *)
SpareAgain(w) ==
  [w EXCEPT !.session = @ - 1, !.wait = @ + 1, !.busy = @ - 1,
            !.failed = @ /\ w.wait + 1 < MinWait]

SessionEnds(p) ==
  /\ pool[p].session > 0
  /\ pool' = [pool EXCEPT ![p] = LoopHead(SpareAgain(@))]

PoolStep(p) ==
  \/ ThreadStarts(p) \/ AcceptFails(p) \/ SessionEnds(p)
  \/ \E created \in BOOLEAN : Accept(p, created)

-----------------------------------------------------------------------------
(* The program's counters are the true numbers of its threads, and the     *)
(* pool keeps within its limits, although threads are created and leave by *)
(* what the counters say.                                                  *)
PoolCounts ==
  \A p \in Pid :
    /\ pool[p].wait = pool[p].new + pool[p].accepting
    /\ pool[p].busy = pool[p].session
    /\ pool[p].wait <= MaxWait
    /\ pool[p].wait + pool[p].busy <= MaxThreads
=============================================================================
