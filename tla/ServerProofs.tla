---------------------------- MODULE ServerProofs -----------------------------
(***************************************************************************)
(* Proofs about examples/server.c for any number of processes, any limits  *)
(* and any signals: the counters of the thread pools and the table of      *)
(* processes.                                                              *)
(***************************************************************************)
EXTENDS Server, FiniteSetTheorems, TLAPS

(* The smaller one of two integers.                                        *)
LEMMA MinOfTwo ==
  ASSUME NEW a \in Int, NEW b \in Int
  PROVE  /\ Min({a, b}) \in {a, b}
         /\ Min({a, b}) <= a /\ Min({a, b}) <= b
<1>1. \E x \in {a, b} : \A y \in {a, b} : x <= y
  <2>1. CASE a <= b
    <3>1. \A y \in {a, b} : a <= y
      BY <2>1
    <3> QED
      BY <3>1
  <2>2. CASE ~(a <= b)
    <3>1. \A y \in {a, b} : b <= y
      BY <2>2
    <3> QED
      BY <3>1
  <2> QED
    BY <2>1, <2>2
<1>2. Min({a, b}) \in {a, b} /\ \A y \in {a, b} : Min({a, b}) <= y
  BY <1>1 DEF Min
<1> QED
  BY <1>2

(* CeilDiv is the quotient rounded up.                                     *)
LEMMA CeilDivBounds ==
  ASSUME NEW a \in Nat, NEW v \in Nat \ {0}
  PROVE  /\ CeilDiv(a, v) \in Nat
         /\ v * CeilDiv(a, v) >= a
         /\ a > 0 => CeilDiv(a, v) > 0
         /\ v * (CeilDiv(a, v) - 1) < a \/ CeilDiv(a, v) = 0
<1> DEFINE q == a \div v
           r == a % v
<1>1. /\ q \in Nat /\ r \in 0..(v - 1)
      /\ a = v * q + r
  OBVIOUS
<1>2. CeilDiv(a, v) = IF r # 0 THEN q + 1 ELSE q
  BY DEF CeilDiv
<1> HIDE DEF q, r
<1>3. CASE r # 0
  <2>1. v * (q + 1) = v * q + v /\ (q + 1) - 1 = q
    BY <1>1
  <2> QED
    BY <1>1, <1>2, <1>3, <2>1
<1>4. CASE r = 0
  <2>1. CeilDiv(a, v) = q /\ a = v * q
    BY <1>1, <1>2, <1>4
  <2>2. v * (q - 1) = v * q - v
    BY <1>1
  <2>3. q = 0 => a = 0
    BY <2>1
  <2> QED
    BY <1>1, <2>1, <2>2, <2>3
<1> QED
  BY <1>3, <1>4

(* Rounding up keeps the order.                                            *)
LEMMA CeilDivMonotone ==
  ASSUME NEW a \in Nat, NEW b \in Nat, a <= b, NEW v \in Nat \ {0}
  PROVE  CeilDiv(a, v) <= CeilDiv(b, v)
<1> DEFINE x == CeilDiv(a, v)
           y == CeilDiv(b, v)
<1>1. /\ x \in Nat /\ y \in Nat
      /\ v * y >= b
      /\ v * (x - 1) < a \/ x = 0
  BY CeilDivBounds
<1> HIDE DEF x, y
<1> SUFFICES ASSUME x > y PROVE FALSE
  BY <1>1 DEF x, y
<1>2. v * (x - 1) < v * y
  BY <1>1
<1>3. x - 1 >= y
  BY <1>1
<1>4. PICK k \in Nat : x - 1 = y + k
  <2>1. x - 1 - y \in Nat /\ x - 1 = y + (x - 1 - y)
    BY <1>1, <1>3
  <2> QED
    BY <2>1
<1>5. v * (x - 1) = v * y + v * k
  BY <1>1, <1>4
<1>6. v * k >= 0 /\ v * y \in Nat /\ v * k \in Nat
  BY <1>1, <1>4
<1> QED
  BY <1>2, <1>5, <1>6

(* set_thread_throttling: a process may have at least one thread, not more *)
(* spare threads than threads, and the least number of spare threads is    *)
(* not above the largest.                                                  *)
LEMMA Limits ==
  /\ MaxThreads \in Nat /\ MaxWait \in Nat /\ MinWait \in Int
  /\ MaxWait <= MaxThreads
  /\ MinWait <= MaxWait
<1>1. TotalMax \in Nat /\ VpCount \in Nat \ {0}
  <2>1. FdLimit * VpCount \in Nat /\ SkCount \in Nat \ {0}
    BY PoolAssumption
  <2>2. (FdLimit * VpCount) \div FD_PER_THREAD \in Nat
    BY <2>1 DEF FD_PER_THREAD
  <2>3. ((FdLimit * VpCount) \div FD_PER_THREAD) \div SkCount \in Nat
    BY <2>1, <2>2
  <2> QED
    BY <2>3, PoolAssumption DEF TotalMax
<1>2. TotalWait \in Nat /\ TotalWait <= TotalMax
  <2> DEFINE c == IF ConfigWait = 0 THEN MAX_WAIT_THREADS_DEFAULT * VpCount
                                    ELSE ConfigWait
  <2>1. c \in Nat
    BY PoolAssumption DEF MAX_WAIT_THREADS_DEFAULT
  <2>2. TotalWait = Min({TotalMax, c})
    BY DEF TotalWait
  <2> HIDE DEF c
  <2> QED
    BY <1>1, <2>1, <2>2, MinOfTwo
<1>3. MaxThreads \in Nat /\ MaxWait \in Nat
  BY <1>1, <1>2, CeilDivBounds DEF MaxThreads, MaxWait
<1>4. MaxWait <= MaxThreads
  BY <1>1, <1>2, CeilDivMonotone DEF MaxThreads, MaxWait
<1>5. MinWait \in Int /\ MinWait <= MaxWait
  <2>1. MinWait = Min({2, MaxWait})
    BY DEF MinWait, MIN_WAIT_THREADS
  <2>2. 2 \in Int /\ MaxWait \in Int
    BY <1>3
  <2> QED
    BY <2>1, <2>2, MinOfTwo
<1> QED
  BY <1>3, <1>4, <1>5

-----------------------------------------------------------------------------
(* The numbers of the pool of one process.                                 *)
PoolFields == [wait : Nat, busy : Nat, new : Nat, accepting : Nat,
               session : Nat, failed : BOOLEAN]

(* What PoolCounts says of the pool of one process.                        *)
Counted(w) ==
  /\ w.wait = w.new + w.accepting
  /\ w.busy = w.session
  /\ w.wait <= MaxWait
  /\ w.wait + w.busy <= MaxThreads

(* The counters of all processes, with their types.                        *)
PoolInv ==
  /\ pool \in [Pid -> PoolFields]
  /\ \A p \in Pid : Counted(pool[p])

(* The head of the loop, for a thread that is in no other number: either   *)
(* it goes into st_accept or it is one spare thread less.                  *)
LEMMA LoopHeadCounted ==
  ASSUME NEW w \in PoolFields,
         w.wait = w.new + w.accepting + 1, w.busy = w.session,
         w.wait <= MaxWait + 1, w.wait + w.busy <= MaxThreads
  PROVE  LoopHead(w) \in PoolFields /\ Counted(LoopHead(w))
<1>1. CASE w.wait <= MaxWait
  <2>1. LoopHead(w) = [w EXCEPT !.accepting = @ + 1]
    BY <1>1 DEF LoopHead, Stays
  <2> QED
    BY <1>1, <2>1, Limits DEF PoolFields, Counted
<1>2. CASE ~(w.wait <= MaxWait)
  <2>1. LoopHead(w) = [w EXCEPT !.wait = @ - 1]
    BY <1>2 DEF LoopHead, Stays
  <2> QED
    BY <1>2, <2>1, Limits DEF PoolFields, Counted
<1> QED
  BY <1>1, <1>2

(* A thread begins: one of the threads created and not yet run comes to    *)
(* the head of the loop.                                                   *)
LEMMA StartsCounted ==
  ASSUME NEW w \in PoolFields, Counted(w), w.new > 0
  PROVE  LET u == LoopHead([w EXCEPT !.new = @ - 1])
         IN  u \in PoolFields /\ Counted(u)
<1> DEFINE u == [w EXCEPT !.new = @ - 1]
<1>1. /\ u \in PoolFields /\ u.new = w.new - 1
      /\ u.accepting = w.accepting /\ u.wait = w.wait
      /\ u.busy = w.busy /\ u.session = w.session
  BY DEF PoolFields
<1> HIDE DEF u
<1>2. /\ u.wait = u.new + u.accepting + 1 /\ u.busy = u.session
      /\ u.wait <= MaxWait + 1 /\ u.wait + u.busy <= MaxThreads
  BY <1>1, Limits DEF PoolFields, Counted
<1>3. LoopHead(u) \in PoolFields /\ Counted(LoopHead(u))
  BY <1>1, <1>2, LoopHeadCounted
<1> QED
  BY <1>3 DEF u

(* st_accept fails: the thread comes to the head of the loop again.        *)
LEMMA AcceptFailsCounted ==
  ASSUME NEW w \in PoolFields, Counted(w), w.accepting > 0
  PROVE  LET u == LoopHead([w EXCEPT !.accepting = @ - 1])
         IN  u \in PoolFields /\ Counted(u)
<1> DEFINE u == [w EXCEPT !.accepting = @ - 1]
<1>1. /\ u \in PoolFields /\ u.new = w.new
      /\ u.accepting = w.accepting - 1 /\ u.wait = w.wait
      /\ u.busy = w.busy /\ u.session = w.session
  BY DEF PoolFields
<1> HIDE DEF u
<1>2. /\ u.wait = u.new + u.accepting + 1 /\ u.busy = u.session
      /\ u.wait <= MaxWait + 1 /\ u.wait + u.busy <= MaxThreads
  BY <1>1, Limits DEF PoolFields, Counted
<1>3. LoopHead(u) \in PoolFields /\ Counted(LoopHead(u))
  BY <1>1, <1>2, LoopHeadCounted
<1> QED
  BY <1>3 DEF u

(* A session ends: the thread is a spare one again, at the head of the     *)
(* loop.                                                                   *)
LEMMA SessionEndsCounted ==
  ASSUME NEW w \in PoolFields, Counted(w), w.session > 0
  PROVE  LET u == LoopHead(SpareAgain(w))
         IN  u \in PoolFields /\ Counted(u)
<1> DEFINE u == SpareAgain(w)
           f == w.failed /\ w.wait + 1 < MinWait
           s == w.session - 1
           n == w.wait + 1
           b == w.busy - 1
<1>1. u = [w EXCEPT !.session = s, !.wait = n, !.busy = b, !.failed = f]
  BY DEF SpareAgain
<1>2. f \in BOOLEAN /\ s \in Nat /\ n \in Nat /\ b \in Nat
  BY DEF PoolFields, Counted
<1> HIDE DEF f, s, n, b
<1>3. u \in PoolFields
  BY <1>1, <1>2 DEF PoolFields
<1>4. /\ u.new = w.new /\ u.accepting = w.accepting /\ u.wait = w.wait + 1
      /\ u.busy = w.busy - 1 /\ u.session = w.session - 1
  BY <1>1 DEF PoolFields, s, n, b
<1> HIDE DEF u
<1>5. /\ u.wait = u.new + u.accepting + 1 /\ u.busy = u.session
      /\ u.wait <= MaxWait + 1 /\ u.wait + u.busy <= MaxThreads
  BY <1>3, <1>4, Limits DEF PoolFields, Counted
<1>6. LoopHead(u) \in PoolFields /\ Counted(LoopHead(u))
  BY <1>3, <1>5, LoopHeadCounted
<1> QED
  BY <1>6 DEF u

(* A connection is accepted: a spare thread becomes a busy one.            *)
LEMMA AcceptCounted ==
  ASSUME NEW w \in PoolFields, Counted(w), w.accepting > 0
  PROVE  LET u == [w EXCEPT !.accepting = @ - 1, !.session = @ + 1,
                            !.wait = @ - 1, !.busy = @ + 1]
         IN  u \in PoolFields /\ Counted(u)
<1> DEFINE u == [w EXCEPT !.accepting = @ - 1, !.session = @ + 1,
                          !.wait = @ - 1, !.busy = @ + 1]
           a == w.accepting - 1
           s == w.session + 1
           n == w.wait - 1
           b == w.busy + 1
<1>1. a \in Nat /\ s \in Nat /\ n \in Nat /\ b \in Nat
  BY DEF PoolFields, Counted
<1>2. u = [w EXCEPT !.accepting = a, !.session = s, !.wait = n, !.busy = b]
  OBVIOUS
<1>3. /\ u.new = w.new
      /\ u.accepting = w.accepting - 1 /\ u.wait = w.wait - 1
      /\ u.busy = w.busy + 1 /\ u.session = w.session + 1
  BY DEF PoolFields
<1> HIDE DEF u, a, s, n, b
<1>4. u \in PoolFields
  BY <1>1, <1>2 DEF PoolFields
<1>5. Counted(u)
  BY <1>3, <1>4, Limits DEF PoolFields, Counted
<1> QED
  BY <1>4, <1>5 DEF u

(* A spare thread is created because there are too few and the limit       *)
(* allows it.                                                              *)
LEMMA SpareCounted ==
  ASSUME NEW w \in PoolFields, Counted(w), WantsSpare(w)
  PROVE  LET u == [w EXCEPT !.wait = @ + 1, !.new = @ + 1]
         IN  u \in PoolFields /\ Counted(u)
<1> DEFINE u == [w EXCEPT !.wait = @ + 1, !.new = @ + 1]
           n == w.wait + 1
           m == w.new + 1
<1>1. n \in Nat /\ m \in Nat /\ u = [w EXCEPT !.wait = n, !.new = m]
  BY DEF PoolFields
<1>2. /\ u.new = w.new + 1
      /\ u.accepting = w.accepting /\ u.wait = w.wait + 1
      /\ u.busy = w.busy /\ u.session = w.session
  BY DEF PoolFields
<1> HIDE DEF u, n, m
<1>3. u \in PoolFields
  BY <1>1 DEF PoolFields
<1>4. Counted(u)
  BY <1>2, <1>3, Limits DEF PoolFields, Counted, WantsSpare
<1> QED
  BY <1>3, <1>4 DEF u

(* The steps of the threads of one process keep its counters right.        *)
LEMMA PoolStepCounted ==
  ASSUME NEW p \in Pid, PoolInv, PoolStep(p)
  PROVE  \E v \in PoolFields : Counted(v) /\ pool' = [pool EXCEPT ![p] = v]
<1>0. pool[p] \in PoolFields /\ Counted(pool[p])
  BY DEF PoolInv
<1>1. CASE ThreadStarts(p)
  <2> DEFINE u == LoopHead([pool[p] EXCEPT !.new = @ - 1])
  <2>1. pool[p].new > 0 /\ pool' = [pool EXCEPT ![p] = u]
    BY <1>1 DEF ThreadStarts
  <2>2. u \in PoolFields /\ Counted(u)
    BY <1>0, <2>1, StartsCounted
  <2> HIDE DEF u
  <2> QED
    BY <2>1, <2>2
<1>2. CASE AcceptFails(p)
  <2> DEFINE u == LoopHead([pool[p] EXCEPT !.accepting = @ - 1])
  <2>1. pool[p].accepting > 0 /\ pool' = [pool EXCEPT ![p] = u]
    BY <1>2 DEF AcceptFails
  <2>2. u \in PoolFields /\ Counted(u)
    BY <1>0, <2>1, AcceptFailsCounted
  <2> HIDE DEF u
  <2> QED
    BY <2>1, <2>2
<1>3. CASE SessionEnds(p)
  BY <1>0, <1>3, SessionEndsCounted DEF SessionEnds
<1>4. ASSUME NEW created \in BOOLEAN, Accept(p, created)
      PROVE  \E v \in PoolFields : Counted(v) /\ pool' = [pool EXCEPT ![p] = v]
  <2> DEFINE u == [pool[p] EXCEPT !.accepting = @ - 1, !.session = @ + 1,
                                  !.wait = @ - 1, !.busy = @ + 1]
  <2>1. /\ pool[p].accepting > 0
        /\ pool' = [pool EXCEPT ![p] =
             IF ~WantsSpare(u) THEN u
             ELSE IF created THEN [u EXCEPT !.wait = @ + 1, !.new = @ + 1]
             ELSE [u EXCEPT !.failed = TRUE]]
    BY <1>4 DEF Accept
  <2>2. u \in PoolFields /\ Counted(u)
    BY <1>0, <2>1, AcceptCounted
  <2> HIDE DEF u
  <2>3. CASE WantsSpare(u) /\ created
    BY <2>1, <2>2, <2>3, SpareCounted
  <2>4. CASE WantsSpare(u) /\ ~created
    <3>1. LET v == [u EXCEPT !.failed = TRUE]
          IN  v \in PoolFields /\ Counted(v)
      BY <2>2 DEF PoolFields, Counted
    <3> QED
      BY <2>1, <2>4, <3>1
  <2> QED
    BY <2>1, <2>2, <2>3, <2>4
<1> QED
  BY <1>1, <1>2, <1>3, <1>4 DEF PoolStep

(* The counters of a pool that has just been started.                      *)
LEMMA StartedCounted ==
  ASSUME NEW n \in 0..MaxWait
  PROVE  StartedPool(n) \in PoolFields /\ Counted(StartedPool(n))
<1> DEFINE u == StartedPool(n)
           f == n < MaxWait
<1>1. u = [NoPool EXCEPT !.wait = n, !.new = n, !.failed = f]
  BY DEF StartedPool
<1>2. f \in BOOLEAN /\ n \in Nat /\ n <= MaxWait
  BY Limits
<1> HIDE DEF u, f
<1>3. u = [wait |-> n, busy |-> 0, new |-> n, accepting |-> 0, session |-> 0,
           failed |-> f]
  BY <1>1 DEF NoPool
<1>4. u \in PoolFields /\ Counted(u)
  BY <1>2, <1>3, Limits DEF PoolFields, Counted
<1> QED
  BY <1>4 DEF u

(* The counters of a process that is not there.                            *)
LEMMA NoPoolCounted == NoPool \in PoolFields /\ Counted(NoPool)
BY Limits DEF NoPool, PoolFields, Counted

(* PoolCounts is inductive with its types: no step of any process leaves   *)
(* the counters wrong or the limits exceeded.                              *)
LEMMA PoolStable ==
  ASSUME PoolInv, [ServerNext]_serverVars
  PROVE  PoolInv'
<1>1. CASE UNCHANGED pool
  BY <1>1 DEF PoolInv, Counted
<1>2. ASSUME NEW p \in Pid, NEW v \in PoolFields, Counted(v),
             pool' = [pool EXCEPT ![p] = v]
      PROVE  PoolInv'
  BY <1>2 DEF PoolInv, Counted
<1>3. ASSUME NEW p \in Pid, Dies(p) PROVE PoolInv'
  BY <1>2, <1>3, NoPoolCounted DEF Dies
<1>4. ASSUME NEW p \in Pid, StartThreads(p) PROVE PoolInv'
  BY <1>2, <1>3, <1>4, StartedCounted DEF StartThreads
<1>5. ASSUME NEW p \in Pid, ServePool(p) PROVE PoolInv'
  BY <1>2, <1>5, PoolStepCounted DEF ServePool
<1>6. ASSUME NEW p \in Pid, TakeSignal(p) \/ ProcessSignals(p) \/ VpDies(p)
      PROVE  PoolInv'
  BY <1>1, <1>3, <1>6 DEF TakeSignal, ProcessSignals, VpDies
<1>7. ASSUME \/ WatchdogStep \/ KilledEarly \/ AllGone \/ UNCHANGED serverVars
             \/ \E s \in Signal : WdogSighandler(s) \/ SendSignal(s)
             \/ \E p \in Pid : Reap(p) \/ InstallSighandlers(p)
      PROVE  PoolInv'
  BY <1>1, <1>7
     DEF WatchdogStep, ForkFirst, ForkFirstFails, InstallWatchdog, WaitFails,
         BlockSignals, ForkAgain, ForkAgainFails, KilledEarly, AllGone,
         WdogSighandler, SendSignal, Reap, InstallSighandlers, serverVars
<1> QED
  BY <1>4, <1>5, <1>6, <1>7 DEF ServerNext, VpStep

(* PoolCounts holds for every number of processes and sockets and every    *)
(* setting of the limits: the counters of handle_connections are the true  *)
(* numbers of its threads, which stay within set_thread_throttling.        *)
THEOREM PoolCorrect == ServerSpec => []PoolCounts
<1>1. ServerInit => PoolInv
  BY NoPoolCounted DEF ServerInit, PoolInv
<1>2. PoolInv /\ [ServerNext]_serverVars => PoolInv'
  BY PoolStable
<1>3. PoolInv => PoolCounts
  BY DEF PoolInv, PoolCounts, Counted
<1> QED
  BY <1>1, <1>2, <1>3, PTL DEF ServerSpec

-----------------------------------------------------------------------------
(* The stages of a process and what is kept for one.                       *)
Stages == {"none", "forked", "ready", "serving", "zombie"}
ProcFields == [stage : Stages, blocked : BOOLEAN,
               pending : SUBSET Signal, pipe : Seq(Signal)]
(* The processes that exist, and the places of the table in use.           *)
Present == {p \in Pid : proc[p].stage # "none"}
Places == 0..(vpCount - 1)

(* Nothing is pending for a process that does not exist.                   *)
ProcInv ==
  /\ proc \in [Pid -> ProcFields]
  /\ \A p \in Pid : p \notin Present => proc[p] = NoProc

(* The types of what the watchdog keeps.                                   *)
TableType ==
  /\ vpCount \in 0..VpCount /\ dead \in 0..VpCount
  /\ vpPids \in [Index -> Pid \cup {NoPid}]
  /\ watchdog \in {"starting", "waiting", "reaped", "blocked", "gone"}

(* The table and the processes agree as long as the watchdog is there: no  *)
(* process has two places, every process has one, and a place names a      *)
(* process that does not exist only between wait and fork, when it is the  *)
(* place that was found.  While the first processes are forked the places  *)
(* behind them are empty.                                                  *)
TableAgrees ==
  watchdog # "gone" =>
    /\ \A i, j \in Places : vpPids[i] = vpPids[j] /\ vpPids[i] # NoPid => i = j
    /\ \A p \in Present : \E i \in Places : vpPids[i] = p
    /\ \A i \in Places : vpPids[i] # NoPid /\ vpPids[i] \notin Present =>
         watchdog \in {"reaped", "blocked"} /\ i = dead
    /\ watchdog \in {"reaped", "blocked"} =>
         dead \in Places /\ vpPids[dead] \notin Present
    /\ watchdog = "starting" =>
         dead <= vpCount /\ \A i \in dead..(vpCount - 1) : vpPids[i] = NoPid

(* The inductive invariant of PlaceFound.                                  *)
PlaceInv == ProcInv /\ TableType /\ TableAgrees

(* The invariant says what PlaceFound asks for.                            *)
LEMMA PlaceInvSuffices == PlaceInv => PlaceFound
<1> SUFFICES ASSUME PlaceInv PROVE PlaceFound
  OBVIOUS
<1>1. watchdog \in {"reaped", "blocked"} => dead < vpCount
  BY PoolAssumption DEF PlaceInv, TableType, TableAgrees, Places
<1>2. ASSUME watchdog # "gone", NEW p \in Pid, proc[p] # NoProc
      PROVE  Cardinality(Known(p)) = 1
  <2>1. p \in Present
    BY <1>2 DEF PlaceInv, ProcInv
  <2>2. PICK i \in Places : vpPids[i] = p
    BY <1>2, <2>1 DEF PlaceInv, TableAgrees
  <2>3. p # NoPid
    BY ServerAssumption
  <2>4. Known(p) = {i}
    BY <1>2, <2>2, <2>3 DEF PlaceInv, TableAgrees, Known, Places
  <2> QED
    BY <2>4, FS_Singleton
<1> QED
  BY <1>1, <1>2 DEF PlaceFound

(* A step that leaves the table alone, lets processes only change, and at  *)
(* most ends the watchdog keeps the agreement.                             *)
LEMMA TableKept ==
  ASSUME TableType, TableAgrees, UNCHANGED <<vpCount, vpPids, dead>>,
         Present' = Present, watchdog' \in {watchdog, "gone"}
  PROVE  TableType' /\ TableAgrees'
BY DEF TableType, TableAgrees, Places, Index

(* What a step does to one process.                                        *)
LEMMA ProcChanges ==
  ASSUME ProcInv, NEW p \in Pid,
         NEW q \in ProcFields,
         proc' = [proc EXCEPT ![p] = q], q.stage # "none"
  PROVE  ProcInv' /\ Present' = Present \cup {p}
BY DEF ProcInv, Present

(* The place of a process that does not exist.                             *)
LEMMA NoProcTyped ==
  /\ NoProc \in ProcFields
  /\ NoProc.stage = "none"
BY DEF NoProc, ProcFields, Stages

(* Dying, installing handlers, starting threads and taking signals change  *)
(* a process that is there, and leave it there until it is reaped.         *)
LEMMA DiesKeepsPresent ==
  ASSUME ProcInv, NEW p \in Present, Dies(p)
  PROVE  ProcInv' /\ Present' = Present
<1> DEFINE q == [NoProc EXCEPT !.stage = "zombie"]
<1>1. q \in ProcFields /\ q.stage = "zombie"
  <2>1. NoProc \in ProcFields
    BY NoProcTyped
  <2> QED
    BY <2>1 DEF ProcFields, Stages
<1>2. proc' = [proc EXCEPT ![p] = q] /\ p \in Pid
  BY DEF Dies, Present
<1> HIDE DEF q
<1>3. ProcInv' /\ Present' = Present \cup {p}
  BY <1>1, <1>2, ProcChanges
<1> QED
  BY <1>3

(* The steps of a server process neither create a process nor remove one.  *)
LEMMA VpKeepsPresent ==
  ASSUME ProcInv, NEW p \in Pid, VpStep(p) \/ VpDies(p) \/ ServePool(p)
  PROVE  ProcInv' /\ Present' = Present
<1>0. proc[p] \in ProcFields
  BY DEF ProcInv
<1>1. ASSUME NEW q \in ProcFields, proc' = [proc EXCEPT ![p] = q],
             q.stage # "none", p \in Present
      PROVE  ProcInv' /\ Present' = Present
  <2>1. ProcInv' /\ Present' = Present \cup {p}
    BY <1>1, ProcChanges
  <2> QED
    BY <1>1, <2>1
<1>2. CASE VpDies(p)
  <2>1. p \in Present /\ Dies(p)
    BY <1>2 DEF VpDies, Alive, Present
  <2> QED
    BY <2>1, DiesKeepsPresent
<1>3. CASE ServePool(p)
  BY <1>3 DEF ServePool, ProcInv, Present
<1>4. CASE InstallSighandlers(p)
  <2> DEFINE q == [proc[p] EXCEPT !.stage = "ready", !.blocked = FALSE]
  <2>1. proc' = [proc EXCEPT ![p] = q] /\ p \in Present
    BY <1>4 DEF InstallSighandlers, Unblocked, Present
  <2>2. q \in ProcFields /\ q.stage = "ready"
    BY <1>0 DEF ProcFields, Stages
  <2> HIDE DEF q
  <2> QED
    BY <1>1, <2>1, <2>2
<1>5. CASE StartThreads(p)
  <2> DEFINE q == [proc[p] EXCEPT !.stage = "serving"]
  <2>1. p \in Present
    BY <1>5 DEF StartThreads, Present
  <2>2. Dies(p) \/ proc' = [proc EXCEPT ![p] = q]
    BY <1>5 DEF StartThreads
  <2>3. q \in ProcFields /\ q.stage = "serving"
    BY <1>0 DEF ProcFields, Stages
  <2> HIDE DEF q
  <2> QED
    BY <1>1, <2>1, <2>2, <2>3, DiesKeepsPresent
<1>6. CASE TakeSignal(p)
  <2>1. p \in Present
    BY <1>6 DEF TakeSignal, Alive, Present
  <2>2. PICK s \in proc[p].pending :
          IF proc[p].stage = "forked" \/ Len(proc[p].pipe) >= PipeWords
          THEN Dies(p)
          ELSE /\ proc' = [proc EXCEPT ![p].pending = @ \ {s},
                                       ![p].pipe = Append(@, s)]
               /\ UNCHANGED pool
    BY <1>6 DEF TakeSignal
  <2> DEFINE a == proc[p].pending \ {s}
             b == Append(proc[p].pipe, s)
             q == [proc[p] EXCEPT !.pending = a, !.pipe = b]
  <2>3. a \in SUBSET Signal /\ b \in Seq(Signal)
    BY <1>0, <2>2 DEF ProcFields
  <2>4. Dies(p) \/ proc' = [proc EXCEPT ![p] = q]
    BY <1>0, <2>2 DEF ProcInv, ProcFields
  <2> HIDE DEF a, b
  <2>5. q \in ProcFields /\ q.stage # "none"
    BY <1>0, <2>1, <2>3 DEF ProcFields, Present
  <2> HIDE DEF q
  <2> QED
    BY <1>1, <2>1, <2>4, <2>5, DiesKeepsPresent
<1>7. CASE ProcessSignals(p)
  <2> DEFINE b == Tail(proc[p].pipe)
             q == [proc[p] EXCEPT !.pipe = b]
  <2>1. p \in Present /\ proc[p].pipe # <<>>
    BY <1>7 DEF ProcessSignals, Present
  <2>2. Dies(p) \/ proc' = [proc EXCEPT ![p] = q]
    BY <1>0, <1>7 DEF ProcessSignals, ProcInv, ProcFields
  <2>3. b \in Seq(Signal)
    BY <1>0, <2>1 DEF ProcFields
  <2> HIDE DEF b
  <2>4. q \in ProcFields /\ q.stage # "none"
    BY <1>0, <2>1, <2>3 DEF ProcFields, Present
  <2> HIDE DEF q
  <2> QED
    BY <1>1, <2>1, <2>2, <2>4, DiesKeepsPresent
<1> QED
  BY <1>2, <1>3, <1>4, <1>5, <1>6, <1>7 DEF VpStep

(* fork: one process more, which did not exist.                            *)
LEMMA ForkAdds ==
  ASSUME ProcInv, NEW p \in Pid, NEW b \in BOOLEAN, Forked(p, b)
  PROVE  ProcInv' /\ Present' = Present \cup {p} /\ p \notin Present
<1> DEFINE q == [NoProc EXCEPT !.stage = "forked", !.blocked = b]
<1>1. q \in ProcFields /\ q.stage = "forked"
  <2>1. NoProc \in ProcFields
    BY NoProcTyped
  <2> QED
    BY <2>1 DEF ProcFields, Stages
<1>2. proc' = [proc EXCEPT ![p] = q] /\ p \notin Present
  BY DEF Forked, Present
<1> HIDE DEF q
<1> QED
  BY <1>1, <1>2, ProcChanges

(* The handler of the watchdog changes only processes that are there.      *)
LEMMA ForwardKeepsPresent ==
  ASSUME ProcInv, NEW s \in Signal, proc' = Forwarded(s)
  PROVE  ProcInv' /\ Present' = Present
<1>1. ASSUME NEW p \in Pid
      PROVE  /\ proc'[p] \in ProcFields
             /\ proc'[p].stage = proc[p].stage
             /\ p \notin Present => proc'[p] = NoProc
  <2> DEFINE a == proc[p].pending \cup {s}
             q == [proc[p] EXCEPT !.pending = a]
  <2>1. proc[p] \in ProcFields
    BY DEF ProcInv
  <2>2. a \in SUBSET Signal
    BY <2>1 DEF ProcFields
  <2>3. \/ proc'[p] = proc[p]
        \/ proc'[p] = q /\ Alive(p)
    BY DEF Forwarded
  <2> HIDE DEF a
  <2>4. q \in ProcFields /\ q.stage = proc[p].stage
    BY <2>1, <2>2 DEF ProcFields
  <2>5. Alive(p) => p \in Present
    BY DEF Alive, Present
  <2> HIDE DEF q
  <2> QED
    BY <2>1, <2>3, <2>4, <2>5 DEF ProcInv
<1>2. proc' \in [Pid -> ProcFields]
  <2>1. proc' = [p \in Pid |-> proc'[p]]
    BY DEF Forwarded
  <2> QED
    BY <1>1, <2>1
<1>3. Present' = Present
  BY <1>1 DEF Present
<1> QED
  BY <1>1, <1>2, <1>3 DEF ProcInv

(* The first forks fill the table from its beginning.                      *)
LEMMA ForkFirstKeeps ==
  ASSUME PlaceInv, ForkFirst
  PROVE  PlaceInv'
<1>1. PICK p \in Pid : Forked(p, FALSE) /\ vpPids' = [vpPids EXCEPT ![dead] = p]
  BY DEF ForkFirst
<1>2. ProcInv' /\ Present' = Present \cup {p} /\ p \notin Present
  BY <1>1, ForkAdds DEF PlaceInv
<1>3. /\ watchdog = "starting" /\ watchdog' = "starting"
      /\ vpCount' = vpCount /\ dead' = dead + 1 /\ dead < vpCount
  BY DEF ForkFirst
<1>4. /\ TableType /\ TableAgrees /\ dead \in Places /\ Places \subseteq Index
      /\ VpCount \in Nat /\ p # NoPid
  BY <1>3, PoolAssumption, ServerAssumption
     DEF PlaceInv, TableType, Places, Index
<1>5. TableType'
  BY <1>1, <1>3, <1>4 DEF TableType
<1>6. \A i \in Places : vpPids'[i] = IF i = dead THEN p ELSE vpPids[i]
  BY <1>1, <1>4 DEF TableType
<1>7. \A i \in Places : vpPids[i] # p
  BY <1>2, <1>3, <1>4 DEF TableAgrees
<1>8. TableAgrees'
  <2>1. Places' = Places
    BY <1>3 DEF Places
  <2>2. \A i \in (dead + 1)..(vpCount - 1) : i \in dead..(vpCount - 1) /\ i \in Places /\ i # dead
    BY <1>4 DEF TableType, Places
  <2>3. \A i, j \in Places : vpPids'[i] = vpPids'[j] /\ vpPids'[i] # NoPid => i = j
    BY <1>3, <1>4, <1>6, <1>7 DEF TableAgrees
  <2>4. vpPids[dead] = NoPid
    BY <1>3, <1>4 DEF TableAgrees, TableType, Places
  <2>5. \A q \in Present' : \E i \in Places : vpPids'[i] = q
    <3> SUFFICES ASSUME NEW q \in Present' PROVE \E i \in Places : vpPids'[i] = q
      OBVIOUS
    <3>1. CASE q = p
      BY <1>4, <1>6, <3>1
    <3>2. CASE q # p
      <4>1. PICK i \in Places : vpPids[i] = q
        BY <1>2, <1>3, <1>4, <3>2 DEF TableAgrees
      <4>2. q # NoPid /\ i # dead
        BY <1>2, <2>4, <3>2, <4>1, ServerAssumption DEF Present
      <4> QED
        BY <1>6, <4>1, <4>2
    <3> QED
      BY <3>1, <3>2
  <2>6. \A i \in Places : vpPids'[i] # NoPid => vpPids'[i] \in Present'
    BY <1>2, <1>3, <1>4, <1>6 DEF TableAgrees
  <2>7. \A i \in (dead + 1)..(vpCount - 1) : vpPids'[i] = NoPid
    BY <1>3, <1>4, <1>6, <2>2 DEF TableAgrees
  <2>8. dead + 1 <= vpCount
    BY <1>3, <1>4 DEF TableType
  <2> QED
    BY <1>3, <2>1, <2>3, <2>5, <2>6, <2>7, <2>8 DEF TableAgrees
<1> QED
  BY <1>2, <1>5, <1>8 DEF PlaceInv

(* A first fork that fails ends the server, or it cuts the table at the    *)
(* places that are filled.                                                 *)
LEMMA ForkFirstFailsKeeps ==
  ASSUME PlaceInv, ForkFirstFails
  PROVE  PlaceInv'
<1>1. /\ watchdog = "starting" /\ dead < vpCount /\ dead' = dead
      /\ vpPids' = vpPids /\ proc' = proc
      /\ \/ watchdog' = "gone" /\ vpCount' = vpCount
         \/ watchdog' = "starting" /\ vpCount' = dead
  BY DEF ForkFirstFails
<1>2. ProcInv' /\ Present' = Present
  BY <1>1 DEF PlaceInv, ProcInv, Present
<1>3. TableType' /\ VpCount \in Nat
  BY <1>1, PoolAssumption DEF PlaceInv, TableType
<1>4. TableAgrees'
  <2>1. CASE watchdog' = "gone"
    BY <2>1 DEF TableAgrees
  <2>2. CASE watchdog' = "starting" /\ vpCount' = dead
    <3>1. /\ Places' = 0..(dead - 1) /\ Places' \subseteq Places
          /\ \A i \in Places : i \notin Places' => i \in dead..(vpCount - 1)
          /\ dead'..(vpCount' - 1) = {}
      BY <1>1, <1>3, <2>2 DEF Places, PlaceInv, TableType
    <3>2. \A i \in Places : i \notin Places' => vpPids[i] = NoPid
      BY <1>1, <3>1 DEF PlaceInv, TableAgrees
    <3>3. \A p \in Present : p # NoPid
      BY ServerAssumption DEF Present
    <3>4. \A p \in Present : \E i \in Places' : vpPids[i] = p
      BY <1>1, <3>2, <3>3 DEF PlaceInv, TableAgrees
    <3> QED
      BY <1>1, <1>2, <1>3, <2>2, <3>1, <3>4 DEF PlaceInv, TableAgrees, TableType
  <2> QED
    BY <1>1, <2>1, <2>2
<1> QED
  BY <1>2, <1>3, <1>4 DEF PlaceInv

(* wait removes a process whose place is found, and only that place names  *)
(* a process that does not exist.                                          *)
LEMMA ReapKeeps ==
  ASSUME PlaceInv, NEW p \in Pid, Reap(p)
  PROVE  PlaceInv'
<1>1. /\ watchdog = "waiting" /\ watchdog' = "reaped"
      /\ proc[p].stage = "zombie" /\ proc' = [proc EXCEPT ![p] = NoProc]
      /\ vpCount' = vpCount /\ vpPids' = vpPids
      /\ dead' = IF Known(p) = {} THEN vpCount ELSE Min(Known(p))
  BY DEF Reap
<1>2. ProcInv' /\ Present' = Present \ {p} /\ p \in Present
  BY <1>1, NoProcTyped DEF PlaceInv, ProcInv, Present
<1>3. PICK i \in Places : vpPids[i] = p
  BY <1>1, <1>2 DEF PlaceInv, TableAgrees
<1>4. Known(p) = {i}
  BY <1>1, <1>3, ServerAssumption DEF PlaceInv, TableAgrees, Known, Places
<1>5. dead' = i /\ i \in Int
  <2>1. i \in Int
    BY <1>3 DEF Places
  <2>2. Min({i}) = i
    BY <2>1 DEF Min
  <2> QED
    BY <1>1, <1>4, <2>1, <2>2
<1>6. Places' = Places /\ i \in 0..VpCount
  BY <1>1, <1>3, PoolAssumption DEF Places, PlaceInv, TableType
<1>7. TableType'
  BY <1>1, <1>5, <1>6 DEF PlaceInv, TableType
<1>8. TableAgrees'
  BY <1>1, <1>2, <1>3, <1>5, <1>6 DEF PlaceInv, TableAgrees
<1> QED
  BY <1>2, <1>7, <1>8 DEF PlaceInv

(* The place that was found gets the new process, or -1 when fork fails.   *)
LEMMA ForkAgainKeeps ==
  ASSUME PlaceInv, ForkAgain \/ ForkAgainFails
  PROVE  PlaceInv'
<1>1. PICK p \in Pid \cup {NoPid} :
        /\ vpPids' = [vpPids EXCEPT ![dead] = p]
        /\ IF p = NoPid THEN proc' = proc ELSE Forked(p, TRUE)
  BY ServerAssumption DEF ForkAgain, ForkAgainFails, PlaceGiven
<1>2. /\ watchdog = "blocked" /\ watchdog' = "waiting"
      /\ vpCount' = vpCount /\ dead' = dead
  BY DEF ForkAgain, ForkAgainFails
<1>3. /\ ProcInv'
      /\ p = NoPid => Present' = Present
      /\ p # NoPid => Present' = Present \cup {p} /\ p \notin Present
  <2>1. CASE p = NoPid
    BY <1>1, <2>1 DEF PlaceInv, ProcInv, Present
  <2>2. CASE p # NoPid
    BY <1>1, <2>2, ForkAdds DEF PlaceInv
  <2> QED
    BY <2>1, <2>2
<1>4. /\ TableType /\ TableAgrees /\ dead \in Places /\ Places \subseteq Index
  BY <1>2, PoolAssumption DEF PlaceInv, TableType, TableAgrees, Places, Index
<1>5. TableType'
  BY <1>1, <1>2, <1>4 DEF TableType
<1>6. \A i \in Places : vpPids'[i] = IF i = dead THEN p ELSE vpPids[i]
  BY <1>1, <1>4 DEF TableType
<1>7. \A i \in Places : i # dead => vpPids[i] = NoPid \/ vpPids[i] \in Present
  BY <1>2, <1>4 DEF TableAgrees
<1>8. TableAgrees'
  <2>1. Places' = Places
    BY <1>2 DEF Places
  <2>2. \A i, j \in Places : vpPids'[i] = vpPids'[j] /\ vpPids'[i] # NoPid => i = j
    BY <1>2, <1>3, <1>4, <1>6, <1>7 DEF TableAgrees
  <2>3. \A q \in Present' : \E i \in Places : vpPids'[i] = q
    <3> SUFFICES ASSUME NEW q \in Present' PROVE \E i \in Places : vpPids'[i] = q
      OBVIOUS
    <3>1. CASE q = p
      BY <1>4, <1>6, <3>1
    <3>2. CASE q # p
      BY <1>2, <1>3, <1>4, <1>6, <3>2 DEF TableAgrees
    <3> QED
      BY <3>1, <3>2
  <2>4. \A i \in Places : vpPids'[i] # NoPid => vpPids'[i] \in Present'
    BY <1>3, <1>6, <1>7
  <2> QED
    BY <1>2, <2>1, <2>2, <2>3, <2>4 DEF TableAgrees
<1> QED
  BY <1>3, <1>5, <1>8 DEF PlaceInv

(* Every step keeps the agreement of table and processes.                  *)
LEMMA PlaceStable ==
  ASSUME PlaceInv, [ServerNext]_serverVars
  PROVE  PlaceInv'
<1>0. ProcInv /\ TableType /\ TableAgrees
  BY DEF PlaceInv
<1>1. ASSUME proc' = proc PROVE ProcInv' /\ Present' = Present
  BY <1>0, <1>1 DEF ProcInv, Present
<1>2. ASSUME NEW p \in Pid, VpStep(p) \/ VpDies(p) \/ ServePool(p)
      PROVE  PlaceInv'
  <2>1. ProcInv' /\ Present' = Present
    BY <1>0, <1>2, VpKeepsPresent
  <2>2. UNCHANGED wdVars
    BY <1>2 DEF VpStep, VpDies, ServePool, InstallSighandlers, StartThreads,
                TakeSignal, ProcessSignals
  <2> QED
    BY <1>0, <2>1, <2>2, TableKept DEF PlaceInv, wdVars
<1>3. ASSUME NEW s \in Signal, WdogSighandler(s)
      PROVE  PlaceInv'
  <2>1. ProcInv' /\ Present' = Present
    BY <1>0, <1>3, ForwardKeepsPresent DEF WdogSighandler
  <2>2. UNCHANGED <<vpCount, vpPids, dead>> /\ watchdog' \in {watchdog, "gone"}
    BY <1>3 DEF WdogSighandler
  <2> QED
    BY <1>0, <2>1, <2>2, TableKept DEF PlaceInv
<1>4. ASSUME \/ KilledEarly \/ WaitFails \/ AllGone \/ UNCHANGED serverVars
             \/ \E s \in Signal : SendSignal(s)
      PROVE  PlaceInv'
  <2>1. proc' = proc
    BY <1>4 DEF KilledEarly, WaitFails, AllGone, SendSignal, serverVars
  <2>2. UNCHANGED <<vpCount, vpPids, dead>> /\ watchdog' \in {watchdog, "gone"}
    BY <1>4 DEF KilledEarly, WaitFails, AllGone, SendSignal, serverVars, wdVars
  <2> QED
    BY <1>0, <1>1, <2>1, <2>2, TableKept DEF PlaceInv
<1>5. CASE InstallWatchdog \/ BlockSignals
  <2>1. /\ UNCHANGED <<vpCount, vpPids, dead>> /\ proc' = proc
        /\ \/ watchdog = "starting" /\ watchdog' = "waiting"
           \/ watchdog = "reaped" /\ watchdog' = "blocked"
    BY <1>5 DEF InstallWatchdog, BlockSignals
  <2>2. ProcInv' /\ Present' = Present
    BY <1>1, <2>1
  <2>3. TableType' /\ Places' = Places
    BY <1>0, <2>1 DEF TableType, Places
  <2>4. TableAgrees'
    BY <1>0, <2>1, <2>2, <2>3 DEF TableAgrees
  <2> QED
    BY <2>2, <2>3, <2>4 DEF PlaceInv
<1>6. CASE \/ ForkFirst \/ ForkFirstFails \/ ForkAgain \/ ForkAgainFails
           \/ \E p \in Pid : Reap(p)
  BY <1>6, ForkFirstKeeps, ForkFirstFailsKeeps, ForkAgainKeeps, ReapKeeps
<1> QED
  BY <1>2, <1>3, <1>4, <1>5, <1>6 DEF ServerNext, WatchdogStep

(* At the start no process has a place, and none exists.                   *)
LEMMA PlaceStart == ServerInit => PlaceInv
<1> SUFFICES ASSUME ServerInit PROVE PlaceInv
  OBVIOUS
<1>1. ProcInv /\ Present = {}
  BY NoProcTyped DEF ServerInit, ProcInv, Present
<1>2. TableType
  BY PoolAssumption DEF ServerInit, TableType
<1>3. TableAgrees
  BY <1>1, PoolAssumption DEF ServerInit, TableAgrees, Places, Index
<1> QED
  BY <1>1, <1>2, <1>3 DEF PlaceInv

(* PlaceFound for every number of processes: start_processes finds the     *)
(* process that wait returns in vp_pids, at its only place, and never      *)
(* writes behind the end of the table, whichever forks fail, processes die *)
(* and signals arrive.                                                     *)
THEOREM PlaceCorrect == ServerSpec => []PlaceFound
<1>1. ServerInit => PlaceInv
  BY PlaceStart
<1>2. PlaceInv /\ [ServerNext]_serverVars => PlaceInv'
  BY PlaceStable
<1>3. PlaceInv => PlaceFound
  BY PlaceInvSuffices
<1> QED
  BY <1>1, <1>2, <1>3, PTL DEF ServerSpec

-----------------------------------------------------------------------------
(* set_thread_throttling leaves every process at least one spare thread.   *)
LEMMA WaitPositive == MaxWait > 0 /\ MinWait > 0
<1>1. VpCount \in Nat \ {0} /\ TotalMax \in Nat /\ TotalMax > 0
  <2>1. FdLimit * VpCount \in Nat /\ SkCount \in Nat \ {0}
    BY PoolAssumption
  <2>2. (FdLimit * VpCount) \div FD_PER_THREAD \in Nat
    BY <2>1 DEF FD_PER_THREAD
  <2>3. ((FdLimit * VpCount) \div FD_PER_THREAD) \div SkCount \in Nat
    BY <2>1, <2>2
  <2> QED
    BY <2>3, PoolAssumption DEF TotalMax
<1>2. TotalWait \in Nat /\ TotalWait > 0
  <2> DEFINE c == IF ConfigWait = 0 THEN MAX_WAIT_THREADS_DEFAULT * VpCount
                                    ELSE ConfigWait
  <2>1. c \in Nat /\ c > 0
    BY PoolAssumption DEF MAX_WAIT_THREADS_DEFAULT
  <2>2. TotalWait = Min({TotalMax, c})
    BY DEF TotalWait
  <2> HIDE DEF c
  <2>3. Min({TotalMax, c}) \in {TotalMax, c}
    BY <1>1, <2>1, MinOfTwo
  <2> QED
    BY <1>1, <2>1, <2>2, <2>3
<1>3. MaxWait > 0
  BY <1>1, <1>2, CeilDivBounds DEF MaxWait
<1>4. MinWait = Min({2, MaxWait}) /\ 2 \in Int /\ MaxWait \in Int
  BY Limits DEF MinWait, MIN_WAIT_THREADS
<1>5. Min({2, MaxWait}) \in {2, MaxWait}
  BY <1>4, MinOfTwo
<1> QED
  BY <1>3, <1>4, <1>5

(* What SpareKept says of the pool of one process.                         *)
Spared(w) ==
  /\ w.new + w.accepting + w.session > 0
  /\ w.wait >= MinWait \/ w.wait + w.busy >= MaxThreads \/ w.failed

(* A thread at the head of the loop that has become a spare one again      *)
(* either goes on or leaves enough spare threads behind.                   *)
LEMMA LoopHeadSpared ==
  ASSUME NEW w \in PoolFields,
         w.wait = w.new + w.accepting + 1,
         w.wait >= MinWait \/ w.wait + w.busy >= MaxThreads \/ w.failed
  PROVE  Spared(LoopHead(w))
<1>1. CASE w.wait <= MaxWait
  <2> DEFINE u == [w EXCEPT !.accepting = @ + 1]
  <2>1. LoopHead(w) = u
    BY <1>1 DEF LoopHead, Stays
  <2>2. /\ u.new = w.new /\ u.accepting = w.accepting + 1 /\ u.wait = w.wait
        /\ u.busy = w.busy /\ u.session = w.session /\ u.failed = w.failed
    BY DEF PoolFields
  <2> HIDE DEF u
  <2> QED
    BY <2>1, <2>2, Limits DEF PoolFields, Spared
<1>2. CASE ~(w.wait <= MaxWait)
  <2> DEFINE u == [w EXCEPT !.wait = @ - 1]
  <2>1. LoopHead(w) = u
    BY <1>2 DEF LoopHead, Stays
  <2>2. /\ u.new = w.new /\ u.accepting = w.accepting /\ u.wait = w.wait - 1
        /\ u.busy = w.busy /\ u.session = w.session
    BY DEF PoolFields
  <2> HIDE DEF u
  <2>3. u.wait >= MinWait /\ u.new + u.accepting >= MaxWait
    BY <1>2, <2>2, Limits DEF PoolFields
  <2> QED
    BY <2>1, <2>2, <2>3, Limits, WaitPositive DEF PoolFields, Spared
<1> QED
  BY <1>1, <1>2

(* The steps of the threads of a process keep its spare threads.           *)
LEMMA PoolStepSpared ==
  ASSUME NEW p \in Pid, PoolInv, PoolStep(p), Spared(pool[p])
  PROVE  Spared(pool'[p]) /\ \A q \in Pid \ {p} : pool'[q] = pool[q]
<1> DEFINE w == pool[p]
<1>a. /\ w \in PoolFields /\ Counted(w) /\ Spared(w)
      /\ pool \in [Pid -> PoolFields]
  BY DEF PoolInv
<1>b. ASSUME NEW v, pool' = [pool EXCEPT ![p] = v]
      PROVE  pool'[p] = v /\ \A q \in Pid \ {p} : pool'[q] = pool[q]
  BY <1>a, <1>b
<1>1. CASE ThreadStarts(p)
  <2> DEFINE u == [w EXCEPT !.new = @ - 1]
  <2>1. w.new > 0 /\ pool' = [pool EXCEPT ![p] = LoopHead(u)]
    BY <1>1 DEF ThreadStarts
  <2>2. /\ u \in PoolFields /\ u.new = w.new - 1 /\ u.accepting = w.accepting
        /\ u.wait = w.wait /\ u.busy = w.busy /\ u.failed = w.failed
    BY <1>a, <2>1 DEF PoolFields
  <2> HIDE DEF u
  <2>3. /\ u.wait = u.new + u.accepting + 1
        /\ u.wait >= MinWait \/ u.wait + u.busy >= MaxThreads \/ u.failed
    BY <1>a, <2>2 DEF PoolFields, Counted, Spared
  <2> QED
    BY <1>b, <2>1, <2>2, <2>3, LoopHeadSpared
<1>2. CASE AcceptFails(p)
  <2> DEFINE u == [w EXCEPT !.accepting = @ - 1]
  <2>1. w.accepting > 0 /\ pool' = [pool EXCEPT ![p] = LoopHead(u)]
    BY <1>2 DEF AcceptFails
  <2>2. /\ u \in PoolFields /\ u.new = w.new /\ u.accepting = w.accepting - 1
        /\ u.wait = w.wait /\ u.busy = w.busy /\ u.failed = w.failed
    BY <1>a, <2>1 DEF PoolFields
  <2> HIDE DEF u
  <2>3. /\ u.wait = u.new + u.accepting + 1
        /\ u.wait >= MinWait \/ u.wait + u.busy >= MaxThreads \/ u.failed
    BY <1>a, <2>2 DEF PoolFields, Counted, Spared
  <2> QED
    BY <1>b, <2>1, <2>2, <2>3, LoopHeadSpared
<1>3. CASE SessionEnds(p)
  <2> DEFINE u == SpareAgain(w)
             f == w.failed /\ w.wait + 1 < MinWait
             s == w.session - 1
             n == w.wait + 1
             b == w.busy - 1
  <2>1. w.session > 0 /\ pool' = [pool EXCEPT ![p] = LoopHead(u)]
    BY <1>3 DEF SessionEnds
  <2>2. u = [w EXCEPT !.session = s, !.wait = n, !.busy = b, !.failed = f]
    BY DEF SpareAgain
  <2>3. f \in BOOLEAN /\ s \in Nat /\ n \in Nat /\ b \in Nat
    BY <1>a, <2>1 DEF PoolFields, Counted
  <2> HIDE DEF f, s, n, b
  <2>4. u \in PoolFields
    BY <1>a, <2>2, <2>3 DEF PoolFields
  <2>5. /\ u.new = w.new /\ u.accepting = w.accepting
        /\ u.wait = n /\ u.busy = b /\ u.failed = f
    BY <1>a, <2>2 DEF PoolFields
  <2> HIDE DEF u
  <2>6. u.wait = u.new + u.accepting + 1
    BY <1>a, <2>5 DEF PoolFields, Counted, n
  <2>7. u.wait >= MinWait \/ u.wait + u.busy >= MaxThreads \/ u.failed
    <3>1. CASE w.wait + 1 >= MinWait
      BY <2>5, <3>1 DEF n
    <3>2. CASE ~(w.wait + 1 >= MinWait) /\ w.failed
      <4>1. f
        BY <1>a, <3>2, Limits DEF f, PoolFields
      <4> QED
        BY <2>5, <4>1
    <3>3. CASE w.wait + w.busy >= MaxThreads
      BY <1>a, <2>5, <3>3, Limits DEF n, b, PoolFields
    <3> QED
      BY <1>a, <3>1, <3>2, <3>3, Limits DEF Spared, PoolFields
  <2> QED
    BY <1>b, <2>1, <2>4, <2>6, <2>7, LoopHeadSpared
<1>4. ASSUME NEW created \in BOOLEAN, Accept(p, created)
      PROVE  Spared(pool'[p]) /\ \A q \in Pid \ {p} : pool'[q] = pool[q]
  <2> DEFINE u == [w EXCEPT !.accepting = @ - 1, !.session = @ + 1,
                            !.wait = @ - 1, !.busy = @ + 1]
             v == IF ~WantsSpare(u) THEN u
                  ELSE IF created THEN [u EXCEPT !.wait = @ + 1, !.new = @ + 1]
                  ELSE [u EXCEPT !.failed = TRUE]
  <2>1. w.accepting > 0 /\ pool' = [pool EXCEPT ![p] = v]
    BY <1>4 DEF Accept
  <2>2. u \in PoolFields /\ Counted(u)
    BY <1>a, <2>1, AcceptCounted
  <2>3. /\ u.session = w.session + 1 /\ u.wait = w.wait - 1
        /\ u.busy = w.busy + 1 /\ u.failed = w.failed
    BY <1>a DEF PoolFields
  <2> HIDE DEF u
  <2>4. Spared(v)
    <3>1. CASE ~WantsSpare(u)
      BY <1>a, <2>2, <2>3, <3>1, Limits DEF WantsSpare, PoolFields, Spared
    <3>2. CASE WantsSpare(u) /\ created
      <4> DEFINE x == [u EXCEPT !.wait = @ + 1, !.new = @ + 1]
      <4>1. v = x
        BY <3>2
      <4>2. /\ x.new = u.new + 1 /\ x.accepting = u.accepting
            /\ x.session = u.session /\ x.wait = u.wait + 1
            /\ x.busy = u.busy /\ x.failed = u.failed
        BY <2>2 DEF PoolFields
      <4> HIDE DEF x, v
      <4> QED
        BY <1>a, <2>2, <2>3, <4>1, <4>2, Limits DEF PoolFields, Spared
    <3>3. CASE WantsSpare(u) /\ ~created
      <4> DEFINE x == [u EXCEPT !.failed = TRUE]
      <4>1. v = x
        BY <3>3
      <4>2. /\ x.new = u.new /\ x.accepting = u.accepting
            /\ x.session = u.session /\ x.failed = TRUE
        BY <2>2 DEF PoolFields
      <4> HIDE DEF x, v
      <4> QED
        BY <1>a, <2>2, <2>3, <4>1, <4>2, Limits DEF PoolFields, Spared
    <3> QED
      BY <3>1, <3>2, <3>3
  <2> HIDE DEF v
  <2> QED
    BY <1>b, <2>1, <2>4
<1> QED
  BY <1>1, <1>2, <1>3, <1>4 DEF PoolStep

(* A pool that could start at least one thread.                            *)
LEMMA StartedSpared ==
  ASSUME NEW n \in 1..MaxWait
  PROVE  Spared(StartedPool(n))
<1> DEFINE u == StartedPool(n)
           f == n < MaxWait
<1>1. u = [NoPool EXCEPT !.wait = n, !.new = n, !.failed = f]
  BY DEF StartedPool
<1>2. f \in BOOLEAN /\ n \in Nat /\ n > 0 /\ (f \/ n >= MinWait)
  BY Limits
<1> HIDE DEF u, f
<1>3. u = [wait |-> n, busy |-> 0, new |-> n, accepting |-> 0, session |-> 0,
           failed |-> f]
  BY <1>1 DEF NoPool
<1>4. /\ u.wait = n /\ u.new = n /\ u.accepting = 0 /\ u.session = 0
      /\ u.failed = f
  BY <1>3
<1>5. u.new + u.accepting + u.session > 0
  BY <1>2, <1>4
<1>6. u.wait >= MinWait \/ u.failed
  BY <1>2, <1>4
<1> QED
  BY <1>5, <1>6 DEF u, Spared

(* The inductive invariant of SpareKept.                                   *)
SpareInv ==
  /\ PlaceInv /\ PoolInv
  /\ \A p \in Pid : proc[p].stage = "serving" => Spared(pool[p])

(* Every step keeps the spare threads of every process that serves.        *)
LEMMA SpareStable ==
  ASSUME SpareInv, [ServerNext]_serverVars
  PROVE  \A p \in Pid : proc'[p].stage = "serving" => Spared(pool'[p])
<1>a. /\ proc \in [Pid -> ProcFields] /\ pool \in [Pid -> PoolFields] /\ PoolInv
      /\ \A p \in Pid : proc[p].stage = "serving" => Spared(pool[p])
  BY DEF SpareInv, PlaceInv, ProcInv, PoolInv
<1>1. ASSUME pool' = pool,
             \A p \in Pid : proc'[p].stage = "serving" => proc[p].stage = "serving"
      PROVE  \A p \in Pid : proc'[p].stage = "serving" => Spared(pool'[p])
  BY <1>a, <1>1
<1>2. ASSUME NEW p \in Pid, NEW x \in Stages, x # "serving", NEW b \in BOOLEAN,
             proc' = [proc EXCEPT ![p] = [NoProc EXCEPT !.stage = x, !.blocked = b]]
      PROVE  \A q \in Pid : proc'[q].stage = "serving" =>
               q # p /\ proc[q].stage = "serving"
  <2> DEFINE n == [NoProc EXCEPT !.stage = x, !.blocked = b]
  <2>1. n.stage = x
    BY DEF NoProc
  <2>2. \A q \in Pid : proc'[q] = IF q = p THEN n ELSE proc[q]
    BY <1>a, <1>2
  <2> HIDE DEF n
  <2> QED
    BY <1>2, <2>1, <2>2
<1>3. ASSUME NEW p \in Pid, Dies(p)
      PROVE  \A q \in Pid : proc'[q].stage = "serving" => Spared(pool'[q])
  <2> DEFINE z == [NoProc EXCEPT !.stage = "zombie"]
  <2>1. /\ z.stage = "zombie"
        /\ \A q \in Pid : proc'[q] = IF q = p THEN z ELSE proc[q]
        /\ \A q \in Pid : q # p => pool'[q] = pool[q]
    BY <1>a, <1>3 DEF Dies, NoProc
  <2> HIDE DEF z
  <2> QED
    BY <1>a, <2>1
<1>4. ASSUME NEW p \in Pid, StartThreads(p)
      PROVE  \A q \in Pid : proc'[q].stage = "serving" => Spared(pool'[q])
  <2>1. PICK n \in 0..MaxWait :
          IF n = 0 THEN Dies(p)
          ELSE /\ pool' = [pool EXCEPT ![p] = StartedPool(n)]
               /\ proc' = [proc EXCEPT ![p].stage = "serving"]
    BY <1>4 DEF StartThreads
  <2>2. CASE n = 0
    BY <1>3, <2>1, <2>2
  <2>3. CASE n # 0
    <3>1. n \in 1..MaxWait
      BY <2>3, Limits
    <3>2. /\ pool'[p] = StartedPool(n)
          /\ \A q \in Pid : q # p => pool'[q] = pool[q] /\ proc'[q] = proc[q]
      BY <1>a, <2>1, <2>3
    <3> QED
      BY <1>a, <3>1, <3>2, StartedSpared
  <2> QED
    BY <2>2, <2>3
<1>5. ASSUME NEW p \in Pid, ServePool(p)
      PROVE  \A q \in Pid : proc'[q].stage = "serving" => Spared(pool'[q])
  <2>1. proc[p].stage = "serving" /\ PoolStep(p) /\ proc' = proc
    BY <1>5 DEF ServePool
  <2>2. Spared(pool'[p]) /\ \A q \in Pid \ {p} : pool'[q] = pool[q]
    BY <1>a, <2>1, PoolStepSpared
  <2> QED
    BY <1>a, <2>1, <2>2
<1>6. ASSUME NEW p \in Pid, InstallSighandlers(p)
      PROVE  \A q \in Pid : proc'[q].stage = "serving" => Spared(pool'[q])
  <2>1. /\ proc' = [proc EXCEPT ![p] = [proc[p] EXCEPT !.stage = "ready",
                                                       !.blocked = FALSE]]
        /\ pool' = pool
    BY <1>6 DEF InstallSighandlers, Unblocked
  <2>2. /\ proc'[p].stage = "ready"
        /\ \A q \in Pid : q # p => proc'[q] = proc[q]
    BY <1>a, <2>1 DEF ProcFields
  <2> QED
    BY <1>a, <2>1, <2>2
<1>7. ASSUME NEW p \in Pid, TakeSignal(p)
      PROVE  \A q \in Pid : proc'[q].stage = "serving" => Spared(pool'[q])
  <2>1. PICK s \in proc[p].pending :
          \/ Dies(p)
          \/ /\ proc' = [proc EXCEPT ![p].pending = @ \ {s},
                                     ![p].pipe = Append(@, s)]
             /\ pool' = pool
    BY <1>7 DEF TakeSignal
  <2>2. CASE Dies(p)
    BY <1>3, <2>2
  <2>3. CASE /\ proc' = [proc EXCEPT ![p].pending = @ \ {s},
                                     ![p].pipe = Append(@, s)]
             /\ pool' = pool
    <3>1. /\ proc'[p].stage = proc[p].stage
          /\ \A q \in Pid : q # p => proc'[q] = proc[q]
      BY <1>a, <2>3 DEF ProcFields
    <3> QED
      BY <1>a, <2>3, <3>1
  <2> QED
    BY <2>1, <2>2, <2>3
<1>8. ASSUME NEW p \in Pid, ProcessSignals(p)
      PROVE  \A q \in Pid : proc'[q].stage = "serving" => Spared(pool'[q])
  <2>1. \/ Dies(p)
        \/ proc' = [proc EXCEPT ![p].pipe = Tail(@)] /\ pool' = pool
    BY <1>8 DEF ProcessSignals
  <2>2. CASE Dies(p)
    BY <1>3, <2>2
  <2>3. CASE proc' = [proc EXCEPT ![p].pipe = Tail(@)] /\ pool' = pool
    <3>1. /\ proc'[p].stage = proc[p].stage
          /\ \A q \in Pid : q # p => proc'[q] = proc[q]
      BY <1>a, <2>3 DEF ProcFields
    <3> QED
      BY <1>a, <2>3, <3>1
  <2> QED
    BY <2>1, <2>2, <2>3
<1>9. ASSUME NEW p \in Pid, Reap(p)
      PROVE  \A q \in Pid : proc'[q].stage = "serving" => Spared(pool'[q])
  <2>1. proc' = [proc EXCEPT ![p] = NoProc] /\ pool' = pool
    BY <1>9 DEF Reap
  <2>2. /\ proc'[p].stage = "none"
        /\ \A q \in Pid : q # p => proc'[q] = proc[q]
    BY <1>a, <2>1, NoProcTyped
  <2> QED
    BY <1>a, <2>1, <2>2
<1>10. ASSUME NEW s \in Signal, WdogSighandler(s)
       PROVE  \A q \in Pid : proc'[q].stage = "serving" => Spared(pool'[q])
  <2>1. proc' = Forwarded(s) /\ pool' = pool
    BY <1>10 DEF WdogSighandler
  <2>2. \A q \in Pid : proc'[q].stage = proc[q].stage
    BY <1>a, <2>1 DEF Forwarded, ProcFields
  <2> QED
    BY <1>a, <2>1, <2>2
<1>11. ASSUME NEW p \in Pid, NEW b \in BOOLEAN, Forked(p, b), pool' = pool
       PROVE  \A q \in Pid : proc'[q].stage = "serving" => Spared(pool'[q])
  <2>1. proc' = [proc EXCEPT ![p] = [NoProc EXCEPT !.stage = "forked",
                                                   !.blocked = b]]
    BY <1>11 DEF Forked
  <2>2. \A q \in Pid : proc'[q].stage = "serving" => proc[q].stage = "serving"
    BY <1>2, <2>1 DEF Stages
  <2> QED
    BY <1>1, <1>11, <2>2
<1>12. CASE ForkFirst \/ ForkAgain
  BY <1>11, <1>12 DEF ForkFirst, ForkAgain
<1>13. CASE \/ ForkFirstFails \/ InstallWatchdog \/ WaitFails \/ BlockSignals
            \/ ForkAgainFails \/ KilledEarly \/ AllGone \/ UNCHANGED serverVars
            \/ \E s \in Signal : SendSignal(s)
  <2>1. proc' = proc /\ pool' = pool
    BY <1>13 DEF ForkFirstFails, InstallWatchdog, WaitFails, BlockSignals,
       ForkAgainFails, KilledEarly, AllGone, SendSignal, serverVars
  <2> QED
    BY <1>a, <2>1
<1>14. ASSUME NEW p \in Pid, VpDies(p)
       PROVE  \A q \in Pid : proc'[q].stage = "serving" => Spared(pool'[q])
  BY <1>3, <1>14 DEF VpDies
<1> QED
  BY <1>4, <1>5, <1>6, <1>7, <1>8, <1>9, <1>10, <1>12, <1>13, <1>14
     DEF ServerNext, WatchdogStep, VpStep

(* SpareKept for every number of processes and every setting of the        *)
(* limits: handle_connections never lets the last thread of a pool go, and *)
(* whenever it is short of spare threads the process has all it may have   *)
(* or a thread could not be created.                                       *)
THEOREM SpareCorrect == ServerSpec => []SpareKept
<1>1. ServerInit => SpareInv
  <2>1. ServerInit => PlaceInv
    BY PlaceStart
  <2>2. ServerInit => PoolInv
    BY NoPoolCounted DEF ServerInit, PoolInv
  <2>3. ServerInit => \A p \in Pid : proc[p].stage = "none"
    BY NoProcTyped DEF ServerInit
  <2> QED
    BY <2>1, <2>2, <2>3 DEF SpareInv
<1>2. SpareInv /\ [ServerNext]_serverVars => SpareInv'
  <2> SUFFICES ASSUME SpareInv, [ServerNext]_serverVars PROVE SpareInv'
    OBVIOUS
  <2>1. PlaceInv' /\ PoolInv'
    BY PlaceStable, PoolStable DEF SpareInv
  <2>2. \A p \in Pid : proc'[p].stage = "serving" => Spared(pool'[p])
    BY SpareStable
  <2> QED
    BY <2>1, <2>2 DEF SpareInv, Spared
<1>3. SpareInv => SpareKept
  BY DEF SpareInv, SpareKept, Spared
<1> QED
  BY <1>1, <1>2, <1>3, PTL DEF ServerSpec
=============================================================================
