----------------------------- MODULE NetIoProofs -----------------------------
(***************************************************************************)
(* Proofs about socket I/O on the scheduler for any sets of threads,       *)
(* descriptors, groups and requests, any timeouts and any movement of the  *)
(* clock.  The threads end by returning from their start function, and the *)
(* native fiber does not call st_idle_thread_run: with it a thread whose   *)
(* request is still on the ioq after a timeout can be notified and put on  *)
(* the run queue a second time.                                            *)
(***************************************************************************)
EXTENDS NetIo, SyncProofs

-----------------------------------------------------------------------------
(* The inductive invariant of NetIo.  First the variables of the I/O layer *)
(* by themselves.                                                          *)
Transfers == [chan : Chan, left : Int, timeout : Timeouts \cup {NULL}]
Queued    == {t \in Thread : onIoq[t]}

IoQueue ==
  /\ IoTypeOK
  /\ call \in [Thread -> Transfers \cup {NULL}]
  /\ Ring(ioLinks, IOQ, {IOQ} \cup Queued)
  /\ IsFiniteSet(Queued)
  /\ CountsExact
  /\ \A t \in Queued : \A c \in pds[t] : c[1] \in opened

(* The scheduler's part of the types.  Nobody waits for a condition        *)
(* variable or a mutex.                                                    *)
IoTypes ==
  /\ state \in [Slot -> States]
  /\ flags \in [Slot -> SUBSET Flags]
  /\ sleepq \in SUBSET Thread
  /\ links \in ListState(Node)
  /\ current \in Slot \cup {NULL}
  /\ fiber \in Slot \cup {MAIN, EXITED}
  /\ pc \in [Slot \cup {MAIN} ->
               {"setup", "loop", "select", "notify", "clock", "expire", "run",
                "io", "connect", "poll", "iopoll", "exit", "exited", "dead"}]
  /\ iter = NULL
  /\ term \in [Slot -> {NULL}]
  /\ obj \in [Slot -> {NULL}]

(* What the place a thread's fiber is at says of its state and of its      *)
(* request.                                                                *)
ThreadIo(t) ==
  /\ fiber = t => state[t] \in {"RUNNING", "ZOMBIE"}
  /\ state[t] = "RUNNING" => fiber \in {t, EXITED}
  /\ pc[t] \in {"run", "io", "connect", "poll", "iopoll", "exit", "exited", "dead"}
  /\ pc[t] = "run" => state[t] \in {"UNUSED", "SLEEPING", "SUSPENDED"} \cup Awake
  /\ Polling(t) => state[t] \in {"IO_WAIT"} \cup Awake
  /\ pc[t] \in {"io", "connect", "exit"} => fiber = t /\ state[t] = "RUNNING"
  /\ pc[t] = "exited" => fiber = t /\ state[t] = "ZOMBIE"
  /\ pc[t] = "dead" => state[t] = "ZOMBIE"
  /\ pc[t] \in {"io", "iopoll"} => call[t] \in Transfers
  /\ onIoq[t] => Polling(t)

(* What holds of the fibers that are not threads.                          *)
OtherIo ==
  /\ pc[MAIN] \in {"setup", "loop"}
  /\ pc[Idle] \in {"loop", "select", "notify", "clock", "expire", "exit",
                   "exited", "dead"}
  /\ pc[Idle] = "exited" => state[Idle] = "ZOMBIE"
  /\ fiber # Idle => pc[Idle] \in {"loop", "dead"}
  /\ fiber \in Slot => current = fiber
  /\ fiber = MAIN => current = NULL \/ state[current] = "ZOMBIE"
  /\ pc[MAIN] = "setup" => fiber = MAIN /\ current = NULL

(* Timeouts: the flag tells the truth, and every st_poll has one.          *)
IoTimers ==
  /\ \A t \in Thread : t \in sleepq <=> "ON_SLEEPQ" \in flags[t]
  /\ IoWaitWoken

(* The idle thread runs only when the run queue is empty, so a request it  *)
(* meets in the loops of _st_select_dispatch belongs to a thread that is   *)
(* still blocked; its loop variable is on the ioq.                         *)
Dispatching == fiber = Idle /\ pc[Idle] \in {"loop", "select", "notify"}
Attentive ==
  /\ Dispatching => \A t \in Thread : onIoq[t] => state[t] = "IO_WAIT"
  /\ Dispatching /\ pc[Idle] = "notify" => qIo \in {IOQ} \cup Queued

IoCtl == IoTypes /\ (\A t \in Thread : ThreadIo(t)) /\ OtherIo /\ IoTimers
         /\ Attentive

IoInv == IoQueue /\ IoCtl /\ RunqWellFormed

(* The heads, the link fields and the channels are different things.       *)
LEMMA IoNodes ==
  /\ NULL \notin INode /\ IOQ \in INode /\ IOQ \notin Thread
  /\ Thread \subseteq INode
BY VProcAssumption, NetIoAssumption DEF INode, Node, Slot

(* When _st_vp_schedule takes the idle thread, the run queue is empty.     *)
LEMMA IdleLast ==
  ASSUME links \in ListState(Node), NEW STATE st, st \in [Slot -> States],
         current \in Slot \cup {NULL},
         current \in Thread => st[current] # "RUNNABLE",
         Ring(links, RUNQ, {RUNQ} \cup RunnableIn(st)),
         VpSchedule(links, st), fiber' = Idle
  PROVE  \A t \in Thread : state'[t] = st[t] /\ st[t] # "RUNNABLE"
<1> DEFINE head == links.next[RUNQ]
           Q == {RUNQ} \cup RunnableIn(st)
<1>1. RUNQ \in Q /\ head \in Q
  BY DEF Ring, Circular
<1>2. head = RUNQ
  <2> SUFFICES ASSUME head # RUNQ PROVE FALSE
    OBVIOUS
  <2>1. head \in Thread /\ st[head] = "RUNNABLE" /\ head # current /\ head # Idle
    BY <1>1, NodeFacts DEF RunnableIn
  <2> QED
    BY <2>1, NodeFacts DEF VpSchedule
<1>3. Q = {RUNQ}
  BY <1>1, <1>2 DEF Ring
<1>4. RunnableIn(st) = {}
  BY <1>3, NodeFacts DEF RunnableIn
<1>5. state' = [st EXCEPT ![Idle] = "RUNNING"]
  BY <1>2 DEF VpSchedule
<1> QED
  BY <1>4, <1>5, NodeFacts DEF RunnableIn

(* A running thread that blocks in state `new`: what BlockRunq says, and   *)
(* that every thread with a request is blocked when the idle thread is     *)
(* taken.                                                                  *)
LEMMA BlockIo ==
  ASSUME links \in ListState(Node), state \in [Slot -> States],
         RunqWellFormed, current \in Thread, state[current] = "RUNNING",
         NEW new \in States \ {"RUNNABLE"},
         VpSchedule(links, [state EXCEPT ![current] = new])
  PROVE  fiber' = Idle => \A t \in Thread : state'[t] # "RUNNABLE"
<1> DEFINE st == [state EXCEPT ![current] = new]
<1>1. st \in [Slot -> States] /\ st[current] # "RUNNABLE"
  BY NodeFacts
<1>2. RunnableIn(st) = Runnable
  BY NodeFacts DEF RunnableIn, Runnable
<1>3. Ring(links, RUNQ, {RUNQ} \cup RunnableIn(st))
  BY <1>2 DEF RunqWellFormed
<1> HIDE DEF st
<1>4. VpSchedule(links, st)
  BY DEF st
<1>5. fiber' = Idle => \A t \in Thread : state'[t] = st[t] /\ st[t] # "RUNNABLE"
  BY <1>1, <1>3, <1>4, NodeFacts, IdleLast
<1> QED
  BY <1>5

(* The same for a fiber that is not a thread.                              *)
LEMMA PassIo ==
  ASSUME links \in ListState(Node), state \in [Slot -> States],
         RunqWellFormed, current \in Slot \cup {NULL},
         current \in Thread => state[current] # "RUNNABLE",
         NEW new \in States,
         VpSchedule(links, [state EXCEPT ![Idle] = new])
  PROVE  fiber' = Idle => \A t \in Thread : state'[t] # "RUNNABLE"
<1> DEFINE st == [state EXCEPT ![Idle] = new]
<1>1. st \in [Slot -> States] /\ (current \in Thread => st[current] # "RUNNABLE")
  BY NodeFacts
<1>2. RunnableIn(st) = Runnable
  BY NodeFacts DEF RunnableIn, Runnable
<1>3. Ring(links, RUNQ, {RUNQ} \cup RunnableIn(st))
  BY <1>2 DEF RunqWellFormed
<1> HIDE DEF st
<1>4. VpSchedule(links, st)
  BY DEF st
<1>5. fiber' = Idle => \A t \in Thread : state'[t] = st[t] /\ st[t] # "RUNNABLE"
  BY <1>1, <1>3, <1>4, NodeFacts, IdleLast
<1> QED
  BY <1>5

(* A step that leaves the I/O layer alone keeps its part.                  *)
LEMMA QueueSame ==
  ASSUME IoQueue, UNCHANGED ioVars
  PROVE  /\ IoQueue'
         /\ onIoq' = onIoq /\ qIo' = qIo /\ call' = call /\ Queued' = Queued
<1>1. /\ UNCHANGED <<ioLinks, onIoq, pds, revents>>
      /\ UNCHANGED <<cnt, fdset, maxfd, leak, grp, qIo>>
      /\ UNCHANGED <<opened, ready, call>>
  BY DEF ioVars, pollVars, selVars, loopVars, osVars
<1>2. Queued' = Queued
  BY <1>1 DEF Queued
<1>3. IoTypeOK'
  BY <1>1 DEF IoQueue, IoTypeOK
<1>4. CountsExact'
  BY <1>1 DEF IoQueue, CountsExact
<1> QED
  BY <1>1, <1>2, <1>3, <1>4 DEF IoQueue

-----------------------------------------------------------------------------
(* The steps of the virtual processor keep the invariant.                  *)
LEMMA VpIoInv ==
  ASSUME MainKind # "idle_run", IoInv, VpIoStep
  PROVE  IoCtl' /\ RunqWellFormed'
<1> USE NodeFacts, VProcAssumption DEF IoInv, IoCtl, IoTypes, ThreadIo, OtherIo,
      IoTimers, IoWaitWoken, Dispatching, Attentive, Awake, Polling, runVars,
      timeVars, lifeVars, syncVars, waitVars, lockVars, joinVars
<1>0. /\ UNCHANGED <<iter, obj>>
      /\ onIoq' = onIoq /\ qIo' = qIo /\ call' = call /\ Queued' = Queued
  BY QueueSame DEF VpIoStep
<1>1. ASSUME NEW d \in Timeouts, StUsleep(d)
      PROVE  IoCtl' /\ RunqWellFormed'
  <2>1. /\ current = fiber /\ fiber \in Thread
        /\ state[current] = "RUNNING" /\ pc[current] = "run"
    BY <1>1 DEF StUsleep, InUserCode
  <2>2. /\ VpSchedule(links, [state EXCEPT ![current] = "SLEEPING"])
        /\ AddSleepQ(current, d)
        /\ UNCHANGED <<lifeVars, pc>>
    BY <1>1, <2>1 DEF StUsleep, UsleepBlock
  <2>3. /\ links' \in ListState(Node)
        /\ RunqWellFormed'
        /\ fiber' \in Slot /\ current' = fiber' /\ fiber' # current
        /\ fiber' # Idle => fiber' \in Thread /\ state[fiber'] = "RUNNABLE"
        /\ state' = [[state EXCEPT ![current] = "SLEEPING"] EXCEPT ![fiber'] = "RUNNING"]
        /\ state' \in [Slot -> States]
    BY <2>1, <2>2, BlockRunq DEF States
  <2>4. fiber' = Idle => \A t \in Thread : state'[t] # "RUNNABLE"
    BY <2>1, <2>2, BlockIo DEF States
  <2> QED
    <3>1. IoTypes'
      BY <1>0, <2>1, <2>2, <2>3 DEF AddSleepQ, Flags
    <3>2. \A t \in Thread : ThreadIo(t)'
      BY <1>0, <2>1, <2>2, <2>3 DEF AddSleepQ
    <3>3. OtherIo'
      BY <1>0, <2>1, <2>2, <2>3
    <3>4. IoTimers'
      BY <1>0, <2>1, <2>2, <2>3 DEF AddSleepQ
    <3>5. Attentive'
      BY <1>0, <2>1, <2>2, <2>3, <2>4, <3>2
    <3> QED
      BY <2>3, <3>1, <3>2, <3>3, <3>4, <3>5
<1>2. ASSUME NEW d \in Timeouts, MainUsleep(d)
      PROVE  IoCtl' /\ RunqWellFormed'
  <2>1. VpSchedule(links, state) /\ UNCHANGED <<timeVars, lifeVars, pc>>
        /\ fiber = MAIN /\ pc[MAIN] = "loop"
    BY <1>2 DEF MainUsleep, UsleepBlock
  <2>2. state = [state EXCEPT ![Idle] = state[Idle]] /\ state[Idle] \in States
    OBVIOUS
  <2>3. /\ links' \in ListState(Node)
        /\ RunqWellFormed'
        /\ fiber' \in Slot /\ current' = fiber'
        /\ fiber' # Idle => fiber' \in Thread /\ state[fiber'] = "RUNNABLE"
        /\ \A t \in Thread : state'[t] = IF t = fiber' THEN "RUNNING" ELSE state[t]
        /\ state' \in [Slot -> States]
    BY <2>1, <2>2, PassRunq
  <2>4. fiber' = Idle => \A t \in Thread : state'[t] # "RUNNABLE"
    BY <2>1, <2>2, PassIo
  <2> QED
    <3>1. IoTypes'
      BY <1>0, <2>1, <2>3, <2>4
    <3>2. \A x \in Thread : ThreadIo(x)'
      BY <1>0, <2>1, <2>3, <2>4
    <3>3. OtherIo'
      BY <1>0, <2>1, <2>3, <2>4
    <3>4. IoTimers'
      BY <1>0, <2>1, <2>3, <2>4
    <3>5. Attentive'
      BY <1>0, <2>1, <2>3, <2>4, <3>2
    <3> QED
      BY <2>3, <3>1, <3>2, <3>3, <3>4, <3>5
<1>3. CASE StSuspend
  <2>1. /\ current = fiber /\ fiber \in Thread
        /\ state[current] = "RUNNING" /\ pc[current] = "run"
    BY <1>3 DEF StSuspend, InUserCode
  <2>2. /\ VpSchedule(links, [state EXCEPT ![current] = "SUSPENDED"])
        /\ UNCHANGED <<timeVars, lifeVars, pc>>
    BY <1>3, <2>1 DEF StSuspend
  <2>3. /\ links' \in ListState(Node)
        /\ RunqWellFormed'
        /\ fiber' \in Slot /\ current' = fiber' /\ fiber' # current
        /\ fiber' # Idle => fiber' \in Thread /\ state[fiber'] = "RUNNABLE"
        /\ state' = [[state EXCEPT ![current] = "SUSPENDED"] EXCEPT ![fiber'] = "RUNNING"]
        /\ state' \in [Slot -> States]
    BY <2>1, <2>2, BlockRunq DEF States
  <2>4. fiber' = Idle => \A t \in Thread : state'[t] # "RUNNABLE"
    BY <2>1, <2>2, BlockIo DEF States
  <2> QED
    <3>1. IoTypes'
      BY <1>0, <2>1, <2>2, <2>3, <2>4
    <3>2. \A x \in Thread : ThreadIo(x)'
      BY <1>0, <2>1, <2>2, <2>3, <2>4
    <3>3. OtherIo'
      BY <1>0, <2>1, <2>2, <2>3, <2>4
    <3>4. IoTimers'
      BY <1>0, <2>1, <2>2, <2>3, <2>4
    <3>5. Attentive'
      BY <1>0, <2>1, <2>2, <2>3, <2>4, <3>2
    <3> QED
      BY <2>3, <3>1, <3>2, <3>3, <3>4, <3>5
<1>4. CASE BlockingCallEINTR
  <2>1. RunqWellFormed'
    BY <1>4, RunqSame DEF BlockingCallEINTR, ReturnEINTR, Runnable
  <2> QED
    BY <1>0, <1>4, <2>1 DEF BlockingCallEINTR, ReturnEINTR, InUserCode
<1>5. ASSUME NEW t \in Thread, StThreadInterrupt(t)
      PROVE  IoCtl' /\ RunqWellFormed'
  <2>1. CASE state[t] \in {"RUNNING", "RUNNABLE"}
    <3>1. RunqWellFormed'
      BY <1>5, <2>1, RunqSame DEF StThreadInterrupt, Interruptible, NotBlocked, Runnable
    <3> QED
      BY <1>0, <1>5, <2>1, <3>1 DEF StThreadInterrupt, Interruptible, NotBlocked, Flags
  <2>2. CASE state[t] \notin {"RUNNING", "RUNNABLE"}
    <3>1. WakeUp(t, {"INTERRUPT"}) /\ UNCHANGED <<lifeVars, current, fiber, pc>>
      BY <1>5, <2>2 DEF StThreadInterrupt, Interruptible, NotBlocked
    <3>2. /\ links' \in ListState(Node)
          /\ RunqWellFormed'
          /\ state' = [state EXCEPT ![t] = "RUNNABLE"]
          /\ state' \in [Slot -> States]
      BY <2>2, <3>1, MakeRunnableRunq DEF WakeUp
    <3>3. /\ t # fiber /\ current # t /\ fiber \in Thread
          /\ state[t] \notin {"UNUSED", "ZOMBIE"}
      BY <1>5, <2>2 DEF StThreadInterrupt, Interruptible, NotBlocked, InUserCode
    <3>4. /\ flags' = [flags EXCEPT ![t] = (@ \cup {"INTERRUPT"}) \ {"ON_SLEEPQ"}]
          /\ sleepq' = sleepq \ {t}
      BY <3>1 DEF WakeUp, DelSleepQ
    <3> QED
      <4>1. IoTypes'
        BY <1>0, <2>2, <3>1, <3>2, <3>3, <3>4 DEF Flags
      <4>2. \A x \in Thread : ThreadIo(x)'
        BY <1>0, <2>2, <3>1, <3>2, <3>3, <3>4 DEF Flags
      <4>3. OtherIo'
        BY <1>0, <2>2, <3>1, <3>2, <3>3, <3>4 DEF Flags
      <4>4. IoTimers'
        BY <1>0, <2>2, <3>1, <3>2, <3>3, <3>4 DEF Flags
      <4>5. Attentive'
        BY <1>0, <2>2, <3>1, <3>2, <3>3, <3>4, <4>2 DEF Flags
      <4> QED
        BY <3>2, <4>1, <4>2, <4>3, <4>4, <4>5
  <2> QED
    BY <2>1, <2>2
<1>6. ASSUME NEW e \in Elapsed, CheckClock(e)
      PROVE  IoCtl' /\ RunqWellFormed'
  <2>1. RunqWellFormed'
    BY <1>6, RunqSame DEF CheckClock, ChecksClock, Runnable
  <2> QED
    BY <1>0, <1>6, <2>1 DEF CheckClock, ChecksClock
<1>7. ASSUME NEW t \in Thread, ExpireOne(t)
      PROVE  IoCtl' /\ RunqWellFormed'
  <2>1. /\ state[t] \in {"SLEEPING", "IO_WAIT"} /\ t # fiber /\ current # t
        /\ fiber = Idle /\ pc[Idle] = "expire"
    BY <1>7 DEF ExpireOne, ChecksClock
  <2>2. /\ links' \in ListState(Node)
        /\ RunqWellFormed'
        /\ state' = [state EXCEPT ![t] = "RUNNABLE"]
        /\ state' \in [Slot -> States]
    BY <1>7, <2>1, MakeRunnableRunq DEF ExpireOne
  <2>3. /\ flags' = [flags EXCEPT ![t] = @ \ {"ON_SLEEPQ"}]
        /\ sleepq' = sleepq \ {t}
        /\ UNCHANGED <<lifeVars, current, fiber, pc>>
    BY <1>7, <2>1 DEF ExpireOne, DelSleepQ
  <2> QED
    <3>1. IoTypes'
      BY <1>0, <2>1, <2>2, <2>3 DEF Flags
    <3>2. \A x \in Thread : ThreadIo(x)'
      BY <1>0, <2>1, <2>2, <2>3 DEF Flags
    <3>3. OtherIo'
      BY <1>0, <2>1, <2>2, <2>3 DEF Flags
    <3>4. IoTimers'
      BY <1>0, <2>1, <2>2, <2>3 DEF Flags
    <3>5. Attentive'
      BY <1>0, <2>1, <2>2, <2>3, <3>2 DEF Flags
    <3> QED
      BY <2>2, <3>1, <3>2, <3>3, <3>4, <3>5
<1>8. CASE IdleSchedule
  <2> DEFINE new == IF state[Idle] = "ZOMBIE" THEN "ZOMBIE" ELSE "RUNNABLE"
  <2>1. fiber = Idle /\ current = Idle /\ new \in States /\ pc[Idle] = "expire"
    BY <1>8 DEF IdleSchedule, States
  <2>2. CASE active > 0
    <3>1. VpSchedule(links, [state EXCEPT ![Idle] = new])
          /\ pc' = [pc EXCEPT ![Idle] = "loop"] /\ UNCHANGED <<timeVars, lifeVars>>
      BY <1>8, <2>2 DEF IdleSchedule
    <3> HIDE DEF new
    <3>2. /\ links' \in ListState(Node)
          /\ RunqWellFormed'
          /\ fiber' \in Slot /\ current' = fiber'
          /\ fiber' # Idle => fiber' \in Thread /\ state[fiber'] = "RUNNABLE"
          /\ \A t \in Thread : state'[t] = IF t = fiber' THEN "RUNNING" ELSE state[t]
          /\ state' \in [Slot -> States]
      BY <2>1, <3>1, PassRunq
    <3>3. fiber' = Idle => \A t \in Thread : state'[t] # "RUNNABLE"
      BY <2>1, <3>1, PassIo
    <3> QED
      <4>1. IoTypes'
        BY <1>0, <2>1, <3>1, <3>2, <3>3
      <4>2. \A x \in Thread : ThreadIo(x)'
        BY <1>0, <2>1, <3>1, <3>2, <3>3
      <4>3. OtherIo'
        BY <1>0, <2>1, <3>1, <3>2, <3>3
      <4>4. IoTimers'
        BY <1>0, <2>1, <3>1, <3>2, <3>3
      <4>5. Attentive'
        BY <1>0, <2>1, <3>1, <3>2, <3>3, <4>2
      <4> QED
        BY <3>2, <4>1, <4>2, <4>3, <4>4, <4>5
  <2>3. CASE ~(active > 0)
    <3>1. state' = [state EXCEPT ![Idle] = new] /\ pc' = [pc EXCEPT ![Idle] = "exit"]
          /\ UNCHANGED <<links, current, fiber, timeVars, lifeVars>>
      BY <1>8, <2>3 DEF IdleSchedule
    <3> HIDE DEF new
    <3>2. RunqWellFormed'
      BY <2>1, <3>1, RunqSame DEF Runnable
    <3> QED
      BY <1>0, <2>1, <3>1, <3>2
  <2> QED
    BY <2>2, <2>3
<1>9. CASE IdleReturns
  <2>1. RunqWellFormed'
    BY <1>9, RunqSame DEF IdleReturns, Runnable
  <2> QED
    BY <1>0, <1>9, <2>1 DEF IdleReturns
<1>10. ~MainSchedule
  BY DEF MainSchedule
<1>11. CASE MainStart
  <2>1. RunqWellFormed'
    BY <1>11, RunqSame DEF MainStart, Runnable
  <2> QED
    BY <1>0, <1>11, <2>1 DEF MainStart
<1>12. CASE MainReturns
  <2>1. RunqWellFormed'
    BY <1>12, RunqSame DEF MainReturns, Runnable
  <2> QED
    BY <1>0, <1>12, <2>1 DEF MainReturns
<1>13. CASE DeadFiberResumed
  <2>1. RunqWellFormed'
    BY <1>13, RunqSame DEF DeadFiberResumed, Runnable
  <2> QED
    BY <1>0, <1>13, <2>1 DEF DeadFiberResumed
<1>14. CASE CreateOverLiveThread
  <2>1. RunqWellFormed'
    BY <1>14, RunqSame DEF CreateOverLiveThread, Runnable
  <2> QED
    BY <1>0, <1>14, <2>1 DEF CreateOverLiveThread, InUserCode
<1> HIDE DEF IoInv, IoCtl
<1> QED
  BY <1>1, <1>2, <1>3, <1>4, <1>5, <1>6, <1>7, <1>8, <1>9, <1>10,
     <1>11, <1>12, <1>13, <1>14 DEF VpIoStep, VpNext

-----------------------------------------------------------------------------
(* So do the creation and the end of a thread.                             *)
LEMMA LifeIoInv ==
  ASSUME ExplicitExit = FALSE, IoInv, LifeIoStep
  PROVE  IoCtl' /\ RunqWellFormed'
<1> USE NodeFacts, VProcAssumption DEF IoInv, IoCtl, IoTypes, ThreadIo, OtherIo,
      IoTimers, IoWaitWoken, Dispatching, Attentive, Awake, Polling, runVars,
      timeVars, lifeVars, syncVars, waitVars, lockVars, joinVars, GoTo
<1>0. onIoq' = onIoq /\ qIo' = qIo /\ call' = call /\ Queued' = Queued
  BY QueueSame DEF LifeIoStep
<1>1. ASSUME NEW t \in Thread, Create(t, FALSE)
      PROVE  IoCtl' /\ RunqWellFormed'
  <2>1. /\ StThreadCreate(t, NULL)
        /\ obj' = [obj EXCEPT ![t] = NULL]
        /\ UNCHANGED iter
    BY <1>1 DEF Create
  <2>2. /\ state[t] \in {"UNUSED", "ZOMBIE"} /\ t # fiber /\ current # t
        /\ pc[t] \in {"run", "dead"} /\ t \notin sleepq
        /\ \/ fiber \in Thread
           \/ fiber = MAIN /\ current = NULL
    BY <2>1 DEF StThreadCreate, InUserCode
  <2>3. /\ MakeRunnable(t)
        /\ flags' = [flags EXCEPT ![t] = {}]
        /\ term' = [term EXCEPT ![t] = NULL]
        /\ pc' = [pc EXCEPT ![t] = "run"]
        /\ UNCHANGED <<sleepq, current, fiber>>
    BY <2>1 DEF StThreadCreate, MakeRunnable
  <2>4. /\ links' \in ListState(Node)
        /\ RunqWellFormed'
        /\ state' = [state EXCEPT ![t] = "RUNNABLE"]
        /\ state' \in [Slot -> States]
    BY <2>2, <2>3, MakeRunnableRunq
  <2> QED
    <3>1. IoTypes'
      BY <1>0, <2>1, <2>2, <2>3, <2>4
    <3>2. \A x \in Thread : ThreadIo(x)'
      BY <1>0, <2>1, <2>2, <2>3, <2>4
    <3>3. OtherIo'
      BY <1>0, <2>1, <2>2, <2>3, <2>4
    <3>4. IoTimers'
      BY <1>0, <2>1, <2>2, <2>3, <2>4
    <3>5. Attentive'
      BY <1>0, <2>1, <2>2, <2>3, <2>4, <3>2
    <3> QED
      BY <2>4, <3>1, <3>2, <3>3, <3>4, <3>5
<1>2. CASE EndOfThread
  <2>1. RunqWellFormed'
    BY <1>2, RunqSame DEF EndOfThread, Runnable
  <2>2. /\ fiber \in Thread /\ pc[fiber] = "run" /\ pc' = [pc EXCEPT ![fiber] = "exit"]
        /\ UNCHANGED <<runVars, timeVars, lifeVars, iter, obj>>
    BY <1>2 DEF EndOfThread, InUserCode
  <2> QED
    <3>1. IoTypes'
      BY <1>0, <2>2
    <3>2. \A x \in Thread : ThreadIo(x)'
      BY <1>0, <2>2
    <3>3. OtherIo'
      BY <1>0, <2>2
    <3>4. IoTimers'
      BY <1>0, <2>2
    <3>5. Attentive'
      BY <1>0, <2>2, <3>2
    <3> QED
      BY <2>1, <3>1, <3>2, <3>3, <3>4, <3>5
<1>3. CASE ExitBegin
  <2>1. /\ current = fiber /\ fiber \in Slot /\ term[current] = NULL
        /\ pc[fiber] = "exit"
    BY <1>3 DEF ExitBegin, Slot
  <2>2. /\ state' = [state EXCEPT ![fiber] = "ZOMBIE"]
        /\ obj' = [obj EXCEPT ![fiber] = NULL]
        /\ pc' = [pc EXCEPT ![fiber] = "exited"]
        /\ UNCHANGED <<timeVars, term, current, fiber, links, iter>>
    BY <1>3, <2>1 DEF ExitBegin
  <2>3. RunqWellFormed'
    BY <2>1, <2>2, RunqSame DEF Runnable, Slot
  <2> QED
    <3>1. IoTypes'
      BY <1>0, <2>1, <2>2 DEF States, Slot
    <3>2. \A x \in Thread : ThreadIo(x)'
      BY <1>0, <2>1, <2>2 DEF States, Slot
    <3>3. OtherIo'
      BY <1>0, <2>1, <2>2 DEF States, Slot
    <3>4. IoTimers'
      BY <1>0, <2>1, <2>2 DEF States, Slot
    <3>5. Attentive'
      BY <1>0, <2>1, <2>2, <3>2 DEF States, Slot
    <3> QED
      BY <2>3, <3>1, <3>2, <3>3, <3>4, <3>5
<1>4. CASE ExitEnd
  <2>1. /\ current = fiber /\ fiber \in Slot /\ pc[fiber] = "exited"
        /\ state[fiber] = "ZOMBIE"
    BY <1>4 DEF ExitEnd, Slot
  <2>2. /\ term' = [term EXCEPT ![fiber] = NULL]
        /\ obj' = [obj EXCEPT ![fiber] = NULL]
        /\ iter' = NULL
        /\ pc' = [pc EXCEPT ![fiber] = "dead"] /\ fiber' = MAIN
        /\ UNCHANGED <<timeVars, state, links, current>>
    BY <1>4, <2>1 DEF ExitEnd
  <2>3. RunqWellFormed'
    BY <2>2, RunqSame DEF Runnable
  <2> QED
    <3>1. IoTypes'
      BY <1>0, <2>1, <2>2 DEF Slot
    <3>2. \A x \in Thread : ThreadIo(x)'
      BY <1>0, <2>1, <2>2 DEF Slot
    <3>3. OtherIo'
      BY <1>0, <2>1, <2>2 DEF Slot
    <3>4. IoTimers'
      BY <1>0, <2>1, <2>2 DEF Slot
    <3>5. Attentive'
      BY <1>0, <2>1, <2>2, <3>2 DEF Slot
    <3> QED
      BY <2>3, <3>1, <3>2, <3>3, <3>4, <3>5
<1> HIDE DEF IoInv, IoCtl
<1> QED
  BY <1>1, <1>2, <1>3, <1>4 DEF LifeIoStep

-----------------------------------------------------------------------------
(* The threads whose queued request has channel c.                         *)
Pollers(c) == {t \in Thread : onIoq[t] /\ c \in pds[t]}

(* They are finitely many, and the counter of c is positive when there is  *)
(* one.                                                                    *)
LEMMA PollersFinite ==
  ASSUME IoQueue, NEW c \in Chan
  PROVE  /\ IsFiniteSet(Pollers(c)) /\ cnt[c] = Cardinality(Pollers(c))
         /\ cnt[c] \in Nat
         /\ cnt[c] > 0 <=> Pollers(c) # {}
<1>1. Pollers(c) \subseteq Queued /\ IsFiniteSet(Queued)
  BY DEF Pollers, Queued, IoQueue
<1>2. IsFiniteSet(Pollers(c))
  BY <1>1, FS_Subset
<1>3. cnt[c] = Cardinality(Pollers(c))
  BY DEF IoQueue, CountsExact, Pollers
<1>4. Cardinality(Pollers(c)) \in Nat
  BY <1>2, FS_CardinalityType
<1>5. Cardinality(Pollers(c)) = 0 <=> Pollers(c) = {}
  BY <1>2, FS_EmptySet
<1> QED
  BY <1>2, <1>3, <1>4, <1>5

(* What of the I/O layer is not the ioq or the counters keeps its type.    *)
RestTyped ==
  /\ revents \in [Thread -> SUBSET Chan]
  /\ maxfd \in [Groups -> BOOLEAN]
  /\ leak \in [Groups -> BOOLEAN]
  /\ grp \in Groups
  /\ qIo \in INode
  /\ ready \subseteq Chan
  /\ call \in [Thread -> Transfers \cup {NULL}]

(* A request enters the ioq (_st_select_pollset_add and the first part of  *)
(* st_poll).                                                               *)
LEMMA Enqueue ==
  ASSUME IoQueue, NEW STATE t, t \in Thread, ~onIoq[t],
         NEW STATE r, r \in SUBSET Chan, \A c \in r : c[1] \in opened,
         cnt' = Counted(r, 1), fdset' = fdset \cup r,
         pds' = [pds EXCEPT ![t] = r],
         onIoq' = [onIoq EXCEPT ![t] = TRUE],
         ioLinks' = InsertBefore(ioLinks, t, IOQ),
         UNCHANGED opened, RestTyped'
  PROVE  IoQueue' /\ Queued' = Queued \cup {t}
<1> USE IoNodes
<1>1. IoTypeOK /\ t \notin Queued /\ t \in INode /\ Queued \subseteq INode
  BY DEF IoQueue, Queued
<1>2. Queued' = Queued \cup {t}
  BY <1>1 DEF Queued, IoTypeOK
<1>3. IsFiniteSet(Queued')
  BY <1>2, FS_AddElement DEF IoQueue
<1>4. Ring(ioLinks', IOQ, {IOQ} \cup Queued')
  <2> DEFINE Q == {IOQ} \cup Queued
  <2>1. /\ Q \in SUBSET INode /\ Ring(ioLinks, IOQ, Q) /\ IOQ \in Q
        /\ t \notin Q /\ ioLinks \in ListState(INode)
    BY <1>1 DEF IoQueue, IoTypeOK
  <2>2. Ring(ioLinks', IOQ, Q \cup {t})
    BY <1>1, <2>1, InsertRing
  <2>3. Q \cup {t} = {IOQ} \cup Queued'
    BY <1>2
  <2> QED
    BY <2>2, <2>3
<1>5. ioLinks' \in ListState(INode)
  BY <1>1, InsertType DEF IoTypeOK
<1>6. ASSUME NEW c \in Chan
      PROVE  /\ cnt'[c] \in Nat /\ cnt'[c] = Cardinality(Pollers(c)')
             /\ c \in fdset' => cnt'[c] > 0
  <2>1. /\ IsFiniteSet(Pollers(c)) /\ cnt[c] = Cardinality(Pollers(c))
        /\ cnt[c] \in Nat /\ t \notin Pollers(c)
    BY PollersFinite DEF Pollers
  <2>2. c \in fdset => cnt[c] > 0
    BY DEF IoQueue, CountsExact
  <2>3. CASE c \in r
    <3>1. Pollers(c)' = Pollers(c) \cup {t}
      BY <1>1, <2>3 DEF Pollers, IoTypeOK
    <3>2. Cardinality(Pollers(c) \cup {t}) = Cardinality(Pollers(c)) + 1
      BY <2>1, FS_AddElement
    <3>3. cnt'[c] = cnt[c] + 1
      BY <2>3 DEF Counted
    <3> QED
      BY <2>1, <3>1, <3>2, <3>3
  <2>4. CASE c \notin r
    <3>1. Pollers(c)' = Pollers(c)
      BY <1>1, <2>4 DEF Pollers, IoTypeOK
    <3>2. cnt'[c] = cnt[c] /\ (c \in fdset' => c \in fdset)
      BY <2>4 DEF Counted
    <3> QED
      BY <2>1, <2>2, <3>1, <3>2
  <2> QED
    BY <2>3, <2>4
<1>7. CountsExact'
  BY <1>6 DEF CountsExact, Pollers
<1>8. cnt' \in [Chan -> Nat]
  <2>1. cnt' = [c \in Chan |-> cnt'[c]]
    BY DEF Counted
  <2> QED
    BY <1>6, <2>1
<1>9. IoTypeOK'
  BY <1>1, <1>5, <1>8 DEF IoTypeOK, RestTyped
<1>10. \A u \in Queued' : \A c \in pds'[u] : c[1] \in opened'
  BY <1>1, <1>2 DEF IoQueue, IoTypeOK, Queued
<1> QED
  BY <1>2, <1>3, <1>4, <1>7, <1>9, <1>10 DEF IoQueue, RestTyped

(* A request leaves it, by notification, timeout or interrupt.             *)
LEMMA Dequeue ==
  ASSUME IoQueue, NEW STATE t, t \in Thread, onIoq[t],
         Uncount(pds[t]), pds' \in [Thread -> SUBSET Chan],
         \A u \in Thread \ {t} : pds'[u] = pds[u],
         onIoq' = [onIoq EXCEPT ![t] = FALSE],
         ioLinks' = RemoveLink(ioLinks, t),
         UNCHANGED opened, RestTyped'
  PROVE  IoQueue' /\ Queued' = Queued \ {t}
<1> USE IoNodes
<1>1. IoTypeOK /\ t \in Queued /\ t \in INode /\ Queued \subseteq INode
  BY DEF IoQueue, Queued
<1>2. Queued' = Queued \ {t}
  BY <1>1 DEF Queued, IoTypeOK
<1>3. IsFiniteSet(Queued')
  BY <1>2, FS_RemoveElement DEF IoQueue
<1>4. Ring(ioLinks', IOQ, {IOQ} \cup Queued')
  <2> DEFINE Q == {IOQ} \cup Queued
  <2>1. /\ Q \in SUBSET INode /\ Ring(ioLinks, IOQ, Q) /\ t \in Q /\ t # IOQ
        /\ ioLinks \in ListState(INode)
    BY <1>1 DEF IoQueue, IoTypeOK
  <2>2. Ring(ioLinks', IOQ, Q \ {t})
    BY <1>1, <2>1, RemoveRing
  <2>3. Q \ {t} = {IOQ} \cup Queued'
    BY <1>2, <2>1
  <2> QED
    BY <2>2, <2>3
<1>5. ioLinks' \in ListState(INode)
  BY <1>1, RemoveType DEF IoTypeOK
<1>6. ASSUME NEW c \in Chan
      PROVE  /\ cnt'[c] \in Nat /\ cnt'[c] = Cardinality(Pollers(c)')
             /\ c \in fdset' => cnt'[c] > 0
  <2>1. /\ IsFiniteSet(Pollers(c)) /\ cnt[c] = Cardinality(Pollers(c))
        /\ cnt[c] \in Nat /\ (cnt[c] > 0 <=> Pollers(c) # {})
    BY PollersFinite
  <2>2. c \in fdset => cnt[c] > 0
    BY DEF IoQueue, CountsExact
  <2>3. CASE c \in pds[t]
    <3>1. Pollers(c)' = Pollers(c) \ {t} /\ t \in Pollers(c)
      BY <1>1, <2>3 DEF Pollers, IoTypeOK
    <3>2. Cardinality(Pollers(c) \ {t}) = Cardinality(Pollers(c)) - 1
      BY <2>1, <3>1, FS_RemoveElement
    <3>3. cnt'[c] = cnt[c] - 1 /\ (c \in fdset' => cnt[c] # 1)
      <4>1. cnt'[c] = cnt[c] + (-1) /\ (c \in fdset' => cnt[c] # 1)
        BY <2>3 DEF Uncount, Counted
      <4> QED
        BY <2>1, <4>1
    <3> QED
      BY <2>1, <3>1, <3>2, <3>3
  <2>4. CASE c \notin pds[t]
    <3>1. Pollers(c)' = Pollers(c)
      BY <1>1, <2>4 DEF Pollers, IoTypeOK
    <3>2. cnt'[c] = cnt[c] /\ (c \in fdset' => c \in fdset)
      BY <2>4 DEF Uncount, Counted
    <3> QED
      BY <2>1, <2>2, <3>1, <3>2
  <2> QED
    BY <2>3, <2>4
<1>7. CountsExact'
  BY <1>6 DEF CountsExact, Pollers
<1>8. cnt' \in [Chan -> Nat]
  <2>1. cnt' = [c \in Chan |-> cnt'[c]]
    BY DEF Uncount, Counted
  <2> QED
    BY <1>6, <2>1
<1>9. IoTypeOK'
  <2>1. fdset' \subseteq Chan
    BY <1>1 DEF Uncount, IoTypeOK
  <2> QED
    BY <1>1, <1>5, <1>8, <2>1 DEF IoTypeOK, RestTyped
<1>10. \A u \in Queued' : \A c \in pds'[u] : c[1] \in opened'
  BY <1>1, <1>2 DEF IoQueue, Queued
<1> QED
  BY <1>2, <1>3, <1>4, <1>7, <1>9, <1>10 DEF IoQueue, RestTyped

-----------------------------------------------------------------------------
(* What a call in progress does to `call` in a step of thread t.           *)
CallOf(t) ==
  /\ call' \in [Thread -> Transfers \cup {NULL}]
  /\ \A u \in Thread \ {t} : call'[u] = call[u]

(* st_poll up to its switch keeps the invariant.                           *)
LEMMA PollBlockInv ==
  ASSUME IoInv, fiber \in Thread, pc[fiber] \in {"run", "io"},
         NEW STATE r, r \in SUBSET Chan, \A c \in r : c[1] \in opened,
         NEW STATE d, NEW label \in {"poll", "iopoll"},
         PollBlock(r, d, label),
         CallOf(fiber), label = "iopoll" => call'[fiber] \in Transfers
  PROVE  IoInv'
<1> USE NodeFacts, VProcAssumption DEF IoCtl, IoTypes, ThreadIo, OtherIo,
      IoTimers, IoWaitWoken, Dispatching, Attentive, Awake, Polling, runVars,
      timeVars, lifeVars, syncVars, waitVars, lockVars, joinVars, loopVars,
      osVars, GoTo
<1>1. /\ IoQueue /\ IoCtl /\ RunqWellFormed
      /\ current = fiber /\ state[current] = "RUNNING" /\ ~onIoq[fiber]
  BY DEF IoInv
<1>2. /\ PollsetAdd(r)
      /\ pds' = [pds EXCEPT ![fiber] = r]
      /\ revents' = [revents EXCEPT ![fiber] = {}]
      /\ onIoq' = [onIoq EXCEPT ![fiber] = TRUE]
      /\ ioLinks' = InsertBefore(ioLinks, fiber, IOQ)
      /\ flags' = [flags EXCEPT ![fiber] = @ \cup {"ON_SLEEPQ"}]
      /\ sleepq' = sleepq \cup {fiber}
      /\ VpSchedule(links, [state EXCEPT ![current] = "IO_WAIT"])
      /\ pc' = [pc EXCEPT ![fiber] = label]
      /\ UNCHANGED <<lifeVars, syncVars, loopVars, osVars>>
  BY <1>1 DEF PollBlock, AddSleepQ
<1>3. /\ links' \in ListState(Node)
      /\ RunqWellFormed'
      /\ fiber' \in Slot /\ current' = fiber' /\ fiber' # current
      /\ fiber' # Idle => fiber' \in Thread /\ state[fiber'] = "RUNNABLE"
      /\ state' = [[state EXCEPT ![current] = "IO_WAIT"] EXCEPT ![fiber'] = "RUNNING"]
      /\ state' \in [Slot -> States]
  BY <1>1, <1>2, BlockRunq DEF States
<1>4. fiber' = Idle => \A t \in Thread : state'[t] # "RUNNABLE"
  BY <1>1, <1>2, BlockIo DEF States
<1>5. IoQueue'
  <2>1. IoTypeOK
    BY <1>1 DEF IoQueue
  <2>2. maxfd' \in [Groups -> BOOLEAN] /\ leak' \in [Groups -> BOOLEAN]
    BY <1>2, <2>1 DEF PollsetAdd, IoTypeOK
  <2>3. RestTyped'
    BY <1>2, <2>1, <2>2 DEF RestTyped, CallOf, IoTypeOK
  <2> QED
    BY <1>1, <1>2, <2>3, Enqueue DEF PollsetAdd
<1>6. onIoq \in [Thread -> BOOLEAN]
  BY <1>1 DEF IoQueue, IoTypeOK
<1>7. IoCtl'
  <2>1. IoTypes'
    BY <1>1, <1>2, <1>3, <1>4, <1>6 DEF Flags, CallOf
  <2>2. \A x \in Thread : ThreadIo(x)'
    BY <1>1, <1>2, <1>3, <1>4, <1>6 DEF Flags, CallOf
  <2>3. OtherIo'
    BY <1>1, <1>2, <1>3, <1>4, <1>6 DEF Flags, CallOf
  <2>4. IoTimers'
    BY <1>1, <1>2, <1>3, <1>4, <1>6 DEF Flags, CallOf
  <2>5. Attentive'
    BY <1>1, <1>2, <1>3, <1>4, <1>6, <2>2 DEF Flags, CallOf
  <2> QED
    BY <2>1, <2>2, <2>3, <2>4, <2>5
<1> QED
  BY <1>3, <1>5, <1>7 DEF IoInv

(* The rest of st_poll keeps it.                                           *)
LEMMA PollResumeInv ==
  ASSUME IoInv, fiber \in Thread, Polling(fiber),
         NEW STATE label, label \in {"run", "io"}, PollResume(label),
         CallOf(fiber), label = "io" => call'[fiber] \in Transfers
  PROVE  IoInv'
<1> USE NodeFacts, VProcAssumption DEF IoCtl, IoTypes, ThreadIo, OtherIo,
      IoTimers, IoWaitWoken, Dispatching, Attentive, Awake, Polling, runVars,
      timeVars, lifeVars, syncVars, waitVars, lockVars, joinVars, loopVars,
      osVars, GoTo
<1>1. /\ IoQueue /\ IoCtl /\ RunqWellFormed
      /\ current = fiber /\ state[current] = "RUNNING"
  BY DEF IoInv
<1>2. /\ onIoq' = [onIoq EXCEPT ![fiber] = FALSE]
      /\ pds' = [pds EXCEPT ![fiber] = {}]
      /\ revents' = [revents EXCEPT ![fiber] = {}]
      /\ flags' = [flags EXCEPT ![fiber] = @ \ {"INTERRUPT"}]
      /\ pc' = [pc EXCEPT ![fiber] = label]
      /\ UNCHANGED <<runVars, lifeVars, sleepq, syncVars, loopVars, osVars>>
  BY <1>1 DEF PollResume
<1>3. RunqWellFormed'
  BY <1>1, <1>2, RunqSame DEF Runnable
<1>4. IoTypeOK
  BY <1>1 DEF IoQueue
<1>5. IoQueue'
  <2>1. CASE onIoq[fiber]
    <3>1. /\ ioLinks' = RemoveLink(ioLinks, fiber) /\ Uncount(pds[fiber])
          /\ UNCHANGED <<maxfd, leak>>
      BY <2>1 DEF PollResume, StillQueued, PollsetDel
    <3>2. RestTyped'
      BY <1>2, <1>4, <3>1 DEF RestTyped, CallOf, IoTypeOK
    <3>3. pds' \in [Thread -> SUBSET Chan] /\ \A u \in Thread \ {fiber} : pds'[u] = pds[u]
      BY <1>2, <1>4 DEF IoTypeOK
    <3> QED
      BY <1>1, <1>2, <2>1, <3>1, <3>2, <3>3, Dequeue
  <2>2. CASE ~onIoq[fiber]
    <3>1. UNCHANGED <<ioLinks, cnt, fdset, maxfd, leak>>
      BY <2>2 DEF PollResume, StillQueued, selVars
    <3>2. IoTypeOK'
      BY <1>2, <1>4, <3>1 DEF IoTypeOK
    <3>3. onIoq' = onIoq
      BY <1>2, <1>4, <2>2 DEF IoTypeOK
    <3>4. Queued' = Queued /\ \A u \in Queued : pds'[u] = pds[u]
      BY <1>2, <1>4, <2>2, <3>3 DEF Queued, IoTypeOK
    <3>5. \A c \in Chan : {t \in Thread : onIoq'[t] /\ c \in pds'[t]}
                          = {t \in Thread : onIoq[t] /\ c \in pds[t]}
      BY <3>3, <3>4 DEF Queued
    <3>6. CountsExact'
      BY <1>1, <3>1, <3>5 DEF IoQueue, CountsExact
    <3> QED
      BY <1>1, <1>2, <3>1, <3>2, <3>4, <3>6 DEF IoQueue, CallOf
  <2> QED
    BY <2>1, <2>2
<1>6. onIoq \in [Thread -> BOOLEAN]
  BY <1>4 DEF IoTypeOK
<1>7. IoCtl'
  <2>1. IoTypes'
    BY <1>1, <1>2, <1>6 DEF Flags, CallOf
  <2>2. \A x \in Thread : ThreadIo(x)'
    BY <1>1, <1>2, <1>6 DEF Flags, CallOf
  <2>3. OtherIo'
    BY <1>1, <1>2, <1>6 DEF Flags, CallOf
  <2>4. IoTimers'
    BY <1>1, <1>2, <1>6 DEF Flags, CallOf
  <2>5. Attentive'
    BY <1>1, <1>2, <1>6, <2>2 DEF Flags, CallOf
  <2> QED
    BY <2>1, <2>2, <2>3, <2>4, <2>5
<1> QED
  BY <1>3, <1>5, <1>7 DEF IoInv

(* A step of a call that neither enters nor leaves the ioq.                *)
LEMMA CallStepInv ==
  ASSUME IoInv, fiber \in Thread, pc[fiber] \in {"run", "io", "connect"},
         NEW STATE label, label \in {"run", "io", "connect"},
         pc' = [pc EXCEPT ![fiber] = label],
         flags' \in {flags, [flags EXCEPT ![fiber] = @ \ {"INTERRUPT"}]},
         UNCHANGED <<runVars, lifeVars, sleepq, syncVars, pollVars, selVars,
                     loopVars, opened>>,
         ready' \subseteq Chan, CallOf(fiber), label = "io" => call'[fiber] \in Transfers
  PROVE  IoInv'
<1> USE NodeFacts, VProcAssumption DEF IoCtl, IoTypes, ThreadIo, OtherIo,
      IoTimers, IoWaitWoken, Dispatching, Attentive, Awake, Polling, runVars,
      timeVars, lifeVars, syncVars, waitVars, lockVars, joinVars, loopVars,
      osVars, GoTo
<1>1. /\ IoQueue /\ IoCtl /\ RunqWellFormed
      /\ current = fiber /\ state[current] = "RUNNING" /\ ~onIoq[fiber]
  BY DEF IoInv
<1>2. UNCHANGED <<ioLinks, onIoq, pds, revents, cnt, fdset, maxfd, leak, grp, qIo>>
  BY DEF pollVars, selVars
<1>3. RunqWellFormed'
  BY <1>1, RunqSame DEF Runnable
<1>4. Queued' = Queued
  BY <1>2 DEF Queued
<1>5. IoQueue'
  <2>1. IoTypeOK'
    BY <1>1, <1>2 DEF IoQueue, IoTypeOK
  <2>2. CountsExact'
    BY <1>1, <1>2 DEF IoQueue, CountsExact
  <2> QED
    BY <1>1, <1>2, <1>4, <2>1, <2>2 DEF IoQueue, CallOf
<1>6. flags' \in [Slot -> SUBSET Flags] /\ \A t \in Thread :
        "ON_SLEEPQ" \in flags'[t] <=> "ON_SLEEPQ" \in flags[t]
  BY <1>1
<1>7. IoCtl'
  <2>1. IoTypes'
    BY <1>1, <1>2, <1>4, <1>6 DEF CallOf
  <2>2. \A x \in Thread : ThreadIo(x)'
    BY <1>1, <1>2, <1>4, <1>6 DEF CallOf
  <2>3. OtherIo'
    BY <1>1, <1>2, <1>4, <1>6 DEF CallOf
  <2>4. IoTimers'
    BY <1>1, <1>2, <1>4, <1>6 DEF CallOf
  <2>5. Attentive'
    BY <1>1, <1>2, <1>4, <1>6, <2>2 DEF CallOf
  <2> QED
    BY <2>1, <2>2, <2>3, <2>4, <2>5
<1> QED
  BY <1>3, <1>5, <1>7 DEF IoInv

(* A step that only opens or closes a descriptor that is not polled for,   *)
(* or changes what is ready.                                               *)
LEMMA SocketStepInv ==
  ASSUME IoInv, UNCHANGED <<vars, pollVars, selVars, loopVars, call>>,
         opened' \subseteq Fd, ready' \subseteq Chan,
         \A t \in Queued : \A c \in pds[t] : c[1] \in opened'
  PROVE  IoInv'
<1> USE NodeFacts, VProcAssumption DEF IoCtl, IoTypes, ThreadIo, OtherIo,
      IoTimers, IoWaitWoken, Dispatching, Attentive, Awake, Polling, runVars,
      timeVars, lifeVars, syncVars, waitVars, lockVars, joinVars, loopVars,
      osVars, GoTo
<1>1. IoQueue /\ IoCtl /\ RunqWellFormed
  BY DEF IoInv
<1>2. UNCHANGED <<ioLinks, onIoq, pds, revents, cnt, fdset, maxfd, leak, grp, qIo>>
  BY DEF pollVars, selVars
<1>3. /\ UNCHANGED <<runVars, timeVars, pc>>
      /\ UNCHANGED <<iter, term, obj>>
  BY DEF vars, vpVars
<1>4. RunqWellFormed'
  BY <1>1, <1>3, RunqSame DEF Runnable
<1>5. Queued' = Queued
  BY <1>2 DEF Queued
<1>6. IoQueue'
  <2>1. IoTypeOK'
    BY <1>1, <1>2 DEF IoQueue, IoTypeOK
  <2>2. CountsExact'
    BY <1>1, <1>2 DEF IoQueue, CountsExact
  <2> QED
    BY <1>1, <1>2, <1>5, <2>1, <2>2 DEF IoQueue
<1>7. IoCtl'
  <2>1. IoTypes'
    BY <1>1, <1>2, <1>3, <1>5
  <2>2. \A x \in Thread : ThreadIo(x)'
    BY <1>1, <1>2, <1>3, <1>5
  <2>3. OtherIo'
    BY <1>1, <1>2, <1>3, <1>5
  <2>4. IoTimers'
    BY <1>1, <1>2, <1>3, <1>5
  <2>5. Attentive'
    BY <1>1, <1>2, <1>3, <1>5, <2>2
  <2> QED
    BY <2>1, <2>2, <2>3, <2>4, <2>5
<1> QED
  BY <1>4, <1>6, <1>7 DEF IoInv

-----------------------------------------------------------------------------
(* The calls of io_win.c and st_poll keep the invariant.                   *)
LEMMA IoStepInv ==
  ASSUME IoInv, IoStep
  PROVE  IoInv'
<1>1. /\ IoQueue /\ IoTypeOK /\ IoCtl
      /\ call \in [Thread -> Transfers \cup {NULL}]
      /\ ready \subseteq Chan /\ opened \subseteq Fd
  BY DEF IoInv, IoQueue, IoTypeOK
<1>2. ASSUME fiber \in Thread, pc[fiber] \in {"io", "iopoll"}
      PROVE  /\ call[fiber] \in Transfers /\ call[fiber].chan \in Chan
             /\ call[fiber].left \in Int
  BY <1>1, <1>2 DEF IoCtl, ThreadIo, Transfers
<1>3. ASSUME NEW r \in Requests, NEW d \in Timeouts \cup {NULL}, StPoll(r, d)
      PROVE  IoInv'
  <2>1. /\ fiber \in Thread /\ pc[fiber] = "run" /\ PollBlock(r, d, "poll")
        /\ \A c \in r : c[1] \in opened
        /\ call' = call
    BY <1>3 DEF StPoll, InUserCode
  <2>2. r \in SUBSET Chan
    BY NetIoAssumption
  <2>3. CallOf(fiber)
    BY <1>1, <2>1 DEF CallOf
  <2> QED
    BY <2>1, <2>2, <2>3, PollBlockInv
<1>4. CASE PollReturn
  <2>1. /\ fiber \in Thread /\ Polling(fiber) /\ PollResume("run")
        /\ call' = call
    BY <1>4 DEF PollReturn, Polling
  <2>2. CallOf(fiber)
    BY <1>1, <2>1 DEF CallOf
  <2> QED
    BY <2>1, <2>2, PollResumeInv
<1>5. ASSUME NEW c \in Chan, NEW d \in Timeouts \cup {NULL}, NEW n \in 1..MaxLen,
             IoCall(c, n, d)
      PROVE  IoInv'
  <2> DEFINE k == [chan |-> c, left |-> n, timeout |-> d]
  <2>1. k \in Transfers
    BY NetIoAssumption DEF Transfers
  <2>2. /\ fiber \in Thread /\ pc[fiber] = "run"
        /\ call' = [call EXCEPT ![fiber] = k]
        /\ pc' = [pc EXCEPT ![fiber] = "io"] /\ flags' = flags /\ ready' = ready
        /\ UNCHANGED <<runVars, lifeVars, sleepq, syncVars, pollVars, selVars,
                       loopVars, opened>>
    BY <1>5 DEF IoCall, InUserCode, GoTo, timeVars, osVars
  <2> HIDE DEF k
  <2>3. CallOf(fiber) /\ call'[fiber] \in Transfers
    BY <1>1, <2>1, <2>2 DEF CallOf
  <2> QED
    BY <1>1, <2>2, <2>3, CallStepInv
<1>6. CASE IoReturn
  <2>1. /\ fiber \in Thread /\ pc[fiber] = "io"
        /\ call' = [call EXCEPT ![fiber] = NULL]
        /\ pc' = [pc EXCEPT ![fiber] = "run"] /\ flags' = flags
        /\ ready' \subseteq ready
        /\ UNCHANGED <<runVars, lifeVars, sleepq, syncVars, pollVars, selVars,
                       loopVars, opened>>
    BY <1>6 DEF IoReturn, InIo, GoTo, timeVars
  <2>2. CallOf(fiber) /\ ready' \subseteq Chan
    BY <1>1, <2>1 DEF CallOf
  <2> QED
    BY <2>1, <2>2, CallStepInv
<1>7. CASE IoBlock
  <2> DEFINE c == call[fiber].chan
             d == call[fiber].timeout
  <2>1. /\ fiber \in Thread /\ pc[fiber] = "io" /\ PollBlock({c}, d, "iopoll")
        /\ c[1] \in opened
        /\ \/ call' = [call EXCEPT ![fiber].left = @ - 1]
           \/ call' = call
    BY <1>7 DEF IoBlock, InIo
  <2>2. call[fiber] \in Transfers /\ c \in Chan
    BY <1>2, <2>1
  <2>3. call'[fiber] \in Transfers
    BY <1>1, <2>1, <2>2 DEF Transfers
  <2>4. CallOf(fiber)
    BY <1>1, <2>1, <2>3 DEF CallOf
  <2> HIDE DEF c, d
  <2>5. {c} \in SUBSET Chan /\ \A x \in {c} : x[1] \in opened
    BY <2>1, <2>2
  <2> QED
    BY <2>1, <2>3, <2>4, <2>5, PollBlockInv
<1>8. CASE IoInterrupted
  <2>1. /\ fiber \in Thread /\ pc[fiber] = "io"
        /\ call' = [call EXCEPT ![fiber] = NULL]
        /\ flags' = [flags EXCEPT ![fiber] = @ \ {"INTERRUPT"}]
        /\ pc' = [pc EXCEPT ![fiber] = "run"] /\ ready' = ready
        /\ UNCHANGED <<runVars, lifeVars, sleepq, syncVars, pollVars, selVars,
                       loopVars, opened>>
    BY <1>8 DEF IoInterrupted, InIo, GoTo, osVars
  <2>2. CallOf(fiber)
    BY <1>1, <2>1 DEF CallOf
  <2> QED
    BY <1>1, <2>1, <2>2, CallStepInv
<1>9. CASE IoPollReturn
  <2> DEFINE l == IF Interrupted(fiber) THEN "run" ELSE "io"
  <2>1. /\ fiber \in Thread /\ pc[fiber] = "iopoll" /\ Polling(fiber)
        /\ PollResume(l) /\ l \in {"run", "io"}
        /\ call' = [call EXCEPT ![fiber] = IF Interrupted(fiber) THEN NULL ELSE @]
    BY <1>9 DEF IoPollReturn, Polling
  <2>2. CallOf(fiber)
    BY <1>1, <2>1 DEF CallOf
  <2>3. l = "io" => call'[fiber] \in Transfers
    BY <1>1, <1>2, <2>1
  <2> HIDE DEF l
  <2> QED
    BY <2>1, <2>2, <2>3, PollResumeInv
<1>10. ASSUME NEW fd \in Fd, StNetfdClose(fd)
       PROVE  IoInv'
  <2>1. /\ UNCHANGED <<vars, pollVars, selVars, loopVars, call>>
        /\ opened' = opened \ {fd} /\ ready' \subseteq ready
        /\ \A c \in Chan : c[1] = fd => ~(cnt[c] > 0)
    BY <1>10 DEF StNetfdClose, FdBusy
  <2>2. ASSUME NEW t \in Queued, NEW c \in pds[t] PROVE c[1] \in opened'
    <3>1. c \in Chan /\ c[1] \in opened /\ t \in Pollers(c)
      BY <1>1 DEF IoQueue, IoTypeOK, Queued, Pollers
    <3>2. cnt[c] > 0
      BY <1>1, <3>1, PollersFinite
    <3> QED
      BY <2>1, <3>1, <3>2
  <2> QED
    BY <1>1, <2>1, <2>2, SocketStepInv
<1>11. ASSUME NEW fd \in Fd, StNetfdOpen(fd)
       PROVE  IoInv'
  <2>1. /\ UNCHANGED <<vars, pollVars, selVars, loopVars, call, ready>>
        /\ opened' = opened \cup {fd}
    BY <1>11 DEF StNetfdOpen
  <2>2. \A t \in Queued : \A c \in pds[t] : c[1] \in opened'
    BY <1>1, <2>1 DEF IoQueue
  <2> QED
    BY <1>1, <2>1, <2>2, SocketStepInv
<1>12. ASSUME NEW c \in Chan, NEW fd \in Fd, StAccept(c, fd)
       PROVE  IoInv'
  <2>1. /\ UNCHANGED <<vars, pollVars, selVars, loopVars, call>>
        /\ opened' = opened \cup {fd} /\ ready' \subseteq ready
    BY <1>12 DEF StAccept
  <2>2. \A t \in Queued : \A x \in pds[t] : x[1] \in opened'
    BY <1>1, <2>1 DEF IoQueue
  <2> QED
    BY <1>1, <2>1, <2>2, SocketStepInv
<1>13. ASSUME NEW c \in Chan, NEW d \in Timeouts \cup {NULL}, StConnect(c, d)
       PROVE  IoInv'
  <2> DEFINE k == [chan |-> c, left |-> 1, timeout |-> d]
  <2>1. k \in Transfers
    BY DEF Transfers
  <2>2. /\ fiber \in Thread /\ pc[fiber] = "run"
        /\ call' = [call EXCEPT ![fiber] = k]
        /\ pc' = [pc EXCEPT ![fiber] = "connect"] /\ flags' = flags /\ ready' = ready
        /\ UNCHANGED <<runVars, lifeVars, sleepq, syncVars, pollVars, selVars,
                       loopVars, opened>>
    BY <1>13 DEF StConnect, InUserCode, GoTo, timeVars, osVars
  <2> HIDE DEF k
  <2>3. CallOf(fiber)
    BY <1>1, <2>1, <2>2 DEF CallOf
  <2> QED
    BY <1>1, <2>2, <2>3, CallStepInv
<1>14. CASE ConnectReturn
  <2>1. /\ fiber \in Thread /\ pc[fiber] = "connect"
        /\ call' = [call EXCEPT ![fiber] = NULL]
        /\ pc' = [pc EXCEPT ![fiber] = "run"] /\ flags' = flags /\ ready' = ready
        /\ UNCHANGED <<runVars, lifeVars, sleepq, syncVars, pollVars, selVars,
                       loopVars, opened>>
    BY <1>14 DEF ConnectReturn, GoTo, timeVars, osVars
  <2>2. CallOf(fiber)
    BY <1>1, <2>1 DEF CallOf
  <2> QED
    BY <1>1, <2>1, <2>2, CallStepInv
<1>15. ASSUME NEW c \in Chan, SocketReady(c)
       PROVE  IoInv'
  <2>1. /\ UNCHANGED <<vars, pollVars, selVars, loopVars, call, opened>>
        /\ ready' = ready \cup {c}
    BY <1>15 DEF SocketReady
  <2>2. \A t \in Queued : \A x \in pds[t] : x[1] \in opened'
    BY <1>1, <2>1 DEF IoQueue
  <2> QED
    BY <1>1, <2>1, <2>2, SocketStepInv
<1> QED
  BY <1>3, <1>4, <1>5, <1>6, <1>7, <1>8, <1>9, <1>10, <1>11, <1>12, <1>13,
     <1>14, <1>15 DEF IoStep

-----------------------------------------------------------------------------
(* A step of _st_select_dispatch that leaves the ioq alone: bits may go    *)
(* off, the loop variables move.                                           *)
LEMMA DispatchKept ==
  ASSUME IoInv, fiber = Idle, pc[Idle] \in {"loop", "select", "notify"},
         NEW STATE label, label \in {"select", "notify", "clock"},
         pc' = [pc EXCEPT ![fiber] = label],
         UNCHANGED <<runVars, timeVars, lifeVars, syncVars, ioLinks, onIoq,
                     pds, cnt, opened>>,
         fdset' \subseteq fdset, call' = call, RestTyped',
         label = "notify" => qIo' \in {IOQ} \cup Queued
  PROVE  IoInv'
<1> USE NodeFacts, VProcAssumption DEF IoCtl, IoTypes, ThreadIo, OtherIo,
      IoTimers, IoWaitWoken, Dispatching, Attentive, Awake, Polling, runVars,
      timeVars, lifeVars, syncVars, waitVars, lockVars, joinVars, osVars, GoTo
<1>1. IoQueue /\ IoCtl /\ RunqWellFormed
  BY DEF IoInv
<1>2. RunqWellFormed'
  BY <1>1, RunqSame DEF Runnable
<1>3. Queued' = Queued
  BY DEF Queued
<1>4. IoQueue'
  <2>1. IoTypeOK'
    BY <1>1 DEF IoQueue, IoTypeOK, RestTyped
  <2>2. CountsExact'
    BY <1>1 DEF IoQueue, CountsExact
  <2> QED
    BY <1>1, <1>3, <2>1, <2>2 DEF IoQueue
<1>5. IoCtl'
  <2>1. IoTypes'
    BY <1>1, <1>3
  <2>2. \A x \in Thread : ThreadIo(x)'
    BY <1>1, <1>3
  <2>3. OtherIo'
    BY <1>1, <1>3
  <2>4. IoTimers'
    BY <1>1, <1>3
  <2>5. Attentive'
    BY <1>1, <1>3, <2>2
  <2> QED
    BY <2>1, <2>2, <2>3, <2>4, <2>5
<1> QED
  BY <1>2, <1>4, <1>5 DEF IoInv

(* An iteration of the loop over the ioq keeps the invariant: the request  *)
(* it takes off belongs to a thread that is blocked, so no thread gets on  *)
(* the run queue twice, and the next request is still queued.              *)
LEMMA NotifyInv ==
  ASSUME MainKind # "idle_run", IoInv, NotifyOne
  PROVE  IoInv'
<1> USE NodeFacts, VProcAssumption DEF IoCtl, IoTypes, ThreadIo, OtherIo,
      IoTimers, IoWaitWoken, Dispatching, Attentive, Awake, Polling, runVars,
      timeVars, lifeVars, syncVars, waitVars, lockVars, joinVars, osVars, GoTo
<1> DEFINE q == qIo
           seen == {c \in InGroup(grp) : c[1] \in {x[1] : x \in pds[q]}}
           hit  == AskedFor(pds[q], seen)
<1>1. /\ IoQueue /\ IoCtl /\ RunqWellFormed /\ IoTypeOK
      /\ fiber = Idle /\ pc[Idle] = "notify" /\ q \in Thread /\ onIoq[q]
      /\ state[q] = "IO_WAIT"
  BY DEF IoInv, IoQueue, NotifyOne, ChecksClock, Queued
<1>2. /\ pds' = pds /\ opened' = opened /\ call' = call
      /\ UNCHANGED <<lifeVars, syncVars, current, fiber, pc, maxfd, grp, ready>>
      /\ qIo' = ioLinks'.next[q]
      /\ revents' = [revents EXCEPT
                       ![q] = {c \in @ : \A x \in seen : x[1] # c[1]} \cup hit]
  BY DEF NotifyOne
<1>3. hit \subseteq Chan /\ revents' \in [Thread -> SUBSET Chan]
  <2>1. hit \subseteq Chan
    BY <1>1 DEF AskedFor, IoTypeOK
  <2> HIDE DEF hit, seen
  <2> QED
    BY <1>1, <1>2, <2>1 DEF IoTypeOK
<1>4. /\ ioLinks.next[q] \in {IOQ} \cup Queued /\ ioLinks.next[q] # q
      /\ ioLinks.prev[q] # q
  <2> DEFINE Q == {IOQ} \cup Queued
             S == Q \ {q}
  <2>1. q \in Q /\ q # IOQ /\ Circular(ioLinks, Q) /\ Ring(ioLinks, IOQ, Q)
    BY <1>1, IoNodes DEF IoQueue, Ring, Queued
  <2>2. ioLinks.next[q] \in Q /\ (ioLinks.prev[q] = q => ioLinks.next[q] = q)
    BY <2>1 DEF Circular
  <2>3. ioLinks.next[q] # q
    <3> SUFFICES ASSUME ioLinks.next[q] = q PROVE FALSE
      OBVIOUS
    <3>1. \A n \in S : ioLinks.next[n] \in S
      BY <2>1 DEF Circular
    <3>2. S \in SUBSET Q /\ IOQ \in S /\ S # Q
      BY <2>1
    <3> HIDE DEF S, Q
    <3> QED
      BY <2>1, <3>1, <3>2 DEF Ring
  <2> QED
    BY <2>2, <2>3
<1>5. CASE hit # {}
  <2>1. /\ ioLinks' = RemoveLink(ioLinks, q)
        /\ onIoq' = [onIoq EXCEPT ![q] = FALSE]
        /\ Uncount(pds[q])
        /\ leak' = [g \in Groups |-> leak[g] \/ HasEntry(pds[q], g)]
        /\ WakeUp(q, {})
    BY <1>5 DEF NotifyOne
  <2>2. qIo' = ioLinks.next[q]
    BY <1>1, <1>2, <1>4, <2>1 DEF RemoveLink, IoTypeOK, ListState
  <2>3. leak' \in [Groups -> BOOLEAN]
    BY <1>1, <2>1 DEF IoTypeOK
  <2>4. qIo' \in INode
    BY <1>4, <2>2, IoNodes DEF Queued
  <2>5. RestTyped'
    BY <1>1, <1>2, <1>3, <2>3, <2>4 DEF RestTyped, IoTypeOK, IoQueue
  <2>6. IoQueue' /\ Queued' = Queued \ {q}
    <3>1. pds' \in [Thread -> SUBSET Chan]
      BY <1>1, <1>2 DEF IoTypeOK
    <3> QED
      BY <1>1, <1>2, <2>1, <2>5, <3>1, Dequeue
  <2>7. qIo' \in {IOQ} \cup Queued'
    BY <1>4, <2>2, <2>6
  <2>8. /\ links' \in ListState(Node)
        /\ RunqWellFormed'
        /\ state' = [state EXCEPT ![q] = "RUNNABLE"]
        /\ state' \in [Slot -> States]
    BY <1>1, <2>1, MakeRunnableRunq DEF WakeUp
  <2>9. /\ flags' = [flags EXCEPT ![q] = @ \ {"ON_SLEEPQ"}]
        /\ sleepq' = sleepq \ {q}
    BY <1>1, <2>1 DEF WakeUp, DelSleepQ
  <2>10. onIoq \in [Thread -> BOOLEAN]
    BY <1>1 DEF IoTypeOK
  <2> HIDE DEF q, hit, seen
  <2>11. IoCtl'
    <3>1. IoTypes'
      BY <1>1, <1>2, <2>1, <2>7, <2>8, <2>9, <2>10
    <3>2. \A x \in Thread : ThreadIo(x)'
      BY <1>1, <1>2, <2>1, <2>7, <2>8, <2>9, <2>10
    <3>3. OtherIo'
      BY <1>1, <1>2, <2>1, <2>7, <2>8, <2>9, <2>10
    <3>4. IoTimers'
      BY <1>1, <1>2, <2>1, <2>7, <2>8, <2>9, <2>10
    <3>5. Attentive'
      BY <1>1, <1>2, <2>1, <2>7, <2>8, <2>9, <2>10, <3>2
    <3> QED
      BY <3>1, <3>2, <3>3, <3>4, <3>5
  <2> QED
    BY <2>6, <2>8, <2>11 DEF IoInv
<1>6. CASE hit = {}
  <2>1. UNCHANGED <<ioLinks, onIoq, cnt, fdset, leak, timeVars, state, links>>
    BY <1>6 DEF NotifyOne
  <2>2. qIo' \in {IOQ} \cup Queued /\ qIo' \in INode
    BY <1>2, <1>4, <2>1, IoNodes DEF Queued
  <2>3. RestTyped'
    BY <1>1, <1>2, <1>3, <2>1, <2>2 DEF RestTyped, IoTypeOK, IoQueue
  <2>4. pc' = [pc EXCEPT ![fiber] = "notify"]
    BY <1>1, <1>2
  <2> HIDE DEF q, hit, seen
  <2> QED
    BY <1>1, <1>2, <2>1, <2>2, <2>3, <2>4, DispatchKept
<1> QED
  BY <1>5, <1>6

(* The dispatch in the idle loop keeps the invariant.                      *)
LEMMA DispatchInv ==
  ASSUME MainKind # "idle_run", IoInv, DispatchStep
  PROVE  IoInv'
<1> USE DEF runVars, timeVars, lifeVars, syncVars, waitVars, lockVars, joinVars,
      pollVars, selVars, osVars, GoTo
<1>1. /\ IoQueue /\ IoTypeOK /\ call \in [Thread -> Transfers \cup {NULL}]
      /\ grp \in Groups /\ LastGroup \in Nat
  BY NetIoAssumption DEF IoInv, IoQueue, IoTypeOK
<1>2. ASSUME NextGroup
      PROVE  /\ grp' \in Groups
             /\ \E label \in {"select", "clock"} :
                  pc' = [pc EXCEPT ![fiber] = label]
  <2>1. /\ grp' = IF grp < LastGroup THEN grp + 1 ELSE 0
        /\ pc' = [pc EXCEPT ![fiber] = IF grp < LastGroup THEN "select" ELSE "clock"]
    BY <1>2 DEF NextGroup
  <2>2. grp' \in Groups
    BY <1>1, <2>1 DEF Groups
  <2>3. CASE grp < LastGroup
    BY <2>1, <2>2, <2>3
  <2>4. CASE ~(grp < LastGroup)
    BY <2>1, <2>2, <2>4
  <2> QED
    BY <2>3, <2>4
<1>3. CASE Dispatch
  <2>1. /\ fiber = Idle /\ pc[Idle] = "loop"
        /\ pc' = [pc EXCEPT ![fiber] = "select"] /\ grp' = 0
        /\ UNCHANGED <<runVars, timeVars, lifeVars, syncVars, pollVars, selVars,
                       osVars, call, qIo>>
    BY <1>3 DEF Dispatch, ChecksClock
  <2>2. RestTyped'
    BY <1>1, <2>1 DEF RestTyped, IoTypeOK, Groups
  <2> QED
    BY <2>1, <2>2, DispatchKept
<1>4. CASE SelectSkipped
  <2>1. /\ fiber = Idle /\ pc[Idle] = "select" /\ NextGroup
        /\ UNCHANGED <<runVars, timeVars, lifeVars, syncVars, pollVars, selVars,
                       osVars, call, qIo>>
    BY <1>4 DEF SelectSkipped, ChecksClock
  <2>2. RestTyped'
    BY <1>1, <1>2, <2>1 DEF RestTyped, IoTypeOK
  <2>3. PICK label \in {"select", "clock"} : pc' = [pc EXCEPT ![fiber] = label]
    BY <1>2, <2>1
  <2> QED
    BY <2>1, <2>2, <2>3, DispatchKept
<1>5. CASE SelectReady
  <2>1. /\ fiber = Idle /\ pc[Idle] = "select"
        /\ pc' = [pc EXCEPT ![fiber] = "notify"]
        /\ fdset' \subseteq fdset /\ qIo' = ioLinks.next[IOQ]
        /\ UNCHANGED <<runVars, timeVars, lifeVars, syncVars, pollVars, osVars,
                       call, cnt, maxfd, leak, grp>>
    BY <1>5 DEF SelectReady, Selects, ChecksClock
  <2>2. qIo' \in {IOQ} \cup Queued
    BY <1>1, <2>1 DEF IoQueue, Ring, Circular
  <2>3. RestTyped'
    BY <1>1, <2>1, <2>2, IoNodes DEF RestTyped, IoTypeOK, Queued
  <2> QED
    BY <2>1, <2>2, <2>3, DispatchKept
<1>6. CASE SelectTimesOut
  <2>1. /\ fiber = Idle /\ pc[Idle] = "select" /\ NextGroup
        /\ fdset' \subseteq fdset
        /\ UNCHANGED <<runVars, timeVars, lifeVars, syncVars, pollVars, osVars,
                       call, cnt, maxfd, leak, qIo>>
    BY <1>6 DEF SelectTimesOut, Selects, ChecksClock
  <2>2. RestTyped'
    BY <1>1, <1>2, <2>1 DEF RestTyped, IoTypeOK
  <2>3. PICK label \in {"select", "clock"} : pc' = [pc EXCEPT ![fiber] = label]
    BY <1>2, <2>1
  <2> QED
    BY <2>1, <2>2, <2>3, DispatchKept
<1>7. CASE SelectFails
  <2>1. /\ fiber = Idle /\ pc[Idle] = "select" /\ NextGroup
        /\ maxfd' \in {maxfd, [g \in Groups |-> FALSE]}
        /\ \/ revents' = revents
           \/ revents' = [t \in Thread |-> IF onIoq[t] THEN {} ELSE revents[t]]
        /\ UNCHANGED <<runVars, timeVars, lifeVars, syncVars, osVars, call, cnt,
                       fdset, leak, qIo, ioLinks, onIoq, pds>>
    BY <1>7 DEF SelectFails, Selects, ChecksClock
  <2>2. RestTyped'
    <3>1. maxfd' \in [Groups -> BOOLEAN]
      BY <1>1, <2>1 DEF IoTypeOK
    <3>2. revents' \in [Thread -> SUBSET Chan]
      BY <1>1, <2>1 DEF IoTypeOK
    <3> QED
      BY <1>1, <1>2, <2>1, <3>1, <3>2 DEF RestTyped, IoTypeOK
  <2>3. PICK label \in {"select", "clock"} : pc' = [pc EXCEPT ![fiber] = label]
    BY <1>2, <2>1
  <2> QED
    BY <2>1, <2>2, <2>3, DispatchKept
<1>8. CASE NotifyDone
  <2>1. /\ fiber = Idle /\ pc[Idle] = "notify" /\ NextGroup
        /\ UNCHANGED <<runVars, timeVars, lifeVars, syncVars, pollVars, selVars,
                       osVars, call, qIo>>
    BY <1>8 DEF NotifyDone, ChecksClock
  <2>2. RestTyped'
    BY <1>1, <1>2, <2>1 DEF RestTyped, IoTypeOK
  <2>3. PICK label \in {"select", "clock"} : pc' = [pc EXCEPT ![fiber] = label]
    BY <1>2, <2>1
  <2> QED
    BY <2>1, <2>2, <2>3, DispatchKept
<1> QED
  BY <1>3, <1>4, <1>5, <1>6, <1>7, <1>8, NotifyInv DEF DispatchStep

-----------------------------------------------------------------------------
(* Every step keeps the invariant.                                         *)
LEMMA IoNextInv ==
  ASSUME MainKind # "idle_run", ExplicitExit = FALSE, IoInv, [IoNext]_allVars
  PROVE  IoInv'
<1>1. CASE VpIoStep
  BY <1>1, VpIoInv, QueueSame DEF IoInv, VpIoStep
<1>2. CASE LifeIoStep
  BY <1>2, LifeIoInv, QueueSame DEF IoInv, LifeIoStep
<1>3. CASE UNCHANGED allVars
  <2>1. /\ UNCHANGED <<vars, pollVars, selVars, loopVars, call>>
        /\ UNCHANGED <<opened, ready>>
    BY <1>3 DEF allVars, ioVars, osVars
  <2>2. \A t \in Queued : \A c \in pds[t] : c[1] \in opened'
    BY <2>1 DEF IoInv, IoQueue
  <2>3. opened' \subseteq Fd /\ ready' \subseteq Chan
    BY <2>1 DEF IoInv, IoQueue, IoTypeOK
  <2> QED
    BY <2>1, <2>2, <2>3, SocketStepInv
<1> QED
  BY <1>1, <1>2, <1>3, IoStepInv, DispatchInv DEF IoNext, IoEnded

(* It holds at the start.                                                  *)
LEMMA IoStart == IoInit => IoInv
<1> SUFFICES ASSUME IoInit PROVE IoInv
  OBVIOUS
<1>1. /\ Init /\ VpInit /\ SyncInit /\ onIoq = [t \in Thread |-> FALSE]
      /\ pds = [t \in Thread |-> {}] /\ cnt = [c \in Chan |-> 0] /\ fdset = {}
      /\ opened = Fd /\ call = [t \in Thread |-> NULL]
  BY DEF IoInit, Init
<1>2. Queued = {}
  BY <1>1 DEF Queued
<1>3. IoTypeOK
  BY IoNodes, NetIoAssumption DEF IoInit, IoTypeOK, ListState, Groups
<1>4. Ring(ioLinks, IOQ, {IOQ} \cup Queued)
  <2>1. ioLinks.next[IOQ] = IOQ /\ ioLinks.prev[IOQ] = IOQ
    BY IoNodes DEF IoInit
  <2> QED
    BY <1>2, <2>1, EmptyRing
<1>5. IsFiniteSet(Queued) /\ CountsExact
  <2>1. \A c \in Chan : {t \in Thread : onIoq[t] /\ c \in pds[t]} = {}
    BY <1>1
  <2> QED
    BY <1>1, <1>2, <2>1, FS_EmptySet DEF CountsExact
<1>6. IoQueue
  BY <1>1, <1>2, <1>3, <1>4, <1>5 DEF IoQueue
<1>7. IoTypes
  BY <1>1, NodeFacts, VProcAssumption
  DEF VpInit, SyncInit, IoTypes, States, Flags, ListState, Node, Slot
<1>8. \A t \in Thread : ThreadIo(t)
  BY <1>1, NodeFacts, VProcAssumption DEF VpInit, ThreadIo, Polling, Slot
<1>9. OtherIo /\ IoTimers /\ Attentive
  BY <1>1, NodeFacts, VProcAssumption
  DEF VpInit, OtherIo, IoTimers, IoWaitWoken, Attentive, Dispatching, Slot
<1>10. RunqWellFormed
  <2>1. Runnable = {} /\ links.next[RUNQ] = RUNQ /\ links.prev[RUNQ] = RUNQ
    BY <1>1, NodeFacts, VProcAssumption DEF VpInit, Runnable, Slot, Node
  <2> QED
    BY <2>1, EmptyRing DEF RunqWellFormed
<1> QED
  BY <1>6, <1>7, <1>8, <1>9, <1>10 DEF IoInv, IoCtl

(* The ioq never points into a stack frame that is gone, whichever of      *)
(* notification, timeout and interrupt ends an st_poll, and in whatever    *)
(* order the threads go on afterwards.                                     *)
THEOREM IoqCorrect ==
  ASSUME MainKind # "idle_run", ExplicitExit = FALSE
  PROVE  IoSpec => []IoqWellFormed
<1>1. IoInv => IoqWellFormed
  BY DEF IoInv, IoCtl, IoQueue, ThreadIo, IoqWellFormed, Queued
<1>2. IoInv /\ [IoNext]_allVars => IoInv'
  BY IoNextInv
<1> QED
  BY <1>1, <1>2, IoStart, PTL DEF IoSpec

(* The counters of _st_select_data are the numbers of queued requests for  *)
(* each descriptor, and no bit is on without one.                          *)
THEOREM CountersCorrect ==
  ASSUME MainKind # "idle_run", ExplicitExit = FALSE
  PROVE  IoSpec => []CountsExact
<1>1. IoInv => CountsExact
  BY DEF IoInv, IoQueue
<1>2. IoInv /\ [IoNext]_allVars => IoInv'
  BY IoNextInv
<1> QED
  BY <1>1, <1>2, IoStart, PTL DEF IoSpec

(* st_netfd_close never takes a descriptor away from a request: a closed   *)
(* descriptor has no bit on and is in no queued request.                   *)
THEOREM CloseCorrect ==
  ASSUME MainKind # "idle_run", ExplicitExit = FALSE
  PROVE  IoSpec => []ClosedNotPolled
<1>1. IoInv => ClosedNotPolled
  <2> SUFFICES ASSUME IoInv, NEW c \in Chan, c[1] \notin opened
               PROVE  c \notin fdset /\ \A t \in Thread : onIoq[t] => c \notin pds[t]
    BY DEF ClosedNotPolled
  <2>1. IoQueue /\ (c \in fdset => cnt[c] > 0)
    BY DEF IoInv, IoQueue, CountsExact
  <2>2. Pollers(c) = {}
    BY <2>1 DEF IoQueue, Pollers, Queued
  <2>3. ~(cnt[c] > 0)
    BY <2>1, <2>2, PollersFinite
  <2> QED
    BY <2>1, <2>2, <2>3 DEF Pollers
<1>2. IoInv /\ [IoNext]_allVars => IoInv'
  BY IoNextInv
<1> QED
  BY <1>1, <1>2, IoStart, PTL DEF IoSpec

(* A thread blocked in st_poll is known to the ioq and to the timeout      *)
(* heap, and nobody else but a sleeper has a deadline.                     *)
THEOREM IoWaitCorrect ==
  ASSUME MainKind # "idle_run", ExplicitExit = FALSE
  PROVE  IoSpec => []IoWaitWoken
<1>1. IoInv => IoWaitWoken
  BY DEF IoInv, IoCtl, IoTimers
<1>2. IoInv /\ [IoNext]_allVars => IoInv'
  BY IoNextInv
<1> QED
  BY <1>1, <1>2, IoStart, PTL DEF IoSpec

(* The run queue is well linked and has exactly the RUNNABLE threads also  *)
(* when select, the timeouts and interrupts all wake the same threads.     *)
THEOREM IoRunQueueCorrect ==
  ASSUME MainKind # "idle_run", ExplicitExit = FALSE
  PROVE  IoSpec => []RunqWellFormed
<1>1. IoInv => RunqWellFormed
  BY DEF IoInv
<1>2. IoInv /\ [IoNext]_allVars => IoInv'
  BY IoNextInv
<1> QED
  BY <1>1, <1>2, IoStart, PTL DEF IoSpec

=============================================================================
