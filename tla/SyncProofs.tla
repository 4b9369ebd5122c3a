----------------------------- MODULE SyncProofs ------------------------------
(***************************************************************************)
(* Proofs about Sync for any sets of threads, condition variables and      *)
(* mutexes, any timeouts and any movement of the clock.  A theorem without *)
(* hypotheses is about every program; what joinable threads or explicit    *)
(* calls of st_thread_exit break is stated for programs without them.      *)
(***************************************************************************)
EXTENDS SyncInv, CListTheorems, FiniteSetTheorems, TLAPS

(* The threads RUNNABLE in a state function.                               *)
RunnableIn(st) == {t \in Thread : st[t] = "RUNNABLE"}

(* The link fields, the list heads and the fibers are different things.    *)
LEMMA NodeFacts ==
  /\ NULL \notin Node
  /\ NULL \notin SNode /\ Slot \subseteq SNode /\ FREEQ \in SNode
  /\ FREEQ \notin Slot
  /\ NULL \notin WNode
  /\ Thread \subseteq Node /\ Thread \subseteq WNode /\ Thread \subseteq Slot
  /\ RUNQ \in Node /\ RUNQ \notin Thread /\ Idle \in Slot /\ Idle \notin Thread
  /\ MAIN \notin Slot /\ EXITED \notin Slot /\ EXITED # MAIN /\ NULL \notin Slot
BY VProcAssumption, SyncAssumption DEF Node, SNode, WNode, Slot

(* Making a blocked thread runnable keeps the run queue well formed.       *)
LEMMA MakeRunnableRunq ==
  ASSUME links \in ListState(Node), state \in [Slot -> States],
         RunqWellFormed, NEW STATE t, t \in Thread, state[t] # "RUNNABLE",
         MakeRunnable(t)
  PROVE  /\ links' \in ListState(Node)
         /\ RunqWellFormed'
         /\ state' = [state EXCEPT ![t] = "RUNNABLE"]
         /\ state' \in [Slot -> States]
<1>1. {RUNQ} \cup Runnable \in SUBSET Node /\ RUNQ \in {RUNQ} \cup Runnable
  BY NodeFacts DEF Runnable
<1>2. t \notin {RUNQ} \cup Runnable /\ t \in Node
  BY NodeFacts DEF Runnable
<1>3. Ring(InsertBefore(links, t, RUNQ), RUNQ, ({RUNQ} \cup Runnable) \cup {t})
  BY <1>1, <1>2, NodeFacts, InsertRing DEF RunqWellFormed
<1>4. state' = [state EXCEPT ![t] = "RUNNABLE"]
  BY DEF MakeRunnable
<1>5. {RUNQ} \cup Runnable' = ({RUNQ} \cup Runnable) \cup {t}
  BY <1>4, NodeFacts DEF Runnable
<1>6. links' = InsertBefore(links, t, RUNQ)
  BY DEF MakeRunnable, AddRunq
<1>7. RunqWellFormed'
  BY <1>3, <1>5, <1>6 DEF RunqWellFormed
<1>8. links' \in ListState(Node)
  BY <1>6, <1>1, <1>2, NodeFacts, InsertType
<1> QED
  BY <1>4, <1>7, <1>8, NodeFacts DEF States

(* _st_vp_schedule, called with the caller not RUNNABLE: it takes the head *)
(* of the run queue, which is RUNNABLE and not the caller, or the idle     *)
(* thread, and the run queue stays well formed.                            *)
LEMMA ScheduleRunq ==
  ASSUME links \in ListState(Node), NEW STATE st, st \in [Slot -> States],
         current \in Slot \cup {NULL},
         current \in Thread => st[current] # "RUNNABLE",
         Ring(links, RUNQ, {RUNQ} \cup RunnableIn(st)),
         VpSchedule(links, st)
  PROVE  /\ links' \in ListState(Node)
         /\ RunqWellFormed'
         /\ fiber' \in Slot /\ current' = fiber'
         /\ fiber' # Idle => fiber' \in Thread /\ st[fiber'] = "RUNNABLE"
         /\ state' = [st EXCEPT ![fiber'] = "RUNNING"]
         /\ state' \in [Slot -> States]
<1> DEFINE head == links.next[RUNQ]
<1> DEFINE Q == {RUNQ} \cup RunnableIn(st)
<1>1. Q \in SUBSET Node /\ RUNQ \in Q /\ head \in Q
  BY NodeFacts DEF RunnableIn, Ring, Circular
<1>2. CASE head = RUNQ
  <2>1. links' = links /\ fiber' = Idle /\ current' = Idle
        /\ state' = [st EXCEPT ![Idle] = "RUNNING"]
    BY <1>2 DEF VpSchedule
  <2>2. Runnable' = RunnableIn(st)
    BY <2>1, NodeFacts DEF Runnable, RunnableIn
  <2> QED
    BY <2>1, <2>2, NodeFacts DEF RunqWellFormed, States
<1>3. CASE head # RUNQ
  <2>1. head \in Thread /\ st[head] = "RUNNABLE" /\ head # current /\ head # Idle
    BY <1>1, <1>3, NodeFacts DEF RunnableIn
  <2>2. links' = RemoveLink(links, head) /\ fiber' = head /\ current' = head
        /\ state' = [st EXCEPT ![head] = "RUNNING"]
    BY <2>1, <1>3, NodeFacts DEF VpSchedule
  <2>3. Ring(links', RUNQ, Q \ {head})
    BY <2>2, <1>1, <1>3, NodeFacts, RemoveRing
  <2>4. {RUNQ} \cup Runnable' = Q \ {head}
    BY <2>1, <2>2, <1>3, NodeFacts DEF Runnable, RunnableIn
  <2>5. links' \in ListState(Node)
    BY <2>2, <1>1, NodeFacts, RemoveType
  <2> QED
    BY <2>1, <2>2, <2>3, <2>4, <2>5, NodeFacts DEF RunqWellFormed, States
<1> QED
  BY <1>2, <1>3

(* The same for a running thread that blocks in state `new`.               *)
LEMMA BlockRunq ==
  ASSUME links \in ListState(Node), state \in [Slot -> States],
         RunqWellFormed, current \in Thread, state[current] = "RUNNING",
         NEW new \in States \ {"RUNNABLE"},
         VpSchedule(links, [state EXCEPT ![current] = new])
  PROVE  /\ links' \in ListState(Node)
         /\ RunqWellFormed'
         /\ fiber' \in Slot /\ current' = fiber' /\ fiber' # current
         /\ fiber' # Idle => fiber' \in Thread /\ state[fiber'] = "RUNNABLE"
         /\ state' = [[state EXCEPT ![current] = new] EXCEPT ![fiber'] = "RUNNING"]
         /\ state' \in [Slot -> States]
<1> DEFINE st == [state EXCEPT ![current] = new]
<1>1. st \in [Slot -> States] /\ st[current] # "RUNNABLE"
  BY NodeFacts
<1>2. RunnableIn(st) = Runnable
  BY NodeFacts DEF RunnableIn, Runnable
<1>3. Ring(links, RUNQ, {RUNQ} \cup RunnableIn(st))
  BY <1>2 DEF RunqWellFormed
<1> HIDE DEF st
<1>4. VpSchedule(links, st)
  BY DEF st
<1>5. /\ links' \in ListState(Node)
      /\ RunqWellFormed'
      /\ fiber' \in Slot /\ current' = fiber'
      /\ fiber' # Idle => fiber' \in Thread /\ st[fiber'] = "RUNNABLE"
      /\ state' = [st EXCEPT ![fiber'] = "RUNNING"]
      /\ state' \in [Slot -> States]
  BY <1>1, <1>3, <1>4, NodeFacts, ScheduleRunq
<1> QED
  BY <1>1, <1>5, NodeFacts DEF st

(* _st_vp_schedule from a fiber that is not a thread.                      *)
LEMMA PassRunq ==
  ASSUME links \in ListState(Node), state \in [Slot -> States],
         RunqWellFormed, current \in Slot \cup {NULL},
         current \in Thread => state[current] # "RUNNABLE",
         NEW new \in States,
         VpSchedule(links, [state EXCEPT ![Idle] = new])
  PROVE  /\ links' \in ListState(Node)
         /\ RunqWellFormed'
         /\ fiber' \in Slot /\ current' = fiber'
         /\ fiber' # Idle => fiber' \in Thread /\ state[fiber'] = "RUNNABLE"
         /\ \A t \in Thread : state'[t] = IF t = fiber' THEN "RUNNING" ELSE state[t]
         /\ state' \in [Slot -> States]
<1> DEFINE st == [state EXCEPT ![Idle] = new]
<1>1. st \in [Slot -> States] /\ (current \in Thread => st[current] # "RUNNABLE")
  BY NodeFacts
<1>2. RunnableIn(st) = Runnable
  BY NodeFacts DEF RunnableIn, Runnable
<1>3. Ring(links, RUNQ, {RUNQ} \cup RunnableIn(st))
  BY <1>2 DEF RunqWellFormed
<1> HIDE DEF st
<1>4. VpSchedule(links, st)
  BY DEF st
<1>5. /\ links' \in ListState(Node)
      /\ RunqWellFormed'
      /\ fiber' \in Slot /\ current' = fiber'
      /\ fiber' # Idle => fiber' \in Thread /\ st[fiber'] = "RUNNABLE"
      /\ state' = [st EXCEPT ![fiber'] = "RUNNING"]
      /\ state' \in [Slot -> States]
  BY <1>1, <1>3, <1>4, NodeFacts, ScheduleRunq
<1> QED
  BY <1>1, <1>5, NodeFacts DEF st

-----------------------------------------------------------------------------
(* What _st_vp_schedule does to the control state, whatever the run queue  *)
(* looks like: it goes on in a RUNNABLE thread or in the idle thread, or   *)
(* follows a stray pointer.  First for a thread that blocks in the state   *)
(* `new`, then for a fiber that is not a thread.                           *)
Switched ==
  /\ state' \in [Slot -> States] /\ current' \in Slot \cup {NULL}
  /\ fiber' \in Slot \cup {EXITED}
  /\ fiber' \in Slot => current' = fiber'
  /\ fiber' \in Thread => state[fiber'] = "RUNNABLE"

BlockedIn(new) ==
  /\ Switched
  /\ fiber' # current
  /\ \A t \in Thread : state'[t] = IF t = fiber' THEN "RUNNING"
                                   ELSE IF t = current THEN new ELSE state[t]

Passed ==
  /\ Switched
  /\ \A t \in Thread : state'[t] = IF t = fiber' THEN "RUNNING" ELSE state[t]

LEMMA ScheduleControl ==
  ASSUME NEW STATE st, st \in [Slot -> States],
         current \in Slot \cup {NULL},
         current \in Thread => st[current] # "RUNNABLE",
         VpSchedule(links, st)
  PROVE  /\ state' \in [Slot -> States] /\ current' \in Slot \cup {NULL}
         /\ fiber' \in Slot \cup {EXITED}
         /\ fiber' \in Slot => current' = fiber'
         /\ fiber' \in Thread => st[fiber'] = "RUNNABLE"
         /\ \A t \in Thread : state'[t] = IF t = fiber' THEN "RUNNING" ELSE st[t]
<1> DEFINE head == links.next[RUNQ]
<1>1. CASE head \in Thread /\ st[head] = "RUNNABLE"
  <2>1. head # RUNQ /\ head # Idle /\ head # current /\ head \in Slot
    BY <1>1, NodeFacts
  <2>2. /\ state' = [st EXCEPT ![head] = "RUNNING"]
        /\ current' = head /\ fiber' = head
    BY <1>1, <2>1 DEF VpSchedule
  <2> QED
    BY <1>1, <2>1, <2>2, NodeFacts DEF States
<1>2. CASE head \in Slot \cup {RUNQ} /\ ~(head \in Thread /\ st[head] = "RUNNABLE")
  <2>1. /\ state' = [st EXCEPT ![Idle] = "RUNNING"]
        /\ current' = Idle /\ fiber' = Idle
    BY <1>2, NodeFacts DEF VpSchedule, Slot
  <2> QED
    BY <2>1, NodeFacts DEF States
<1>3. CASE head \notin Slot \cup {RUNQ}
  <2>1. state' = st /\ current' = current /\ fiber' = EXITED
    BY <1>3 DEF VpSchedule
  <2> QED
    BY <2>1, NodeFacts
<1> QED
  BY <1>1, <1>2, <1>3, NodeFacts

LEMMA BlockControl ==
  ASSUME state \in [Slot -> States], current \in Thread,
         state[current] = "RUNNING", NEW new \in States \ {"RUNNABLE"},
         VpSchedule(links, [state EXCEPT ![current] = new])
  PROVE  BlockedIn(new)
<1> DEFINE st == [state EXCEPT ![current] = new]
<1>1. /\ st \in [Slot -> States] /\ st[current] = new
      /\ \A t \in Thread : st[t] = IF t = current THEN new ELSE state[t]
  BY NodeFacts
<1>2. VpSchedule(links, st) /\ current \in Slot \cup {NULL}
  BY NodeFacts
<1> HIDE DEF st
<1>3. /\ state' \in [Slot -> States] /\ current' \in Slot \cup {NULL}
      /\ fiber' \in Slot \cup {EXITED}
      /\ fiber' \in Slot => current' = fiber'
      /\ fiber' \in Thread => st[fiber'] = "RUNNABLE"
      /\ \A t \in Thread : state'[t] = IF t = fiber' THEN "RUNNING" ELSE st[t]
  BY <1>1, <1>2, ScheduleControl
<1> QED
  BY <1>1, <1>3, NodeFacts DEF BlockedIn, Switched

LEMMA PassControl ==
  ASSUME state \in [Slot -> States], current \in Slot \cup {NULL},
         current \in Thread => state[current] # "RUNNABLE",
         NEW new \in States,
         VpSchedule(links, [state EXCEPT ![Idle] = new])
  PROVE  Passed
<1> DEFINE st == [state EXCEPT ![Idle] = new]
<1>1. st \in [Slot -> States] /\ \A t \in Thread : st[t] = state[t]
  BY NodeFacts
<1>2. VpSchedule(links, st)
  OBVIOUS
<1> HIDE DEF st
<1>3. /\ state' \in [Slot -> States] /\ current' \in Slot \cup {NULL}
      /\ fiber' \in Slot \cup {EXITED}
      /\ fiber' \in Slot => current' = fiber'
      /\ fiber' \in Thread => st[fiber'] = "RUNNABLE"
      /\ \A t \in Thread : state'[t] = IF t = fiber' THEN "RUNNING" ELSE st[t]
  BY <1>1, <1>2, ScheduleControl
<1> QED
  BY <1>1, <1>3, NodeFacts DEF Passed, Switched

(* A thread that is made runnable.                                         *)
LEMMA MakeRunnableState ==
  ASSUME state \in [Slot -> States], NEW STATE t, MakeRunnable(t)
  PROVE  /\ state' = [state EXCEPT ![t] = "RUNNABLE"]
         /\ state' \in [Slot -> States]
BY DEF MakeRunnable, States

-----------------------------------------------------------------------------
(* The run queue is kept by a step that moves no thread in or out of it.   *)
LEMMA RunqSame ==
  ASSUME RunqWellFormed, links' = links, Runnable' = Runnable
  PROVE  RunqWellFormed'
BY DEF RunqWellFormed

(* So are the wait queues by a step of no thread that waits.               *)
LEMMA WaitqSame ==
  ASSUME WaitqWellFormed, wlinks' = wlinks,
         \A t \in Thread : Waiting(t)' = Waiting(t)
                            /\ (Waiting(t) => obj'[t] = obj[t])
  PROVE  WaitqWellFormed'
<1>1. \A w \in WaitObj : Waiters(w)' = Waiters(w)
  BY DEF Waiters
<1> QED
  BY <1>1 DEF WaitqWellFormed

(* Distinct wait queues share no link.                                     *)
LEMMA WaitqDisjoint ==
  ASSUME NEW v \in WaitObj, NEW w \in WaitObj, v # w
  PROVE  ({v} \cup Waiters(v)) \cap ({w} \cup Waiters(w)) = {}
BY SyncAssumption DEF Waiters

(* A thread enters a blocking call on w.                                   *)
LEMMA WaitqEnter ==
  ASSUME wlinks \in ListState(WNode), WaitqWellFormed,
         pc \in [Slot \cup {MAIN} -> Labels], obj \in [Slot -> WaitObj \cup {NULL}],
         NEW STATE me, me \in Thread, ~Waiting(me), NEW w \in WaitObj,
         NEW label \in {"cond", "lock", "joincond"},
         wlinks' = InsertBefore(wlinks, me, w),
         obj' = [obj EXCEPT ![me] = w], pc' = [pc EXCEPT ![me] = label]
  PROVE  wlinks' \in ListState(WNode) /\ WaitqWellFormed'
<1>1. me \in WNode /\ w \in WNode /\ {w} \cup Waiters(w) \in SUBSET WNode
  BY NodeFacts DEF WNode, Waiters
<1>2. wlinks' \in ListState(WNode)
  BY <1>1, InsertType
<1>3. me \notin {w} \cup Waiters(w)
  BY SyncAssumption DEF Waiters
<1>4. Ring(wlinks, w, {w} \cup Waiters(w)) /\ Circular(wlinks, {w} \cup Waiters(w))
  BY DEF WaitqWellFormed, Ring
<1>5. ASSUME NEW v \in WaitObj
      PROVE  Ring(wlinks', v, {v} \cup Waiters(v)')
  <2>1. CASE v = w
    <3>1. Ring(wlinks', w, ({w} \cup Waiters(w)) \cup {me})
      BY <1>1, <1>3, <1>4, NodeFacts, InsertRing
    <3>2. Waiters(w)' = Waiters(w) \cup {me}
      BY NodeFacts DEF Waiters, Waiting
    <3> QED
      BY <2>1, <3>1, <3>2
  <2>2. CASE v # w
    <3>1. Waiters(v)' = Waiters(v)
      BY <2>2, NodeFacts DEF Waiters, Waiting
    <3>2. Ring(wlinks, v, {v} \cup Waiters(v)) /\ {v} \cup Waiters(v) \in SUBSET WNode
      BY NodeFacts DEF WaitqWellFormed, Waiters, WNode
    <3>3. me \notin {v} \cup Waiters(v)
      BY SyncAssumption DEF Waiters
    <3>4. Ring(wlinks', v, {v} \cup Waiters(v))
      BY <1>1, <1>4, <2>2, <3>2, <3>3, WaitqDisjoint, NodeFacts, InsertRingFrame
    <3> QED
      BY <3>1, <3>4
  <2> QED
    BY <2>1, <2>2
<1> QED
  BY <1>2, <1>5 DEF WaitqWellFormed

(* A waiter takes itself off its wait queue.                               *)
LEMMA WaitqLeave ==
  ASSUME wlinks \in ListState(WNode), WaitqWellFormed,
         pc \in [Slot \cup {MAIN} -> Labels], obj \in [Slot -> WaitObj \cup {NULL}],
         NEW STATE me, me \in Thread, Waiting(me), NEW w \in WaitObj, obj[me] = w,
         NEW STATE arg, NEW label \in {"run", "join"},
         wlinks' = RemoveLink(wlinks, me),
         obj' = [obj EXCEPT ![me] = arg], pc' = [pc EXCEPT ![me] = label]
  PROVE  wlinks' \in ListState(WNode) /\ WaitqWellFormed'
<1>1. w \in WaitObj /\ me \in Waiters(w) /\ {w} \cup Waiters(w) \in SUBSET WNode
  BY NodeFacts DEF WNode, Waiters
<1>2. wlinks' \in ListState(WNode)
  BY NodeFacts, RemoveType
<1>3. Ring(wlinks, w, {w} \cup Waiters(w)) /\ Circular(wlinks, {w} \cup Waiters(w))
  BY DEF WaitqWellFormed, Ring
<1>4. ASSUME NEW v \in WaitObj
      PROVE  Ring(wlinks', v, {v} \cup Waiters(v)')
  <2>1. CASE v = w
    <3>0. me # w
      BY SyncAssumption
    <3>1. Ring(wlinks', w, ({w} \cup Waiters(w)) \ {me})
      BY <1>1, <1>3, <3>0, NodeFacts, RemoveRing
    <3>2. {w} \cup Waiters(w)' = ({w} \cup Waiters(w)) \ {me}
      BY <1>1, NodeFacts, SyncAssumption DEF Waiters, Waiting
    <3> QED
      BY <2>1, <3>1, <3>2
  <2>2. CASE v # w
    <3>1. Waiters(v)' = Waiters(v)
      BY <2>2, NodeFacts DEF Waiters, Waiting
    <3>2. Ring(wlinks, v, {v} \cup Waiters(v)) /\ {v} \cup Waiters(v) \in SUBSET WNode
      BY NodeFacts DEF WaitqWellFormed, Waiters, WNode
    <3>3. Ring(wlinks', v, {v} \cup Waiters(v))
      BY <1>1, <1>3, <2>2, <3>2, WaitqDisjoint, NodeFacts, RemoveRingFrame
    <3> QED
      BY <3>1, <3>3
  <2> QED
    BY <2>1, <2>2
<1> QED
  BY <1>2, <1>4 DEF WaitqWellFormed

(* A queue whose head points to itself has no waiter.                      *)
LEMMA NobodyWaits ==
  ASSUME WaitqWellFormed, NEW w \in WaitObj, ~Busy(w)
  PROVE  Waiters(w) = {}
<1>1. Ring(wlinks, w, {w} \cup Waiters(w)) /\ wlinks.next[w] = w
  BY DEF WaitqWellFormed, Busy
<1>2. {w} = {w} \cup Waiters(w)
  BY <1>1 DEF Ring
<1>3. w \notin Waiters(w)
  BY SyncAssumption DEF Waiters
<1> QED
  BY <1>2, <1>3

(* A condition variable fresh from calloc gets an empty wait queue.        *)
LEMMA WaitqFresh ==
  ASSUME wlinks \in ListState(WNode), WaitqWellFormed,
         NEW c \in TermCond, Waiters(c) = {},
         wlinks' = [next |-> [wlinks.next EXCEPT ![c] = c],
                    prev |-> [wlinks.prev EXCEPT ![c] = c]],
         \A w \in WaitObj : Waiters(w)' = Waiters(w)
  PROVE  wlinks' \in ListState(WNode) /\ WaitqWellFormed'
<1>0. c \in WaitObj /\ c \in WNode
  BY DEF WaitObj, CondVar, WNode
<1>1. wlinks' \in ListState(WNode)
  BY <1>0 DEF ListState
<1>2. ASSUME NEW w \in WaitObj PROVE Ring(wlinks', w, {w} \cup Waiters(w))
  <2>1. CASE w = c
    <3>1. wlinks'.next[c] = c /\ wlinks'.prev[c] = c
      BY <1>0 DEF ListState
    <3>2. Ring(wlinks', c, {c})
      BY <3>1, EmptyRing
    <3>3. {w} \cup Waiters(w) = {c}
      BY <2>1
    <3> QED
      BY <2>1, <3>2, <3>3
  <2>2. CASE w # c
    <3>1. Ring(wlinks, w, {w} \cup Waiters(w)) /\ c \notin {w} \cup Waiters(w)
      BY <1>0, <2>2, SyncAssumption DEF WaitqWellFormed, Waiters
    <3>2. \A n \in {w} \cup Waiters(w) : /\ wlinks'.next[n] = wlinks.next[n]
                                         /\ wlinks'.prev[n] = wlinks.prev[n]
      BY <3>1, NodeFacts DEF ListState, WNode, Waiters
    <3> QED
      BY ZenonT(60), <3>1, <3>2, RingFrame
  <2> QED
    BY <2>1, <2>2
<1> QED
  BY <1>1, <1>2 DEF WaitqWellFormed

-----------------------------------------------------------------------------
(* _st_stack_new writes pointers to existing segments only.                *)
LEMMA StackNewType ==
  ASSUME slinks \in ListState(SNode), NEW STATE t, t \in SNode
  PROVE  StackNew(slinks, t) \in ListState(SNode)
<1>1. RemoveLink(slinks, t) \in ListState(SNode)
  BY RemoveType
<1> QED
  BY <1>1 DEF StackNew, ListState

(* ... and takes the segment off a well-formed free list.                  *)
LEMMA StackNewPool ==
  ASSUME slinks \in ListState(SNode), NEW STATE Q, Q \in SUBSET SNode,
         Circular(slinks, Q), NEW STATE t, t \in Q
  PROVE  Circular(StackNew(slinks, t), Q \ {t})
<1>1. /\ RemoveLink(slinks, t) \in ListState(SNode)
      /\ Circular(RemoveLink(slinks, t), Q \ {t})
  BY RemoveType, RemoveCircular, NodeFacts
<1> QED
  BY <1>1 DEF StackNew, ListState, Circular

(* _st_stack_free puts a segment on the free list.                         *)
LEMMA StackFreePool ==
  ASSUME slinks \in ListState(SNode), NEW STATE Q, Q \in SUBSET SNode,
         Circular(slinks, Q), FREEQ \in Q, NEW STATE t, t \in SNode, t \notin Q
  PROVE  /\ StackFree(slinks, t) \in ListState(SNode)
         /\ Circular(StackFree(slinks, t), Q \cup {t})
<1>1. slinks.prev[FREEQ] \in Q
  BY DEF Circular
<1> QED
  BY <1>1, NodeFacts, InsertType, InsertCircular DEF StackFree

-----------------------------------------------------------------------------
(* The steps of the virtual processor keep the invariant.                  *)
LEMMA VpStepInv ==
  ASSUME Core, VpStep
  PROVE  Core'
<1> USE NodeFacts, VProcAssumption DEF Core, Control, Wakeups, Calls,
      DataTypes, ThreadControl, OtherControl, OneRunning,
      SleepqConsistent, LoopInv, LockInv, MutexSafety, OwnerKnows,
      SignalledAwake, TimeoutNotStale, WokenForAReason, JoinInv, Joining, InLoop,
      Exiting, Awake, Waiters,
      Waiting, Labels, runVars, timeVars, lifeVars, syncVars, waitVars,
      lockVars, joinVars, BlockedIn, Passed, Switched
<1>0. UNCHANGED syncVars
  BY DEF VpStep
<1>1. ASSUME NEW d \in Timeouts, StUsleep(d)
      PROVE  Core'
  <2>1. /\ current = fiber /\ fiber \in Thread
        /\ state[current] = "RUNNING" /\ pc[current] = "run"
    BY <1>1 DEF StUsleep, InUserCode
  <2>2. /\ VpSchedule(links, [state EXCEPT ![current] = "SLEEPING"])
        /\ AddSleepQ(current, d)
        /\ UNCHANGED <<lifeVars, pc>>
    BY <1>1, <2>1 DEF StUsleep, UsleepBlock
  <2>3. BlockedIn("SLEEPING")
    <3> HIDE DEF BlockedIn
    <3>1. "SLEEPING" \in States \ {"RUNNABLE"}
      BY DEF States
    <3> QED
      BY <2>1, <2>2, <3>1, BlockControl
  <2>4. WaitqWellFormed'
    BY <1>0, <2>2, WaitqSame
  <2> QED
    <3>0. /\ due' \in [Thread -> Int] /\ flags' \in [Slot -> SUBSET Flags]
          /\ sleepq' \in SUBSET Thread
          /\ \A t \in Thread \ sleepq' : due'[t] = 0
      BY <2>1, <2>2 DEF AddSleepQ, Flags
    <3>1. DataTypes'
      BY <1>0, <2>1, <2>2, <2>3, <3>0
    <3>2. Control'
      BY <1>0, <2>1, <2>2, <2>3 DEF AddSleepQ, Flags
    <3>3. Wakeups'
      BY SMTT(60), <1>0, <2>1, <2>2, <2>3 DEF AddSleepQ, Flags
    <3>4. Calls'
      BY <1>0, <2>1, <2>2, <2>3 DEF AddSleepQ, Flags
    <3>5. JoinInv'
      BY <1>0, <2>1, <2>2, <2>3 DEF AddSleepQ, Flags
    <3> QED
      BY <2>3, <2>4, <3>1, <3>2, <3>3, <3>4, <3>5
<1>2. ASSUME NEW d \in Timeouts, MainUsleep(d)
      PROVE  Core'
  <2>1. VpSchedule(links, state) /\ UNCHANGED <<timeVars, lifeVars, pc>>
    BY <1>2 DEF MainUsleep, UsleepBlock
  <2>2. state = [state EXCEPT ![Idle] = state[Idle]] /\ state[Idle] \in States
    OBVIOUS
  <2>3. Passed
    BY <1>2, <2>1, <2>2, PassControl DEF MainUsleep
  <2>4. WaitqWellFormed'
    BY <1>0, <2>1, WaitqSame
  <2> QED
    <3>1. DataTypes'
      BY <1>0, <1>2, <2>1, <2>3 DEF MainUsleep
    <3>2. Control'
      BY <1>0, <1>2, <2>1, <2>3 DEF MainUsleep
    <3>3. Wakeups'
      BY <1>0, <1>2, <2>1, <2>3 DEF MainUsleep
    <3>4. Calls'
      BY <1>0, <1>2, <2>1, <2>3 DEF MainUsleep
    <3>5. JoinInv'
      BY <1>0, <1>2, <2>1, <2>3 DEF MainUsleep
    <3> QED
      BY <2>3, <2>4, <3>1, <3>2, <3>3, <3>4, <3>5
<1>3. CASE StSuspend
  <2>1. /\ current = fiber /\ fiber \in Thread
        /\ state[current] = "RUNNING" /\ pc[current] = "run"
    BY <1>3 DEF StSuspend, InUserCode
  <2>2. /\ VpSchedule(links, [state EXCEPT ![current] = "SUSPENDED"])
        /\ UNCHANGED <<timeVars, lifeVars, pc>>
    BY <1>3, <2>1 DEF StSuspend
  <2>3. BlockedIn("SUSPENDED")
    <3> HIDE DEF BlockedIn
    <3>1. "SUSPENDED" \in States \ {"RUNNABLE"}
      BY DEF States
    <3> QED
      BY <2>1, <2>2, <3>1, BlockControl
  <2>4. WaitqWellFormed'
    BY <1>0, <2>2, WaitqSame
  <2> QED
    <3>1. DataTypes'
      BY <1>0, <2>1, <2>2, <2>3
    <3>2. Control'
      BY <1>0, <2>1, <2>2, <2>3
    <3>3. Wakeups'
      BY <1>0, <2>1, <2>2, <2>3
    <3>4. Calls'
      BY <1>0, <2>1, <2>2, <2>3
    <3>5. JoinInv'
      BY <1>0, <2>1, <2>2, <2>3
    <3> QED
      BY <2>3, <2>4, <3>1, <3>2, <3>3, <3>4, <3>5
<1>4. CASE BlockingCallEINTR
  <2>1. WaitqWellFormed'
    BY <1>0, <1>4, WaitqSame DEF BlockingCallEINTR, ReturnEINTR, Runnable
  <2> QED
    BY <1>0, <1>4, <2>1 DEF BlockingCallEINTR, ReturnEINTR, InUserCode
<1>5. ASSUME NEW t \in Thread, StThreadInterrupt(t)
      PROVE  Core'
  <2>1. CASE state[t] \in {"RUNNING", "RUNNABLE"}
    <3>1. WaitqWellFormed'
      BY <1>0, <1>5, <2>1, WaitqSame DEF StThreadInterrupt, Interruptible, NotBlocked, Runnable
    <3>2. /\ flags' = [flags EXCEPT ![t] = @ \cup {"INTERRUPT"}]
          /\ UNCHANGED <<state, due, sleepq, links, lifeVars, current, fiber, pc>>
      BY <1>5, <2>1 DEF StThreadInterrupt, NotBlocked
    <3> QED
      <4>1. DataTypes'
        BY <1>0, <3>2 DEF Flags
      <4>2. Control'
        BY <1>0, <3>2
      <4>3. Wakeups'
        BY <1>0, <3>2
      <4>4. Calls'
        BY <1>0, <3>2
      <4>5. JoinInv'
        BY <1>0, <3>2
      <4> QED
        BY <3>1, <4>1, <4>2, <4>3, <4>4, <4>5
  <2>2. CASE state[t] \notin {"RUNNING", "RUNNABLE"}
    <3>1. WakeUp(t, {"INTERRUPT"}) /\ UNCHANGED <<lifeVars, current, fiber, pc>>
      BY <1>5, <2>2 DEF StThreadInterrupt, Interruptible, NotBlocked
    <3>2. /\ state' = [state EXCEPT ![t] = "RUNNABLE"]
          /\ state' \in [Slot -> States]
      BY <2>2, <3>1, MakeRunnableState DEF WakeUp
    <3>3. WaitqWellFormed'
      BY <1>0, <3>1, WaitqSame
    <3>4. /\ t # fiber /\ current # t /\ fiber \in Thread
          /\ state[t] \notin {"UNUSED", "ZOMBIE"}
      BY <1>5, <2>2 DEF StThreadInterrupt, Interruptible, NotBlocked, InUserCode
    <3>5. /\ flags' = [flags EXCEPT ![t] = (@ \cup {"INTERRUPT"}) \ {"ON_SLEEPQ"}]
          /\ sleepq' = sleepq \ {t} /\ due' = [due EXCEPT ![t] = 0]
      BY <3>1 DEF WakeUp, DelSleepQ
    <3> QED
      <4>1. DataTypes'
        BY <1>0, <2>2, <3>1, <3>2, <3>4, <3>5 DEF Flags
      <4>2. Control'
        BY <1>0, <2>2, <3>1, <3>2, <3>4, <3>5
      <4>3. Wakeups'
        BY <1>0, <2>2, <3>1, <3>2, <3>4, <3>5
      <4>4. Calls'
        BY <1>0, <2>2, <3>1, <3>2, <3>4, <3>5
      <4>5. JoinInv'
        BY <1>0, <2>2, <3>1, <3>2, <3>4, <3>5
      <4> QED
        BY <3>2, <3>3, <4>1, <4>2, <4>3, <4>4, <4>5
  <2> QED
    BY <2>1, <2>2
<1>6. CASE IdleLoop
  <2>1. WaitqWellFormed'
    BY <1>0, <1>6, WaitqSame DEF IdleLoop, ChecksClock, Runnable
  <2> QED
    BY <1>0, <1>6, <2>1 DEF IdleLoop, ChecksClock
<1>7. ASSUME NEW e \in Elapsed, CheckClock(e)
      PROVE  Core'
  <2>1. WaitqWellFormed'
    BY <1>0, <1>7, WaitqSame DEF CheckClock, Remaining, ChecksClock, Runnable
  <2> QED
    BY <1>0, <1>7, <2>1 DEF CheckClock, Remaining, ChecksClock
<1>8. ASSUME NEW t \in Thread, ExpireOne(t)
      PROVE  Core'
  <2>1. state[t] \in {"SLEEPING", "COND_WAIT"} /\ t # fiber /\ current # t
    BY <1>8 DEF ExpireOne, ChecksClock
  <2>2. /\ state' = [state EXCEPT ![t] = "RUNNABLE"]
        /\ state' \in [Slot -> States]
    BY <1>8, <2>1, MakeRunnableState DEF ExpireOne
  <2>3. WaitqWellFormed'
    BY <1>0, <1>8, WaitqSame DEF ExpireOne
  <2> QED
    <3>1. DataTypes'
      BY <1>0, <1>8, <2>1, <2>2 DEF ExpireOne, ChecksClock, DelSleepQ, Flags
    <3>2. Control'
      BY <1>0, <1>8, <2>1, <2>2 DEF ExpireOne, ChecksClock, DelSleepQ, Flags
    <3>3. Wakeups'
      BY <1>0, <1>8, <2>1, <2>2 DEF ExpireOne, ChecksClock, DelSleepQ, Flags
    <3>4. Calls'
      BY <1>0, <1>8, <2>1, <2>2 DEF ExpireOne, ChecksClock, DelSleepQ, Flags
    <3>5. JoinInv'
      BY <1>0, <1>8, <2>1, <2>2 DEF ExpireOne, ChecksClock, DelSleepQ, Flags
    <3> QED
      BY <2>2, <2>3, <3>1, <3>2, <3>3, <3>4, <3>5
<1>9. CASE IdleSchedule
  <2> DEFINE new == IF state[Idle] = "ZOMBIE" THEN "ZOMBIE" ELSE "RUNNABLE"
  <2>1. fiber = Idle /\ current = Idle /\ new \in States
    BY <1>9 DEF IdleSchedule, States
  <2>2. CASE active > 0
    <3>1. VpSchedule(links, [state EXCEPT ![Idle] = new])
          /\ pc' = [pc EXCEPT ![Idle] = "loop"] /\ UNCHANGED <<timeVars, lifeVars>>
      BY <1>9, <2>2 DEF IdleSchedule
    <3> HIDE DEF new
    <3>2. Passed
      BY <2>1, <3>1, PassControl
    <3>3. WaitqWellFormed'
      BY <1>0, <3>1, WaitqSame
    <3> QED
      <4>1. DataTypes'
        BY <1>0, <1>9, <2>1, <3>1, <3>2 DEF IdleSchedule
      <4>2. Control'
        BY <1>0, <1>9, <2>1, <3>1, <3>2 DEF IdleSchedule
      <4>3. Wakeups'
        <5>1. SleepqConsistent' /\ SignalledAwake'
          BY <1>0, <2>1, <3>1, <3>2
        <5>2. TimeoutNotStale' /\ WokenForAReason'
          BY <1>0, <2>1, <3>1, <3>2
        <5> QED
          BY <5>1, <5>2
      <4>4. Calls'
        BY <1>0, <1>9, <2>1, <3>1, <3>2 DEF IdleSchedule
      <4>5. JoinInv'
        BY <1>0, <1>9, <2>1, <3>1, <3>2 DEF IdleSchedule
      <4> QED
        BY <3>2, <3>3, <4>1, <4>2, <4>3, <4>4, <4>5
  <2>3. CASE ~(active > 0)
    <3>1. state' = [state EXCEPT ![Idle] = new] /\ pc' = [pc EXCEPT ![Idle] = "exit"]
          /\ UNCHANGED <<links, current, fiber, timeVars, lifeVars>>
      BY <1>9, <2>3 DEF IdleSchedule
    <3> HIDE DEF new
    <3>2. WaitqWellFormed'
      BY <1>0, <2>1, <3>1, WaitqSame DEF Runnable
    <3> QED
      BY <1>0, <1>9, <2>1, <3>1, <3>2 DEF IdleSchedule
  <2> QED
    BY <2>2, <2>3
<1>10. CASE IdleReturns
  <2>1. WaitqWellFormed'
    BY <1>0, <1>10, WaitqSame DEF IdleReturns, Runnable
  <2> QED
    BY <1>0, <1>10, <2>1 DEF IdleReturns
<1>11. CASE MainSchedule
  <2>1. VpSchedule(links, state) /\ pc' = [pc EXCEPT ![MAIN] = "loop"]
        /\ UNCHANGED <<timeVars, lifeVars>> /\ fiber = MAIN
    BY <1>11 DEF MainSchedule
  <2>2. state = [state EXCEPT ![Idle] = state[Idle]] /\ state[Idle] \in States
    OBVIOUS
  <2>3. Passed
    BY <2>1, <2>2, PassControl
  <2>4. WaitqWellFormed'
    BY <1>0, <2>1, WaitqSame
  <2> QED
    <3>1. DataTypes'
      BY <1>0, <1>11, <2>1, <2>3 DEF MainSchedule
    <3>2. Control'
      BY <1>0, <1>11, <2>1, <2>3 DEF MainSchedule
    <3>3. Wakeups'
      BY SMTT(60), <1>0, <1>11, <2>1, <2>3 DEF MainSchedule
    <3>4. Calls'
      BY <1>0, <1>11, <2>1, <2>3 DEF MainSchedule
    <3>5. JoinInv'
      BY <1>0, <1>11, <2>1, <2>3 DEF MainSchedule
    <3> QED
      BY <2>3, <2>4, <3>1, <3>2, <3>3, <3>4, <3>5
<1>12. CASE MainStart
  <2>1. WaitqWellFormed'
    BY <1>0, <1>12, WaitqSame DEF MainStart, Runnable
  <2> QED
    BY <1>0, <1>12, <2>1 DEF MainStart
<1>13. CASE MainReturns
  <2>1. WaitqWellFormed'
    BY <1>0, <1>13, WaitqSame DEF MainReturns, Runnable
  <2> QED
    BY <1>0, <1>13, <2>1 DEF MainReturns
<1>14. CASE DeadFiberResumed
  <2>1. WaitqWellFormed'
    BY <1>0, <1>14, WaitqSame DEF DeadFiberResumed, Runnable
  <2> QED
    BY <1>0, <1>14, <2>1 DEF DeadFiberResumed
<1>15. CASE CreateOverLiveThread
  <2>1. WaitqWellFormed'
    BY <1>0, <1>15, WaitqSame DEF CreateOverLiveThread, Runnable
  <2> QED
    BY <1>0, <1>15, <2>1 DEF CreateOverLiveThread, InUserCode
<1> QED
  BY <1>1, <1>2, <1>3, <1>4, <1>5, <1>6, <1>7, <1>8, <1>9, <1>10, <1>11,
     <1>12, <1>13, <1>14, <1>15 DEF VpStep, VpNext

-----------------------------------------------------------------------------
(* The steps of the condition variables keep the invariant.                *)
LEMMA CondStepInv ==
  ASSUME Core, CondStep
  PROVE  Core'
<1> USE NodeFacts, VProcAssumption, SyncAssumption DEF Core, Control,
      Wakeups, Calls, DataTypes, ThreadControl, OtherControl,
      OneRunning, SleepqConsistent, LoopInv, LockInv, MutexSafety, OwnerKnows,
      SignalledAwake, TimeoutNotStale, WokenForAReason, JoinInv, Joining, InLoop,
      Exiting, Awake, Waiters,
      Waiting, Labels, runVars, timeVars, lifeVars, vpVars, syncVars, waitVars,
      lockVars, joinVars, GoTo, BlockedIn, Switched
<1>1. ASSUME NEW c \in Cond, NEW d \in Timeouts \cup {NULL}, StCondTimedwait(c, d)
      PROVE  Core'
  <2>1. /\ current = fiber /\ fiber \in Thread
        /\ state[current] = "RUNNING" /\ pc[current] = "run"
    BY <1>1 DEF StCondTimedwait, InUserCode
  <2>2. /\ VpSchedule(links, [state EXCEPT ![current] = "COND_WAIT"])
        /\ wlinks' = InsertBefore(wlinks, current, c)
        /\ obj' = [obj EXCEPT ![current] = c]
        /\ pc' = [pc EXCEPT ![current] = "cond"]
        /\ UNCHANGED <<lifeVars, lockVars, joinVars, iter, signalled>>
    BY <1>1, <2>1 DEF StCondTimedwait, CondBlock
  <2>3. BlockedIn("COND_WAIT")
    <3> HIDE DEF BlockedIn
    <3>1. "COND_WAIT" \in States \ {"RUNNABLE"}
      BY DEF States
    <3> QED
      BY <2>1, <2>2, <3>1, BlockControl
  <2>4. wlinks' \in ListState(WNode) /\ WaitqWellFormed'
    BY <2>1, <2>2, WaitqEnter DEF WaitObj, CondVar
  <2>5. \/ UNCHANGED timeVars
        \/ d \in Timeouts /\ AddSleepQ(current, d)
    BY <1>1 DEF StCondTimedwait, CondBlock
  <2>6. /\ due' \in [Thread -> Int] /\ flags' \in [Slot -> SUBSET Flags]
        /\ sleepq' \in SUBSET Thread
        /\ \A t \in Thread \ sleepq' : due'[t] = 0
    BY <2>1, <2>5 DEF AddSleepQ, Flags
  <2>7. pc' \in [Slot \cup {MAIN} -> Labels] /\ obj' \in [Slot -> WaitObj \cup {NULL}]
    BY <2>1, <2>2 DEF WaitObj, CondVar
  <2> QED
    <3>1. DataTypes'
      BY <2>1, <2>2, <2>3, <2>4, <2>6, <2>7
    <3>2. Control'
      BY SMTT(60), <2>1, <2>2, <2>3, <2>4, <2>5 DEF AddSleepQ, Flags, WaitObj, CondVar
    <3>3. Wakeups'
      BY SMTT(60), <2>1, <2>2, <2>3, <2>4, <2>5 DEF AddSleepQ, Flags, WaitObj, CondVar
    <3>4. Calls'
      <4>1. LoopInv' /\ MutexSafety' /\ OwnerKnows'
        BY <2>1, <2>2, <2>3
      <4>2. LockInv'
        BY <2>1, <2>2, <2>3, <2>5 DEF AddSleepQ
      <4> QED
        BY <4>1, <4>2
    <3>5. JoinInv'
      BY <2>1, <2>2, <2>3, <2>4, <2>5 DEF AddSleepQ, Flags, WaitObj, CondVar
    <3> QED
      BY <2>3, <2>4, <3>1, <3>2, <3>3, <3>4, <3>5
<1>2. CASE StCondReturn
  <2>1. /\ current = fiber /\ fiber \in Thread
        /\ state[fiber] = "RUNNING" /\ pc[fiber] = "cond"
    BY <1>2 DEF StCondReturn
  <2>2. /\ wlinks' = RemoveLink(wlinks, fiber)
        /\ flags' = [flags EXCEPT ![fiber] = @ \ {"TIMEDOUT", "INTERRUPT"}]
        /\ signalled' = signalled \ {fiber}
        /\ obj' = [obj EXCEPT ![fiber] = NULL]
        /\ pc' = [pc EXCEPT ![fiber] = "run"]
        /\ UNCHANGED <<runVars, lifeVars, lockVars, joinVars, due, sleepq, iter>>
    BY <1>2 DEF StCondReturn, CondResume, Reported
  <2>4. PICK w \in WaitObj : obj[fiber] = w
    BY <2>1 DEF WaitObj, CondVar
  <2>5. wlinks' \in ListState(WNode) /\ WaitqWellFormed'
    BY ZenonT(60), <2>1, <2>2, <2>4, WaitqLeave
  <2> QED
    <3>1. DataTypes'
      BY <2>1, <2>2, <2>5
    <3>2. Control'
      BY <2>1, <2>2, <2>5
    <3>3. Wakeups'
      BY <2>1, <2>2, <2>5
    <3>4. Calls'
      BY <2>1, <2>2, <2>5
    <3>5. JoinInv'
      BY <2>1, <2>2, <2>5
    <3> QED
      BY <2>5, <3>1, <3>2, <3>3, <3>4, <3>5
<1>3. ASSUME NEW c \in Cond, NEW k \in {"signal", "broadcast"}, StCondSignal(c, k)
      PROVE  Core'
  <2>1. WaitqWellFormed'
    BY <1>3, WaitqSame DEF StCondSignal, InUserCode, Runnable
  <2>2. iter' \in {c} \cup Waiters(c)
    BY <1>3 DEF StCondSignal, WaitqWellFormed, Ring, Circular, WaitObj, CondVar
  <2> QED
    <3>1. DataTypes'
      BY <1>3, <2>2 DEF StCondSignal, InUserCode, WNode, WaitObj, CondVar
    <3>2. Control'
      BY <1>3, <2>2 DEF StCondSignal, InUserCode, WNode, WaitObj, CondVar
    <3>3. Wakeups'
      BY <1>3, <2>2 DEF StCondSignal, InUserCode, WNode, WaitObj, CondVar
    <3>4. Calls'
      BY <1>3, <2>2 DEF StCondSignal, InUserCode, WNode, WaitObj, CondVar
    <3>5. JoinInv'
      BY <1>3, <2>2 DEF StCondSignal, InUserCode, WNode, WaitObj, CondVar
    <3> QED
      BY <2>1, <3>1, <3>2, <3>3, <3>4, <3>5
<1>4. CASE SignalOne
  <2>1. /\ current = fiber /\ fiber \in Thread /\ ~Waiting(fiber)
        /\ pc[fiber] \in {"signal", "broadcast", "exited", "exitcalled"}
        /\ obj[fiber] \in WaitObj
        /\ iter \in Waiters(obj[fiber])
    <3>1. fiber \in Slot /\ iter # obj[fiber]
          /\ pc[fiber] \in {"signal", "broadcast", "exited", "exitcalled"}
      BY <1>4 DEF SignalOne, StillWaits, SignalLoop
    <3>2. CASE pc[fiber] \in {"exited", "exitcalled"}
      <4>1. obj[fiber] = term[fiber]
        BY <3>1, <3>2
      <4>2. obj[fiber] # NULL
        BY <3>1, <3>2
      <4>3. fiber \in Thread
        BY <3>1, <4>1, <4>2 DEF Slot
      <4>4. obj[fiber] \in TermCond
        BY <3>1, <4>1, <4>2
      <4> QED
        BY <3>1, <3>2, <4>2, <4>3, <4>4 DEF WaitObj, CondVar
    <3>3. CASE pc[fiber] \in {"signal", "broadcast"}
      <4>1. fiber \in Thread
        BY <3>1, <3>3 DEF Slot
      <4> QED
        BY <3>1, <3>3, <4>1 DEF WaitObj, CondVar
    <3> QED
      BY <3>1, <3>2, <3>3
  <2>2. wlinks.next[iter] \in {obj[fiber]} \cup Waiters(obj[fiber])
    BY <2>1 DEF WaitqWellFormed, Ring, Circular
  <2>3. UNCHANGED <<lifeVars, lockVars, joinVars, current, fiber, pc, wlinks, obj>>
    BY <1>4 DEF SignalOne, StillWaits
  <2>4. WaitqWellFormed'
    BY <2>3, WaitqSame
  <2>5. CASE state[iter] = "COND_WAIT"
    <3>1. /\ WakeUp(iter, {})
          /\ signalled' = signalled \cup {iter}
          /\ iter' \in {obj[fiber]} \cup Waiters(obj[fiber])
      BY <1>4, <2>1, <2>2, <2>5 DEF SignalOne, StillWaits
    <3>2. /\ state' = [state EXCEPT ![iter] = "RUNNABLE"]
          /\ state' \in [Slot -> States]
      BY <2>1, <2>5, <3>1, MakeRunnableState DEF WakeUp
    <3>3. /\ flags' = [flags EXCEPT ![iter] = @ \ {"ON_SLEEPQ"}]
          /\ sleepq' = sleepq \ {iter} /\ due' = [due EXCEPT ![iter] = 0]
      BY <2>1, <3>1 DEF WakeUp, DelSleepQ
    <3> QED
      <4>1. DataTypes'
        BY <2>1, <2>3, <2>5, <3>1, <3>2, <3>3 DEF WNode
      <4>2. Control'
        BY <2>1, <2>3, <2>5, <3>1, <3>2, <3>3 DEF WNode
      <4>3. Wakeups'
        BY <2>1, <2>3, <2>5, <3>1, <3>2, <3>3 DEF WNode
      <4>4. Calls'
        BY <2>1, <2>3, <2>5, <3>1, <3>2, <3>3 DEF WNode
      <4>5. JoinInv'
        BY <2>1, <2>3, <2>5, <3>1, <3>2, <3>3 DEF WNode
      <4> QED
        BY <2>4, <4>1, <4>2, <4>3, <4>4, <4>5
  <2>6. CASE state[iter] # "COND_WAIT"
    <3>1. /\ iter' \in {obj[fiber]} \cup Waiters(obj[fiber])
          /\ UNCHANGED <<timeVars, state, links, signalled>>
      BY <1>4, <2>2, <2>6 DEF SignalOne, StillWaits
    <3> QED
      <4>1. DataTypes'
        BY <2>1, <2>3, <3>1 DEF WNode
      <4>2. Control'
        BY <2>1, <2>3, <3>1 DEF WNode
      <4>3. Wakeups'
        BY <2>1, <2>3, <3>1 DEF WNode
      <4>4. Calls'
        BY <2>1, <2>3, <3>1 DEF WNode
      <4>5. JoinInv'
        BY <2>1, <2>3, <3>1 DEF WNode
      <4> QED
        BY <2>4, <4>1, <4>2, <4>3, <4>4, <4>5
  <2> QED
    BY <2>5, <2>6
<1>5. CASE SignalReturn
  <2>1. WaitqWellFormed'
    BY <1>5, WaitqSame DEF SignalReturn, InUserCode, Runnable
  <2> QED
    <3>1. DataTypes'
      BY <1>5 DEF SignalReturn
    <3>2. Control'
      BY <1>5 DEF SignalReturn
    <3>3. Wakeups'
      BY <1>5 DEF SignalReturn
    <3>4. Calls'
      BY <1>5 DEF SignalReturn
    <3>5. JoinInv'
      BY <1>5 DEF SignalReturn
    <3> QED
      BY <2>1, <3>1, <3>2, <3>3, <3>4, <3>5
<1> HIDE DEF Core
<1> QED
  BY <1>1, <1>2, <1>3, <1>4, <1>5 DEF CondStep

(* The steps of the mutexes keep the invariant.                            *)
LEMMA MutexStepInv ==
  ASSUME Core, MutexStep
  PROVE  Core'
<1> USE NodeFacts, VProcAssumption, SyncAssumption DEF Core, Control,
      Wakeups, Calls, DataTypes, ThreadControl, OtherControl,
      OneRunning, SleepqConsistent, LoopInv, LockInv, MutexSafety, OwnerKnows,
      SignalledAwake, TimeoutNotStale, WokenForAReason, JoinInv, Joining, InLoop,
      Exiting, Awake, Waiters,
      Waiting, Labels, runVars, timeVars, lifeVars, vpVars, syncVars, waitVars,
      lockVars, joinVars, GoTo, BlockedIn, Switched
<1>1. ASSUME NEW m \in Mutex, LockFree(m) \/ StMutexTrylock(m)
      PROVE  Core'
  <2>1. WaitqWellFormed'
    BY <1>1, WaitqSame DEF LockFree, StMutexTrylock, GotTheMutex, InUserCode, Runnable
  <2> QED
    <3>1. DataTypes'
      BY <1>1 DEF LockFree, StMutexTrylock, GotTheMutex, InUserCode
    <3>2. Control'
      BY <1>1 DEF LockFree, StMutexTrylock, GotTheMutex, InUserCode
    <3>3. Wakeups'
      BY <1>1 DEF LockFree, StMutexTrylock, GotTheMutex, InUserCode
    <3>4. Calls'
      BY SMTT(60), <1>1 DEF LockFree, StMutexTrylock, GotTheMutex, InUserCode
    <3>5. JoinInv'
      BY <1>1 DEF LockFree, StMutexTrylock, GotTheMutex, InUserCode
    <3> QED
      BY <2>1, <3>1, <3>2, <3>3, <3>4, <3>5
<1>2. ASSUME NEW m \in Mutex, LockBlock(m)
      PROVE  Core'
  <2>1. /\ current = fiber /\ fiber \in Thread
        /\ state[current] = "RUNNING" /\ pc[current] = "run"
        /\ owner[m] \notin {NULL, current}
    BY <1>2 DEF LockBlock, InUserCode
  <2>2. /\ VpSchedule(links, [state EXCEPT ![current] = "LOCK_WAIT"])
        /\ wlinks' = InsertBefore(wlinks, current, m)
        /\ obj' = [obj EXCEPT ![current] = m]
        /\ pc' = [pc EXCEPT ![current] = "lock"]
        /\ UNCHANGED <<timeVars, lifeVars, lockVars, joinVars, iter, signalled>>
    BY <1>2, <2>1 DEF LockBlock
  <2>3. BlockedIn("LOCK_WAIT")
    <3> HIDE DEF BlockedIn
    <3>1. "LOCK_WAIT" \in States \ {"RUNNABLE"}
      BY DEF States
    <3> QED
      BY <2>1, <2>2, <3>1, BlockControl
  <2>4. wlinks' \in ListState(WNode) /\ WaitqWellFormed'
    BY <2>1, <2>2, WaitqEnter DEF WaitObj
  <2> QED
    <3>0. pc' \in [Slot \cup {MAIN} -> Labels] /\ obj' \in [Slot -> WaitObj \cup {NULL}]
      BY <2>1, <2>2 DEF WaitObj
    <3>1. DataTypes'
      BY <2>1, <2>2, <2>3, <2>4, <3>0
    <3>2. Control'
      BY SMTT(60), <2>1, <2>2, <2>3, <2>4 DEF WaitObj
    <3>3. Wakeups'
      BY SMTT(60), <2>1, <2>2, <2>3, <2>4 DEF WaitObj
    <3>4. Calls'
      BY <2>1, <2>2, <2>3, <2>4 DEF WaitObj
    <3>5. JoinInv'
      BY <2>1, <2>2, <2>3, <2>4 DEF WaitObj
    <3> QED
      BY <2>3, <2>4, <3>1, <3>2, <3>3, <3>4, <3>5
<1>3. ASSUME NEW m \in Mutex, StMutexUnlock(m)
      PROVE  Core'
  <2>1. WaitqWellFormed'
    BY <1>3, WaitqSame DEF StMutexUnlock, FirstWaiter, InUserCode, Runnable
  <2>2. iter' \in {m} \cup Waiters(m)
    BY <1>3 DEF StMutexUnlock, FirstWaiter, WaitqWellFormed, Ring, Circular, WaitObj
  <2> QED
    <3>1. DataTypes'
      BY <1>3, <2>2 DEF StMutexUnlock, FirstWaiter, InUserCode, WNode, WaitObj
    <3>2. Control'
      BY <1>3, <2>2 DEF StMutexUnlock, FirstWaiter, InUserCode, WNode, WaitObj
    <3>3. Wakeups'
      BY <1>3, <2>2 DEF StMutexUnlock, FirstWaiter, InUserCode, WNode, WaitObj
    <3>4. Calls'
      BY <1>3, <2>2 DEF StMutexUnlock, FirstWaiter, InUserCode, WNode, WaitObj
    <3>5. JoinInv'
      BY <1>3, <2>2 DEF StMutexUnlock, FirstWaiter, InUserCode, WNode, WaitObj
    <3> QED
      BY <2>1, <3>1, <3>2, <3>3, <3>4, <3>5
<1>4. CASE LockReturn
  <2>1. /\ current = fiber /\ fiber \in Thread
        /\ state[fiber] = "RUNNING" /\ pc[fiber] = "lock"
    BY <1>4 DEF LockReturn, GivesUp
  <2>2. /\ wlinks' = RemoveLink(wlinks, fiber)
        /\ obj' = [obj EXCEPT ![fiber] = NULL]
        /\ pc' = [pc EXCEPT ![fiber] = "run"]
        /\ UNCHANGED <<runVars, lifeVars, joinVars, due, sleepq, owner, iter, signalled>>
    BY <1>4 DEF LockReturn, GivesUp
  <2>4. PICK w \in WaitObj : obj[fiber] = w
    BY <2>1 DEF WaitObj
  <2>5. wlinks' \in ListState(WNode) /\ WaitqWellFormed'
    BY ZenonT(60), <2>1, <2>2, <2>4, WaitqLeave
  <2>6. \/ /\ owner[obj[fiber]] # fiber
           /\ flags' = [flags EXCEPT ![fiber] = @ \ {"INTERRUPT"}]
           /\ held' = held
        \/ /\ owner[obj[fiber]] = fiber
           /\ held' = [held EXCEPT ![fiber] = @ \cup {obj[fiber]}]
           /\ flags' = flags
    BY <1>4, <2>1 DEF LockReturn, GivesUp, Interrupted
  <2> QED
    <3>1. DataTypes'
      BY <2>1, <2>2, <2>5, <2>6
    <3>2. Control'
      BY <2>1, <2>2, <2>5, <2>6
    <3>3. Wakeups'
      BY <2>1, <2>2, <2>5, <2>6
    <3>4. Calls'
      BY <2>1, <2>2, <2>5, <2>6
    <3>5. JoinInv'
      BY <2>1, <2>2, <2>5, <2>6
    <3> QED
      BY <2>5, <3>1, <3>2, <3>3, <3>4, <3>5
<1>5. CASE UnlockOne
  <2>1. /\ current = fiber /\ fiber \in Thread /\ state[fiber] = "RUNNING"
        /\ pc[fiber] = "unlock"
        /\ obj[fiber] \in Mutex /\ obj[fiber] \in WaitObj
        /\ iter \in Waiters(obj[fiber])
    BY <1>5 DEF UnlockOne, WaitObj
  <2>2. wlinks.next[iter] \in {obj[fiber]} \cup Waiters(obj[fiber])
    BY <2>1 DEF WaitqWellFormed, Ring, Circular
  <2>3. UNCHANGED <<timeVars, lifeVars, joinVars, current, fiber, wlinks, held, signalled>>
    BY <1>5 DEF UnlockOne
  <2>4. CASE state[iter] = "LOCK_WAIT"
    <3>1. /\ owner' = [owner EXCEPT ![obj[fiber]] = iter]
          /\ MakeRunnable(iter)
          /\ iter' = NULL
          /\ obj' = [obj EXCEPT ![fiber] = NULL]
          /\ pc' = [pc EXCEPT ![fiber] = "run"]
      BY <1>5, <2>4 DEF UnlockOne
    <3>2. /\ state' = [state EXCEPT ![iter] = "RUNNABLE"]
          /\ state' \in [Slot -> States]
      BY <2>1, <2>4, <3>1, MakeRunnableState
    <3>3. WaitqWellFormed'
      BY <2>1, <2>3, <3>1, WaitqSame
    <3>4. pc[iter] = "lock" /\ obj[iter] = obj[fiber] /\ iter \in Thread /\ iter # fiber
      BY <2>1, <2>4
    <3> QED
      <4>1. DataTypes'
        BY <2>1, <2>3, <2>4, <3>1, <3>2, <3>4
      <4>2. Control'
        BY <2>1, <2>3, <2>4, <3>1, <3>2, <3>4
      <4>3. Wakeups'
        BY <2>1, <2>3, <2>4, <3>1, <3>2, <3>4
      <4>4. Calls'
        BY <2>1, <2>3, <2>4, <3>1, <3>2, <3>4
      <4>5. JoinInv'
        BY <2>1, <2>3, <2>4, <3>1, <3>2, <3>4
      <4> QED
        BY <3>2, <3>3, <4>1, <4>2, <4>3, <4>4, <4>5
  <2>5. CASE state[iter] # "LOCK_WAIT"
    <3>1. /\ iter' \in {obj[fiber]} \cup Waiters(obj[fiber])
          /\ UNCHANGED <<state, links, owner, obj, pc>>
      BY <1>5, <2>2, <2>5 DEF UnlockOne
    <3>2. WaitqWellFormed'
      BY <2>3, <3>1, WaitqSame DEF Runnable
    <3> QED
      <4>1. DataTypes'
        BY <2>1, <2>3, <3>1 DEF WNode
      <4>2. Control'
        BY <2>1, <2>3, <3>1 DEF WNode
      <4>3. Wakeups'
        BY <2>1, <2>3, <3>1 DEF WNode
      <4>4. Calls'
        BY <2>1, <2>3, <3>1 DEF WNode
      <4>5. JoinInv'
        BY <2>1, <2>3, <3>1 DEF WNode
      <4> QED
        BY <3>2, <4>1, <4>2, <4>3, <4>4, <4>5
  <2> QED
    BY <2>4, <2>5
<1>6. CASE UnlockNone
  <2>1. WaitqWellFormed'
    BY <1>6, WaitqSame DEF UnlockNone, InUserCode, Runnable
  <2> QED
    <3>1. DataTypes'
      BY <1>6 DEF UnlockNone
    <3>2. Control'
      BY <1>6 DEF UnlockNone
    <3>3. Wakeups'
      BY <1>6 DEF UnlockNone
    <3>4. Calls'
      BY <1>6 DEF UnlockNone
    <3>5. JoinInv'
      BY <1>6 DEF UnlockNone
    <3> QED
      BY <2>1, <3>1, <3>2, <3>3, <3>4, <3>5
<1> HIDE DEF Core
<1> QED
  BY <1>1, <1>2, <1>3, <1>4, <1>5, <1>6 DEF MutexStep

(* Creating and ending threads keeps the invariant.                        *)
LEMMA LifeStepInv ==
  ASSUME Core,
         \/ \E t \in Thread : \E j \in Joinable : Create(t, j)
         \/ EndOfThread \/ ExitBegin \/ ExitEnd
  PROVE  Core'
<1> USE NodeFacts, VProcAssumption, SyncAssumption DEF Core, Control,
      Wakeups, Calls, DataTypes, ThreadControl, OtherControl,
      OneRunning, SleepqConsistent, LoopInv, LockInv, MutexSafety, OwnerKnows,
      SignalledAwake, TimeoutNotStale, WokenForAReason, JoinInv, Joining, InLoop,
      Exiting, Awake, Waiters,
      Waiting, Labels, runVars, timeVars, lifeVars, vpVars, syncVars, waitVars,
      lockVars, joinVars, GoTo, BlockedIn, Switched
<1>1. ASSUME NEW t \in Thread, NEW j \in Joinable, Create(t, j)
      PROVE  Core'
  <2>0. PICK c \in (IF j THEN TermCond \ allocated ELSE {NULL}) :
          /\ StThreadCreate(t, c)
          /\ allocated' = allocated \cup ({c} \ {NULL})
          /\ wlinks' = IF c = NULL THEN wlinks
                       ELSE [next |-> [wlinks.next EXCEPT ![c] = c],
                             prev |-> [wlinks.prev EXCEPT ![c] = c]]
    BY <1>1 DEF Create
  <2>c. c \in TermCond \cup {NULL} /\ (c # NULL => c \notin allocated)
    <3>1. j \in BOOLEAN
      OBVIOUS
    <3> QED
      BY <3>1
  <2>1. /\ obj' = [obj EXCEPT ![t] = NULL]
        /\ UNCHANGED <<lockVars, iter, joinee, signalled>>
    BY <1>1 DEF Create
  <2>2. /\ t # fiber /\ current # t /\ t \notin signalled
        /\ pc[t] \in {"run", "dead"} /\ ~Waiting(t) /\ t \notin sleepq
    BY <2>0 DEF StThreadCreate, InUserCode
  <2>3. /\ state' = [state EXCEPT ![t] = "RUNNABLE"]
        /\ flags' = [flags EXCEPT ![t] = {}]
        /\ due' = [due EXCEPT ![t] = 0]
        /\ term' = [term EXCEPT ![t] = c]
        /\ active' = active + 1
        /\ pc' = [pc EXCEPT ![t] = "run"]
        /\ UNCHANGED <<sleepq, current, fiber>>
    BY <2>0 DEF StThreadCreate
  <2>4. state' \in [Slot -> States]
    BY <2>3 DEF States
  <2>5. wlinks' \in ListState(WNode) /\ WaitqWellFormed'
    <3>1. CASE c = NULL
      BY <2>0, <2>1, <2>2, <2>3, <3>1, WaitqSame
    <3>2. CASE c # NULL
      <4>1. Waiters(c) = {} /\ c \in TermCond
        BY <2>c, <3>2 DEF CondVar
      <4>2. \A w \in WaitObj : Waiters(w)' = Waiters(w)
        BY <2>1, <2>2, <2>3
      <4> HIDE DEF Waiters
      <4> QED
        BY <2>0, <3>2, <4>1, <4>2, WaitqFresh
    <3> QED
      BY <3>1, <3>2
  <2>6. fiber \in Thread \/ (fiber = MAIN /\ current = NULL)
    BY <2>0 DEF StThreadCreate, InUserCode
  <2> QED
    <3>1. DataTypes'
      BY <2>0, <2>c, <2>1, <2>2, <2>3, <2>4, <2>5, <2>6
    <3>2. Control'
      BY <2>1, <2>2, <2>3, <2>4, <2>6
    <3>3. Wakeups'
      BY <2>1, <2>2, <2>3, <2>4, <2>6
    <3>4. Calls'
      BY <2>1, <2>2, <2>3, <2>4, <2>6
    <3>5. JoinInv'
      BY <2>0, <2>c, <2>1, <2>2, <2>3
    <3> QED
      BY <2>5, <3>1, <3>2, <3>3, <3>4, <3>5
<1>2. CASE EndOfThread
  <2>1. WaitqWellFormed'
    BY <1>2, WaitqSame DEF EndOfThread, InUserCode
  <2> QED
    <3>1. DataTypes'
      BY <1>2 DEF EndOfThread, InUserCode
    <3>2. Control'
      BY <1>2 DEF EndOfThread, InUserCode
    <3>3. Wakeups'
      BY <1>2 DEF EndOfThread, InUserCode
    <3>4. Calls'
      BY <1>2 DEF EndOfThread, InUserCode
    <3>5. JoinInv'
      BY <1>2 DEF EndOfThread, InUserCode
    <3> QED
      BY <2>1, <3>1, <3>2, <3>3, <3>4, <3>5
<1>3. CASE ExitBegin
  <2>1. /\ current = fiber /\ fiber \in Slot
        /\ pc[fiber] \in {"exit", "exitcall"}
        /\ fiber \in Thread => state[fiber] \in {"RUNNING", "ZOMBIE"}
        /\ term[fiber] # NULL => fiber \in Thread
        /\ iter = NULL
    BY <1>3 DEF ExitBegin, Slot
  <2>2. PICK label \in {"exited", "exitcalled"} :
          /\ pc' = [pc EXCEPT ![fiber] = label]
          /\ fiber = Idle => label = "exited"
    BY <1>3, <2>1 DEF ExitBegin
  <2>3. /\ active' = active - 1
        /\ state' = [state EXCEPT ![fiber] = "ZOMBIE"]
        /\ obj' = [obj EXCEPT ![fiber] = term[fiber]]
        /\ UNCHANGED <<timeVars, lockVars, joinVars, term, current, fiber,
                       wlinks, signalled>>
    BY <1>3, <2>1 DEF ExitBegin
  <2>4. \/ term[fiber] = NULL /\ iter' = NULL
        \/ term[fiber] # NULL /\ iter' \in {term[fiber]} \cup Waiters(term[fiber])
    <3>1. CASE term[fiber] = NULL
      BY <1>3, <2>1, <3>1 DEF ExitBegin
    <3>2. CASE term[fiber] # NULL
      <4>1. term[fiber] \in WaitObj /\ iter' = wlinks.next[term[fiber]]
        BY <1>3, <2>1, <3>2 DEF ExitBegin, WaitObj, CondVar
      <4>2. Ring(wlinks, term[fiber], {term[fiber]} \cup Waiters(term[fiber]))
        BY <4>1 DEF WaitqWellFormed
      <4> QED
        BY <3>2, <4>1, <4>2 DEF Ring, Circular
    <3> QED
      BY <3>1, <3>2
  <2>5. WaitqWellFormed'
    BY <2>1, <2>2, <2>3, WaitqSame
  <2> QED
    <3>1. DataTypes'
      BY <2>1, <2>2, <2>3, <2>4 DEF States, WNode, WaitObj, CondVar
    <3>2. Control'
      BY <2>1, <2>2, <2>3
    <3>3. Wakeups'
      BY <2>1, <2>2, <2>3
    <3>4. Calls'
      BY <2>1, <2>2, <2>3, <2>4
    <3>5. JoinInv'
      BY <2>1, <2>2, <2>3
    <3> QED
      BY <2>5, <3>1, <3>2, <3>3, <3>4, <3>5
<1>4. CASE ExitEnd
  <2>1. /\ current = fiber /\ fiber \in Slot
        /\ pc[fiber] \in {"exited", "exitcalled"}
        /\ state[fiber] = "ZOMBIE"
        /\ pc[fiber] = "exitcalled" => fiber \in Thread
    BY <1>4 DEF ExitEnd, Slot
  <2>2. /\ term' = [term EXCEPT ![fiber] = NULL]
        /\ obj' = [obj EXCEPT ![fiber] = NULL]
        /\ iter' = NULL
        /\ UNCHANGED <<timeVars, lockVars, state, links, active, current,
                       wlinks, joinee, signalled>>
    BY <1>4, <2>1 DEF ExitEnd
  <2>3. \/ pc' = [pc EXCEPT ![fiber] = "dead"] /\ fiber' = MAIN
        \/ /\ pc' = [pc EXCEPT ![fiber] = "landed"] /\ fiber' = fiber
           /\ fiber \in Thread
    BY <1>4, <2>1 DEF ExitEnd
  <2>4. /\ allocated' \in SUBSET allocated
        /\ \A s \in Slot \ {fiber} : term[s] # NULL => term[s] \in allocated'
        /\ \A t \in Thread : Joining(t) => obj[t] \in allocated'
    <3>1. CASE term[fiber] # NULL /\ ~Busy(term[fiber])
      <4>1. term[fiber] \in WaitObj
        BY <2>1, <3>1 DEF WaitObj, CondVar
      <4>2. Waiters(term[fiber]) = {}
        BY <3>1, <4>1, NobodyWaits
      <4>3. allocated' = allocated \ {term[fiber]}
        BY <1>4, <2>1, <3>1 DEF ExitEnd
      <4> QED
        BY <2>1, <3>1, <4>2, <4>3
    <3>2. CASE ~(term[fiber] # NULL /\ ~Busy(term[fiber]))
      BY <1>4, <2>1, <3>2 DEF ExitEnd
    <3> QED
      BY <3>1, <3>2
  <2>5. WaitqWellFormed'
    BY <2>1, <2>2, <2>3, WaitqSame
  <2> QED
    <3>1. DataTypes'
      BY <2>1, <2>2, <2>3, <2>4
    <3>2. Control'
      BY <2>1, <2>2, <2>3
    <3>3. Wakeups'
      BY <2>1, <2>2, <2>3
    <3>4. Calls'
      BY <2>1, <2>2, <2>3
    <3>5. JoinInv'
      BY <2>1, <2>2, <2>3, <2>4
    <3> QED
      BY <2>5, <3>1, <3>2, <3>3, <3>4, <3>5
<1> HIDE DEF Core
<1> QED
  BY <1>1, <1>2, <1>3, <1>4

(* Joining a thread keeps the invariant.                                   *)
LEMMA JoinStepInv ==
  ASSUME Core,
         \/ \E t \in Thread : StThreadJoin(t)
         \/ JoinWait \/ JoinGiveUp \/ JoinCondReturn \/ JoinReap
  PROVE  Core'
<1> USE NodeFacts, VProcAssumption, SyncAssumption DEF Core, Control,
      Wakeups, Calls, DataTypes, ThreadControl, OtherControl,
      OneRunning, SleepqConsistent, LoopInv, LockInv, MutexSafety, OwnerKnows,
      SignalledAwake, TimeoutNotStale, WokenForAReason, JoinInv, Joining, InLoop,
      Exiting, Awake, Waiters,
      Waiting, Labels, runVars, timeVars, lifeVars, vpVars, syncVars, waitVars,
      lockVars, joinVars, GoTo, BlockedIn, Switched
<1>1. ASSUME NEW t \in Thread, StThreadJoin(t)
      PROVE  Core'
  <2>1. /\ fiber \in Thread /\ current = fiber /\ state[fiber] = "RUNNING"
        /\ pc[fiber] = "run" /\ term[t] # NULL /\ term[t] \in WaitObj
        /\ term[t] \in allocated /\ iter = NULL
    BY <1>1 DEF StThreadJoin, InUserCode, WaitObj, CondVar
  <2>2. Waiters(term[t]) = {}
    BY <1>1, <2>1, NobodyWaits DEF StThreadJoin
  <2>3. /\ joinee' = [joinee EXCEPT ![fiber] = t]
        /\ obj' = [obj EXCEPT ![fiber] = term[t]]
        /\ pc' = [pc EXCEPT ![fiber] = "join"]
        /\ UNCHANGED <<runVars, timeVars, lifeVars, lockVars, wlinks, iter,
                       allocated, signalled>>
    BY <1>1 DEF StThreadJoin
  <2>4. WaitqWellFormed'
    BY <2>1, <2>3, WaitqSame
  <2> QED
    <3>1. DataTypes'
      BY <2>1, <2>3
    <3>2. Control'
      BY <2>1, <2>3
    <3>3. Wakeups'
      BY <2>1, <2>3
    <3>4. Calls'
      BY <2>1, <2>3
    <3>5. JoinInv'
      BY <2>1, <2>2, <2>3
    <3> QED
      BY <2>4, <3>1, <3>2, <3>3, <3>4, <3>5
<1>2. CASE JoinWait
  <2>1. /\ fiber \in Thread /\ current = fiber /\ state[current] = "RUNNING"
        /\ pc[current] = "join"
    BY <1>2 DEF JoinWait
  <2>w. PICK w \in WaitObj : w = obj[fiber]
    BY <2>1 DEF WaitObj, CondVar
  <2>2. /\ VpSchedule(links, [state EXCEPT ![current] = "COND_WAIT"])
        /\ wlinks' = InsertBefore(wlinks, current, w)
        /\ obj' = [obj EXCEPT ![current] = w]
        /\ pc' = [pc EXCEPT ![current] = "joincond"]
        /\ UNCHANGED <<timeVars, lifeVars, lockVars, joinVars, iter, signalled>>
    BY <1>2, <2>1, <2>w DEF JoinWait, CondBlock
  <2>3. BlockedIn("COND_WAIT")
    <3> HIDE DEF BlockedIn
    <3>1. "COND_WAIT" \in States \ {"RUNNABLE"}
      BY DEF States
    <3> QED
      BY <2>1, <2>2, <3>1, BlockControl
  <2>4. wlinks' \in ListState(WNode) /\ WaitqWellFormed'
    BY <2>1, <2>2, WaitqEnter
  <2>5. /\ pc' \in [Slot \cup {MAIN} -> Labels] /\ iter = NULL
        /\ obj' \in [Slot -> WaitObj \cup {NULL}]
        /\ \A t \in Slot : obj'[t] = obj[t]
    BY <2>1, <2>2, <2>w
  <2> QED
    <3>1. DataTypes'
      BY <2>1, <2>2, <2>3, <2>4, <2>5
    <3>2. Control'
      BY <2>1, <2>2, <2>3, <2>5
    <3>3. Wakeups'
      BY SMTT(60), <2>1, <2>2, <2>3, <2>5
    <3>4. Calls'
      BY <2>1, <2>2, <2>3, <2>5
    <3>5. JoinInv'
      BY <2>1, <2>2, <2>3, <2>5
    <3> QED
      BY <2>4, <3>1, <3>2, <3>3, <3>4, <3>5
<1>3. CASE JoinGiveUp
  <2>1. /\ fiber \in Thread /\ current = fiber /\ state[fiber] = "RUNNING"
        /\ pc[fiber] = "join" /\ iter = NULL
    BY <1>3 DEF JoinGiveUp
  <2>2. /\ flags' = [flags EXCEPT ![fiber] = @ \ {"INTERRUPT"}]
        /\ joinee' = [joinee EXCEPT ![fiber] = NULL]
        /\ obj' = [obj EXCEPT ![fiber] = NULL]
        /\ pc' = [pc EXCEPT ![fiber] = "run"]
        /\ UNCHANGED <<runVars, lifeVars, lockVars, due, sleepq, wlinks, iter,
                       allocated, signalled>>
    BY <1>3, <2>1 DEF JoinGiveUp
  <2>3. WaitqWellFormed'
    BY <2>1, <2>2, WaitqSame
  <2> QED
    <3>1. DataTypes'
      BY <2>1, <2>2
    <3>2. Control'
      BY <2>1, <2>2
    <3>3. Wakeups'
      BY <2>1, <2>2
    <3>4. Calls'
      BY <2>1, <2>2
    <3>5. JoinInv'
      BY <2>1, <2>2
    <3> QED
      BY <2>3, <3>1, <3>2, <3>3, <3>4, <3>5
<1>4. CASE JoinCondReturn
  <2>1. /\ fiber \in Thread /\ current = fiber /\ state[fiber] = "RUNNING"
        /\ pc[fiber] = "joincond" /\ iter = NULL
    BY <1>4 DEF JoinCondReturn
  <2>2. PICK w \in WaitObj : w = obj[fiber]
    BY <2>1 DEF WaitObj, CondVar
  <2>3. /\ wlinks' = RemoveLink(wlinks, fiber)
        /\ flags' = [flags EXCEPT ![fiber] = @ \ {"TIMEDOUT", "INTERRUPT"}]
        /\ signalled' = signalled \ {fiber}
        /\ UNCHANGED <<runVars, lifeVars, lockVars, due, sleepq, iter, allocated>>
    BY <1>4 DEF JoinCondReturn, CondResume, Reported
  <2>4. \/ /\ pc' = [pc EXCEPT ![fiber] = "run"]
           /\ obj' = [obj EXCEPT ![fiber] = NULL]
           /\ joinee' = [joinee EXCEPT ![fiber] = NULL]
        \/ /\ pc' = [pc EXCEPT ![fiber] = "join"]
           /\ obj' = [obj EXCEPT ![fiber] = obj[fiber]]
           /\ joinee' = joinee
    <3>1. CASE Interrupted(fiber)
      BY <1>4, <3>1 DEF JoinCondReturn, CondResume
    <3>2. CASE ~Interrupted(fiber)
      BY <1>4, <2>1, <3>2 DEF JoinCondReturn, CondResume
    <3> QED
      BY <3>1, <3>2
  <2>5. wlinks' \in ListState(WNode) /\ WaitqWellFormed'
    <3>1. PICK label \in {"run", "join"} : pc' = [pc EXCEPT ![fiber] = label]
      BY <2>4
    <3>2. PICK arg \in {NULL, w} : obj' = [obj EXCEPT ![fiber] = arg]
      BY <2>2, <2>4
    <3> QED
      BY ZenonT(60), <2>1, <2>2, <2>3, <3>1, <3>2, WaitqLeave
  <2> QED
    <3>1. DataTypes'
      BY SMTT(60), <2>1, <2>3, <2>4, <2>5
    <3>2. Control'
      BY <2>1, <2>3, <2>4
    <3>3. Wakeups'
      BY <2>1, <2>3, <2>4
    <3>4. Calls'
      BY <2>1, <2>3, <2>4
    <3>5. JoinInv'
      BY SMTT(60), <2>1, <2>3, <2>4
    <3> QED
      BY <2>5, <3>1, <3>2, <3>3, <3>4, <3>5
<1>5. CASE JoinReap
  <2>1. /\ fiber \in Thread /\ current = fiber /\ state[fiber] = "RUNNING"
        /\ pc[fiber] = "join" /\ iter = NULL
    BY <1>5 DEF JoinReap
  <2>2. PICK t \in Thread : t = joinee[fiber]
    BY <2>1
  <2>3. /\ state[t] = "ZOMBIE"
        /\ state' = [state EXCEPT ![t] = "RUNNABLE"]
        /\ joinee' = [joinee EXCEPT ![fiber] = NULL]
        /\ obj' = [obj EXCEPT ![fiber] = NULL]
        /\ pc' = [pc EXCEPT ![fiber] = "run"]
        /\ UNCHANGED <<timeVars, lifeVars, lockVars, current, fiber, wlinks,
                       iter, allocated, signalled>>
    BY <1>5, <2>2 DEF JoinReap
  <2>4. pc[t] = "dead" /\ t # fiber
    BY <2>1, <2>3
  <2>5. WaitqWellFormed'
    BY <2>1, <2>3, WaitqSame
  <2> QED
    <3>1. DataTypes'
      BY <2>1, <2>3, <2>4 DEF States
    <3>2. Control'
      BY <2>1, <2>3, <2>4
    <3>3. Wakeups'
      BY <2>1, <2>3, <2>4
    <3>4. Calls'
      BY <2>1, <2>3, <2>4
    <3>5. JoinInv'
      BY <2>1, <2>3, <2>4
    <3> QED
      BY <2>5, <3>1, <3>2, <3>3, <3>4, <3>5
<1> HIDE DEF Core
<1> QED
  BY <1>1, <1>2, <1>3, <1>4, <1>5

(* Core is inductive, so it holds in every reachable state of every        *)
(* program, joinable threads and calls of st_thread_exit included.         *)
THEOREM CoreInvariance == Spec => []Core
<1>1. Init => Core
  <2> SUFFICES ASSUME Init PROVE Core
    OBVIOUS
  <2> USE NodeFacts, VProcAssumption, SyncAssumption DEF Init, VpInit, SyncInit
  <2>1. DataTypes
    BY DEF DataTypes, States, Flags, ListState, Labels, WNode
  <2>2. Control
    BY DEF Control, ThreadControl, OtherControl, OneRunning, Awake
  <2>3. Wakeups
    BY DEF Wakeups, SleepqConsistent, SignalledAwake, TimeoutNotStale, WokenForAReason, Awake
  <2>4. Calls
    BY DEF Calls, LoopInv, LockInv, MutexSafety, OwnerKnows, InLoop, Exiting
  <2>5. JoinInv
    BY DEF JoinInv, Joining
  <2>6. WaitqWellFormed
    <3> SUFFICES ASSUME NEW w \in WaitObj
                 PROVE  Ring(wlinks, w, {w} \cup Waiters(w))
      BY DEF WaitqWellFormed
    <3>1. Waiters(w) = {} /\ wlinks.next[w] = w /\ wlinks.prev[w] = w
      BY DEF Waiters, Waiting, WNode
    <3> QED
      BY <3>1, EmptyRing
  <2> QED
    BY <2>1, <2>2, <2>3, <2>4, <2>5, <2>6 DEF Core
<1>2. Core /\ [Next]_vars => Core'
  <2> SUFFICES ASSUME Core, [Next]_vars PROVE Core'
    OBVIOUS
  <2>1. CASE UNCHANGED vars
    BY <2>1 DEF vars, vpVars, runVars, timeVars, lifeVars, syncVars, waitVars,
       lockVars, joinVars, Core, Control, Wakeups, Calls, DataTypes,
       ThreadControl, OtherControl, OneRunning, SleepqConsistent, LoopInv,
       LockInv, MutexSafety, OwnerKnows, SignalledAwake, TimeoutNotStale,
       WokenForAReason, InLoop, Exiting, JoinInv, Joining, WaitqWellFormed,
       Waiters, Waiting
  <2>2. CASE LifeStep
    BY <2>2, LifeStepInv, JoinStepInv DEF LifeStep
  <2> QED
    BY <2>1, <2>2, VpStepInv, CondStepInv, MutexStepInv DEF Next, Ended
<1> QED
  BY <1>1, <1>2, PTL DEF Spec

(* Every wait queue is always well linked and holds exactly the threads    *)
(* inside a blocking call on it.                                           *)
THEOREM WaitQueuesCorrect == Spec => []WaitqWellFormed
<1>1. Core => WaitqWellFormed
  BY DEF Core
<1> QED
  BY <1>1, CoreInvariance, PTL

(* A thread in the timeout heap is blocked and flagged as being in it.     *)
THEOREM SleepQueueCorrect == Spec => []SleepqConsistent
<1>1. Core => SleepqConsistent
  BY DEF Core, Wakeups
<1> QED
  BY <1>1, CoreInvariance, PTL

(* A thread whose st_mutex_lock or st_mutex_trylock returned 0 and that    *)
(* has not unlocked since is the owner of the mutex.                       *)
THEOREM MutualExclusion == Spec => []MutexSafety
<1>1. Core => MutexSafety
  BY DEF Core, Calls
<1> QED
  BY <1>1, CoreInvariance, PTL

(* No mutex is ever owned by a thread that does not know it.               *)
THEOREM NoOrphanOwner == Spec => []OwnerKnows
<1>1. Core => OwnerKnows
  BY DEF Core, Calls
<1> QED
  BY <1>1, CoreInvariance, PTL

(* A condition wait ends for the reason it reports.                        *)
THEOREM WakeUpReasons == Spec => []WokenForAReason
<1>1. Core => WokenForAReason
  BY DEF Core, Wakeups
<1> QED
  BY <1>1, CoreInvariance, PTL

(* The time-out of one wait is never reported by a later one.              *)
THEOREM TimeoutReports == Spec => []TimeoutNotStale
<1>1. Core => TimeoutNotStale
  BY DEF Core, Wakeups
<1> QED
  BY <1>1, CoreInvariance, PTL

(* No two threads ever wait on the termination condition variable of the   *)
(* same thread, whatever is interrupted and however slots are reused.      *)
THEOREM SingleJoiner == Spec => []OneJoiner
<1>1. Core => OneJoiner
  BY DEF Core, JoinInv, Joining, OneJoiner
<1> QED
  BY <1>1, CoreInvariance, PTL

(* st_thread_exit never frees a termination condition variable that a      *)
(* joiner uses or that another thread object names.                        *)
THEOREM TermCondKept == Spec => []TermCondInUse
<1>1. Core => TermCondInUse
  BY DEF Core, JoinInv, Joining, TermCondInUse, Slot
<1> QED
  BY <1>1, CoreInvariance, PTL

-----------------------------------------------------------------------------
(* What a step may do to the state of one thread: wake a thread that is    *)
(* alive, block or end the thread that executes, or begin a new one.       *)
Wakes(t)  == state[t] \notin {"UNUSED", "ZOMBIE"} /\ state'[t] \in Awake
Blocks(t) == /\ t = fiber /\ state[t] = "RUNNING"
             /\ \/ state'[t] \in {"COND_WAIT", "SUSPENDED"}
                \/ state'[t] = "SLEEPING" /\ t \in sleepq'
                \/ state'[t] = "LOCK_WAIT" /\ owner'[obj'[t]] # NULL
Begins(t) == /\ state[t] \in {"UNUSED", "ZOMBIE"} /\ state'[t] = "RUNNABLE"
             /\ (\E j \in Joinable : Create(t, j)) \/ JoinReap
Ends(t)   == t = fiber /\ state'[t] = "ZOMBIE" /\ ExitBegin

StateSteps ==
  /\ \A t \in Thread : \/ state'[t] = state[t]
                       \/ Wakes(t) \/ Blocks(t) \/ Begins(t) \/ Ends(t)
  /\ \A t \in sleepq : t \in sleepq' \/ state'[t] = "RUNNABLE"

(* The executing thread blocks in the state `new` and another one, or the  *)
(* idle thread, goes on.                                                   *)
LEMMA BlockStates ==
  ASSUME Core, current \in Thread, current = fiber, state[current] = "RUNNING",
         NEW new \in {"SLEEPING", "SUSPENDED", "COND_WAIT", "LOCK_WAIT"},
         VpSchedule(links, [state EXCEPT ![current] = new])
  PROVE  /\ state'[fiber] = new
         /\ \A t \in Thread : t # fiber => state'[t] = state[t] \/ Wakes(t)
<1>1. new \in States \ {"RUNNABLE"} /\ state \in [Slot -> States]
  BY DEF Core, DataTypes, States
<1>2. BlockedIn(new)
  BY <1>1, BlockControl
<1> QED
  BY <1>2, NodeFacts DEF BlockedIn, Switched, Wakes, Awake

(* A fiber that is not a thread schedules.                                 *)
LEMMA PassStates ==
  ASSUME Core, fiber \in {MAIN, Idle}, NEW new \in States,
         \/ VpSchedule(links, state)
         \/ VpSchedule(links, [state EXCEPT ![Idle] = new])
  PROVE  \A t \in Thread : state'[t] = state[t] \/ Wakes(t)
<1>1. /\ state \in [Slot -> States] /\ current \in Slot \cup {NULL}
      /\ current \in Thread => state[current] # "RUNNABLE"
  BY NodeFacts DEF Core, DataTypes, Control, OtherControl, OneRunning,
                   ThreadControl
<1>2. state = [state EXCEPT ![Idle] = state[Idle]] /\ state[Idle] \in States
  BY <1>1, NodeFacts
<1>3. PICK x \in States : VpSchedule(links, [state EXCEPT ![Idle] = x])
  BY <1>2
<1>4. Passed
  BY <1>1, <1>3, PassControl
<1> QED
  BY <1>4, NodeFacts DEF Passed, Switched, Wakes, Awake

(* Every step changes the states of the threads in one of these ways.      *)
LEMMA StateStep ==
  ASSUME Core, [Next]_vars
  PROVE  StateSteps
<1>a. /\ state \in [Slot -> States] /\ flags \in [Slot -> SUBSET Flags]
      /\ owner \in [Mutex -> Thread \cup {NULL}]
      /\ obj \in [Slot -> WaitObj \cup {NULL}]
      /\ pc \in [Slot \cup {MAIN} -> Labels]
      /\ sleepq \in SUBSET Thread
      /\ \A t \in Thread : ThreadControl(t)
      /\ fiber \in Slot => current = fiber
      /\ SleepqConsistent /\ LoopInv /\ JoinInv
      /\ joinee \in [Thread -> Thread \cup {NULL}]
  BY DEF Core, DataTypes, Control, OneRunning, Wakeups, Calls
<1>b. ASSUME state' = state, sleepq \subseteq sleepq' PROVE StateSteps
  BY <1>b DEF StateSteps
<1>c. ASSUME NEW STATE u, u \in Thread, state[u] \notin {"UNUSED", "ZOMBIE"},
             MakeRunnable(u), sleepq \ {u} \subseteq sleepq'
      PROVE  StateSteps
  <2>1. \A t \in Thread : state'[t] = IF t = u THEN "RUNNABLE" ELSE state[t]
    BY <1>a, <1>c, NodeFacts DEF MakeRunnable
  <2> QED
    BY <1>a, <1>c, <2>1 DEF StateSteps, Wakes, Awake
<1>d. InUserCode => /\ fiber \in Thread /\ current = fiber
                    /\ state[fiber] = "RUNNING" /\ pc[fiber] = "run"
  BY <1>a, NodeFacts DEF InUserCode, ThreadControl, Awake
<1>1. CASE VpStep
  <2>1. ASSUME NEW d \in Timeouts, StUsleep(d) PROVE StateSteps
    <3>1. InUserCode /\ UsleepBlock(d) /\ current # NULL
      BY <1>d, <2>1, NodeFacts DEF StUsleep
    <3>2. /\ VpSchedule(links, [state EXCEPT ![current] = "SLEEPING"])
          /\ AddSleepQ(current, d)
      BY <1>d, <3>1 DEF UsleepBlock
    <3>3. /\ state'[fiber] = "SLEEPING"
          /\ \A t \in Thread : t # fiber => state'[t] = state[t] \/ Wakes(t)
      BY <1>d, <3>1, <3>2, BlockStates
    <3> QED
      BY <1>d, <3>1, <3>2, <3>3 DEF StateSteps, Blocks, AddSleepQ
  <2>2. ASSUME NEW d \in Timeouts, MainUsleep(d) PROVE StateSteps
    <3>1. /\ fiber = MAIN /\ VpSchedule(links, state) /\ sleepq' = sleepq
      BY <2>2 DEF MainUsleep, UsleepBlock, Core, Control, OtherControl, timeVars
    <3>2. \A t \in Thread : state'[t] = state[t] \/ Wakes(t)
      BY <3>1, PassStates DEF States
    <3> QED
      BY <3>1, <3>2 DEF StateSteps
  <2>3. CASE StSuspend
    <3>1. /\ InUserCode /\ sleepq' = sleepq
          /\ VpSchedule(links, [state EXCEPT ![current] = "SUSPENDED"])
      BY <2>3 DEF StSuspend, timeVars
    <3>2. /\ state'[fiber] = "SUSPENDED"
          /\ \A t \in Thread : t # fiber => state'[t] = state[t] \/ Wakes(t)
      BY <1>d, <3>1, BlockStates
    <3> QED
      BY <1>d, <3>1, <3>2 DEF StateSteps, Blocks
  <2>4. CASE BlockingCallEINTR
    BY <1>b, <2>4 DEF BlockingCallEINTR, ReturnEINTR, runVars
  <2>5. ASSUME NEW t \in Thread, StThreadInterrupt(t) PROVE StateSteps
    <3>1. CASE NotBlocked(t)
      BY <1>b, <2>5, <3>1 DEF StThreadInterrupt
    <3>2. CASE ~NotBlocked(t)
      <4>1. WakeUp(t, {"INTERRUPT"}) /\ state[t] \notin {"UNUSED", "ZOMBIE"}
        BY <2>5, <3>2 DEF StThreadInterrupt, Interruptible
      <4>2. MakeRunnable(t) /\ sleepq \ {t} \subseteq sleepq'
        BY <4>1 DEF WakeUp, DelSleepQ
      <4> QED
        BY <1>c, <4>1, <4>2
    <3> QED
      BY <3>1, <3>2
  <2>6. ASSUME NEW e \in Elapsed, CheckClock(e) PROVE StateSteps
    BY <1>b, <2>6 DEF CheckClock, runVars
  <2>7. ASSUME NEW t \in Thread, ExpireOne(t) PROVE StateSteps
    <3>1. MakeRunnable(t) /\ sleepq \ {t} \subseteq sleepq' /\ t \in sleepq
      BY <2>7 DEF ExpireOne, DelSleepQ
    <3>2. state[t] \notin {"UNUSED", "ZOMBIE"}
      BY <1>a, <3>1 DEF SleepqConsistent
    <3> QED
      BY <1>c, <3>1, <3>2
  <2>8. CASE IdleSchedule
    <3> DEFINE new == IF state[Idle] = "ZOMBIE" THEN "ZOMBIE" ELSE "RUNNABLE"
    <3>1. fiber = Idle /\ new \in States /\ sleepq' = sleepq
      BY <2>8 DEF IdleSchedule, timeVars, States
    <3>2. CASE active > 0
      <4>1. VpSchedule(links, [state EXCEPT ![Idle] = new])
        BY <2>8, <3>2 DEF IdleSchedule
      <4> HIDE DEF new
      <4>2. \A t \in Thread : state'[t] = state[t] \/ Wakes(t)
        BY <3>1, <4>1, PassStates
      <4> QED
        BY <3>1, <4>2 DEF StateSteps
    <3>3. CASE ~(active > 0)
      <4>1. \A t \in Thread : state'[t] = state[t]
        BY <1>a, <2>8, <3>3, NodeFacts DEF IdleSchedule
      <4> QED
        BY <3>1, <4>1 DEF StateSteps
    <3> QED
      BY <3>2, <3>3
  <2>9. CASE MainSchedule
    <3>1. fiber = MAIN /\ VpSchedule(links, state) /\ sleepq' = sleepq
      BY <2>9 DEF MainSchedule, timeVars
    <3>2. \A t \in Thread : state'[t] = state[t] \/ Wakes(t)
      BY <3>1, PassStates DEF States
    <3> QED
      BY <3>1, <3>2 DEF StateSteps
  <2>10. CASE \/ IdleLoop \/ IdleReturns \/ MainStart \/ MainReturns
              \/ DeadFiberResumed \/ CreateOverLiveThread
    BY <1>b, <2>10 DEF IdleLoop, IdleReturns, MainStart, MainReturns,
       DeadFiberResumed, CreateOverLiveThread, runVars, timeVars
  <2> QED
    BY <1>1, <2>1, <2>2, <2>3, <2>4, <2>5, <2>6, <2>7, <2>8, <2>9, <2>10
       DEF VpStep, VpNext
<1>2. CASE CondStep
  <2>1. ASSUME NEW c \in Cond, NEW d \in Timeouts \cup {NULL}, StCondTimedwait(c, d)
        PROVE  StateSteps
    <3>1. /\ InUserCode /\ sleepq \subseteq sleepq'
          /\ VpSchedule(links, [state EXCEPT ![current] = "COND_WAIT"])
      BY <2>1 DEF StCondTimedwait, CondBlock, AddSleepQ, timeVars
    <3>2. /\ state'[fiber] = "COND_WAIT"
          /\ \A t \in Thread : t # fiber => state'[t] = state[t] \/ Wakes(t)
      BY <1>d, <3>1, BlockStates
    <3> QED
      BY <1>d, <3>1, <3>2 DEF StateSteps, Blocks
  <2>2. CASE SignalOne
    <3>1. CASE state[iter] = "COND_WAIT"
      <4>1. WakeUp(iter, {}) /\ iter # obj[fiber] /\ SignalLoop
        BY <2>2, <3>1 DEF SignalOne, StillWaits
      <4>2. MakeRunnable(iter) /\ sleepq \ {iter} \subseteq sleepq'
        BY <4>1 DEF WakeUp, DelSleepQ
      <4>3. iter \in Thread
        <5>1. fiber \in Slot /\ pc[fiber] \in {"signal", "broadcast", "exited", "exitcalled"}
          BY <4>1 DEF SignalLoop
        <5>2. CASE fiber \in Thread /\ InLoop(fiber)
          BY <1>a, <4>1, <5>2 DEF LoopInv, Waiters
        <5>3. CASE ~(fiber \in Thread /\ InLoop(fiber))
          <6>1. iter = NULL
            BY <1>a, <5>3 DEF LoopInv
          <6>2. Exiting(fiber) /\ (fiber \in Thread => obj[fiber] = NULL)
            BY <5>1, <5>3 DEF InLoop, Exiting, Slot, Core, Control, OtherControl
          <6>3. fiber \notin Thread => obj[fiber] = NULL
            BY <1>a, <5>1, <6>2 DEF LoopInv, JoinInv, Slot
          <6> QED
            BY <4>1, <6>1, <6>2, <6>3
        <5> QED
          BY <5>2, <5>3
      <4> QED
        BY <1>c, <3>1, <4>2, <4>3
    <3>2. CASE state[iter] # "COND_WAIT"
      BY <1>b, <2>2, <3>2 DEF SignalOne, StillWaits, timeVars
    <3> QED
      BY <3>1, <3>2
  <2>3. CASE \/ StCondReturn \/ SignalReturn
             \/ \E c \in Cond : \E k \in {"signal", "broadcast"} : StCondSignal(c, k)
    BY <1>b, <2>3 DEF StCondReturn, CondResume, SignalReturn, StCondSignal,
                      runVars, timeVars
  <2> QED
    BY <1>2, <2>1, <2>2, <2>3 DEF CondStep
<1>3. CASE MutexStep
  <2>1. ASSUME NEW m \in Mutex, LockBlock(m) PROVE StateSteps
    <3>1. /\ InUserCode /\ sleepq' = sleepq /\ owner' = owner
          /\ owner[m] # NULL /\ obj' = [obj EXCEPT ![current] = m]
          /\ VpSchedule(links, [state EXCEPT ![current] = "LOCK_WAIT"])
      BY <2>1 DEF LockBlock, timeVars, lockVars
    <3>2. /\ state'[fiber] = "LOCK_WAIT"
          /\ \A t \in Thread : t # fiber => state'[t] = state[t] \/ Wakes(t)
      BY <1>d, <3>1, BlockStates
    <3>3. owner'[obj'[fiber]] # NULL
      BY <1>a, <1>d, <3>1, NodeFacts
    <3> QED
      BY <1>d, <3>1, <3>2, <3>3 DEF StateSteps, Blocks
  <2>2. CASE UnlockOne
    <3>1. CASE state[iter] = "LOCK_WAIT"
      <4>1. /\ MakeRunnable(iter) /\ sleepq' = sleepq /\ iter # obj[fiber]
            /\ fiber \in Thread /\ pc[fiber] = "unlock"
        BY <2>2, <3>1 DEF UnlockOne, timeVars
      <4>2. iter \in Thread
        BY <1>a, <4>1 DEF LoopInv, InLoop, Waiters
      <4> QED
        BY <1>c, <3>1, <4>1, <4>2
    <3>2. CASE state[iter] # "LOCK_WAIT"
      BY <1>b, <2>2, <3>2 DEF UnlockOne, timeVars
    <3> QED
      BY <3>1, <3>2
  <2>3. CASE \/ LockReturn \/ UnlockNone
             \/ \E m \in Mutex : LockFree(m) \/ StMutexTrylock(m) \/ StMutexUnlock(m)
    BY <1>b, <2>3 DEF LockReturn, UnlockNone, LockFree, StMutexTrylock,
       StMutexUnlock, GotTheMutex, runVars, timeVars, vpVars
  <2> QED
    BY <1>3, <2>1, <2>2, <2>3 DEF MutexStep
<1>4. CASE LifeStep
  <2>1. ASSUME NEW t \in Thread, NEW j \in Joinable, Create(t, j) PROVE StateSteps
    <3>1. /\ state' = [state EXCEPT ![t] = "RUNNABLE"] /\ sleepq' = sleepq
      BY <2>1 DEF Create, StThreadCreate
    <3>2. \A u \in Thread : state'[u] = IF u = t THEN "RUNNABLE" ELSE state[u]
      BY <1>a, <3>1, NodeFacts
    <3>3. Wakes(t) \/ Begins(t)
      BY <2>1, <3>2 DEF Wakes, Begins, Awake
    <3> QED
      BY <3>1, <3>2, <3>3 DEF StateSteps
  <2>2. CASE ExitBegin
    <3>1. /\ fiber \in Slot /\ state' = [state EXCEPT ![current] = "ZOMBIE"]
          /\ sleepq' = sleepq
      BY <2>2 DEF ExitBegin, timeVars
    <3>2. \A t \in Thread : state'[t] = IF t = fiber THEN "ZOMBIE" ELSE state[t]
      BY <1>a, <3>1, NodeFacts
    <3> QED
      BY <2>2, <3>1, <3>2 DEF StateSteps, Ends
  <2>3. CASE EndOfThread \/ ExitEnd
    BY <1>b, <2>3 DEF EndOfThread, ExitEnd, runVars, timeVars
  <2>4. CASE JoinWait
    <3>1. /\ fiber \in Thread /\ current = fiber /\ state[fiber] = "RUNNING"
          /\ VpSchedule(links, [state EXCEPT ![current] = "COND_WAIT"])
          /\ sleepq' = sleepq
      BY <1>a, <2>4, NodeFacts DEF JoinWait, CondBlock, ThreadControl, timeVars
    <3>2. /\ state'[fiber] = "COND_WAIT"
          /\ \A t \in Thread : t # fiber => state'[t] = state[t] \/ Wakes(t)
      BY <3>1, BlockStates
    <3> QED
      BY <3>1, <3>2 DEF StateSteps, Blocks
  <2>5. CASE JoinReap
    <3>1. PICK u \in Thread : u = joinee[fiber]
      BY <1>a, <2>5 DEF JoinReap, JoinInv, Joining
    <3>2. /\ state[u] = "ZOMBIE" /\ state' = [state EXCEPT ![u] = "RUNNABLE"]
          /\ sleepq' = sleepq
      BY <2>5, <3>1 DEF JoinReap, timeVars
    <3>3. \A t \in Thread : state'[t] = IF t = u THEN "RUNNABLE" ELSE state[t]
      BY <1>a, <3>2, NodeFacts
    <3> QED
      BY <2>5, <3>2, <3>3 DEF StateSteps, Begins
  <2>6. CASE \/ \E t \in Thread : StThreadJoin(t)
             \/ JoinGiveUp \/ JoinCondReturn
    BY <1>b, <2>6 DEF StThreadJoin, JoinGiveUp, JoinCondReturn, CondResume,
                      runVars, timeVars
  <2> QED
    BY <1>4, <2>1, <2>2, <2>3, <2>4, <2>5, <2>6 DEF LifeStep
<1>5. CASE UNCHANGED vars
  BY <1>b, <1>5 DEF vars, vpVars, runVars, timeVars
<1> QED
  BY <1>1, <1>2, <1>3, <1>4, <1>5 DEF Next, Ended

-----------------------------------------------------------------------------
(* The threads whose st_mutex_unlock is in its loop after a step: the call *)
(* has just been made, or has passed over a waiter, or nothing happened.   *)
LEMMA UnlockSteps ==
  ASSUME Core, [Next]_vars,
         NEW t \in Thread, pc'[t] = "unlock"
  PROVE  \/ \E m \in Mutex : StMutexUnlock(m) /\ t = fiber
         \/ UnlockOne /\ t = fiber /\ state[iter] # "LOCK_WAIT"
         \/ UNCHANGED vars
<1>a. /\ pc \in [Slot \cup {MAIN} -> Labels]
      /\ \A u \in Thread : pc[u] = "unlock" => fiber = u
      /\ fiber \in Slot => current = fiber
  BY DEF Core, DataTypes, Control, OneRunning, ThreadControl
<1>1. CASE VpStep
  <2>1. pc[t] = "unlock" => fiber \in Thread /\ pc[fiber] = "unlock"
    BY <1>a
  <2>2. pc[t] # "unlock"
    BY <1>1, <1>a, <2>1, NodeFacts DEF VpStep, VpNext, StUsleep, MainUsleep,
       StSuspend, BlockingCallEINTR, StThreadInterrupt, CreateOverLiveThread,
       CheckClock, ExpireOne, IdleSchedule, IdleReturns, MainSchedule, MainStart,
       MainReturns, DeadFiberResumed, IdleLoop, InUserCode, ChecksClock
  <2>3. \/ pc' = pc
        \/ pc' = [pc EXCEPT ![fiber] = "clock"]
        \/ pc' = [pc EXCEPT ![fiber] = "expire"]
        \/ pc' = [pc EXCEPT ![fiber] = "loop"]
        \/ pc' = [pc EXCEPT ![fiber] = "exit"]
    BY <1>1 DEF VpStep, VpNext, StUsleep, MainUsleep, UsleepBlock, ReturnEINTR,
       StSuspend, BlockingCallEINTR, StThreadInterrupt, CreateOverLiveThread,
       CheckClock, ExpireOne, IdleSchedule, IdleReturns, MainSchedule, MainStart,
       MainReturns, DeadFiberResumed, IdleLoop
  <2> QED
    BY <1>a, <2>2, <2>3, NodeFacts
<1>2. CASE CondStep
  <2>2. pc[t] # "unlock"
    <3>1. pc[t] = "unlock" => fiber \in Thread /\ pc[fiber] = "unlock"
      BY <1>a
    <3> QED
      BY <1>2, <3>1 DEF CondStep, StCondTimedwait, StCondReturn, StCondSignal,
         SignalOne, SignalReturn, InUserCode, SignalLoop
  <2>3. \E label \in {"cond", "run", "signal", "broadcast"} :
           pc' = pc \/ pc' = [pc EXCEPT ![fiber] = label]
    BY <1>2 DEF CondStep, StCondTimedwait, CondBlock, StCondReturn, CondResume,
         StCondSignal, SignalOne, SignalReturn, GoTo
  <2> QED
    BY <1>a, <2>2, <2>3, NodeFacts
<1>3. CASE MutexStep
  <2>1. CASE UnlockOne
    <3>1. CASE state[iter] = "LOCK_WAIT"
      <4>1. pc' = [pc EXCEPT ![fiber] = "run"] /\ fiber \in Thread
        BY <2>1, <3>1 DEF UnlockOne, GoTo
      <4> QED
        BY <4>1, <1>a, NodeFacts
    <3>2. CASE state[iter] # "LOCK_WAIT"
      BY <1>a, <2>1, <3>2 DEF UnlockOne
    <3> QED
      BY <3>1, <3>2
  <2>2. ASSUME NEW m \in Mutex, StMutexUnlock(m) PROVE t = fiber
    <3>1. fiber \in Thread /\ pc[fiber] = "run"
          /\ pc' = [pc EXCEPT ![fiber] = "unlock"]
      BY <2>2 DEF StMutexUnlock, GoTo, InUserCode
    <3> QED
      BY <3>1, <1>a, NodeFacts
  <2>3. CASE \/ LockReturn \/ UnlockNone
             \/ \E m \in Mutex : LockFree(m) \/ StMutexTrylock(m) \/ LockBlock(m)
    <3>1. /\ fiber \in Thread
          /\ \/ pc' = pc /\ pc[fiber] # "unlock"
             \/ pc' = [pc EXCEPT ![fiber] = "run"]
             \/ pc' = [pc EXCEPT ![fiber] = "lock"]
      BY <2>3 DEF LockReturn, UnlockNone, LockFree, StMutexTrylock, LockBlock,
         GotTheMutex, vpVars, GoTo, InUserCode
    <3> QED
      BY <3>1, <1>a, NodeFacts
  <2> QED
    BY <1>3, <2>1, <2>2, <2>3 DEF MutexStep
<1>4. CASE LifeStep
  <2>1. pc[t] # "unlock"
    <3>1. pc[t] = "unlock" => fiber \in Thread /\ pc[fiber] = "unlock"
      BY <1>a
    <3> QED
      BY <1>4, <3>1, NodeFacts DEF LifeStep, Create, StThreadCreate,
         EndOfThread, ExitBegin, ExitEnd, StThreadJoin, JoinWait, JoinGiveUp,
         JoinCondReturn, JoinReap, InUserCode
  <2>2. \E f \in Slot : \E label \in {"run", "exit", "exitcall", "exited",
                                      "exitcalled", "dead", "landed", "join",
                                      "joincond"} :
           pc' = [pc EXCEPT ![f] = label]
    BY <1>4, NodeFacts DEF LifeStep, Create, StThreadCreate,
         EndOfThread, ExitBegin, ExitEnd, StThreadJoin, JoinWait, JoinGiveUp,
         JoinCondReturn, JoinReap, CondBlock, CondResume, InUserCode, GoTo
  <2> QED
    BY <1>a, <2>1, <2>2, NodeFacts
<1>5. CASE UNCHANGED vars
  BY <1>5
<1> QED
  BY <1>1, <1>2, <1>3, <1>4, <1>5 DEF Next, Ended

(* A thread that stays blocked on a mutex stays blocked on the same one,   *)
(* and it has an owner: the mutex is freed only by a loop that has passed  *)
(* no waiter.                                                              *)
LEMMA OwnerStep ==
  ASSUME Core, WaitInv, [Next]_vars,
         NEW t \in Thread, state[t] = "LOCK_WAIT", state'[t] = "LOCK_WAIT"
  PROVE  obj'[t] = obj[t] /\ owner'[obj[t]] # NULL
<1>a. /\ state \in [Slot -> States]
      /\ owner \in [Mutex -> Thread \cup {NULL}]
      /\ obj \in [Slot -> WaitObj \cup {NULL}]
      /\ \A u \in Thread : ThreadControl(u)
      /\ fiber \in Slot => current = fiber
      /\ LoopInv
  BY DEF Core, DataTypes, Control, OneRunning, Calls
<1>b. /\ pc[t] = "lock" /\ obj[t] \in Mutex /\ t \in Waiters(obj[t])
      /\ owner[obj[t]] # NULL /\ t # fiber
  BY <1>a DEF ThreadControl, LoopInv, Waiters, Waiting, WaitInv, Awake
<1>c. ASSUME owner' = owner, obj' = obj
      PROVE  obj'[t] = obj[t] /\ owner'[obj[t]] # NULL
  BY <1>b, <1>c
<1>d. ASSUME owner' = owner, NEW STATE f, f # t, NEW STATE w, obj' = [obj EXCEPT ![f] = w]
      PROVE  obj'[t] = obj[t] /\ owner'[obj[t]] # NULL
  BY <1>a, <1>b, <1>d, NodeFacts
<1>1. CASE VpStep
  BY <1>1, <1>c DEF VpStep, syncVars, waitVars, lockVars
<1>2. CASE CondStep
  <2>1. CASE SignalOne
    BY <2>1, <1>c DEF SignalOne, lockVars
  <2>2. ASSUME NEW c \in Cond, NEW d \in Timeouts \cup {NULL}, StCondTimedwait(c, d)
        PROVE  obj'[t] = obj[t] /\ owner'[obj[t]] # NULL
    <3>1. owner' = owner /\ obj' = [obj EXCEPT ![current] = c] /\ current # t
      BY <2>2, <1>a, <1>b, NodeFacts DEF StCondTimedwait, CondBlock, lockVars, InUserCode
    <3> QED
      BY <1>d, <3>1
  <2>3. CASE StCondReturn \/ SignalReturn
    BY <2>3, <1>b, <1>d DEF StCondReturn, SignalReturn, lockVars
  <2>4. ASSUME NEW c \in Cond, NEW k \in {"signal", "broadcast"}, StCondSignal(c, k)
        PROVE  obj'[t] = obj[t] /\ owner'[obj[t]] # NULL
    BY <2>4, <1>b, <1>d DEF StCondSignal, lockVars
  <2> QED
    BY <1>2, <2>1, <2>2, <2>3, <2>4 DEF CondStep
<1>3. CASE MutexStep
  <2>1. ASSUME NEW m \in Mutex, GotTheMutex(m), fiber \in Thread
        PROVE  obj'[t] = obj[t] /\ owner'[obj[t]] # NULL
    BY <2>1, <1>a, <1>b, NodeFacts DEF GotTheMutex, waitVars
  <2>2. ASSUME NEW m \in Mutex, LockBlock(m)
        PROVE  obj'[t] = obj[t] /\ owner'[obj[t]] # NULL
    <3>1. owner' = owner /\ obj' = [obj EXCEPT ![current] = m] /\ current # t
      BY <2>2, <1>a, <1>b, NodeFacts DEF LockBlock, lockVars, InUserCode
    <3> QED
      BY <1>d, <3>1
  <2>3. ASSUME NEW m \in Mutex, StMutexUnlock(m)
        PROVE  obj'[t] = obj[t] /\ owner'[obj[t]] # NULL
    BY <2>3, <1>b, <1>d DEF StMutexUnlock
  <2>4. CASE LockReturn
    BY <2>4, <1>b, <1>d DEF LockReturn
  <2>5. CASE UnlockOne
    <3>1. CASE state[iter] = "LOCK_WAIT"
      <4>1. /\ fiber \in Thread /\ pc[fiber] = "unlock" /\ iter # obj[fiber]
            /\ owner' = [owner EXCEPT ![obj[fiber]] = iter]
            /\ obj' = [obj EXCEPT ![fiber] = NULL]
        BY <2>5, <3>1 DEF UnlockOne
      <4>2. iter \in Thread
        BY <1>a, <4>1 DEF LoopInv, InLoop, Waiters
      <4> QED
        BY <1>a, <1>b, <4>1, <4>2, NodeFacts
    <3>2. CASE state[iter] # "LOCK_WAIT"
      BY <1>c, <2>5, <3>2 DEF UnlockOne
    <3> QED
      BY <3>1, <3>2
  <2>6. CASE UnlockNone
    <3>1. /\ fiber \in Thread /\ pc[fiber] = "unlock" /\ iter = obj[fiber]
          /\ owner' = [owner EXCEPT ![obj[fiber]] = NULL]
          /\ obj' = [obj EXCEPT ![fiber] = NULL]
      BY <2>6 DEF UnlockNone
    <3>2. obj[fiber] \in Mutex /\ NonePassed(obj[fiber])
      BY <1>a, <3>1 DEF LoopInv, WaitInv
    <3>3. StillWaiting(obj[fiber]) \subseteq {obj[fiber]}
      BY <3>1, <3>2 DEF NonePassed
    <3>4. obj[t] # obj[fiber]
      BY <1>b, <3>2, <3>3, SyncAssumption DEF StillWaiting, WaitObj
    <3> QED
      BY <1>a, <1>b, <3>1, <3>2, <3>4, NodeFacts
  <2> QED
    BY <1>3, <2>1, <2>2, <2>3, <2>4, <2>5, <2>6 DEF MutexStep, LockFree,
       StMutexTrylock, InUserCode
<1>4. CASE LifeStep
  <2>1. ASSUME NEW u \in Thread, NEW j \in Joinable, Create(u, j)
        PROVE  obj'[t] = obj[t] /\ owner'[obj[t]] # NULL
    <3>1. owner' = owner /\ obj' = [obj EXCEPT ![u] = NULL]
          /\ (pc[u] = "dead" \/ state[u] = "UNUSED")
      BY <2>1 DEF Create, StThreadCreate, lockVars
    <3> QED
      BY <1>b, <1>d, <3>1
  <2>2. CASE EndOfThread
    BY <2>2, <1>c DEF EndOfThread, syncVars, lockVars, waitVars
  <2>3. CASE ExitBegin
    <3>1. owner' = owner /\ obj' = [obj EXCEPT ![current] = term[current]] /\ current # t
      BY <2>3, <1>a, <1>b DEF ExitBegin, lockVars
    <3> QED
      BY <1>d, <3>1
  <2>4. CASE ExitEnd
    <3>1. owner' = owner /\ obj' = [obj EXCEPT ![current] = NULL] /\ current # t
      BY <2>4, <1>a, <1>b DEF ExitEnd, lockVars
    <3> QED
      BY <1>d, <3>1
  <2>5. CASE \/ \E u \in Thread : StThreadJoin(u)
             \/ JoinWait \/ JoinGiveUp \/ JoinCondReturn \/ JoinReap
    <3>1. fiber \in Thread /\ owner' = owner
      BY <2>5 DEF StThreadJoin, JoinWait, JoinGiveUp, JoinCondReturn, JoinReap,
         InUserCode, lockVars
    <3>2. \E w : obj' = [obj EXCEPT ![fiber] = w]
      BY <1>a, <2>5, <3>1, NodeFacts DEF StThreadJoin, JoinWait, JoinGiveUp,
         JoinCondReturn, JoinReap, CondBlock
    <3> QED
      BY <1>a, <1>b, <3>1, <3>2, NodeFacts
  <2> QED
    BY <1>4, <2>1, <2>2, <2>3, <2>4, <2>5 DEF LifeStep
<1>5. CASE UNCHANGED vars
  BY <1>5, <1>c DEF vars, syncVars, waitVars, lockVars
<1> QED
  BY <1>1, <1>2, <1>3, <1>4, <1>5 DEF Next, Ended

(* WaitInv is kept by every step.                                          *)
LEMMA WaitStep ==
  ASSUME Core, WaitInv, [Next]_vars
  PROVE  WaitInv'
<1>0. StateSteps
  BY StateStep
<1>a. /\ \A t \in Thread : ThreadControl(t)
      /\ sleepq \in SUBSET Thread /\ WaitqWellFormed /\ LoopInv
      /\ obj \in [Slot -> WaitObj \cup {NULL}]
      /\ fiber \in Slot => current = fiber
  BY DEF Core, DataTypes, Control, OneRunning, Calls
<1>1. ASSUME NEW t \in Thread, state'[t] = "SLEEPING" PROVE t \in sleepq'
  BY <1>0, <1>1 DEF StateSteps, Wakes, Blocks, Begins, Ends, Awake, WaitInv
<1>2. ASSUME NEW t \in Thread, state'[t] = "LOCK_WAIT" PROVE owner'[obj'[t]] # NULL
  <2>1. CASE state[t] = "LOCK_WAIT"
    <3>1. obj'[t] = obj[t] /\ owner'[obj[t]] # NULL
      BY <1>2, <2>1, OwnerStep
    <3> QED
      BY <3>1
  <2>2. CASE state[t] # "LOCK_WAIT"
    BY <1>0, <1>2, <2>2 DEF StateSteps, Wakes, Blocks, Begins, Ends, Awake
  <2> QED
    BY <2>1, <2>2
<1>3. ASSUME NEW t \in Thread, pc'[t] = "unlock" PROVE NonePassed(obj[t])'
  <2>1. ASSUME NEW m \in Mutex, StMutexUnlock(m), t = fiber
        PROVE  NonePassed(obj[t])'
    <3>1. /\ obj'[t] = m /\ wlinks' = wlinks /\ state' = state
          /\ iter' = wlinks.next[m] /\ pc' = [pc EXCEPT ![t] = "unlock"]
          /\ pc[t] = "run" /\ obj' = [obj EXCEPT ![t] = m]
      BY <1>a, <2>1, NodeFacts DEF StMutexUnlock, FirstWaiter, runVars, GoTo, InUserCode
    <3>2. m \in WaitObj /\ Ring(wlinks, m, {m} \cup Waiters(m))
      BY <1>a DEF WaitqWellFormed, WaitObj
    <3>3. Waiters(m)' = Waiters(m)
      BY <3>1, <1>a, NodeFacts DEF Waiters, Waiting, Core, DataTypes
    <3>4. StillWaiting(m)' = StillWaiting(m)
      BY <3>1, <3>3 DEF StillWaiting
    <3>5. ASSUME NEW Ahead \in SUBSET ({m} \cup Waiters(m)), wlinks.next[m] \in Ahead,
                 \A n \in Ahead \ {m} : wlinks.next[n] \in Ahead
          PROVE  StillWaiting(m) \subseteq Ahead
      <4>1. /\ {m} \cup Ahead \in SUBSET ({m} \cup Waiters(m))
            /\ \A n \in {m} \cup Ahead : wlinks.next[n] \in {m} \cup Ahead
        BY <3>5
      <4>2. {m} \cup Ahead = {m} \cup Waiters(m)
        BY <3>2, <4>1 DEF Ring
      <4>3. m \notin Waiters(m)
        BY SyncAssumption DEF Waiters, WaitObj
      <4> QED
        BY <4>2, <4>3 DEF StillWaiting
    <3>6. NonePassed(m)'
      BY <3>1, <3>3, <3>4, <3>5 DEF NonePassed
    <3> QED
      BY <3>1, <3>6
  <2>2. CASE UnlockOne /\ t = fiber /\ state[iter] # "LOCK_WAIT"
    <3> DEFINE m == obj[t]
    <3>1. /\ iter # m /\ iter' = wlinks.next[iter] /\ pc[t] = "unlock"
          /\ UNCHANGED <<state, obj, pc, wlinks>>
      BY <2>2 DEF UnlockOne
    <3>2. m \in Mutex /\ iter \in Waiters(m) /\ NonePassed(m)
      BY <1>a, <3>1 DEF LoopInv, InLoop, WaitInv
    <3>3. Waiters(m)' = Waiters(m) /\ StillWaiting(m)' = StillWaiting(m) /\ m' = m
      BY <3>1 DEF Waiters, Waiting, StillWaiting
    <3> HIDE DEF m
    <3>4. ASSUME NEW Ahead \in SUBSET ({m} \cup Waiters(m)), wlinks.next[iter] \in Ahead,
                 \A n \in Ahead \ {m} : wlinks.next[n] \in Ahead
          PROVE  StillWaiting(m) \subseteq Ahead
      <4>1. /\ {iter} \cup Ahead \in SUBSET ({m} \cup Waiters(m))
            /\ \A n \in ({iter} \cup Ahead) \ {m} : wlinks.next[n] \in {iter} \cup Ahead
        BY <3>2, <3>4
      <4>2. StillWaiting(m) \subseteq {iter} \cup Ahead
        BY <3>2, <4>1 DEF NonePassed
      <4> QED
        BY <2>2, <4>2 DEF StillWaiting
    <3>5. NonePassed(m)'
      BY <3>1, <3>3, <3>4 DEF NonePassed
    <3> QED
      BY <3>5, <3>3, <3>1 DEF m
  <2>3. CASE UNCHANGED vars
    <3>1. /\ pc[t] = "unlock"
          /\ UNCHANGED <<state, obj, pc, wlinks, iter>>
      BY <1>3, <2>3 DEF vars, vpVars, runVars, syncVars, waitVars
    <3>2. NonePassed(obj[t])
      BY <3>1 DEF WaitInv
    <3> QED
      BY <3>1, <3>2 DEF NonePassed, StillWaiting, Waiters, Waiting
  <2> QED
    BY <1>3, <2>1, <2>2, <2>3, UnlockSteps
<1> QED
  BY <1>1, <1>2, <1>3 DEF WaitInv

(* No thread is lost: a sleeper has a deadline in the heap, a waiter on a  *)
(* condition variable or a mutex is on its queue, and the mutex it waits   *)
(* for belongs to another thread, which will have to give it back.         *)
THEOREM NoThreadLost == Spec => []NoLostThread
<1>1. Init => WaitInv
  BY NodeFacts DEF Init, VpInit, SyncInit, WaitInv
<1>2. Core /\ WaitInv /\ [Next]_vars => WaitInv'
  BY WaitStep
<1>3. Core /\ WaitInv => NoLostThread
  <2> SUFFICES ASSUME Core, WaitInv, NEW t \in Thread
               PROVE  /\ state[t] = "SLEEPING"  => t \in sleepq
                      /\ state[t] = "COND_WAIT" => obj[t] \in CondVar /\ t \in Waiters(obj[t])
                      /\ state[t] = "LOCK_WAIT" =>
                           /\ obj[t] \in Mutex /\ t \in Waiters(obj[t])
                           /\ owner[obj[t]] \notin {NULL, t}
    BY DEF NoLostThread
  <2>1. /\ ThreadControl(t) /\ LoopInv /\ LockInv /\ JoinInv
        /\ allocated \in SUBSET TermCond
    BY DEF Core, Control, Calls, DataTypes
  <2> QED
    BY <2>1 DEF ThreadControl, LoopInv, LockInv, JoinInv, Joining, WaitInv, Waiters,
                Waiting, CondVar, Awake
<1> QED
  BY <1>1, <1>2, <1>3, CoreInvariance, PTL DEF Spec

-----------------------------------------------------------------------------
(* The pointer writes of a list operation stay in a closed set of links.   *)
Closed(L, U) == \A n \in U : L.next[n] \in U /\ L.prev[n] \in U

LEMMA InsertClosed ==
  ASSUME NEW L \in ListState(Node), NEW U \in SUBSET Node, Closed(L, U),
         NEW e \in Node, NEW l \in U
  PROVE  /\ InsertBefore(L, e, l) \in ListState(Node)
         /\ Closed(InsertBefore(L, e, l), U \cup {e})
<1>1. InsertBefore(L, e, l) \in ListState(Node)
  BY InsertType
<1> QED
  BY <1>1, NodeFacts DEF ListState, InsertBefore, Closed

LEMMA RemoveClosed ==
  ASSUME NEW L \in ListState(Node), NEW U \in SUBSET Node, Closed(L, U),
         NEW e \in U
  PROVE  /\ RemoveLink(L, e) \in ListState(Node)
         /\ Closed(RemoveLink(L, e), U)
<1>1. RemoveLink(L, e) \in ListState(Node)
  BY RemoveType
<1> QED
  BY <1>1, NodeFacts DEF ListState, RemoveLink, Closed

(* _st_vp_schedule keeps the closed set, and uses no new slot.             *)
LEMMA ScheduleLinks ==
  ASSUME LinksSet, NEW STATE st, st \in [Slot -> States],
         \A t \in Thread : st[t] = "UNUSED" <=> state[t] = "UNUSED",
         VpSchedule(links, st)
  PROVE  LinksSet'
<1> DEFINE head == links.next[RUNQ]
<1> DEFINE U == LinksUsed
<1> DEFINE L1 == IF head = RUNQ THEN links ELSE RemoveLink(links, head)
<1>1. /\ U \in SUBSET Node /\ RUNQ \in U /\ Idle \in U
      /\ Closed(links, U) /\ links \in ListState(Node)
  BY NodeFacts DEF LinksUsed, LinksSet, Closed, Node
<1>2. head \in U
  BY <1>1 DEF Closed
<1>3. L1 \in ListState(Node) /\ Closed(L1, U)
  BY <1>1, <1>2, RemoveClosed
<1>4. CASE head \in Slot \cup {RUNQ}
  <2> DEFINE picked == IF head = RUNQ \/ st[head] # "RUNNABLE" THEN Idle ELSE head
  <2> DEFINE again  == picked = current /\ picked # Idle
  <2> DEFINE thread == IF again THEN Idle ELSE picked
  <2>1. picked \in U /\ thread \in Slot
        /\ (thread \in Thread => st[thread] # "UNUSED")
    BY <1>1, <1>2, <1>4, NodeFacts
  <2>2. /\ links' = IF again THEN AddRunq(L1, picked) ELSE L1
        /\ state' = [st EXCEPT ![thread] = "RUNNING"]
    BY <1>4 DEF VpSchedule
  <2>3. U' = U
    BY <2>1, <2>2, NodeFacts DEF LinksUsed
  <2>4. U \cup {picked} = U
    BY <2>1
  <2> HIDE DEF U, L1, picked, again
  <2>5. AddRunq(L1, picked) \in ListState(Node) /\ Closed(AddRunq(L1, picked), U)
    BY <1>1, <1>3, <2>1, <2>4, InsertClosed DEF AddRunq
  <2>6. links' \in ListState(Node) /\ Closed(links', U')
    BY <1>3, <2>2, <2>3, <2>5
  <2> QED
    BY <2>6 DEF LinksSet, Closed, U
<1>5. CASE head \notin Slot \cup {RUNQ}
  <2>1. links' = L1 /\ state' = st
    BY <1>5 DEF VpSchedule
  <2>2. U' = U
    BY <2>1 DEF LinksUsed
  <2> HIDE DEF U, L1
  <2>3. links' \in ListState(Node) /\ Closed(links', U')
    BY <1>3, <2>1, <2>2
  <2> QED
    BY <2>3 DEF LinksSet, Closed, U
<1> QED
  BY <1>4, <1>5

(* Every step keeps the links set.                                         *)
LEMMA LinksStep ==
  ASSUME Core, LinksSet, [Next]_vars
  PROVE  LinksSet'
<1>a. /\ state \in [Slot -> States] /\ sleepq \in SUBSET Thread
      /\ pc \in [Slot \cup {MAIN} -> Labels]
      /\ joinee \in [Thread -> Thread \cup {NULL}]
      /\ \A t \in Thread : ThreadControl(t)
      /\ fiber \in Slot => current = fiber
      /\ SleepqConsistent /\ OtherControl /\ JoinInv
  BY DEF Core, DataTypes, Control, OneRunning, Wakeups
<1>b. ASSUME links' = links,
             \A t \in Thread : state'[t] = "UNUSED" <=> state[t] = "UNUSED"
      PROVE  LinksSet'
  <2>1. LinksUsed' = LinksUsed
    BY <1>b DEF LinksUsed
  <2> QED
    BY <1>b, <2>1 DEF LinksSet
<1>c. ASSUME NEW STATE L, L \in ListState(Node), Closed(L, LinksUsed),
             NEW STATE u, u \in Slot, NEW STATE h, h \in {RUNQ, ZOMBIEQ},
             NEW new \in States \ {"UNUSED"},
             state' = [state EXCEPT ![u] = new], links' = InsertBefore(L, u, h)
      PROVE  LinksSet'
  <2>1. /\ LinksUsed \in SUBSET Node /\ u \in Node
        /\ LinksUsed' = LinksUsed \cup {u}
    BY <1>a, <1>c, NodeFacts DEF LinksUsed, Node
  <2>2. h \in LinksUsed
    BY <1>c, VProcAssumption DEF LinksUsed, Node, Slot
  <2>3. links' \in ListState(Node) /\ Closed(links', LinksUsed')
    BY <1>c, <2>1, <2>2, InsertClosed
  <2> QED
    BY <2>3 DEF LinksSet, Closed
<1>d. links \in ListState(Node) /\ Closed(links, LinksUsed)
  BY DEF LinksSet, Closed
<1>e. ASSUME NEW STATE u, u \in Thread, MakeRunnable(u) PROVE LinksSet'
  BY <1>c, <1>d, <1>e, NodeFacts DEF MakeRunnable, AddRunq, States
<1>f. ASSUME NEW f \in Slot, NEW new \in States \ {"UNUSED"}, state[f] # "UNUSED",
             VpSchedule(links, [state EXCEPT ![f] = new])
      PROVE  LinksSet'
  <2> DEFINE st == [state EXCEPT ![f] = new]
  <2>1. /\ st \in [Slot -> States]
        /\ \A t \in Thread : st[t] = "UNUSED" <=> state[t] = "UNUSED"
    BY <1>a, <1>f, NodeFacts
  <2>2. VpSchedule(links, st)
    BY <1>f
  <2> HIDE DEF st
  <2> QED
    BY <2>1, <2>2, ScheduleLinks
<1>g. VpSchedule(links, state) => LinksSet'
  BY <1>a, ScheduleLinks
<1>h. InUserCode => fiber \in Thread /\ current = fiber /\ state[fiber] = "RUNNING"
  BY <1>a, NodeFacts DEF InUserCode, ThreadControl, Awake
<1>1. CASE VpStep
  <2>1. CASE \E d \in Timeouts : StUsleep(d) \/ MainUsleep(d)
    <3>1. \/ InUserCode /\ VpSchedule(links, [state EXCEPT ![current] = "SLEEPING"])
          \/ VpSchedule(links, state)
      BY <1>a, <2>1 DEF StUsleep, MainUsleep, UsleepBlock, OtherControl
    <3> QED
      BY <1>f, <1>g, <1>h, <3>1, NodeFacts DEF States
  <2>2. CASE StSuspend
    BY <1>f, <1>h, <2>2, NodeFacts DEF StSuspend, States
  <2>3. ASSUME NEW t \in Thread, StThreadInterrupt(t) PROVE LinksSet'
    BY <1>b, <1>e, <2>3 DEF StThreadInterrupt, WakeUp
  <2>4. ASSUME NEW t \in Thread, ExpireOne(t) PROVE LinksSet'
    BY <1>e, <2>4 DEF ExpireOne
  <2>5. CASE IdleSchedule
    <3> DEFINE new == IF state[Idle] = "ZOMBIE" THEN state[Idle] ELSE "RUNNABLE"
    <3>0. /\ new \in States
          /\ \/ VpSchedule(links, [state EXCEPT ![Idle] = new])
             \/ state' = [state EXCEPT ![Idle] = new] /\ links' = links
      BY <1>a, <2>5, NodeFacts DEF IdleSchedule, States
    <3> HIDE DEF new
    <3>1. CASE VpSchedule(links, [state EXCEPT ![Idle] = new])
      <4> DEFINE st == [state EXCEPT ![Idle] = new]
      <4>1. /\ st \in [Slot -> States]
            /\ \A t \in Thread : st[t] = "UNUSED" <=> state[t] = "UNUSED"
        BY <1>a, <3>0, NodeFacts
      <4>2. VpSchedule(links, st)
        BY <3>1
      <4> HIDE DEF st
      <4> QED
        BY <4>1, <4>2, ScheduleLinks
    <3>2. CASE state' = [state EXCEPT ![Idle] = new] /\ links' = links
      BY <1>a, <1>b, <3>2, NodeFacts
    <3> QED
      BY <3>0, <3>1, <3>2
  <2>6. CASE MainSchedule
    BY <1>g, <2>6 DEF MainSchedule
  <2>7. CASE \/ BlockingCallEINTR \/ CreateOverLiveThread \/ IdleReturns
             \/ MainStart \/ MainReturns \/ DeadFiberResumed \/ IdleLoop
             \/ \E e \in Elapsed : CheckClock(e)
    BY <1>b, <2>7 DEF BlockingCallEINTR, ReturnEINTR, CreateOverLiveThread,
       IdleReturns, MainStart, MainReturns, DeadFiberResumed, IdleLoop,
       CheckClock, runVars
  <2> QED
    BY <1>1, <2>1, <2>2, <2>3, <2>4, <2>5, <2>6, <2>7 DEF VpStep, VpNext
<1>2. CASE CondStep
  <2>1. ASSUME NEW c \in Cond, NEW d \in Timeouts \cup {NULL},
               StCondTimedwait(c, d)
        PROVE  LinksSet'
    BY <1>f, <1>h, <2>1, NodeFacts DEF StCondTimedwait, CondBlock, States
  <2>2. CASE SignalOne
    <3>1. iter \in Thread
      <4>1. \A t \in Thread : InLoop(t) => iter \in {obj[t]} \cup Waiters(obj[t])
        BY DEF Core, Calls, LoopInv
      <4>2. fiber \in Thread => InLoop(fiber) \/ obj[fiber] = NULL
        BY <2>2 DEF SignalOne, SignalLoop, InLoop, Exiting
      <4>3. iter # NULL => fiber \in Thread /\ InLoop(fiber)
        BY DEF Core, Calls, LoopInv
      <4>4. fiber = Idle => obj[fiber] = NULL
        BY <2>2, NodeFacts DEF SignalOne, SignalLoop, Core, Calls, LoopInv,
           JoinInv, Exiting, Control, OtherControl
      <4> QED
        BY <2>2, <4>1, <4>2, <4>3, <4>4 DEF SignalOne, SignalLoop, Waiters, Slot
    <3> QED
      BY <1>b, <1>e, <2>2, <3>1 DEF SignalOne, WakeUp
  <2>3. CASE StCondReturn \/ SignalReturn
             \/ \E c \in Cond : \E k \in {"signal", "broadcast"} : StCondSignal(c, k)
    BY <1>b, <2>3 DEF StCondReturn, CondResume, SignalReturn, StCondSignal, runVars
  <2> QED
    BY <1>2, <2>1, <2>2, <2>3 DEF CondStep
<1>3. CASE MutexStep
  <2>1. ASSUME NEW m \in Mutex, LockBlock(m) PROVE LinksSet'
    BY <1>f, <1>h, <2>1, NodeFacts DEF LockBlock, States
  <2>2. CASE UnlockOne
    <3>1. iter \in Thread
      BY <2>2 DEF UnlockOne, Core, Calls, LoopInv, InLoop, Waiters
    <3> QED
      BY <1>b, <1>e, <2>2, <3>1 DEF UnlockOne
  <2>3. CASE \/ LockReturn \/ UnlockNone
             \/ \E m \in Mutex : LockFree(m) \/ StMutexTrylock(m) \/ StMutexUnlock(m)
    BY <1>b, <2>3 DEF LockReturn, UnlockNone, LockFree, StMutexTrylock,
       StMutexUnlock, GotTheMutex, vpVars, runVars
  <2> QED
    BY <1>3, <2>1, <2>2, <2>3 DEF MutexStep
<1>4. CASE LifeStep
  <2>1. ASSUME NEW t \in Thread, NEW j \in Joinable, Create(t, j) PROVE LinksSet'
    BY <1>e, <2>1 DEF Create, StThreadCreate, MakeRunnable
  <2>2. CASE ExitBegin
    <3>1. /\ fiber \in Slot /\ current = fiber
          /\ state' = [state EXCEPT ![fiber] = "ZOMBIE"]
          /\ links' = links \/ links' = InsertBefore(links, fiber, ZOMBIEQ)
      BY <1>a, <2>2 DEF ExitBegin, AddZombieq
    <3>2. fiber \in Thread => state[fiber] # "UNUSED"
      BY <1>a DEF ThreadControl
    <3>3. CASE links' = links
      BY <1>a, <1>b, <3>1, <3>2, <3>3, NodeFacts
    <3>4. CASE links' = InsertBefore(links, fiber, ZOMBIEQ)
      BY <1>c, <1>d, <3>1, <3>4 DEF States
    <3> QED
      BY <3>1, <3>3, <3>4
  <2>3. CASE EndOfThread \/ ExitEnd \/ JoinGiveUp \/ JoinCondReturn
             \/ \E t \in Thread : StThreadJoin(t)
    BY <1>b, <2>3 DEF EndOfThread, ExitEnd, JoinGiveUp, JoinCondReturn, CondResume,
                      StThreadJoin, runVars
  <2>4. CASE JoinWait
    <3>1. fiber \in Thread /\ current = fiber /\ state[fiber] = "RUNNING"
      BY <1>a, <2>4, NodeFacts DEF JoinWait, ThreadControl
    <3> QED
      BY <1>f, <2>4, <3>1, NodeFacts DEF JoinWait, CondBlock, States
  <2>5. CASE JoinReap
    <3> DEFINE u == joinee[fiber]
    <3>1. /\ u \in Thread /\ state[u] = "ZOMBIE"
          /\ state' = [state EXCEPT ![u] = "RUNNABLE"]
          /\ links' = InsertBefore(RemoveLink(links, u), u, RUNQ)
      BY <1>a, <2>5 DEF JoinReap, JoinInv, Joining, AddRunq
    <3> HIDE DEF u
    <3>2. u \in LinksUsed /\ LinksUsed \in SUBSET Node
      BY <3>1, NodeFacts DEF LinksUsed
    <3>3. /\ RemoveLink(links, u) \in ListState(Node)
          /\ Closed(RemoveLink(links, u), LinksUsed)
      BY <1>d, <3>2, RemoveClosed
    <3> QED
      BY <1>c, <3>1, <3>3, NodeFacts DEF States
  <2> QED
    BY <1>4, <2>1, <2>2, <2>3, <2>4, <2>5 DEF LifeStep
<1>5. CASE UNCHANGED vars
  BY <1>b, <1>5 DEF vars, vpVars, runVars
<1> QED
  BY <1>1, <1>2, <1>3, <1>4, <1>5 DEF Next, Ended

(* Whatever a program does, and even where joins or repeated exits have    *)
(* tangled the run queue and the zombie queue, the links that              *)
(* _st_vp_schedule follows are never NULL and never lead to a slot that    *)
(* was not handed out.                                                     *)
THEOREM NoNullLink == Spec => []LinksSet
<1>1. Init => LinksSet
  BY NodeFacts, VProcAssumption DEF Init, VpInit, LinksSet, LinksUsed, ListState,
     Node, Slot
<1>2. Core /\ LinksSet /\ [Next]_vars => LinksSet'
  BY LinksStep
<1> QED
  BY <1>1, <1>2, CoreInvariance, PTL DEF Spec

-----------------------------------------------------------------------------
(* Without joinable threads no step of st_thread_join is taken.            *)
LEMMA NobodyJoins ==
  ASSUME NotJoinable
  PROVE  /\ \A t \in Thread : ~StThreadJoin(t)
         /\ ~JoinWait /\ ~JoinGiveUp /\ ~JoinCondReturn /\ ~JoinReap
BY NodeFacts DEF NotJoinable, Joining, StThreadJoin, JoinWait, JoinGiveUp,
   JoinCondReturn, JoinReap

(* The place of one fiber changes at a time, and a fiber ends at the end   *)
(* of st_thread_exit only.                                                 *)
LEMMA PcStep ==
  ASSUME NotJoinable, [Next]_vars
  PROVE  \/ pc' = pc
         \/ \E f \in Slot \cup {MAIN} :
              \E label \in Labels \ {"join", "joincond", "dead"} :
                pc' = [pc EXCEPT ![f] = label]
         \/ ExitEnd /\ pc' = [pc EXCEPT ![fiber] = "dead"]
<1> USE NodeFacts DEF Labels, GoTo
<1>1. CASE VpStep
  BY <1>1 DEF VpStep, VpNext, StUsleep, MainUsleep, UsleepBlock, ReturnEINTR,
     StSuspend, BlockingCallEINTR, StThreadInterrupt, CreateOverLiveThread,
     CheckClock, ExpireOne, IdleSchedule, IdleReturns, MainSchedule, MainStart,
     MainReturns, DeadFiberResumed, IdleLoop, ChecksClock
<1>2. CASE CondStep
  BY <1>2 DEF CondStep, StCondTimedwait, CondBlock, StCondReturn, CondResume,
     StCondSignal, SignalOne, SignalReturn, InUserCode
<1>3. CASE MutexStep
  BY <1>3 DEF MutexStep, LockReturn, UnlockOne, UnlockNone, LockFree,
     StMutexTrylock, LockBlock, StMutexUnlock, GotTheMutex, vpVars, InUserCode
<1>4. CASE LifeStep
  BY SMTT(60), <1>4, NobodyJoins DEF LifeStep, Create, StThreadCreate, EndOfThread,
     ExitBegin, ExitEnd, InUserCode
<1>5. CASE UNCHANGED vars
  BY <1>5 DEF vars, vpVars
<1> QED
  BY <1>1, <1>2, <1>3, <1>4, <1>5 DEF Next, Ended

(* A program without joinable threads stays one.                           *)
LEMMA NotJoinableStep ==
  ASSUME Joinable = {FALSE}, Core, NotJoinable, [Next]_vars
  PROVE  NotJoinable'
<1>a. /\ pc \in [Slot \cup {MAIN} -> Labels] /\ term \in [Slot -> TermCond \cup {NULL}]
      /\ \A t \in Thread : ThreadControl(t)
      /\ fiber \in Slot => current = fiber
  BY DEF Core, DataTypes, Control, OneRunning
<1>1. \A s \in Slot : term'[s] = NULL
  <2>1. CASE term' = term
    BY <2>1 DEF NotJoinable
  <2>2. ASSUME NEW t \in Thread, NEW j \in Joinable, Create(t, j)
        PROVE  \A s \in Slot : term'[s] = NULL
    BY <1>a, <2>2 DEF Create, StThreadCreate, NotJoinable
  <2>3. CASE ExitEnd
    BY <1>a, <2>3 DEF ExitEnd, NotJoinable
  <2>4. CASE VpStep
    BY <2>1, <2>4 DEF VpStep, VpNext, StUsleep, MainUsleep, UsleepBlock, ReturnEINTR,
     StSuspend, BlockingCallEINTR, StThreadInterrupt, CreateOverLiveThread,
     CheckClock, ExpireOne, IdleSchedule, IdleReturns, MainSchedule, MainStart,
     MainReturns, DeadFiberResumed, IdleLoop, lifeVars
  <2>5. CASE CondStep
    BY <2>1, <2>5 DEF CondStep, StCondTimedwait, CondBlock, StCondReturn, CondResume,
     StCondSignal, SignalOne, SignalReturn, lifeVars
  <2>6. CASE MutexStep
    BY <2>1, <2>6 DEF MutexStep, LockReturn, UnlockOne, UnlockNone, LockFree,
     StMutexTrylock, LockBlock, StMutexUnlock, GotTheMutex, vpVars, lifeVars
  <2>7. CASE EndOfThread \/ ExitBegin \/ UNCHANGED vars
    BY <2>1, <2>7 DEF EndOfThread, ExitBegin, vars, vpVars, lifeVars
  <2> QED
    BY <2>2, <2>3, <2>4, <2>5, <2>6, <2>7, NobodyJoins DEF Next, Ended, LifeStep
<1>2. \A t \in Thread : ~Joining(t)'
  BY <1>a, PcStep, NodeFacts DEF NotJoinable, Joining
<1>3. ASSUME NEW t \in Thread, pc'[t] = "dead" PROVE state'[t] = "ZOMBIE"
  <2>1. CASE pc[t] = "dead"
    <3>1. state[t] = "ZOMBIE"
      BY <2>1 DEF NotJoinable
    <3>2. StateSteps
      BY StateStep
    <3>3. ASSUME NEW j \in Joinable, Create(t, j) PROVE FALSE
      BY <1>a, <1>3, <3>3, NodeFacts DEF Create, StThreadCreate
    <3> QED
      BY <3>1, <3>2, <3>3, NobodyJoins DEF StateSteps, Wakes, Blocks, Begins, Ends
  <2>2. CASE pc[t] # "dead"
    <3>1. ExitEnd /\ pc' = [pc EXCEPT ![fiber] = "dead"]
      BY <1>a, <1>3, <2>2, PcStep, NodeFacts
    <3>2. t = fiber /\ state' = state
      BY <1>a, <1>3, <2>2, <3>1, NodeFacts DEF ExitEnd
    <3>3. state[t] = "ZOMBIE"
      BY <1>a, <3>1, <3>2 DEF ExitEnd, ThreadControl
    <3> QED
      BY <3>2, <3>3
  <2> QED
    BY <2>1, <2>2
<1> QED
  BY <1>1, <1>2, <1>3 DEF NotJoinable

(* Each step keeps the run queue: it schedules, makes a blocked or new     *)
(* thread runnable, or does not touch the queue.                           *)
RunqOK == links \in ListState(Node) /\ RunqWellFormed

LEMMA RunqStep ==
  ASSUME Joinable = {FALSE}, Core, RunInv, [Next]_vars
  PROVE  RunqOK'
<1>a. /\ state \in [Slot -> States] /\ pc \in [Slot \cup {MAIN} -> Labels]
      /\ current \in Slot \cup {NULL} /\ sleepq \in SUBSET Thread
      /\ term \in [Slot -> TermCond \cup {NULL}]
      /\ \A t \in Thread : ThreadControl(t)
      /\ fiber \in Slot => current = fiber
      /\ SleepqConsistent /\ OtherControl
      /\ links \in ListState(Node) /\ RunqWellFormed /\ NotJoinable
  BY DEF Core, DataTypes, Control, OneRunning, Wakeups, RunInv
<1>b. ASSUME links' = links, state' = state PROVE RunqOK'
  <2>1. Runnable' = Runnable
    BY <1>b DEF Runnable
  <2> QED
    BY <1>a, <1>b, <2>1, RunqSame DEF RunqOK
<1>c. ASSUME NEW STATE u, u \in Thread, state[u] # "RUNNABLE", MakeRunnable(u)
      PROVE  RunqOK'
  BY <1>a, <1>c, MakeRunnableRunq DEF RunqOK
<1>d. ASSUME InUserCode, NEW new \in States \ {"RUNNABLE"},
             VpSchedule(links, [state EXCEPT ![current] = new])
      PROVE  RunqOK'
  <2>1. current \in Thread /\ state[current] = "RUNNING"
    BY <1>a, <1>d, NodeFacts DEF InUserCode, ThreadControl, Awake
  <2> QED
    BY <1>a, <1>d, <2>1, BlockRunq DEF RunqOK
<1>e. ASSUME fiber \in {MAIN, Idle}, NEW new \in States,
             VpSchedule(links, [state EXCEPT ![Idle] = new])
      PROVE  RunqOK'
  <2>1. current \in Thread => state[current] # "RUNNABLE"
    BY <1>a, <1>e, NodeFacts DEF OtherControl
  <2> QED
    BY <1>a, <1>e, <2>1, PassRunq DEF RunqOK
<1>f. state = [state EXCEPT ![Idle] = state[Idle]] /\ state[Idle] \in States
  BY <1>a, NodeFacts
<1>1. CASE VpStep
  <2>1. ASSUME NEW d \in Timeouts, StUsleep(d) PROVE RunqOK'
    <3>1. InUserCode /\ VpSchedule(links, [state EXCEPT ![current] = "SLEEPING"])
      BY <1>a, <2>1, NodeFacts DEF StUsleep, UsleepBlock, InUserCode,
                                   ThreadControl, Awake
    <3> QED
      BY <1>d, <3>1 DEF States
  <2>2. ASSUME NEW d \in Timeouts, MainUsleep(d) PROVE RunqOK'
    <3>1. fiber = MAIN /\ VpSchedule(links, state)
      BY <1>a, <2>2 DEF MainUsleep, UsleepBlock, OtherControl
    <3> QED
      BY <1>e, <1>f, <3>1
  <2>3. CASE StSuspend
    BY <1>d, <2>3 DEF StSuspend, States
  <2>4. ASSUME NEW t \in Thread, StThreadInterrupt(t) PROVE RunqOK'
    BY <1>b, <1>c, <2>4 DEF StThreadInterrupt, NotBlocked, WakeUp
  <2>5. ASSUME NEW t \in Thread, ExpireOne(t) PROVE RunqOK'
    BY <1>a, <1>c, <2>5 DEF ExpireOne, SleepqConsistent
  <2>6. CASE IdleSchedule
    <3> DEFINE new == IF state[Idle] = "ZOMBIE" THEN state[Idle] ELSE "RUNNABLE"
    <3>0. /\ new \in States /\ fiber = Idle
          /\ \/ VpSchedule(links, [state EXCEPT ![Idle] = new])
             \/ state' = [state EXCEPT ![Idle] = new] /\ links' = links
      BY <1>a, <1>f, <2>6, NodeFacts DEF IdleSchedule, States
    <3> HIDE DEF new
    <3>1. CASE VpSchedule(links, [state EXCEPT ![Idle] = new])
      BY <1>e, <3>0, <3>1
    <3>2. CASE state' = [state EXCEPT ![Idle] = new] /\ links' = links
      <4>1. Runnable' = Runnable
        BY <1>a, <3>2, NodeFacts DEF Runnable
      <4> QED
        BY <1>a, <3>2, <4>1, RunqSame DEF RunqOK
    <3> QED
      BY <3>0, <3>1, <3>2
  <2>7. CASE MainSchedule
    BY <1>e, <1>f, <2>7 DEF MainSchedule
  <2>8. CASE \/ BlockingCallEINTR \/ CreateOverLiveThread \/ IdleReturns
             \/ MainStart \/ MainReturns \/ DeadFiberResumed \/ IdleLoop
             \/ \E e \in Elapsed : CheckClock(e)
    BY <1>b, <2>8 DEF BlockingCallEINTR, ReturnEINTR, CreateOverLiveThread,
       IdleReturns, MainStart, MainReturns, DeadFiberResumed, IdleLoop,
       CheckClock, runVars
  <2> QED
    BY <1>1, <2>1, <2>2, <2>3, <2>4, <2>5, <2>6, <2>7, <2>8 DEF VpStep, VpNext
<1>2. CASE CondStep
  <2>1. ASSUME NEW c \in Cond, NEW d \in Timeouts \cup {NULL},
               StCondTimedwait(c, d)
        PROVE  RunqOK'
    BY <1>d, <2>1 DEF StCondTimedwait, CondBlock, States
  <2>2. CASE SignalOne
    <3>1. CASE StillWaits(iter)
      <4>1. MakeRunnable(iter) /\ state[iter] # "RUNNABLE"
        BY <2>2, <3>1 DEF SignalOne, StillWaits, WakeUp
      <4>2. iter \in Thread
        BY <2>2 DEF SignalOne, SignalLoop, Core, Calls, LoopInv, InLoop,
           Exiting, Waiters, Control, OtherControl, NotJoinable, RunInv, Slot
      <4> QED
        BY <1>c, <4>1, <4>2
    <3>2. CASE ~StillWaits(iter)
      BY <1>b, <2>2, <3>2 DEF SignalOne
    <3> QED
      BY <3>1, <3>2
  <2>3. CASE StCondReturn \/ SignalReturn
             \/ \E c \in Cond : \E k \in {"signal", "broadcast"} : StCondSignal(c, k)
    BY <1>b, <2>3 DEF StCondReturn, CondResume, SignalReturn, StCondSignal, runVars
  <2> QED
    BY <1>2, <2>1, <2>2, <2>3 DEF CondStep
<1>3. CASE MutexStep
  <2>1. ASSUME NEW m \in Mutex, LockBlock(m) PROVE RunqOK'
    BY <1>d, <2>1 DEF LockBlock, States
  <2>2. CASE UnlockOne
    <3>1. CASE state[iter] = "LOCK_WAIT"
      <4>1. MakeRunnable(iter) /\ state[iter] # "RUNNABLE"
        BY <2>2, <3>1 DEF UnlockOne
      <4>2. iter \in Thread
        BY <2>2 DEF UnlockOne, Core, Calls, LoopInv, InLoop, Waiters
      <4> QED
        BY <1>c, <4>1, <4>2
    <3>2. CASE state[iter] # "LOCK_WAIT"
      BY <1>b, <2>2, <3>2 DEF UnlockOne
    <3> QED
      BY <3>1, <3>2
  <2>3. CASE \/ LockReturn \/ UnlockNone
             \/ \E m \in Mutex : LockFree(m) \/ StMutexTrylock(m) \/ StMutexUnlock(m)
    BY <1>b, <2>3 DEF LockReturn, UnlockNone, LockFree, StMutexTrylock,
       StMutexUnlock, GotTheMutex, vpVars, runVars
  <2> QED
    BY <1>3, <2>1, <2>2, <2>3 DEF MutexStep
<1>4. CASE LifeStep
  <2>1. ASSUME NEW t \in Thread, NEW j \in Joinable, Create(t, j) PROVE RunqOK'
    <3>1. MakeRunnable(t)
      BY <2>1 DEF Create, StThreadCreate, MakeRunnable
    <3>2. state[t] # "RUNNABLE"
      BY <1>a, <2>1 DEF Create, StThreadCreate, NotJoinable
    <3> QED
      BY <1>c, <3>1, <3>2
  <2>2. CASE ExitBegin
    <3>1. fiber \in Slot /\ current = fiber /\ term[current] = NULL
      BY <1>a, <2>2 DEF ExitBegin, NotJoinable
    <3>2. links' = links /\ state' = [state EXCEPT ![fiber] = "ZOMBIE"]
      BY <2>2, <3>1 DEF ExitBegin
    <3>3. fiber \in Thread => state[fiber] # "RUNNABLE"
      BY <1>a DEF ThreadControl
    <3>4. Runnable' = Runnable
      BY <1>a, <3>1, <3>2, <3>3, NodeFacts DEF Runnable
    <3> QED
      BY <1>a, <3>2, <3>4, RunqSame DEF RunqOK
  <2>3. CASE EndOfThread \/ ExitEnd
    BY <1>b, <2>3 DEF EndOfThread, ExitEnd, runVars
  <2> QED
    BY <1>4, <2>1, <2>2, <2>3, NobodyJoins, <1>a DEF LifeStep
<1>5. CASE UNCHANGED vars
  BY <1>b, <1>5 DEF vars, vpVars, runVars
<1> QED
  BY <1>1, <1>2, <1>3, <1>4, <1>5 DEF Next, Ended

(* A program that creates no joinable thread never joins, leaves what has  *)
(* ended alone, and keeps its run queue, also if threads call              *)
(* st_thread_exit, which then runs twice for them.                         *)
THEOREM RunInvariance ==
  ASSUME Joinable = {FALSE}
  PROVE  Spec => []RunInv
<1>1. Init => RunInv
  <2> SUFFICES ASSUME Init PROVE RunInv
    OBVIOUS
  <2> USE NodeFacts, VProcAssumption DEF Init, VpInit
  <2>1. NotJoinable
    BY DEF NotJoinable, Joining
  <2>2. links \in ListState(Node)
    BY DEF ListState, Node
  <2>3. Runnable = {} /\ links.next[RUNQ] = RUNQ /\ links.prev[RUNQ] = RUNQ
    BY DEF Runnable, Node
  <2> QED
    BY <2>1, <2>2, <2>3, EmptyRing DEF RunInv, RunqWellFormed
<1>2. Core /\ RunInv /\ [Next]_vars => RunInv'
  BY RunqStep, NotJoinableStep DEF RunInv, RunqOK
<1> QED
  BY <1>1, <1>2, CoreInvariance, PTL DEF Spec

(* The run queue is always well linked and holds exactly the RUNNABLE      *)
(* threads, whatever is signalled, interrupted, timed out, created or      *)
(* ended in whatever order.                                                *)
THEOREM RunQueueCorrect ==
  ASSUME Joinable = {FALSE}
  PROVE  Spec => []RunqWellFormed
<1>1. RunInv => RunqWellFormed
  BY DEF RunInv
<1> QED
  BY <1>1, RunInvariance, PTL

-----------------------------------------------------------------------------
(* A thread that ends by returning exits once.                             *)
LEMMA ReturnsOnlyStep ==
  ASSUME Joinable = {FALSE}, ExplicitExit = FALSE, Core, RunInv, ReturnsOnly,
         [Next]_vars
  PROVE  ReturnsOnly'
<1>a. /\ state \in [Slot -> States] /\ pc \in [Slot \cup {MAIN} -> Labels]
      /\ \A t \in Thread : ThreadControl(t)
      /\ fiber \in Slot => current = fiber
      /\ NotJoinable
  BY DEF Core, DataTypes, Control, OneRunning, RunInv
<1>b. ASSUME \A t \in Thread : pc[t] # "exit",
             \A t \in Thread : \/ pc'[t] = pc[t]
                               \/ pc'[t] \in {"run", "cond", "lock", "signal",
                                              "broadcast", "unlock"}
      PROVE  ReturnsOnly'
  BY <1>b DEF ReturnsOnly
<1>c. \A t \in Thread : pc[t] = "exit" => fiber = t
  BY <1>a DEF ThreadControl
<1> USE NodeFacts DEF GoTo, Labels
<1>1. CASE VpStep
  <2>1. \A t \in Thread : pc[t] # "exit"
    BY <1>1, <1>c DEF VpStep, VpNext, StUsleep, MainUsleep, StSuspend,
       BlockingCallEINTR, StThreadInterrupt, CreateOverLiveThread, CheckClock,
       ExpireOne, IdleSchedule, IdleReturns, MainSchedule, MainStart,
       MainReturns, DeadFiberResumed, IdleLoop, ChecksClock, InUserCode
  <2>2. \A t \in Thread : pc'[t] = pc[t]
    BY <1>1, <1>a DEF VpStep, VpNext, StUsleep, MainUsleep, UsleepBlock,
       ReturnEINTR, StSuspend, BlockingCallEINTR, StThreadInterrupt,
       CreateOverLiveThread, CheckClock, ExpireOne, IdleSchedule, IdleReturns,
       MainSchedule, MainStart, MainReturns, DeadFiberResumed, IdleLoop, ChecksClock
  <2> QED
    BY <1>b, <2>1, <2>2
<1>2. CASE CondStep
  <2>1. \A t \in Thread : pc[t] # "exit"
    BY <1>2, <1>c DEF CondStep, StCondTimedwait, StCondReturn, StCondSignal,
       SignalOne, SignalLoop, SignalReturn, InUserCode
  <2>2. \A t \in Thread : \/ pc'[t] = pc[t]
                          \/ pc'[t] \in {"run", "cond", "signal", "broadcast"}
    BY <1>2, <1>a DEF CondStep, StCondTimedwait, CondBlock, StCondReturn,
       CondResume, StCondSignal, SignalOne, SignalReturn, InUserCode
  <2> QED
    BY <1>b, <2>1, <2>2
<1>3. CASE MutexStep
  <2>1. \A t \in Thread : pc[t] # "exit"
    BY <1>3, <1>c DEF MutexStep, LockReturn, UnlockOne, UnlockNone, LockFree,
       StMutexTrylock, LockBlock, StMutexUnlock, InUserCode
  <2>2. \A t \in Thread : pc'[t] = pc[t] \/ pc'[t] \in {"run", "lock", "unlock"}
    BY <1>3, <1>a DEF MutexStep, LockReturn, UnlockOne, UnlockNone, LockFree,
       StMutexTrylock, LockBlock, StMutexUnlock, GotTheMutex, vpVars, InUserCode
  <2> QED
    BY <1>b, <2>1, <2>2
<1>4. CASE LifeStep
  <2>1. ASSUME NEW t \in Thread, NEW j \in Joinable, Create(t, j)
        PROVE  ReturnsOnly'
    <3>1. \A u \in Thread : pc[u] # "exit"
      BY <1>c, <2>1 DEF Create, StThreadCreate, InUserCode
    <3>2. \A u \in Thread : pc'[u] = pc[u] \/ pc'[u] = "run"
      BY <1>a, <2>1 DEF Create, StThreadCreate
    <3> QED
      BY <1>b, <3>1, <3>2
  <2>2. CASE EndOfThread
    <3>1. /\ fiber \in Thread /\ pc[fiber] = "run" /\ state' = state
          /\ pc' = [pc EXCEPT ![fiber] = "exit"]
      BY <2>2 DEF EndOfThread, InUserCode, ReturnsOnly, runVars
    <3>2. state[fiber] = "RUNNING"
      BY <1>a, <3>1 DEF ThreadControl, Awake
    <3> QED
      BY <1>a, <1>c, <3>1, <3>2 DEF ReturnsOnly
  <2>3. CASE ExitBegin
    BY <1>a, <1>c, <2>3 DEF ExitBegin, ReturnsOnly
  <2>4. CASE ExitEnd
    BY <1>a, <1>c, <2>4 DEF ExitEnd, ReturnsOnly
  <2> QED
    BY <1>4, <2>1, <2>2, <2>3, <2>4, NobodyJoins, <1>a DEF LifeStep
<1>5. CASE UNCHANGED vars
  BY <1>5 DEF vars, vpVars, runVars, ReturnsOnly
<1> QED
  BY <1>1, <1>2, <1>3, <1>4, <1>5 DEF Next, Ended

(* The free list keeps exactly the segments of the threads that ended.     *)
LEMMA FreeListStep ==
  ASSUME Joinable = {FALSE}, ExplicitExit = FALSE, IInv, [Next]_vars
  PROVE  FreeListInv'
<1> USE NodeFacts DEF lifeVars, GoTo, FreeListInv
<1>0. /\ slinks \in ListState(SNode) /\ FreeListInv /\ NotJoinable /\ ReturnsOnly
      /\ pc \in [Slot \cup {MAIN} -> Labels] /\ OtherControl
      /\ \A t \in Thread : ThreadControl(t)
      /\ fiber \in Slot => current = fiber
  BY DEF IInv, Core, DataTypes, Control, OneRunning, RunInv
<1>1. ASSUME UNCHANGED slinks,
             \A s \in Slot : pc'[s] = "dead" <=> pc[s] = "dead"
      PROVE  FreeListInv'
  BY <1>0, <1>1 DEF Dead
<1>2. CASE VpStep
  <2> USE <1>0, <1>1 DEF VpStep
  <2>1. CASE \E d \in Timeouts : StUsleep(d) \/ MainUsleep(d)
    BY <2>1 DEF StUsleep, MainUsleep, UsleepBlock
  <2>2. CASE StSuspend \/ BlockingCallEINTR
    BY <2>2 DEF StSuspend, BlockingCallEINTR, ReturnEINTR
  <2>3. CASE \E t \in Thread : StThreadInterrupt(t) \/ ExpireOne(t)
    BY <2>3 DEF StThreadInterrupt, ExpireOne
  <2>4. CASE CreateOverLiveThread \/ MainReturns \/ DeadFiberResumed
    BY <2>4 DEF CreateOverLiveThread, MainReturns, DeadFiberResumed
  <2>5. CASE IdleLoop \/ MainStart \/ IdleReturns
    BY <2>5 DEF IdleLoop, MainStart, IdleReturns
  <2>6. CASE \E e \in Elapsed : CheckClock(e)
    BY <2>6 DEF CheckClock
  <2>7. CASE IdleSchedule \/ MainSchedule
    BY <2>7 DEF IdleSchedule, MainSchedule
  <2> QED
    BY <1>2, <2>1, <2>2, <2>3, <2>4, <2>5, <2>6, <2>7 DEF VpNext
<1>3. CASE CondStep
  <2> USE <1>0, <1>1
  <2>1. CASE \E c \in Cond : \E d \in Timeouts \cup {NULL} : StCondTimedwait(c, d)
    BY <2>1 DEF StCondTimedwait, CondBlock, InUserCode
  <2>2. CASE StCondReturn
    BY <2>2 DEF StCondReturn, CondResume
  <2>3. CASE \E c \in Cond : \E k \in {"signal", "broadcast"} : StCondSignal(c, k)
    BY <2>3 DEF StCondSignal, InUserCode
  <2>4. CASE SignalOne
    BY <2>4 DEF SignalOne
  <2>5. CASE SignalReturn
    BY <2>5 DEF SignalReturn
  <2> QED
    BY <1>3, <2>1, <2>2, <2>3, <2>4, <2>5 DEF CondStep
<1>4. CASE MutexStep
  <2> USE <1>0, <1>1
  <2>1. CASE \E m \in Mutex : LockFree(m) \/ StMutexTrylock(m)
    BY <2>1 DEF LockFree, StMutexTrylock, GotTheMutex, vpVars
  <2>2. CASE \E m \in Mutex : LockBlock(m) \/ StMutexUnlock(m)
    BY <2>2 DEF LockBlock, StMutexUnlock, InUserCode
  <2>3. CASE LockReturn
    BY <2>3 DEF LockReturn
  <2>4. CASE UnlockOne \/ UnlockNone
    BY <2>4 DEF UnlockOne, UnlockNone
  <2> QED
    BY <1>4, <2>1, <2>2, <2>3, <2>4 DEF MutexStep
<1>5. CASE LifeStep
  <2>1. ASSUME NEW t \in Thread, NEW j \in Joinable, Create(t, j)
        PROVE  FreeListInv'
    <3>1. StThreadCreate(t, NULL)
      BY <2>1 DEF Create
    <3>2. CASE pc[t] = "dead" /\ slinks' = StackNew(slinks, t)
      <4>1. t \in {FREEQ} \cup Dead /\ {FREEQ} \cup Dead \in SUBSET SNode
        BY <1>0, <3>2 DEF Dead, SNode
      <4>2. /\ Circular(slinks', ({FREEQ} \cup Dead) \ {t})
            /\ slinks' \in ListState(SNode)
        BY <1>0, <3>2, <4>1, StackNewPool, StackNewType
      <4>3. ({FREEQ} \cup Dead) \ {t} = {FREEQ} \cup Dead'
        BY <1>0, <3>1 DEF StThreadCreate, Dead
      <4> QED
        BY <4>2, <4>3
    <3>3. CASE state[t] = "UNUSED" /\ UNCHANGED slinks
      <4>1. pc[t] # "dead"
        BY <1>0, <3>3 DEF ThreadControl
      <4> QED
        BY <1>0, <1>1, <3>1, <3>3, <4>1 DEF StThreadCreate
    <3> QED
      BY <3>1, <3>2, <3>3 DEF StThreadCreate
  <2>2. CASE EndOfThread \/ ExitBegin
    BY <1>0, <1>1, <2>2 DEF EndOfThread, ExitBegin, InUserCode
  <2>3. CASE ExitEnd
    <3>1. fiber \in Slot /\ pc[fiber] = "exited" /\ current = fiber
      BY <1>0, <2>3 DEF ExitEnd, ReturnsOnly, OtherControl, Slot
    <3>2. /\ Circular(slinks', ({FREEQ} \cup Dead) \cup {fiber})
          /\ slinks' \in ListState(SNode)
      BY SMTT(60), <1>0, <2>3, <3>1, StackFreePool DEF ExitEnd, Dead, SNode
    <3>3. {FREEQ} \cup Dead' = ({FREEQ} \cup Dead) \cup {fiber}
      BY <1>0, <2>3, <3>1 DEF ExitEnd, Dead
    <3> QED
      BY <3>2, <3>3
  <2> QED
    BY <1>0, <1>5, <2>1, <2>2, <2>3, NobodyJoins DEF LifeStep
<1>6. CASE UNCHANGED vars
  BY <1>0, <1>1, <1>6 DEF vars, vpVars
<1> QED
  BY <1>2, <1>3, <1>4, <1>5, <1>6 DEF Next, Ended

(* In a program that creates no joinable thread and does not call          *)
(* st_thread_exit the whole invariant holds in every reachable state.      *)
THEOREM Invariance ==
  ASSUME Joinable = {FALSE}, ExplicitExit = FALSE
  PROVE  Spec => []IInv
<1>1. Init => ReturnsOnly /\ FreeListInv
  BY NodeFacts DEF Init, VpInit, ReturnsOnly, FreeListInv, Circular, Dead, SNode,
                   ListState
<1>2. Core /\ RunInv /\ ReturnsOnly /\ FreeListInv /\ [Next]_vars =>
        ReturnsOnly' /\ FreeListInv'
  BY ReturnsOnlyStep, FreeListStep DEF IInv
<1>3. Core /\ RunInv /\ ReturnsOnly /\ FreeListInv => IInv
  BY DEF IInv
<1> QED
  BY <1>1, <1>2, <1>3, CoreInvariance, RunInvariance, PTL DEF Spec

(* Every variable has its type in every reachable state of such a program. *)
THEOREM TypeCorrect ==
  ASSUME Joinable = {FALSE}, ExplicitExit = FALSE
  PROVE  Spec => []TypeOK
<1>1. IInv => TypeOK
  BY DEF IInv, Core, RunInv, FreeListInv, TypeOK
<1> QED
  BY <1>1, Invariance, PTL

(* No thread is ever created in the segment of a thread in use.            *)
THEOREM StackPoolCorrect ==
  ASSUME Joinable = {FALSE}, ExplicitExit = FALSE
  PROVE  Spec => []FreeStacksUnused
<1>1. IInv => FreeStacksUnused
  <2> SUFFICES ASSUME IInv, NEW t \in OnFreeList \cap Thread
               PROVE  pc[t] = "dead" /\ state[t] = "ZOMBIE"
    BY DEF FreeStacksUnused
  <2>1. {FREEQ} \cup Dead \in SUBSET SNode /\ FREEQ \in {FREEQ} \cup Dead
    BY NodeFacts DEF Dead
  <2>2. Circular(slinks, {FREEQ} \cup Dead)
    BY DEF IInv, FreeListInv
  <2>3. slinks.next[FREEQ] \in {FREEQ} \cup Dead
    BY <2>1, <2>2 DEF Circular
  <2>4. Reach(slinks, SNode, slinks.next[FREEQ]) \subseteq {FREEQ} \cup Dead
    BY <2>1, <2>2, <2>3, ReachCircular
  <2>5. t \in Dead
    BY <2>4, NodeFacts DEF OnFreeList
  <2>6. state[t] = "ZOMBIE"
    BY <2>5 DEF IInv, RunInv, NotJoinable, Dead
  <2> QED
    BY <2>5, <2>6 DEF Dead
<1> QED
  BY <1>1, Invariance, PTL

-----------------------------------------------------------------------------
(* The count of a step that neither begins nor ends a thread: the same     *)
(* threads are alive, and the count is the same.                           *)
LEMMA CountKept ==
  ASSUME Joinable = {FALSE}, ExplicitExit = FALSE, IInv, [Next]_vars,
         \A t \in Thread : ~Create(t, FALSE),
         ~ExitBegin
  PROVE  Live' = Live /\ active' = active
<1>a. Core /\ NotJoinable
  BY DEF IInv, RunInv
<1>1. StateSteps
  BY <1>a, StateStep
<1>2. \A t \in Thread : state'[t] \in {"UNUSED", "ZOMBIE"} <=> state[t] \in {"UNUSED", "ZOMBIE"}
  BY <1>a, <1>1, NobodyJoins DEF StateSteps, Wakes, Blocks, Begins, Ends, Awake
<1>3. Live' = Live
  BY <1>2 DEF Live
<1>4. CASE VpStep
  BY <1>3, <1>4 DEF VpStep, VpNext, StUsleep, MainUsleep, UsleepBlock, ReturnEINTR,
       StSuspend, BlockingCallEINTR, StThreadInterrupt, CreateOverLiveThread,
       CheckClock, ExpireOne, IdleSchedule, IdleReturns, MainSchedule, MainStart,
       MainReturns, DeadFiberResumed, IdleLoop, lifeVars
<1>5. CASE CondStep
  BY <1>3, <1>5 DEF CondStep, StCondTimedwait, CondBlock, StCondReturn, CondResume,
         StCondSignal, SignalOne, SignalReturn, lifeVars
<1>6. CASE MutexStep
  BY <1>3, <1>6 DEF MutexStep, LockReturn, UnlockOne, UnlockNone, LockFree,
       StMutexTrylock, LockBlock, StMutexUnlock, GotTheMutex, vpVars, lifeVars
<1>7. CASE LifeStep
  BY <1>3, <1>a, <1>7, NobodyJoins DEF LifeStep, EndOfThread, ExitEnd, lifeVars
<1>8. CASE UNCHANGED vars
  BY <1>3, <1>8 DEF vars, vpVars, lifeVars
<1> QED
  BY <1>4, <1>5, <1>6, <1>7, <1>8 DEF Next, Ended

(* The count is exact after every step.                                    *)
LEMMA CountStep ==
  ASSUME Joinable = {FALSE}, ExplicitExit = FALSE, IInv, CountInv, [Next]_vars
  PROVE  IsFiniteSet(Live') /\ active' = Cardinality(Live')
<1>a. /\ state \in [Slot -> States] /\ pc \in [Slot \cup {MAIN} -> Labels]
      /\ \A t \in Thread : ThreadControl(t)
      /\ fiber \in Slot => current = fiber
      /\ IsFiniteSet(Live) /\ active = Cardinality(Live)
      /\ NotJoinable /\ ReturnsOnly /\ OtherControl
  BY DEF IInv, Core, DataTypes, Control, OneRunning, CountInv, ActiveCount, RunInv
<1>1. ASSUME NEW t \in Thread, Create(t, FALSE)
      PROVE  IsFiniteSet(Live') /\ active' = Cardinality(Live')
  <2>1. /\ state' = [state EXCEPT ![t] = "RUNNABLE"] /\ active' = active + 1
        /\ pc[t] = "dead" \/ state[t] = "UNUSED"
    BY <1>1 DEF Create, StThreadCreate
  <2>2. t \notin Live
    BY <1>a, <2>1 DEF NotJoinable, Live
  <2>3. Live' = Live \cup {t}
    BY <1>a, <2>1, NodeFacts DEF Live
  <2> QED
    BY <1>a, <2>1, <2>2, <2>3, FS_AddElement
<1>2. CASE ExitBegin
  <2>1. /\ fiber \in Slot /\ pc[fiber] \in {"exit", "exitcall"}
        /\ active' = active - 1 /\ state' = [state EXCEPT ![current] = "ZOMBIE"]
    BY <1>2 DEF ExitBegin
  <2>2. fiber \in Thread
    BY <1>a, <2>1 DEF Slot, CountInv, OtherControl
  <2>3. state[fiber] = "RUNNING"
    BY <1>a, <2>1, <2>2 DEF ReturnsOnly
  <2>4. fiber \in Live
    BY <2>2, <2>3 DEF Live
  <2>5. Live' = Live \ {fiber}
    BY <1>a, <2>1, <2>2, NodeFacts DEF Live
  <2> QED
    BY <1>a, <2>1, <2>4, <2>5, FS_RemoveElement
<1>3. CASE (\A t \in Thread : ~Create(t, FALSE)) /\ ~ExitBegin
  BY <1>a, <1>3, CountKept
<1> QED
  BY <1>1, <1>2, <1>3

(* While a thread executes, the count is positive.                         *)
LEMMA ThreadCounts ==
  ASSUME IInv, CountInv, NEW STATE t, t \in Live
  PROVE  active > 0
BY FS_EmptySet, FS_CardinalityType DEF CountInv, ActiveCount

(* CountInv is kept by every step.                                         *)
LEMMA CountInvStep ==
  ASSUME Joinable = {FALSE}, ExplicitExit = FALSE, MainKind # "forever",
         IInv, CountInv, [Next]_vars
  PROVE  CountInv'
<1>0. IsFiniteSet(Live') /\ active' = Cardinality(Live')
  BY CountStep
<1> DEFINE Working == /\ pc[Idle] \notin {"exit", "exited", "dead"}
                      /\ fiber = Idle => active > 0
                      /\ pc[MAIN] \in {"clock", "expire"} => fiber = MAIN /\ active > 0
<1> SUFFICES Working'
  BY <1>0 DEF CountInv, ActiveCount
<1>a. /\ pc \in [Slot \cup {MAIN} -> Labels] /\ active \in Int
      /\ fiber \in Slot => current = fiber
      /\ Working /\ NotJoinable /\ ReturnsOnly /\ OtherControl
  BY DEF IInv, Core, DataTypes, Control, OneRunning, CountInv, RunInv
<1>b. fiber \in Thread /\ pc[fiber] \notin {"dead", "exited"} => active > 0
  <2> SUFFICES ASSUME fiber \in Thread, pc[fiber] \notin {"dead", "exited"}
               PROVE  active > 0
    OBVIOUS
  <2>1. fiber \in Live
    BY <1>a DEF IInv, Core, Control, ThreadControl, ReturnsOnly, Live, Awake
  <2> QED
    BY <2>1, ThreadCounts
<1>c. Idle \in Slot \cup {MAIN} /\ MAIN \in Slot \cup {MAIN} /\ Idle # MAIN
  BY NodeFacts
<1>d. ASSUME NEW f \in Thread, NEW label \in Labels, fiber # MAIN, active > 0,
             active' = active, pc' = pc \/ pc' = [pc EXCEPT ![f] = label]
      PROVE  Working'
  BY <1>a, <1>c, <1>d, NodeFacts
<1>1. CASE VpStep
  <2>0. active' = active
    BY <1>1 DEF VpStep, VpNext, StUsleep, MainUsleep, UsleepBlock, ReturnEINTR,
       StSuspend, BlockingCallEINTR, StThreadInterrupt, CreateOverLiveThread,
       CheckClock, ExpireOne, IdleSchedule, IdleReturns, MainSchedule, MainStart,
       MainReturns, DeadFiberResumed, IdleLoop, lifeVars
  <2>1. CASE \/ \E d \in Timeouts : StUsleep(d)
             \/ StSuspend \/ BlockingCallEINTR \/ CreateOverLiveThread
             \/ \E t \in Thread : StThreadInterrupt(t)
    <3>1. fiber \in Thread /\ pc[fiber] = "run" /\ pc' = pc
      BY <2>1 DEF StUsleep, UsleepBlock, StSuspend, BlockingCallEINTR, ReturnEINTR,
         CreateOverLiveThread, StThreadInterrupt, InUserCode
    <3> QED
      BY <1>a, <1>b, <1>c, <2>0, <3>1, NodeFacts
  <2>2. ASSUME NEW d \in Timeouts, MainUsleep(d) PROVE Working'
    <3>1. active > 0 /\ pc' = pc /\ pc[MAIN] = "loop"
      BY <2>2 DEF MainUsleep, UsleepBlock
    <3> QED
      BY <1>a, <2>0, <3>1
  <2>3. CASE \/ \E e \in Elapsed : CheckClock(e)
             \/ \E t \in Thread : ExpireOne(t)
             \/ IdleLoop
    <3>1. /\ fiber' = fiber /\ fiber \in {Idle, MAIN}
          /\ \/ pc' = pc
             \/ pc' = [pc EXCEPT ![fiber] = "expire"] /\ pc[fiber] = "clock"
             \/ pc' = [pc EXCEPT ![fiber] = "clock"] /\ active > 0
      BY <2>3 DEF CheckClock, ExpireOne, IdleLoop, ChecksClock, runVars
    <3> QED
      BY <1>a, <1>c, <2>0, <3>1
  <2>4. CASE IdleSchedule
    <3>1. pc' = [pc EXCEPT ![Idle] = "loop"] /\ active > 0 /\ fiber # MAIN
      BY <1>a, <1>c, <2>4 DEF IdleSchedule
    <3> QED
      BY <1>a, <1>c, <2>0, <3>1
  <2>5. CASE MainSchedule
    <3>1. pc' = [pc EXCEPT ![MAIN] = "loop"] /\ active > 0
      BY <1>a, <1>c, <2>5 DEF MainSchedule
    <3> QED
      BY <1>a, <1>c, <2>0, <3>1
  <2>6. CASE MainStart
    BY <1>a, <1>c, <2>0, <2>6 DEF MainStart, runVars
  <2>7. CASE MainReturns \/ DeadFiberResumed
    BY <1>a, <1>c, <2>0, <2>7, NodeFacts DEF MainReturns, DeadFiberResumed
  <2>8. ~IdleReturns
    BY <1>a DEF IdleReturns
  <2> QED
    BY <1>1, <2>1, <2>2, <2>3, <2>4, <2>5, <2>6, <2>7, <2>8 DEF VpStep, VpNext
<1>2. CASE CondStep
  <2>1. SignalLoop => fiber \in Thread /\ pc[fiber] \in {"signal", "broadcast", "exited"}
    BY <1>a DEF SignalLoop, ReturnsOnly, Slot, OtherControl
  <2>2. active' = active
    BY <1>2 DEF CondStep, StCondTimedwait, CondBlock, StCondReturn, CondResume,
         StCondSignal, SignalOne, SignalReturn, lifeVars
  <2>3. CASE SignalOne
    BY <1>a, <1>c, <2>1, <2>2, <2>3, NodeFacts DEF SignalOne
  <2>4. CASE ~SignalOne
    <3>1. fiber \in Thread /\ pc[fiber] \notin {"dead", "exited"}
      BY <1>2, <2>4 DEF CondStep, StCondTimedwait, StCondReturn, StCondSignal,
         SignalReturn, InUserCode
    <3>2. \E label \in Labels : pc' = pc \/ pc' = [pc EXCEPT ![fiber] = label]
      BY <1>2, <2>4 DEF CondStep, StCondTimedwait, CondBlock, StCondReturn, CondResume,
         StCondSignal, SignalReturn, GoTo, Labels
    <3> QED
      BY <1>b, <1>d, <2>2, <3>1, <3>2, NodeFacts
  <2> QED
    BY <2>3, <2>4
<1>3. CASE MutexStep
  <2>1. fiber \in Thread /\ pc[fiber] \notin {"dead", "exited"} /\ active' = active
    BY <1>3 DEF MutexStep, LockReturn, UnlockOne, UnlockNone, LockFree,
       StMutexTrylock, LockBlock, StMutexUnlock, GotTheMutex, vpVars, lifeVars, InUserCode
  <2>2. \E label \in Labels : pc' = pc \/ pc' = [pc EXCEPT ![fiber] = label]
    BY <1>3 DEF MutexStep, LockReturn, UnlockOne, UnlockNone, LockFree,
       StMutexTrylock, LockBlock, StMutexUnlock, GotTheMutex, vpVars, GoTo, Labels
  <2> QED
    BY <1>b, <1>d, <2>1, <2>2, NodeFacts
<1>4. CASE LifeStep
  <2>1. ASSUME NEW t \in Thread, NEW j \in Joinable, Create(t, j) PROVE Working'
    <3>1. /\ pc' = [pc EXCEPT ![t] = "run"] /\ fiber' = fiber /\ active' = active + 1
      BY <2>1 DEF Create, StThreadCreate
    <3> QED
      BY <1>a, <1>c, <3>1, NodeFacts
  <2>2. CASE EndOfThread
    <3>1. /\ fiber \in Thread /\ pc' = [pc EXCEPT ![fiber] = "exit"]
          /\ active' = active /\ fiber' = fiber /\ pc[fiber] = "run"
      BY <1>a, <2>2 DEF EndOfThread, InUserCode, GoTo, lifeVars, runVars, ReturnsOnly
    <3> QED
      BY <1>a, <1>b, <1>d, <3>1, NodeFacts DEF Labels
  <2>3. CASE ExitBegin
    <3>1. /\ fiber \in Thread /\ pc' = [pc EXCEPT ![fiber] = "exited"] /\ fiber' = fiber
      BY <1>a, <2>3 DEF ExitBegin, GoTo, ReturnsOnly, Slot, OtherControl
    <3> QED
      BY <1>a, <1>c, <3>1, NodeFacts
  <2>4. CASE ExitEnd
    <3>1. /\ fiber \in Thread /\ pc' = [pc EXCEPT ![fiber] = "dead"] /\ fiber' = MAIN
      BY <1>a, <2>4 DEF ExitEnd, GoTo, ReturnsOnly, Slot, OtherControl
    <3> QED
      BY <1>a, <1>c, <3>1, NodeFacts
  <2> QED
    BY <1>4, <1>a, <2>1, <2>2, <2>3, <2>4, NobodyJoins DEF LifeStep
<1>5. CASE UNCHANGED vars
  BY <1>5, <1>a DEF vars, vpVars, lifeVars, runVars
<1> QED
  BY <1>1, <1>2, <1>3, <1>4, <1>5 DEF Next, Ended

(* The active count is the number of threads that were created and have    *)
(* not exited.  The native fiber of the program must look at the count: if *)
(* it sleeps for ever instead, the idle thread ends and is counted out.    *)
THEOREM CountCorrect ==
  ASSUME Joinable = {FALSE}, ExplicitExit = FALSE, MainKind # "forever"
  PROVE  Spec => []ActiveCount
<1>1. Init => CountInv
  <2> SUFFICES ASSUME Init PROVE CountInv
    OBVIOUS
  <2>1. Live = {}
    BY NodeFacts DEF Init, VpInit, Live
  <2> QED
    BY <2>1, FS_EmptySet, NodeFacts DEF Init, VpInit, CountInv, ActiveCount
<1>2. IInv /\ CountInv /\ [Next]_vars => CountInv'
  BY CountInvStep
<1>3. CountInv => ActiveCount
  BY DEF CountInv
<1> QED
  BY <1>1, <1>2, <1>3, Invariance, PTL DEF Spec

=============================================================================
