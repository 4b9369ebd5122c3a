-------------------------------- MODULE NetIo --------------------------------
(***************************************************************************)
(* Socket I/O: st_poll (sched.c), the select event system (event.c) and    *)
(* the calls of io_win.c that wait with it, on top of the thread life      *)
(* cycle of Sync.                                                          *)
(*                                                                         *)
(* A channel is a descriptor with an event, <<fd, "IN">> or <<fd, "OUT">>; *)
(* a poll request (the pds array) is a set of channels, and the fd_sets    *)
(* of all groups together are the set of channels whose bit is on.         *)
(* Descriptors are spread over groups of FD_SETSIZE, each polled by its    *)
(* own select.  The sockets and select itself are external: a channel      *)
(* becomes ready at any time, and select on Windows overwrites the sets it *)
(* is given with the ready ones, clears them when it times out, and fails  *)
(* at once when they are empty.                                            *)
(***************************************************************************)
EXTENDS Sync

CONSTANTS
  IOQ,        \* list head vp.io_q
  Chan,       \* the channels the program uses
  Group,      \* the group of each descriptor, _st_select_get_gfd
  LastGroup,  \* _st_select_num - 1
  Requests,   \* the pds arrays passed to st_poll directly
  MaxLen      \* how much st_read_fully and st_write are asked to transfer

Fd      == {c[1] : c \in Chan}
Groups  == 0..LastGroup
INode   == Thread \cup {IOQ}

ASSUME NetIoAssumption ==
  /\ IOQ \notin Thread \cup {NULL}
  /\ LastGroup \in Nat
  /\ Group \in [Fd -> Groups]
  /\ Requests \subseteq SUBSET Chan
  /\ MaxLen \in Nat

VARIABLES
  ioLinks,   \* pq.links of the pollq on each thread's stack, and vp.io_q
  onIoq,     \* pq.on_ioq
  pds,       \* pq.pds: what each thread polls for
  revents,   \* the ready part of it, as dispatch reports it
  cnt,       \* _st_select_fd_rmp and _st_select_fd_wmp
  fdset,     \* the bits on in the fd_sets of all groups
  maxfd,     \* whether maxfd of the group is positive
  leak,      \* whether size of the group exceeds what is queued
  grp,       \* loop variable of _st_select_dispatch
  qIo,       \* loop variable of _st_select_dispatch_once
  call,      \* the I/O call each thread is in: [chan, left, timeout]
  opened,    \* descriptors that are open
  ready      \* external: channels that would not block

pollVars == <<ioLinks, onIoq, pds, revents>>
selVars  == <<cnt, fdset, maxfd, leak>>
loopVars == <<grp, qIo>>
osVars   == <<opened, ready>>
ioVars   == <<pollVars, selVars, loopVars, osVars, call>>
allVars  == <<vars, ioVars>>

IoInit ==
  /\ Init
  /\ ioLinks = LET p == [n \in INode |-> IF n = IOQ THEN IOQ ELSE NULL]
               IN  [next |-> p, prev |-> p]
  /\ onIoq = [t \in Thread |-> FALSE]
  /\ pds = [t \in Thread |-> {}]
  /\ revents = [t \in Thread |-> {}]
  /\ cnt = [c \in Chan |-> 0]
  /\ fdset = {}
  /\ maxfd = [g \in Groups |-> FALSE]
  /\ leak = [g \in Groups |-> FALSE]
  /\ grp = 0
  /\ qIo = IOQ
  /\ call = [t \in Thread |-> NULL]
  /\ opened = Fd
  /\ ready = {}

GroupOf(c) == Group[c[1]]
InGroup(g) == {c \in fdset : GroupOf(c) = g}

(* seldt->size counts the entries of the requests that were added and not  *)
(* deleted.  A notified request is not deleted, so size is what the queued *)
(* requests have in the group plus a surplus that never goes away again.   *)
(* Its one use is the test for a positive value, so only the existence of  *)
(* a surplus is kept (an overflow of size is out of sight).                *)
HasEntry(r, g) == \E c \in r : GroupOf(c) = g
SizePositive(g) == leak[g] \/ \E t \in Thread : onIoq[t] /\ HasEntry(pds[t], g)

-----------------------------------------------------------------------------
(* The per-descriptor counters when a request adds val to its own          *)
(* (_ST_SELECT_ADD_CNT and _st_select_del_cnt).                            *)
Counted(r, val) == [c \in Chan |-> IF c \in r THEN cnt[c] + val ELSE cnt[c]]

(* _st_select_pollset_add.                                                 *)
PollsetAdd(r) ==
  /\ cnt' = Counted(r, 1)
  /\ fdset' = fdset \cup r
  /\ maxfd' = [g \in Groups |-> maxfd[g] \/ HasEntry(r, g)]
  /\ UNCHANGED leak

(* The counts of a request that leaves the ioq, and the bits that go off   *)
(* with the last of them.  Mutant: the bits are left on.                   *)
UncountKeepsBits(r) ==
  /\ cnt' = Counted(r, -1)
  /\ UNCHANGED fdset
Uncount(r) ==
  /\ cnt' = Counted(r, -1)
  /\ fdset' = fdset \ {c \in r : cnt[c] = 1}

(* _st_select_pollset_del.                                                 *)
PollsetDel(r) ==
  /\ Uncount(r)
  /\ UNCHANGED <<maxfd, leak>>

(* st_poll up to its switch.  Without a timeout it still sleeps for one    *)
(* unit of the clock.                                                      *)
PollBlock(r, timeout, label) ==
  /\ ~Interrupted(current)
  /\ PollsetAdd(r)
  /\ pds' = [pds EXCEPT ![fiber] = r]
  /\ revents' = [revents EXCEPT ![fiber] = {}]
  /\ onIoq' = [onIoq EXCEPT ![fiber] = TRUE]
  /\ ioLinks' = InsertBefore(ioLinks, fiber, IOQ)
  /\ AddSleepQ(current, IF timeout = NULL THEN 1 ELSE timeout)
  /\ VpSchedule(links, [state EXCEPT ![current] = "IO_WAIT"])
  /\ GoTo(label)
  /\ UNCHANGED <<lifeVars, syncVars, loopVars, osVars>>

(* The test for a request nobody has taken off the ioq.                    *)
StillQueued(t) == onIoq[t]

(* The rest of st_poll: a request that is still queued is withdrawn; then  *)
(* a pending interrupt is reported, and the number of ready channels       *)
(* otherwise, 0 after a timeout.                                           *)
PollResume(label) ==
  /\ IF StillQueued(fiber)
     THEN /\ ioLinks' = RemoveLink(ioLinks, fiber)
          /\ PollsetDel(pds[fiber])
     ELSE UNCHANGED <<ioLinks, selVars>>
  /\ onIoq' = [onIoq EXCEPT ![fiber] = FALSE]
  /\ pds' = [pds EXCEPT ![fiber] = {}]
  /\ revents' = [revents EXCEPT ![fiber] = {}]
  /\ flags' = [flags EXCEPT ![fiber] = @ \ {"INTERRUPT"}]
  /\ GoTo(label)
  /\ UNCHANGED <<runVars, lifeVars, due, sleepq, syncVars, loopVars, osVars>>

StPoll(r, timeout) ==
  /\ InUserCode
  /\ \A c \in r : c[1] \in opened
  /\ PollBlock(r, timeout, "poll")
  /\ UNCHANGED call

PollReturn ==
  /\ fiber \in Thread
  /\ pc[fiber] = "poll"
  /\ PollResume("run")
  /\ UNCHANGED call

-----------------------------------------------------------------------------
(* st_read, st_recvfrom, st_sendto (left = 1) and st_read_fully, st_write  *)
(* (left > 1) are entered.                                                 *)
IoCall(c, len, timeout) ==
  /\ InUserCode
  /\ c[1] \in opened
  /\ call' = [call EXCEPT ![fiber] = [chan |-> c, left |-> len,
                                      timeout |-> timeout]]
  /\ GoTo("io")
  /\ UNCHANGED <<runVars, timeVars, lifeVars, syncVars, pollVars, selVars,
                 loopVars, osVars>>

InIo == fiber \in Thread /\ pc[fiber] = "io"

(* The call returns: all of it is transferred, or the peer has closed the  *)
(* connection, or the socket reports an error (always if it was closed).   *)
(* The transfer may use up what made the channel ready.                    *)
IoReturn ==
  /\ InIo
  /\ LET c == call[fiber].chan
     IN  ready' \in {ready, ready \ {c}}
  /\ call' = [call EXCEPT ![fiber] = NULL]
  /\ GoTo("run")
  /\ call[fiber].chan \in ready \/ call[fiber].chan[1] \notin opened
  /\ UNCHANGED <<runVars, timeVars, lifeVars, syncVars, pollVars, selVars,
                 loopVars, opened>>

(* A part is transferred, or the socket is not ready: wait in              *)
(* st_netfd_poll.                                                          *)
IoBlock ==
  /\ InIo
  /\ LET c == call[fiber].chan
     IN  /\ c[1] \in opened
         /\ \/ /\ c \in ready /\ call[fiber].left > 1
               /\ call' = [call EXCEPT ![fiber].left = @ - 1]
            \/ c \notin ready /\ UNCHANGED call
         /\ PollBlock({c}, call[fiber].timeout, "iopoll")

(* The same, with an interrupt pending: EINTR.                             *)
IoInterrupted ==
  /\ InIo
  /\ Interrupted(current)
  /\ call[fiber].chan[1] \in opened
  /\ call[fiber].chan \notin ready \/ call[fiber].left > 1
  /\ flags' = [flags EXCEPT ![fiber] = @ \ {"INTERRUPT"}]
  /\ call' = [call EXCEPT ![fiber] = NULL]
  /\ GoTo("run")
  /\ UNCHANGED <<runVars, lifeVars, due, sleepq, syncVars, pollVars, selVars,
                 loopVars, osVars>>

(* st_netfd_poll comes back: -1 if interrupted, otherwise 0, after a       *)
(* timeout as well, and the call tries again.                              *)
IoPollReturn ==
  /\ fiber \in Thread
  /\ pc[fiber] = "iopoll"
  /\ PollResume(IF Interrupted(fiber) THEN "run" ELSE "io")
  /\ call' = [call EXCEPT ![fiber] = IF Interrupted(fiber) THEN NULL ELSE @]

(* st_netfd_close: refused (EBUSY) while a request counts the descriptor.  *)
(* Mutant: it is not refused.                                              *)
FdBusyUntested(fd) == FALSE
FdBusy(fd) == \E c \in Chan : c[1] = fd /\ cnt[c] > 0

StNetfdClose(fd) ==
  /\ InUserCode
  /\ fd \in opened
  /\ ~FdBusy(fd)
  /\ opened' = opened \ {fd}
  /\ ready' = {c \in ready : c[1] # fd}
  /\ UNCHANGED <<vars, pollVars, selVars, loopVars, call>>

(* st_netfd_open, st_netfd_open_socket and st_open.                        *)
StNetfdOpen(fd) ==
  /\ InUserCode
  /\ fd \notin opened
  /\ opened' = opened \cup {fd}
  /\ UNCHANGED <<vars, pollVars, selVars, loopVars, call, ready>>

(* st_accept finds a pending connection; without one it returns ETIME at   *)
(* once on Windows, whatever the timeout, and changes nothing.             *)
StAccept(c, fd) ==
  /\ InUserCode
  /\ c[1] \in opened /\ c[2] = "IN" /\ c \in ready
  /\ fd \notin opened
  /\ opened' = opened \cup {fd}
  /\ ready' \in {ready, ready \ {c}}
  /\ UNCHANGED <<vars, pollVars, selVars, loopVars, call>>

(* st_connect.  EAGAIN and EINTR, to which a connection in progress is     *)
(* mapped, go straight back to connect, so the wait in st_netfd_poll is    *)
(* never reached: the fiber keeps the processor until connect succeeds or  *)
(* fails for another reason.                                               *)
StConnect(c, timeout) ==
  /\ InUserCode
  /\ c[1] \in opened /\ c[2] = "OUT"
  /\ call' = [call EXCEPT ![fiber] = [chan |-> c, left |-> 1,
                                      timeout |-> timeout]]
  /\ GoTo("connect")
  /\ UNCHANGED <<runVars, timeVars, lifeVars, syncVars, pollVars, selVars,
                 loopVars, osVars>>

ConnectReturn ==
  /\ fiber \in Thread
  /\ pc[fiber] = "connect"
  /\ call[fiber].chan \in ready
  /\ call' = [call EXCEPT ![fiber] = NULL]
  /\ GoTo("run")
  /\ UNCHANGED <<runVars, timeVars, lifeVars, syncVars, pollVars, selVars,
                 loopVars, osVars>>

(* External: the peer or the network makes a channel ready.                *)
SocketReady(c) ==
  /\ fiber # EXITED
  /\ c[1] \in opened
  /\ ready' = ready \cup {c}
  /\ UNCHANGED <<vars, pollVars, selVars, loopVars, call, opened>>

-----------------------------------------------------------------------------
(* _ST_VP_IDLE() is _st_select_dispatch: one dispatch_once for each group. *)
Dispatch ==
  /\ ChecksClock
  /\ pc[fiber] = "loop"
  /\ active > 0
  /\ grp' = 0
  /\ GoTo("select")
  /\ UNCHANGED <<runVars, timeVars, lifeVars, syncVars, pollVars, selVars,
                 osVars, call, qIo>>

NextGroup ==
  /\ grp' = IF grp < LastGroup THEN grp + 1 ELSE 0
  /\ GoTo(IF grp < LastGroup THEN "select" ELSE "clock")

(* The early return of dispatch_once.                                      *)
SelectSkipped ==
  /\ ChecksClock
  /\ pc[fiber] = "select"
  /\ ~SizePositive(grp) \/ ~maxfd[grp]
  /\ NextGroup
  /\ UNCHANGED <<runVars, timeVars, lifeVars, syncVars, pollVars, selVars,
                 osVars, call, qIo>>

(* select is called, with the sets of the group.                           *)
Selects ==
  /\ ChecksClock
  /\ pc[fiber] = "select"
  /\ SizePositive(grp) /\ maxfd[grp]

(* It finds ready channels; the rest of the group's bits go off.           *)
SelectReady ==
  /\ Selects
  /\ InGroup(grp) \cap ready # {}
  /\ fdset' = fdset \ (InGroup(grp) \ ready)
  /\ qIo' = ioLinks.next[IOQ]
  /\ GoTo("notify")
  /\ UNCHANGED <<runVars, timeVars, lifeVars, syncVars, pollVars, osVars,
                 call, cnt, maxfd, leak, grp>>

(* It times out; all of the group's bits go off.  With an empty sleep      *)
(* queue it would wait for ever.                                           *)
SelectTimesOut ==
  /\ Selects
  /\ InGroup(grp) # {}
  /\ InGroup(grp) \cap ready = {}
  /\ sleepq # {}
  /\ fdset' = fdset \ InGroup(grp)
  /\ NextGroup
  /\ UNCHANGED <<runVars, timeVars, lifeVars, syncVars, pollVars, osVars,
                 call, cnt, maxfd, leak, qIo>>

(* It fails on empty sets.  errno is whatever an earlier call left; if     *)
(* that is EBADF, _st_select_find_bad_fd runs, which on Windows finds none *)
(* and leaves maxfd of every group 0.                                      *)
SelectFails ==
  /\ Selects
  /\ InGroup(grp) = {}
  /\ \/ UNCHANGED <<maxfd, revents>>
     \/ /\ maxfd' = [g \in Groups |-> FALSE]
        /\ revents' = [t \in Thread |-> IF onIoq[t] THEN {} ELSE revents[t]]
  /\ NextGroup
  /\ UNCHANGED <<runVars, timeVars, lifeVars, syncVars, osVars, call, cnt,
                 fdset, leak, qIo, ioLinks, onIoq, pds>>

(* What of the channels of its descriptors, found ready, a request asked   *)
(* for.                                                                    *)
AskedFor(r, seen) == seen \cap r

(* One iteration of the loop over the ioq: a request with a ready channel  *)
(* leaves the ioq and its thread is made runnable; size is not decreased.  *)
NotifyOne ==
  /\ ChecksClock
  /\ pc[fiber] = "notify"
  /\ qIo # IOQ
  /\ LET seen == {c \in InGroup(grp) : c[1] \in {x[1] : x \in pds[qIo]}}
         hit  == AskedFor(pds[qIo], seen)
     IN  /\ revents' = [revents EXCEPT
                          ![qIo] = {c \in @ : \A x \in seen : x[1] # c[1]} \cup hit]
         /\ IF hit # {}
            THEN /\ ioLinks' = RemoveLink(ioLinks, qIo)
                 /\ onIoq' = [onIoq EXCEPT ![qIo] = FALSE]
                 /\ Uncount(pds[qIo])
                 /\ leak' = [g \in Groups |-> leak[g] \/ HasEntry(pds[qIo], g)]
                 /\ WakeUp(qIo, {})
            ELSE UNCHANGED <<ioLinks, onIoq, cnt, fdset, leak, timeVars, state,
                             links>>
  /\ qIo' = ioLinks'.next[qIo]
  /\ UNCHANGED <<lifeVars, syncVars, osVars, current, fiber, pc, pds, maxfd,
                 grp, call>>

NotifyDone ==
  /\ ChecksClock
  /\ pc[fiber] = "notify"
  /\ qIo = IOQ
  /\ NextGroup
  /\ UNCHANGED <<runVars, timeVars, lifeVars, syncVars, pollVars, selVars,
                 osVars, call, qIo>>

-----------------------------------------------------------------------------
VpIoStep == VpNext /\ UNCHANGED <<syncVars, ioVars>>

LifeIoStep ==
  /\ (\E t \in Thread : Create(t, FALSE)) \/ EndOfThread \/ ExitBegin \/ ExitEnd
  /\ UNCHANGED ioVars

IoStep ==
  \/ \E r \in Requests : \E d \in Timeouts \cup {NULL} : StPoll(r, d)
  \/ PollReturn
  \/ \E c \in Chan : \E d \in Timeouts \cup {NULL} : \E n \in 1..MaxLen :
       IoCall(c, n, d)
  \/ IoReturn
  \/ IoBlock
  \/ IoInterrupted
  \/ IoPollReturn
  \/ \E fd \in Fd : StNetfdClose(fd) \/ StNetfdOpen(fd)
  \/ \E c \in Chan : \E fd \in Fd : StAccept(c, fd)
  \/ \E c \in Chan : \E d \in Timeouts \cup {NULL} : StConnect(c, d)
  \/ ConnectReturn
  \/ \E c \in Chan : SocketReady(c)

DispatchStep ==
  \/ Dispatch
  \/ SelectSkipped
  \/ SelectReady
  \/ SelectTimesOut
  \/ SelectFails
  \/ NotifyOne
  \/ NotifyDone

IoEnded == fiber = EXITED /\ UNCHANGED allVars

IoNext == VpIoStep \/ LifeIoStep \/ IoStep \/ DispatchStep \/ IoEnded

IoSpec == IoInit /\ [][IoNext]_allVars

(* Fairness: that of Sync (the OS thread goes on, threads block again and  *)
(* again, the clock moves on).  Nothing is assumed of the sockets.         *)
IoGiveUp     == IoNext /\ fiber \in Thread /\ fiber' # fiber
IoTryBlock   == BlockingCallEINTR /\ UNCHANGED <<syncVars, ioVars>>
IoClockMoves == (\E e \in Elapsed : e > 0 /\ CheckClock(e))
                /\ UNCHANGED <<syncVars, ioVars>>
Proceeds     == (VpIoStep \/ LifeIoStep \/ DispatchStep \/ PollReturn \/ IoReturn
                 \/ IoBlock \/ IoInterrupted \/ IoPollReturn \/ ConnectReturn)

FairIoSpec == /\ IoSpec
              /\ WF_allVars(Proceeds)
              /\ SF_allVars(IoGiveUp)
              /\ SF_allVars(IoTryBlock)
              /\ SF_allVars(IoClockMoves)

-----------------------------------------------------------------------------
Polling(t) == pc[t] \in {"poll", "iopoll"}

(* Every variable of the I/O layer has its type.                           *)
IoTypeOK ==
  /\ ioLinks \in ListState(INode)
  /\ onIoq \in [Thread -> BOOLEAN]
  /\ pds \in [Thread -> SUBSET Chan]
  /\ revents \in [Thread -> SUBSET Chan]
  /\ cnt \in [Chan -> Nat]
  /\ fdset \subseteq Chan
  /\ maxfd \in [Groups -> BOOLEAN]
  /\ leak \in [Groups -> BOOLEAN]
  /\ grp \in Groups
  /\ qIo \in INode
  /\ opened \subseteq Fd
  /\ ready \subseteq Chan

(* The ioq is well linked and holds just the requests flagged on_ioq, and  *)
(* each is inside an st_poll that has not returned: the queue never points *)
(* into a stack frame that is gone.                                        *)
IoqWellFormed ==
  /\ IoTypeOK
  /\ Ring(ioLinks, IOQ, {IOQ} \cup {t \in Thread : onIoq[t]})
  /\ \A t \in Thread : onIoq[t] => Polling(t)

(* The descriptor counts are those of the queued requests, whether they    *)
(* leave by notification, timeout or interrupt, and a bit is on only for a *)
(* counted descriptor.                                                     *)
CountsExact ==
  \A c \in Chan :
    /\ cnt[c] = Cardinality({t \in Thread : onIoq[t] /\ c \in pds[t]})
    /\ c \in fdset => cnt[c] > 0

(* "It can happen when a thread closes file descriptor that is being used  *)
(* by some other thread -- BAD!": st_netfd_close never lets it happen.     *)
ClosedNotPolled ==
  \A c \in Chan : c[1] \notin opened =>
    c \notin fdset /\ \A t \in Thread : onIoq[t] => c \notin pds[t]

(* A thread in IO_WAIT is on the ioq and has a deadline; a thread with a   *)
(* deadline is blocked.                                                    *)
IoWaitWoken ==
  \A t \in Thread :
    /\ state[t] = "IO_WAIT" => onIoq[t] /\ t \in sleepq
    /\ t \in sleepq => state[t] \in {"SLEEPING", "IO_WAIT"}

(* An I/O call whose channel stays ready returns, although select forgets  *)
(* the descriptors it does not report: the timeout of each st_poll makes   *)
(* the call try again and add its descriptor anew.                         *)
IoCompletes ==
  \A t \in Thread : \A c \in Chan :
    (<>[](c \in ready /\ c[1] \in opened /\ call[t] # NULL /\ call[t].chan = c))
      => <>(fiber = EXITED)

(* "Request read timeout": a call with a timeout returns, data or not.     *)
TimeoutReturns ==
  \A t \in Thread :
    (call[t] # NULL /\ call[t].timeout # NULL) ~> (call[t] = NULL \/ fiber = EXITED)

=============================================================================
