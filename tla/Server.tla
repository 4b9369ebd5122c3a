------------------------------- MODULE Server --------------------------------
(***************************************************************************)
(* The processes of examples/server.c: the watchdog forks the server       *)
(* processes (VPs), waits for one to die and forks another in its place,   *)
(* and passes signals on to them.  A VP turns signals into words in a pipe *)
(* that one of its threads reads; the others are the pool of ThreadPool.   *)
(*                                                                         *)
(* Signals are blocked in the watchdog while it forks, so a new VP has     *)
(* them blocked until it has installed its own handlers; the first VPs are *)
(* forked before that and meet the default action, as the watchdog itself  *)
(* does.  Several signals of one kind that are pending are one.  VPs may   *)
(* die at any time and forks may fail.                                     *)
(***************************************************************************)
EXTENDS ThreadPool, Sequences

CONSTANTS
  NoPid,        \* vp_pids[i] <= 0
  Signal,       \* a subset of {"TERM", "HUP", "USR1"}
  PipeWords,    \* signals the pipe of a VP holds
  MaxSignals    \* bound: signals sent to the watchdog

ASSUME ServerAssumption ==
  /\ NoPid \notin Pid
  /\ Signal \subseteq {"TERM", "HUP", "USR1"}
  /\ PipeWords \in Nat \ {0} /\ MaxSignals \in Nat

VARIABLES
  watchdog,     \* where the watchdog is
  wdPending,    \* signals pending for it
  vpCount,      \* vp_count
  vpPids,       \* vp_pids
  dead,         \* i: where it found the process that died
  proc,         \* the processes
  termed,       \* history: the watchdog ended on SIGTERM
  sent          \* signals sent so far

wdVars == <<watchdog, wdPending, vpCount, vpPids, dead, termed, sent>>
serverVars == <<wdVars, proc, pool>>

Index == 0..(VpCount - 1)
NoProc == [stage |-> "none", blocked |-> FALSE, pending |-> {}, pipe |-> <<>>]
Alive(p) == proc[p].stage \in {"forked", "ready", "serving"}
Known(p) == {i \in 0..(vpCount - 1) : vpPids[i] = p}

ServerInit ==
  /\ watchdog = "starting" /\ wdPending = {} /\ dead = 0
  /\ vpCount = VpCount
  /\ vpPids = [i \in Index |-> NoPid]
  /\ proc = [p \in Pid |-> NoProc]
  /\ pool = [p \in Pid |-> NoPool]
  /\ termed = FALSE /\ sent = 0

-----------------------------------------------------------------------------
(* A new VP, with the signal mask of the watchdog.                         *)
Forked(p, blocked) ==
  /\ proc[p].stage = "none"
  /\ proc' = [proc EXCEPT ![p] = [NoProc EXCEPT !.stage = "forked",
                                                !.blocked = blocked]]

(* The first loop of start_processes; `dead` counts its iterations.        *)
ForkFirst ==
  /\ watchdog = "starting" /\ dead < vpCount
  /\ \E p \in Pid : Forked(p, FALSE) /\ vpPids' = [vpPids EXCEPT ![dead] = p]
  /\ dead' = dead + 1
  /\ UNCHANGED <<watchdog, wdPending, vpCount, termed, sent, pool>>

ForkFirstFails ==
  /\ watchdog = "starting" /\ dead < vpCount
  /\ IF dead = 0 THEN watchdog' = "gone" /\ UNCHANGED vpCount
                 ELSE vpCount' = dead /\ UNCHANGED watchdog
  /\ UNCHANGED <<wdPending, vpPids, dead, termed, sent, proc, pool>>

InstallWatchdog ==
  /\ watchdog = "starting" /\ dead = vpCount
  /\ watchdog' = "waiting"
  /\ UNCHANGED <<wdPending, vpCount, vpPids, dead, termed, sent, proc, pool>>

(* Before that a signal ends the watchdog.                                 *)
KilledEarly ==
  /\ watchdog = "starting" /\ wdPending # {}
  /\ watchdog' = "gone"
  /\ UNCHANGED <<wdPending, vpCount, vpPids, dead, termed, sent, proc, pool>>

(* wait returns a VP that has died, or fails when there is none at all.    *)
Reap(p) ==
  /\ watchdog = "waiting" /\ proc[p].stage = "zombie"
  /\ dead' = IF Known(p) = {} THEN vpCount ELSE Min(Known(p))
  /\ proc' = [proc EXCEPT ![p] = NoProc]
  /\ watchdog' = "reaped"
  /\ UNCHANGED <<wdPending, vpCount, vpPids, termed, sent, pool>>

WaitFails ==
  /\ watchdog = "waiting" /\ \A p \in Pid : proc[p] = NoProc
  /\ watchdog' = "gone"
  /\ UNCHANGED <<wdPending, vpCount, vpPids, dead, termed, sent, proc, pool>>

BlockSignals ==
  /\ watchdog = "reaped"
  /\ watchdog' = "blocked"
  /\ UNCHANGED <<wdPending, vpCount, vpPids, dead, termed, sent, proc, pool>>

(* The place of the dead VP is given to the new one, or to nobody when     *)
(* fork fails: then it stays empty.  Mutant: the table keeps the old pid.  *)
PlaceKept(p) == vpPids
PlaceGiven(p) == [vpPids EXCEPT ![dead] = p]

ForkAgain ==
  /\ watchdog = "blocked"
  /\ \E p \in Pid : Forked(p, TRUE) /\ vpPids' = PlaceGiven(p)
  /\ watchdog' = "waiting"
  /\ UNCHANGED <<wdPending, vpCount, dead, termed, sent, pool>>

ForkAgainFails ==
  /\ watchdog = "blocked"
  /\ vpPids' = PlaceGiven(NoPid)
  /\ watchdog' = "waiting"
  /\ UNCHANGED <<wdPending, vpCount, dead, termed, sent, proc, pool>>

(* wdog_sighandler: the signal goes to every process in the table.  On     *)
(* SIGHUP the watchdog ends too if it cannot reopen its log.               *)
Forwarded(s) ==
  LET hit == {vpPids[i] : i \in 0..(vpCount - 1)}
  IN  [p \in Pid |-> IF p \in hit /\ Alive(p)
                     THEN [proc[p] EXCEPT !.pending = @ \cup {s}] ELSE proc[p]]

WdogSighandler(s) ==
  /\ watchdog \in {"waiting", "reaped"} /\ s \in wdPending
  /\ wdPending' = wdPending \ {s}
  /\ proc' = Forwarded(s)
  /\ \/ s = "TERM" /\ watchdog' = "gone" /\ termed' = TRUE
     \/ s = "HUP" /\ watchdog' \in {watchdog, "gone"} /\ UNCHANGED termed
     \/ s = "USR1" /\ UNCHANGED <<watchdog, termed>>
  /\ UNCHANGED <<vpCount, vpPids, dead, sent, pool>>

(* The operator.                                                           *)
SendSignal(s) ==
  /\ watchdog # "gone" /\ sent < MaxSignals
  /\ wdPending' = wdPending \cup {s}
  /\ sent' = sent + 1
  /\ UNCHANGED <<watchdog, vpCount, vpPids, dead, termed, proc, pool>>

-----------------------------------------------------------------------------
(* The end of a VP, with its threads and its signal pipe.                  *)
Dies(p) ==
  /\ proc' = [proc EXCEPT ![p] = [NoProc EXCEPT !.stage = "zombie"]]
  /\ pool' = [pool EXCEPT ![p] = NoPool]

VpDies(p) ==
  /\ Alive(p)
  /\ Dies(p)
  /\ UNCHANGED wdVars

(* install_sighandlers: the pipe, the handlers, and only then the signals  *)
(* are let in.  Mutant: they stay blocked.                                 *)
UnblocksNever(q) == [q EXCEPT !.stage = "ready"]
Unblocked(q) == [q EXCEPT !.stage = "ready", !.blocked = FALSE]

InstallSighandlers(p) ==
  /\ proc[p].stage = "forked"
  /\ proc' = [proc EXCEPT ![p] = Unblocked(@)]
  /\ UNCHANGED <<wdVars, pool>>

(* start_threads, and the first thread goes on as process_signals.         *)
StartThreads(p) ==
  /\ proc[p].stage = "ready"
  /\ \E n \in 0..MaxWait :
       IF n = 0 THEN Dies(p)
       ELSE /\ pool' = [pool EXCEPT ![p] = StartedPool(n)]
            /\ proc' = [proc EXCEPT ![p].stage = "serving"]
  /\ UNCHANGED wdVars

(* A signal reaches the VP: the default action before it has installed its *)
(* handlers, child_sighandler after.  A full pipe ends the process.        *)
TakeSignal(p) ==
  /\ Alive(p) /\ ~proc[p].blocked
  /\ \E s \in proc[p].pending :
       IF proc[p].stage = "forked" \/ Len(proc[p].pipe) >= PipeWords
       THEN Dies(p)
       ELSE /\ proc' = [proc EXCEPT ![p].pending = @ \ {s},
                                    ![p].pipe = Append(@, s)]
            /\ UNCHANGED pool
  /\ UNCHANGED wdVars

(* process_signals                                                         *)
ProcessSignals(p) ==
  /\ proc[p].stage = "serving" /\ proc[p].pipe # <<>>
  /\ \/ Head(proc[p].pipe) \in {"TERM", "HUP"} /\ Dies(p)
     \/ /\ Head(proc[p].pipe) \in {"HUP", "USR1"}
        /\ proc' = [proc EXCEPT ![p].pipe = Tail(@)]
        /\ UNCHANGED pool
  /\ UNCHANGED wdVars

ServePool(p) ==
  /\ proc[p].stage = "serving"
  /\ PoolStep(p)
  /\ UNCHANGED <<wdVars, proc>>

WatchdogStep ==
  \/ ForkFirst \/ ForkFirstFails \/ InstallWatchdog \/ WaitFails
  \/ BlockSignals \/ ForkAgain \/ ForkAgainFails

VpStep(p) == InstallSighandlers(p) \/ StartThreads(p) \/ TakeSignal(p)
             \/ ProcessSignals(p)

(* Everything has ended, or stays as it is for want of signals.            *)
AllGone ==
  /\ watchdog = "gone" /\ \A p \in Pid : ~Alive(p)
  /\ UNCHANGED serverVars

ServerNext ==
  \/ WatchdogStep \/ KilledEarly \/ AllGone
  \/ \E s \in Signal : WdogSighandler(s) \/ SendSignal(s)
  \/ \E p \in Pid : Reap(p) \/ VpStep(p) \/ VpDies(p) \/ ServePool(p)

(* Processes go on executing, signals are delivered, and wait reports      *)
(* every process that has died in the end.  Nothing is assumed of          *)
(* ProcessSignals: the thread of a VP that reads the pipe needs the        *)
(* processor, and handle_connections does not give it up when st_accept    *)
(* returns ETIME at once, as it does on Windows.                           *)
ServerSpec ==
  /\ ServerInit /\ [][ServerNext]_serverVars
  /\ WF_serverVars(WatchdogStep)
  /\ \A p \in Pid : /\ SF_serverVars(Reap(p))
                    /\ WF_serverVars(InstallSighandlers(p))
                    /\ WF_serverVars(StartThreads(p))
                    /\ WF_serverVars(TakeSignal(p))

-----------------------------------------------------------------------------
(* wait never returns a process that is not in the table, which would make *)
(* the watchdog write behind the end of vp_pids: every VP has exactly one  *)
(* place, through failing forks, reused pids and signals.                  *)
PlaceFound ==
  /\ watchdog \in {"reaped", "blocked"} => dead < vpCount
  /\ watchdog # "gone" =>
       \A p \in Pid : proc[p] # NoProc => Cardinality(Known(p)) = 1

(* A pool that was started does not die out, and keeps its spare threads   *)
(* unless all the threads it may have are there or one it wanted could not *)
(* be created.                                                             *)
SpareKept ==
  \A p \in Pid : proc[p].stage = "serving" =>
    LET w == pool[p] IN
    /\ w.new + w.accepting + w.session > 0
    /\ w.wait >= MinWait \/ w.wait + w.busy >= MaxThreads \/ w.failed

(* When the watchdog has passed SIGTERM on and ended, SIGTERM reaches      *)
(* every VP, those included that were being forked or had signals blocked  *)
(* at that time: from some time on every VP that is still alive has it in  *)
(* its pipe, where the next turns of its signal thread find it.  (Whether  *)
(* that thread gets a turn is up to the other threads of the VP.)          *)
TermReachesAll ==
  termed ~> [](\A p \in Pid : Alive(p) =>
                 \E i \in 1..Len(proc[p].pipe) : proc[p].pipe[i] = "TERM")

(* The watchdog replaces a VP that has died, unless it ends itself or fork *)
(* fails.                                                                  *)
VpReplaced ==
  \A i \in Index :
    (i < vpCount /\ vpPids[i] # NoPid /\ ~Alive(vpPids[i])) ~>
      (watchdog = "gone" \/ vpPids[i] = NoPid \/ Alive(vpPids[i]))
=============================================================================
