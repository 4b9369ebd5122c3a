SPECIFICATION Spec
CONSTANTS
  NULL = NULL
  Thread = {t1, t2}
  Idle = Idle
  RUNQ = RUNQ
  ZOMBIEQ = ZOMBIEQ
  FREEQ = FREEQ
  MAIN = MAIN
  EXITED = EXITED
  Timeouts = {1}
  Elapsed = {1}
  MaxDue = 1
  TermCond = {d1, d2}
  Joinable = {TRUE, FALSE}
  MainKind = "usleep"
  Cond = {}
  Mutex = {}
  ExplicitExit = FALSE
SYMMETRY Symmetry
INVARIANT
  ScheduledHasCode
