SPECIFICATION Spec
CONSTANTS
  NULL = NULL
  Thread = {t1, t2, t3}
  Idle = Idle
  RUNQ = RUNQ
  ZOMBIEQ = ZOMBIEQ
  FREEQ = FREEQ
  MAIN = MAIN
  EXITED = EXITED
  Timeouts = {0, 2}
  Elapsed <- ClockSteps
  MaxDue = 3
  TermCond = {}
  Joinable = {FALSE}
  MainKind = "idle_run"
  Cond = {c}
  Mutex = {}
  ExplicitExit = FALSE
SYMMETRY Symmetry
INVARIANTS
  WaitqWellFormed
  WokenForAReason
  TimeoutNotStale
  SleepqConsistent
