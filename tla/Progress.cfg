SPECIFICATION FairSpec
CONSTANTS
  NULL = NULL
  Thread = {t1, t2}
  Idle = Idle
  RUNQ = RUNQ
  ZOMBIEQ = ZOMBIEQ
  FREEQ = FREEQ
  MAIN = MAIN
  EXITED = EXITED
  Timeouts = {1}
  Elapsed = {0, 1}
  MaxDue = 1
  TermCond = {}
  Joinable = {FALSE}
  MainKind = "forever"
  Cond = {c}
  Mutex = {m}
  ExplicitExit = TRUE
PROPERTIES
  RunnableRuns
  DeadlineNoticed
  MutexGranted
