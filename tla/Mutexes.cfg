SPECIFICATION Spec
CONSTANTS
  NULL = NULL
  Thread = {t1, t2, t3}
  Idle = Idle
  RUNQ = RUNQ
  ZOMBIEQ = ZOMBIEQ
  FREEQ = FREEQ
  MAIN = MAIN
  EXITED = EXITED
  Timeouts = {1}
  Elapsed = {0, 1}
  MaxDue = 1
  TermCond = {}
  Joinable = {FALSE}
  MainKind = "usleep"
  Cond = {}
  Mutex = {m}
  ExplicitExit = FALSE
SYMMETRY Symmetry
INVARIANTS
  MutexSafety
  OwnerKnows
  NoLostThread
  ActiveCount
  FreeStacksUnused
  IInv
