SPECIFICATION FairIoSpec
CONSTANTS
  NULL = NULL
  Idle = Idle
  RUNQ = RUNQ
  ZOMBIEQ = ZOMBIEQ
  FREEQ = FREEQ
  MAIN = MAIN
  EXITED = EXITED
  IOQ = IOQ
  TermCond = {}
  Cond = {}
  Mutex = {}
  Joinable = {FALSE}
  ExplicitExit = FALSE
  Thread = {t1}
  Timeouts = {1}
  Elapsed = {1}
  MaxDue = 1
  MainKind = "usleep"
  Chan <- OneChan
  Group <- Single
  LastGroup = 0
  Requests = {}
  MaxLen = 1
PROPERTY
  TimeoutReturns
