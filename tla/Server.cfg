SPECIFICATION ServerSpec
CONSTANTS
  Pid = {p1,p2}
  NoPid = NoPid
  VpCount = 2
  ConfigWait = 2
  ConfigMax = 3
  FdLimit = 8
  SkCount = 1
  Signal = {"TERM","HUP","USR1"}
  PipeWords = 1
  MaxSignals = 3
INVARIANTS PlaceFound SpareKept PoolCounts
PROPERTIES TermReachesAll VpReplaced
