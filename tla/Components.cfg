SPECIFICATION Spec
CONSTANTS
  Thread = {a1, a2, b1, b2, c1, c2}
  Dues = {1, 2, 3}
  Nil = Nil
  Caller = {a1, a2}
  NoCaller = NoCaller
  Host = {"ab", "a.b"}
  Dots <- DotsOf
  TrailingDot = {}
  NDots = 1
  DefNames = TRUE
  DnsRch = FALSE
  Domains <- DomainList
  NsCount = 1
  QueryId = {b1, b2}
  Port = {c1, c2}
  Ttls = {0, 1}
  MaxAddrs = 2
  MaxEntries = 1
  MaxTime = 3
  User = {a1, a2}
  NoUser = NoUser
  FileLen = 3
  MaxRead = 2
  Requests <- RequestSet
  PipeSize = 3
  ControlSize = 1
  StartOffsets = {0, 1}
  Owner = {a1, a2}
  Value = {v1, v2, v3}
  NoValue = NoValue
  KeysMax = 2
  Holder = {a1, a2}
  Nobody = Nobody
  Object = {b1, b2}
  OsFd = {c1, c2}
SYMMETRY Symmetry
INVARIANTS
  HeapShape
  OwnAnswer
  FreshWhenServed
  CachedUsable
  OwnSection
  WaitpidEnds
  DestroyedOnce
  OwnDescriptor
PROPERTY
  ImplementsSleepQueue
