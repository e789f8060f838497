SPECIFICATION Spec
CONSTANTS
  p1 = p1
  p2 = p2
  Procs = {p1, p2}
  First = p1
  Nums = {1, 2}
  MainNum = 1
  MaxSequence = 5
  MaxDepth = 2
  Capacity = 4
  ObjectKeys = {"k", "l"}
  Hash <- SameSlot
  Users = {1, 2}
  MaxRefs = 1
  MaxStamp = 5
  MaxTries = 1
  MaxLooks = 1
  Plans <- SocketPlans
  MaxCalls = 1
INVARIANTS
  RecordsAreFound
  WriterIsAlone
  FlagHasHolder
  QuotaIsExact
  BoundSocketsAreOwned
PROPERTIES
  AbandonedStaysClosed
  StatIsCommitted
CHECK_DEADLOCK FALSE
