SPECIFICATION Spec
CONSTANTS
  p1 = p1
  p2 = p2
  Procs = {p1, p2}
  Root = p1
  Uid <- Users2
  ShmSlots = {0, 1}
  SemSlots = {0}
  MsgSlots = {0}
  Keys = {"k"}
  Owners = {1}
  Modes = {TRUE}
  MaxSeq = 1
  MaxAttach = 1
  Nums = {1, 2}
  OpLists <- PlainLists
  SetValues = {1}
  SemMax = 1
  UndoMax = 1
  MaxMarks = 1
  MaxAdjust = 1
  Capacity = 2
  Types = {1, 2}
  Sizes = {1}
  Selectors <- SomeSelectors
  QueueBytes = 1
  SetBytes = {2}
  MaxStores = 2
  Workloads <- OnlyMsg
  Kills = FALSE
INVARIANTS
  QueueIsOneObject
CHECK_DEADLOCK FALSE
