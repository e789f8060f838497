SPECIFICATION Spec
CONSTANTS
  init = init
  m1 = m1
  m2 = m2
  outside = outside
  pipe = pipe
  socket = socket
  signals = signals
  Procs = {init, m1, m2}
  Objects = {pipe, socket, signals}
  Kind <- Kinds
  Root = init
  Outside = outside
  MaxFaults = 1
  StallPasses = 2
  ChurnPasses = 2
  ReapedMax = 1
  Timed = FALSE
  Trees <- SmallTrees
INVARIANTS
  FinalReapLosesNothing
  ResumedIsWhole
CHECK_DEADLOCK FALSE
