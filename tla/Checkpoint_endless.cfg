SPECIFICATION FairSpec
CONSTANTS
  init = init
  m1 = m1
  m2 = m2
  outside = outside
  pipe = pipe
  socket = socket
  signals = signals
  Procs = {init, m1}
  Objects = {pipe, socket, signals}
  Kind <- Kinds
  Root = init
  Outside = outside
  MaxFaults = 0
  StallPasses = 2
  ChurnPasses = 2
  ReapedMax = 1
  Timed = TRUE
  Trees <- PairTrees
PROPERTIES
  CaptureEnds
CHECK_DEADLOCK FALSE
