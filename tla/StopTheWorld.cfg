SPECIFICATION FairSpec
CONSTANTS
  NoThread = NoThread
  Threads = {t1, t2}
  First = t1
  MaxOps = 2
  Window = 1
  Retain = TRUE
INVARIANTS
  WindowIsQuiet
  RunningCodeIsLive
PROPERTIES
  BarrierConverges
CHECK_DEADLOCK FALSE
