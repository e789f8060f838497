SPECIFICATION Spec
CONSTANTS
  NoThread = NoThread
  Threads = {t1, t2}
  First = t1
  MaxOps = 2
  Window = 1
  Retain = TRUE
INVARIANTS
  ListedAreStopped
CHECK_DEADLOCK FALSE
