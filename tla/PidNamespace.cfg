SPECIFICATION Spec
CONSTANTS
  root = root
  a = a
  b = b
  c = c
  outside = outside
  other = other
  Nobody = Nobody
  Procs = {root, a, b, c}
  Threads <- MCThreads
  Outside = {}
  Capacity = 3
  Visible = {"live", "zombie"}
  Plans <- Jobs
  Kills = {"join", "fork", "publish", "setpgid", "setsid", "waited", "reap"}
  MaxGuest = 4
  MaxKills = 1
INVARIANTS
  ReadIsCurrent
  LeadersNameGroups
  PoisonedByLoss
PROPERTIES
  NamesAreKept
  Atomic
CHECK_DEADLOCK FALSE
