SPECIFICATION Spec
CONSTANTS
  root = root
  a = a
  b = b
  c = c
  outside = outside
  other = other
  Nobody = Nobody
  Procs = {root, a, b, c}
  Threads <- MCThreads
  Outside = {}
  Capacity = 3
  Visible = {"live", "zombie"}
  Plans <- Again
  Kills = {}
  MaxGuest = 4
  MaxKills = 1
INVARIANTS
  LeadersNameGroups
CHECK_DEADLOCK FALSE
