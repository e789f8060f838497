SPECIFICATION Spec
CONSTANTS
  root = root
  a = a
  b = b
  c = c
  outside = outside
  other = other
  Nobody = Nobody
  Procs = {root, a, b, c}
  Threads <- MCThreads
  Outside = {outside, other}
  Capacity = 3
  Visible = {"live", "zombie"}
  Plans <- Pair
  Kills = {}
  MaxGuest = 4
  MaxKills = 1
PROPERTIES
  Atomic
CHECK_DEADLOCK FALSE
