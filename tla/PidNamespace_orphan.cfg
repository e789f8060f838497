SPECIFICATION Spec
CONSTANTS
  root = root
  a = a
  b = b
  c = c
  outside = outside
  other = other
  Nobody = Nobody
  Procs = {root, a, b, c}
  Threads <- MCThreads
  Outside = {}
  Capacity = 3
  Visible = {"live", "zombie"}
  Plans <- Family
  Kills = {"fork"}
  MaxGuest = 4
  MaxKills = 1
INVARIANTS
  MembersAreNamed
CHECK_DEADLOCK FALSE
