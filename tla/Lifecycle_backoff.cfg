SPECIFICATION FairSpec
CONSTANTS
  c1 = c1
  c2 = c2
  k1 = k1
  k2 = k2
  Containers = {c1}
  Callers = {}
  MaxGeneration = 3
  Policies <- AllPolicies
  AutoRemoval = {TRUE, FALSE}
  Ports = {}
  Ops = {"create", "start", "pause"}
  Env = {"launch-error", "wait-error"}
  MaxStorageFaults = 0
  MaxCrashes = 1
PROPERTIES
  RestartSettles
CHECK_DEADLOCK FALSE
