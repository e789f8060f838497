SPECIFICATION FairSpec
CONSTANTS
  c1 = c1
  c2 = c2
  k1 = k1
  k2 = k2
  Containers = {c1}
  Callers = {k1}
  MaxGeneration = 3
  Policies <- TwoPolicies
  AutoRemoval = {FALSE}
  Ports = {}
  Ops = {"create", "start", "stop"}
  Env = {}
  MaxStorageFaults = 0
  MaxCrashes = 0
PROPERTIES
  RestartSettles
CHECK_DEADLOCK FALSE
