SPECIFICATION FairSpec
CONSTANTS
  c1 = c1
  c2 = c2
  k1 = k1
  k2 = k2
  Containers = {c1}
  Callers = {k1}
  MaxGeneration = 1
  Policies <- TwoPolicies
  AutoRemoval = {FALSE}
  Ports = {}
  Ops = {"create", "start", "stop"}
  Env = {}
  MaxStorageFaults = 0
  MaxCrashes = 1
PROPERTIES
  LossIsSettled
CHECK_DEADLOCK FALSE
