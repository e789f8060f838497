SPECIFICATION FairSpec
CONSTANTS
  c1 = c1
  c2 = c2
  k1 = k1
  k2 = k2
  Containers = {c1}
  Callers = {k1, k2}
  MaxGeneration = 1
  Policies <- TwoPolicies
  AutoRemoval = {TRUE, FALSE}
  Ports = {}
  Ops = {"create", "start", "pause", "stop", "signal", "force"}
  Env = {"wait-error", "stop-signals"}
  MaxStorageFaults = 0
  MaxCrashes = 0
PROPERTIES
  StopReturns
CHECK_DEADLOCK FALSE
