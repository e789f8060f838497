SPECIFICATION Spec
CONSTANTS
  c1 = c1
  c2 = c2
  k1 = k1
  k2 = k2
  Containers = {c1}
  Callers = {}
  MaxGeneration = 2
  Policies <- OnePolicy
  AutoRemoval = {TRUE}
  Ports = {}
  Ops = {"create", "start"}
  Env = {}
  MaxStorageFaults = 0
  MaxCrashes = 0
INVARIANTS
  FailureIsPersistence
CHECK_DEADLOCK FALSE
