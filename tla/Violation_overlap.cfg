SPECIFICATION Spec
CONSTANTS
  c1 = c1
  c2 = c2
  k1 = k1
  k2 = k2
  Containers = {c1}
  Callers = {}
  MaxGeneration = 2
  Policies <- OnePolicy
  AutoRemoval = {FALSE}
  Ports = {}
  Ops = {"create", "start", "checkpoint"}
  Env = {"wedge"}
  MaxStorageFaults = 0
  MaxCrashes = 0
INVARIANTS
  NoOverlap
CHECK_DEADLOCK FALSE
