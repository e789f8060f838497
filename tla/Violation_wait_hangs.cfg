SPECIFICATION FairSpec
CONSTANTS
  c1 = c1
  c2 = c2
  k1 = k1
  k2 = k2
  Containers = {c1}
  Callers = {k1}
  MaxGeneration = 1
  Policies <- OnePolicy
  AutoRemoval = {FALSE}
  Ports = {}
  Ops = {"create", "start", "wait"}
  Env = {}
  MaxStorageFaults = 1
  MaxCrashes = 0
PROPERTIES
  WaitLearnsFailure
CHECK_DEADLOCK FALSE
