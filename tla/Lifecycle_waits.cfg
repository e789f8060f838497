SPECIFICATION Spec
CONSTANTS
  c1 = c1
  c2 = c2
  k1 = k1
  k2 = k2
  Containers = {c1}
  Callers = {k1, k2}
  MaxGeneration = 2
  Policies <- OnePolicy
  AutoRemoval = {TRUE, FALSE}
  Ports = {}
  Ops = {"create", "start", "update", "checkpoint", "wait", "stop", "signal", "remove", "force"}
  Env = {"wait-error", "launch-error"}
  MaxStorageFaults = 0
  MaxCrashes = 0
INVARIANTS
  NoLostWakeup
CHECK_DEADLOCK FALSE
