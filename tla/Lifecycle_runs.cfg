SPECIFICATION Spec
CONSTANTS
  c1 = c1
  c2 = c2
  k1 = k1
  k2 = k2
  Containers = {c1}
  Callers = {k1}
  MaxGeneration = 2
  Policies <- RunPolicies
  AutoRemoval = {TRUE, FALSE}
  Ports = {}
  Ops = {"create", "start", "pause", "update", "checkpoint", "sweep", "stop", "remove", "force"}
  Env = {"slow-reap", "log-error", "reap-error", "launch-error", "wait-error", "refuses-capture", "members"}
  MaxStorageFaults = 1
  MaxCrashes = 1
INVARIANTS
  TypeOK
  GuestAccounted
  RunHasOwner
  PausedIsFrozen
  QuarantineHolds
  PendingRestartAllowed
PROPERTIES
  ManualStopHonoured
  KeepsPromise
CHECK_DEADLOCK FALSE
