SPECIFICATION Spec
CONSTANTS
  c1 = c1
  c2 = c2
  k1 = k1
  k2 = k2
  Containers = {c1, c2}
  Callers = {}
  MaxGeneration = 2
  Policies <- OnePolicy
  AutoRemoval = {FALSE}
  Ports = {80}
  Ops = {"create", "start", "pause", "checkpoint", "sweep"}
  Env = {"refuses-capture", "wedge"}
  MaxStorageFaults = 0
  MaxCrashes = 1
INVARIANTS
  SweepRestoresRuns
  PortsExclusive
SYMMETRY Symmetry
CHECK_DEADLOCK FALSE
