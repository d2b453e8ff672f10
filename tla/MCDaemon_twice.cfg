\* A second daemon is started while one serves.
CONSTANTS
  None = None
  p1 = p1
  p2 = p2
  p3 = p3
  Procs = {p1, p2, p3}
  PidLen <- MCPidLen
  ExLock = FALSE
  MaxSigTerms = 1
  Faults = {}
SPECIFICATION Spec
INVARIANTS PidFileNamesDaemon
