\* Three daemons at once on a system that locks the PID file.
CONSTANTS
  None = None
  p1 = p1
  p2 = p2
  p3 = p3
  Procs = {p1, p2, p3}
  PidLen <- MCPidLen
  ExLock = TRUE
  MaxSigTerms = 2
  Faults = {"config", "pidfile", "clients"}
SPECIFICATION FairSpec
INVARIANTS TypeOK EndsWithoutPidFile PidFileWhole
PROPERTIES SigTermEnds
