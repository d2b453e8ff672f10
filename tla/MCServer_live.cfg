\* Two connections on two addresses, everyone allowed; no accept fails.
CONSTANTS
  a1 = a1
  a2 = a2
  c1 = c1
  c2 = c2
  c3 = c3
  h1 = h1
  h2 = h2
  None = None
  Conns = {c1, c2}
  Acceptors = {a1, a2}
  Hosts = {h1, h2}
  HostOf <- MCHostOf
  AllowedClients = {}
  Faults = {"reset", "spawn"}
SPECIFICATION FairSpec
PROPERTIES SweepReapsFinished SigTermEndsProcess QueuedClientIsTaken ClosedClientEndsThread
