\* Three connections, one of them denied, on one address, and every fault.
CONSTANTS
  a1 = a1
  a2 = a2
  c1 = c1
  c2 = c2
  c3 = c3
  h1 = h1
  h2 = h2
  None = None
  Conns = {c1, c2, c3}
  Acceptors = {a1}
  Hosts = {h1, h2}
  HostOf <- MCHostOf
  AllowedClients <- MCOnlyH1
  Faults = {"accept", "reset", "spawn"}
SPECIFICATION Spec
INVARIANTS TypeOK ThreadHasOwner JoinNeverWaitsForClient OnePlace
PROPERTIES ImplementsPool
