\* Accept errors, such as too many open files, and clients that reset their
\* connections at once.
CONSTANTS
  a1 = a1
  a2 = a2
  c1 = c1
  c2 = c2
  c3 = c3
  h1 = h1
  h2 = h2
  None = None
  Conns = {c1}
  Acceptors = {a1}
  Hosts = {h1, h2}
  HostOf <- MCHostOf
  AllowedClients = {}
  Faults = {"accept", "reset"}
SPECIFICATION Spec
INVARIANTS KeepsListening
