\* Two threads, two lines, and three changes while they walk.
CONSTANTS
  None = None
  t1 = t1
  t2 = t2
  Threads = {t1, t2}
  NumLines = 2
  MaxTime = 1
  Modulus = 4
  Faults = {"clock", "tty"}
  MaxChanges = 3
SPECIFICATION FairSpec
INVARIANTS TypeOK WholeWalk IdleWithinLogin
PROPERTIES EveryoneIsAnswered
