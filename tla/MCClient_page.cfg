\* mctallycgi, three hosts, every fault.
CONSTANTS
  None = None
  NumHosts = 3
  Requests <- MCRequests
  Html = TRUE
  Faults = {"unanswered", "silent", "spawn"}
SPECIFICATION FairSpec
INVARIANTS TypeOK ReportsInOnePiece ExitsWithWholeReports
PROPERTIES OthersNotHeldUp EndsInOrder
