\* Up to three requests, and every fault.
CONSTANTS
  RequestLists <- MCRequestLists
  Faults = {"auth", "cut", "source"}
SPECIFICATION FairSpec
INVARIANTS TypeOK ResponsesInStep InStep
PROPERTIES ImplementsQuery SessionEnds AllPrinted
