SPECIFICATION FairSpec
CONSTANTS
  NThreads = 3
  MaxItems = 5
  MaxRuns = 3
INVARIANTS RunIsComplete
PROPERTIES RunReturns DestroyEnds
