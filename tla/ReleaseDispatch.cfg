SPECIFICATION FairSpec
CONSTANTS
  Key = {k1, k2}
  MaxRuns = 2
  MaxCrashes = 2
  None = None
INVARIANTS
  AtMostOneRun
  ReceiptIsTrue
PROPERTIES
  ReceiptIsFinal
  MergeIsFound
CHECK_DEADLOCK FALSE
