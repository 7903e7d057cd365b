SPECIFICATION FairSpec
CONSTANTS
  MaxWorkers = 3
  Key = {k1, k2, k3}
  MaxCrashes = 2
  None = None
INVARIANTS
  WorkersExclude
  OutcomeIsReal
PROPERTIES
  FinalStates
  LostWorkerIsReported
CHECK_DEADLOCK FALSE
