SPECIFICATION DrillsSpec
CONSTANTS
  Proofs = 2
  Expires = 2
  Reserve = 1
  MaxTime = 2
  MaxCrashes = 1
  None = None
  Units = {"u1", "u2"}
  Checks = {"c1"}
  MaxRecords = 2
  MaxKills = 1
INVARIANTS
  SessionIsAccounted
  RunFilesAgree
  DrillIsWhole
PROPERTIES
  ResultIsFinal
  StoppedSessionCloses
CHECK_DEADLOCK FALSE
