SPECIFICATION Spec
CONSTANTS
  Revisions = 2
  Commands = 2
  Faults = 2
INVARIANTS
  DisconnectionEnds
  AddedOnce
  RepairIsSound
PROPERTIES
  ServedStays
CHECK_DEADLOCK FALSE
