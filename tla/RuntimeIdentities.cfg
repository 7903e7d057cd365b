SPECIFICATION Spec
CONSTANTS
  Plain = {"reader"}
  Intakes = {"intake"}
  Workflows = {"closure"}
  Ticks = 1
  Sessions = 2
  Commands = 2
  Faults = 1
INVARIANTS
  ReadinessCovers
  RevocationHolds
PROPERTIES
  DeliveredIsMounted
CHECK_DEADLOCK FALSE
