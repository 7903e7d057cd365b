SPECIFICATION Spec
CONSTANTS
  Decisions = 2
  Commands = 2
  Faults = 1
  Durable = TRUE
INVARIANTS
  RollbackIsComplete
  ActivationIsWhole
  GenerationIsSound
PROPERTIES
  TokenIsMaintained
CHECK_DEADLOCK FALSE
