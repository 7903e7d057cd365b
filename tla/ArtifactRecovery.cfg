SPECIFICATION RecoverySpec
CONSTANTS
  Image = {i1, i2}
  MaxFaults = 3
  MaxKills = 2
  NoReplacement = NoReplacement
INVARIANTS
  RepairIsExclusive
  ConsumersHaveImages
PROPERTIES
  ClosedWhenVerified
CHECK_DEADLOCK FALSE
