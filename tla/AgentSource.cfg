SPECIFICATION SourceSpec
CONSTANTS
  Tokens = 3
  Time = 3
  Lifetime = 2
  Delay = 1
  Rotate = 1
  Expiry = 3
  Requests = 4
  Faults = 2
INVARIANTS
  RevokedIsDead
  TokensAreSound
CHECK_DEADLOCK FALSE
