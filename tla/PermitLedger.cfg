SPECIFICATION LedgerSpec
CONSTANTS
  a1 = a1
  a2 = a2
  s1 = s1
  Auth = {a1, a2}
  Scope = {s1}
  ScopeOf <- MCScopeOf
  Issued <- MCIssued
  Expires <- MCExpires
  Reserve = 1
  MaxTime = 2
  Absent = Absent
INVARIANTS
  LeaseCovers
PROPERTIES
  NoForeignRemoval
  SpentForever
  ImplementsPermit
CHECK_DEADLOCK FALSE
