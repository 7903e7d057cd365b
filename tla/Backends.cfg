SPECIFICATION BackendsSpec
CONSTANTS
  Op = {c1, c2, c3, c4}
  Key = {k1, k2}
  MaxRevision = 3
  None = None
  Login = {l1, l2}
  Request = {r1}
  MaxRefreshes = 1
  MaxFaults = 1
SYMMETRY Interchangeable
INVARIANTS
  CredentialIsCurrent
  RetiredIsGone
  InvokedOnce
PROPERTIES
  EndsAreFinal
CHECK_DEADLOCK FALSE
