SPECIFICATION Spec
CONSTANTS
  c1 = c1
  c2 = c2
  c3 = c3
  Call = {c3, c1}
  KindsOf <- MCRecover
  Key = {k1}
  Stored = {k1}
  Old = old
  MaxConcurrent = 2
INVARIANT OwnPopAfterRecovery
CHECK_DEADLOCK FALSE
