SPECIFICATION FairSpec
CONSTANTS
  Calls = {c1, c2}
  Names = {n1, n2}
  None = None
  MaxAttempts = 3
INVARIANTS TypeOK BodiesExclusive OnlyErrorsLeaveKeys
PROPERTIES CallsEnd IsLeases
