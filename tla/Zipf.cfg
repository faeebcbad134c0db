SPECIFICATION Spec
CONSTANTS
  Updaters = {u1, u2}
  Size = 3
  Coefficients = {11, 13, 15}
  Weight <- MCWeight
  Resolution = 20
  LastSum <- MCLastSum
  MaxUpdates = 3
INVARIANTS TypeOK RanksExist WholeWhenQuiet
PROPERTY FailsOnlyDuringUpdate
