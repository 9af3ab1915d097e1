SPECIFICATION Spec
CONSTANTS
  Unit = 1000
  Interval = 2
  MaxRatio = 2
  Tax = 2
  Begin = 2
  End = 18
  MaxChange = 15
  JumpGap = 1
  Tolerance = 2
  Staleness = 2
  Configs <- MCConfigs
  Capitals = {30, 40, 400}
  MinBudget = 20
  Shares = 2
  Lot = 20
  Steps <- MCSteps
  MaxRows = 5
INVARIANTS TypeOK GapsFilled OnlyStopOpen Agreed StopKept LogFaithful FundsLast Parity
