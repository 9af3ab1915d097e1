SPECIFICATION Spec
CONSTANTS
  Pairs = {p1, p2}
  MaxWorkers = 2
  MaxFailures = 0
  MaxOpenPositions = 1
  Faults = {}
INVARIANT PositionsLimited
