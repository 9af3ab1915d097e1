SPECIFICATION Spec
CONSTANTS
  Unit = 100
  MaxChange = 2
  JumpGap = 2
  Tolerance = 1
  Staleness = 1
  Configs <- MCLonger
  Points <- MCPoints
  MaxTicks = 4
INVARIANT LookbacksCovered
