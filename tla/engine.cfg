SPECIFICATION Spec
CONSTANTS
  Unit = 100
  MaxChange = 2
  JumpGap = 2
  Tolerance = 1
  Staleness = 1
  Configs <- MCConfigs
  Points <- MCPoints
  MaxTicks = 4
INVARIANTS TypeOK EvictionInvisible FeedFollowed FreshPeak
PROPERTIES BuyJustified TrailingLatched StopLossBinds
