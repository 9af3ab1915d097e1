SPECIFICATION SyncSpec
CONSTANTS
  Faults = {}
  Tasks = {"orders", "positions"}
  MaxOrders = 3
  MaxRows = 4
  MaxHold = 2
  StopsLock = FALSE
PROPERTIES PositionKept
