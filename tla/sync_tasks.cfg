SPECIFICATION SyncSpec
CONSTANTS
  Faults = {"cancel", "crash"}
  Tasks = {"positions", "stops"}
  MaxOrders = 3
  MaxRows = 3
  MaxHold = 2
  StopsLock = FALSE
INVARIANT OneStop
PROPERTIES OnePosition
