SPECIFICATION SyncSpec
CONSTANTS
  Faults = {"db", "gateway", "link", "late", "manual", "crash"}
  Tasks = {"orders", "positions"}
  MaxOrders = 2
  MaxRows = 3
  MaxHold = 2
  StopsLock = FALSE
INVARIANTS KnownPositionBacked LinkFaithful
