SPECIFICATION SyncSpec
CONSTANTS
  Faults = {"gateway", "lost", "cancel", "part", "disable"}
  Tasks = {"orders"}
  MaxOrders = 4
  MaxRows = 4
  MaxHold = 2
  StopsLock = FALSE
INVARIANTS SyncTypeOK NoDoubleBuy DisabledWhenFlat
PROPERTIES OnePosition RejectOnlyUnsent RowFinal
