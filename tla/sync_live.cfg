SPECIFICATION FairSpec
CONSTANTS
  Faults = {"lost", "cancel", "part"}
  Tasks = {"orders", "positions", "stops"}
  MaxOrders = 3
  MaxRows = 1
  MaxHold = 1
  StopsLock = FALSE
PROPERTIES ProtectionRestored MarketRowFinal BuyResolves
