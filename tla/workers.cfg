SPECIFICATION FairSpec
CONSTANTS
  Pairs = {p1}
  MaxWorkers = 3
  MaxFailures = 1
  MaxOpenPositions = 1
  Faults = {"db", "panic", "lost", "config", "manual"}
INVARIANTS TypeOK 
PROPERTIES DisableCompletes WorkerRestarts
