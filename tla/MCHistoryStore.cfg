SPECIFICATION StoreSpec
CONSTANTS
  Engines = {e1, e2}
  MaxHour = 2
  Names = {0, 1}
  Workloads = {1, 2}
  Obs <- MCObs
  MaxHealthLines = 1
  MaxTicks = 3
  MaxWriters = 1
  MaxFaults = 2
SYMMETRY EngineSymmetry
INVARIANTS CountsStand NeverReadsAsClean
CHECK_DEADLOCK FALSE
