SPECIFICATION ProcessSpec
CONSTANTS
  Setups <- MCSetups
  MaxRestarts = 1
  Conns = {c1}
  MaxSignals = 1
  MaxCrashes = 1
CHECK_DEADLOCK FALSE
INVARIANTS ServedByWhole OrderlyExit CatalogJudged MigrationsHold
PROPERTIES ProcessEnds
