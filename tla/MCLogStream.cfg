SPECIFICATION ViewerSpec
CONSTANTS
  Guilds = {g1, g2}
  Capacity = 2
  Limit = 1
  MaxRendered = 4
  MaxEntries = 3
  MaxConns = 2
  MaxUses = 1
  MaxLoads = 2
CHECK_DEADLOCK FALSE
INVARIANTS OwnEntriesOnce LiveMissesNothing HistoryComplete
VIEW SlotsAside
