CONSTANTS
  Guilds = {g1, g2}
  First = g1
  NoGuild = NoGuild
  PluginDashboard = TRUE
  MaxLoads = 2
  MaxSaves = 2
  MaxChanges = 2
  MaxUses = 2
  Amounts <- MCAmounts
  Lengths <- MCLengths
  Restarted = {1, 3}
  MaxCalls = 4
SPECIFICATION DashboardSpec
CHECK_DEADLOCK FALSE
INVARIANTS OthersSeen SettingsFitConfig FormFitsServer
PROPERTIES NothingHangs
