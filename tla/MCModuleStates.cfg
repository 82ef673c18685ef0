CONSTANTS
  anna = anna
  ben = ben
  N = 3
  Dependencies <- Chain
  Available <- AllModules
  Clients <- TwoClients
  Asks <- EndsForBen
  QueriesFail = TRUE
SPECIFICATION Spec
INVARIANTS DependenciesEnabled
PROPERTIES SwitchSpec RequestsEnd
