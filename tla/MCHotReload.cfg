CONSTANTS
  volume = volume
  station = station
  Scopes <- BothScopes
  Keys <- TwoKeys
  OwnerScope <- GlobalOwner
  Retries = 1
  Enabled = TRUE
  HonourAbort <- GlobalOnly
  MaxVersion = 2
  MaxChanges = 2
  MaxReconciles = 1
SPECIFICATION Spec
INVARIANTS KeptUntilDelivered
PROPERTIES RuntimeNeverRegresses ChangesSettle
