SPECIFICATION Spec
CONSTANTS
  Tabs = {t1, t2}
  MaxLogins = 1
  MaxTokens = 3
  MaxTime = 1
  StateTtl = 1
  Duration = 1
  MaxFaults = 1
  Rights = {"none", "manager"}
CHECK_DEADLOCK FALSE
INVARIANTS OneSessionPerLogin
PROPERTIES MetadataKept SignOutEnds
