CONSTANTS
  anna = anna
  ben = ben
  Joiners <- TwoMembers
  MaxRetries = 2
  MaxTimers = 2
SPECIFICATION VoiceSpec
INVARIANTS RestsInStandby
PROPERTIES StaysOutAfterStop CyclesEnd
CHECK_DEADLOCK FALSE
