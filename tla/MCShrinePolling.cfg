CONSTANTS
  Weeks = 3
  Period = 6
  Interval = 1
  PreReset = 2
  Delayed = 2
  Fallback = 3
  Retries = 1
  MaxLost = 1
SPECIFICATION ShrineSpec
INVARIANTS PostedOnce PollsNearReset
PROPERTIES QuietAfterStop WeeksArePosted
CHECK_DEADLOCK FALSE
