CONSTANTS
  N = 3
  Requires <- ChainRequires
  Optional <- SecondOptional
  Listeners <- FirstAndLast
  EventDeps <- ChainEvents
  Cooperative <- AllButLast
  Abortable = TRUE
  MaxSignals = 2
SPECIFICATION Spec
INVARIANTS CleanEnd LifecycleOrder
PROPERTIES HooksHoldNothingUp
CHECK_DEADLOCK FALSE
