SPECIFICATION FairSpec
CONSTANTS
  Timeout = 0
  DefaultTimeout = 4
  PollInterval = 2
  MaxLatency = 1
  MaxNow = 20
INVARIANTS
  BudgetKept
  NoFalseTimeout
  BudgetGranted
PROPERTIES
  WaitEnds
