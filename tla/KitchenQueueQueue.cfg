CONSTANTS
  GenLink = "queue"
  DryLink = "queue"
  TableSize = 1
  MaxDishes = 4
  ArraySize = 6
  WashTimes <- MCWashTimes
  QueueCap = 2
  MaxRuns = 1
  KillAllowed = FALSE
SPECIFICATION FairSpec
PROPERTY Termination
CHECK_DEADLOCK FALSE
