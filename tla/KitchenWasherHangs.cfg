CONSTANTS
  GenLink = "sem"
  DryLink = "sem"
  TableSize = 1
  MaxDishes = 2
  ArraySize = 4
  WashTimes <- MCWashTimes
  QueueCap = 1
  MaxRuns = 1
  KillAllowed = FALSE
SPECIFICATION FairSpec
PROPERTIES Termination
CHECK_DEADLOCK FALSE
