CONSTANTS
  GenLink = "sem"
  DryLink = "sem"
  TableSize = 2
  MaxDishes = 3
  ArraySize = 5
  WashTimes <- MCWashTimes
  QueueCap = 1
  MaxRuns = 2
  KillAllowed = FALSE
SPECIFICATION FairSpec
INVARIANTS DishOrder DriedClean TableNotOverrun NoUseOfRemoved CleanExit
PROPERTY ImplementsPipeline
CHECK_DEADLOCK FALSE
