CONSTANTS
  GenLink = "queue"
  DryLink = "sem"
  TableSize = 1
  MaxDishes = 2
  ArraySize = 4
  WashTimes <- MCWashTimes
  QueueCap = 2
  MaxRuns = 2
  KillAllowed = TRUE
SPECIFICATION Spec
INVARIANTS TableNotOverrun
CHECK_DEADLOCK FALSE
