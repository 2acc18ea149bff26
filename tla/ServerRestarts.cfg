CONSTANTS
  c1 = c1
  c2 = c2
  Clients = {c1,c2}
  Pid255 = {c1}
  THREADS_AMNT = 2
  QueueCap = 4
  MaxStarts = 2
SPECIFICATION FairSpec
INVARIANTS DropBound OwnProduct QueueKept
PROPERTIES Answered
CHECK_DEADLOCK FALSE
