CONSTANTS
  c1 = c1
  c2 = c2
  Clients = {c1,c2}
  Pid255 = {}
  THREADS_AMNT = 2
  QueueCap = 4
  MaxStarts = 1
SPECIFICATION Spec
INVARIANTS PrintsProduct
CHECK_DEADLOCK FALSE
