CONSTANTS
  here = here
  there = there
  Clients <- Addresses
  MAX = 3
  Lines = 1
  LongLines <- LongLine
  Starts = 2
SPECIFICATION Spec
INVARIANTS  OwnName
PROPERTY ImplementsRoom
CHECK_DEADLOCK FALSE
