CONSTANTS
  Rooms = 2
  MaxTyped <- Talk
  MaxKilled = 2
  Starts = 2
SPECIFICATION FairSpec
INVARIANTS RoomsPaid InOrder NoStray
PROPERTY NextRoom
CHECK_DEADLOCK FALSE
