CONSTANTS
  NoPrice = NoPrice
  Prices = {p1}
  Hours = 3
  Days = 3
  Stamps = 2
  MaxInterrupts = 1
  MaxMessages = 2
SPECIFICATION FairSpec
INVARIANTS FileOfTheDay NoRepeatedTime QueryOnceConnected
PROPERTIES FileSound Interruptible QuerySent
CHECK_DEADLOCK FALSE
