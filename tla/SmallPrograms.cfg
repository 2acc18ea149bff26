CONSTANTS
  Width = 3
  Texts <- AllTexts
  matrix_size = 3
  thread_count = 4
  Writers = {w1, w2}
  Readers = {r1, r2}
  Clients = {c1, c2}
  Servers = {s1, s2}
  Inputs = {3, 6}
  MaxNodes = 4
  MaxText = 3
  cycle_duration = 3
  Records = 3
  Trees <- SmallTrees
  Wanted = "wanted"
  MaxDepth = 2
SPECIFICATION ProgramsSpec
INVARIANTS AllTyped ReceivedPrefix Complete WholeText OwnAnswer InTurn DeepestFirst Counted FoundAll
PROPERTIES StringDelivered NobodyLeft GoOnInTurn FileOver EachRecorded
CHECK_DEADLOCK FALSE
