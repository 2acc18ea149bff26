SPECIFICATION Spec
CONSTANTS
  rec = rec
  rec1 = rec1
  NoName = NoName
  log = log
  Names = {rec, rec1, log}
  Sessions = {s1, s2, s3, s4}
  Shorter <- Cut
  Commands <- AllCommands
SYMMETRY Symmetry
INVARIANT RecordsKept
PROPERTY NeverStale
CHECK_DEADLOCK FALSE
