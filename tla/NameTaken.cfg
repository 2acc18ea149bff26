SPECIFICATION Spec
CONSTANTS
  rec = rec
  rec1 = rec1
  NoName = NoName
  log = log
  Names = {rec, rec1, log}
  Sessions = {s1, s2}
  Shorter <- Cut
  Commands <- AllCommands
SYMMETRY Symmetry
INVARIANT NameRefused
CHECK_DEADLOCK FALSE
