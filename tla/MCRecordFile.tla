----------------------------- MODULE MCRecordFile -----------------------------
EXTENDS RecordFile

CONSTANTS rec, rec1, log

Cut(n) == IF n = rec1 THEN rec ELSE NoName

Record(n) == [opt |-> "record", arg |-> n]
Query     == [opt |-> "query",  arg |-> NoName]
LoadOf(n) == [opt |-> "load",   arg |-> n]

AllCommands ==
  {<<Record(n)>> : n \in Names} \cup {<<Query, Record(n)>> : n \in Names}
    \cup {<<LoadOf(rec), Record(n)>> : n \in Names} \cup {<<Record(rec), LoadOf(rec1)>>}

Symmetry == Permutations(Sessions)
=============================================================================
