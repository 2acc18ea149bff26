------------------------------ MODULE MCFindFile ------------------------------
(* FindFile for TLC: a directory in a directory in the working directory, each *)
(* of which may hold the wanted name, as a file or as the next directory.      *)
EXTENDS FindFile, FiniteSets

OneEntry(name, is) == [name |-> name, is |-> is]

\* All orders of a set of entries.
Orders(S) == {o \in [1..Cardinality(S) -> S] : \A e \in S : \E k \in DOMAIN o : o[k] = e}

File == OneEntry("wanted", NoDir)

\* What directory d may hold: itself, the wanted file, the next one under either name.
Listings(d) ==
  LET next == IF d = 3 THEN {{}} ELSE {{}, {OneEntry("sub", d + 1)}, {OneEntry("wanted", d + 1)},
                                       {OneEntry("sub", d + 1), File},
                                       {OneEntry("sub", NoDir)}}
  IN  UNION {Orders(S \cup {OneEntry(Self, d)}) : S \in next \cup {{File}}}

SmallTrees == {<<a, b, c>> : a \in Listings(1), b \in Listings(2), c \in Listings(3)}
=============================================================================
