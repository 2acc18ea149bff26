----------------------------- MODULE RecordProofs -----------------------------
(***************************************************************************)
(* RecordFile, for any number of sessions and any names: sessions that     *)
(* write what they have just looked at, under different names, lose        *)
(* nothing, and what is loaded was recorded under that name.               *)
(***************************************************************************)
EXTENDS RecordFile, Induction

\* A record of session s lies at k, with its end.
RecordAt(k, s) ==
  LET l == Len(DataOf(s)) IN
  /\ k + l + 1 \in DOMAIN file
  /\ file[k] = HeadOf(cmd[s].record_name) /\ file[k + l + 1] = End
  /\ \A j \in 1..l : file[k + j] = DataOf(s)[j]

Recorded == {order[i] : i \in DOMAIN order}

\* Who does what is in pc, and the file is there once somebody has opened it.
Sessional ==
  /\ \A s \in Sessions :
       /\ pc[s] \notin {"options", "done"} => cmd[s].record_name \in Names
       /\ pc[s] \in {"options", "load"} => loaded[s] = <<>>
       /\ pc[s] # "write" /\ pc[s] # "done" => offset[s] = 0
       /\ pc[s] \in {"open", "write"} => exists
       /\ s \in Recorded => pc[s] = "done" /\ cmd[s].record_name \in Names
  /\ ~exists => file = <<>> /\ order = <<>>
  /\ \A i, j \in DOMAIN order : order[i] = order[j] => i = j

\* Who has looked at the file since it was last written knows it: there is nothing in it
\* that fopen "w" could cut, and the search has ended where it would end now.
Timed ==
  timely => \A s \in current :
    /\ pc[s] = "create" => file = <<>>
    /\ pc[s] = "write" => offset[s] = Search(cmd[s].record_name).at

Closed == file = <<>> \/ Is(Len(file), "end")

\* Under different names every line is a record and every record is a line.
Kept ==
  timely /\ Distinct =>
    /\ Closed
    /\ \A k \in DOMAIN file : Is(k, "head") <=> k \in LineStarts
    /\ \A k \in LineStarts : \E s \in Recorded : RecordAt(k, s)
    /\ \A s \in Recorded : \E k \in LineStarts : RecordAt(k, s)
    /\ \A k, l \in LineStarts : file[k] = file[l] => k = l

Uncut == \A i, j \in DOMAIN order : ~Beginning(NameOf(i), NameOf(j))

\* The last record under a name that was used twice at most.
Newest(i, n) == Cardinality(Under(n)) <= 2 => \A j \in Under(n) : j <= i

\* A head begins a line or comes after one of its own name, and is followed by one or by
\* a whole record of its name.
Filed(k, n) ==
  /\ Under(n) # {}
  /\ k = 1 \/ Is(k - 1, "end") \/ file[k - 1] = HeadOf(n)
  /\ \/ Is(k + 1, "head") /\ file[k + 1] = HeadOf(n)
     \/ \E i \in Under(n) : RecordAt(k, order[i]) /\ Newest(i, n)

\* Unless one name begins like another: a name used once has one head.
Sound ==
  timely /\ Uncut =>
    /\ Closed
    /\ \A k \in DOMAIN file : Is(k, "head") => Filed(k, file[k].of)
    /\ \A k, l \in DOMAIN file :
         Is(k, "head") /\ file[k] = file[l] /\ Cardinality(Under(file[k].of)) <= 1 => k = l

RecordInv == TypeOK /\ Sessional /\ Timed /\ Kept /\ Sound

-----------------------------------------------------------------------------
Options == [load_data : BOOLEAN, session_record : BOOLEAN, query_existance : BOOLEAN,
            record_name : Names \cup {NoName}]

\* Whoever records or loads has a name to do so.
Parsed == {c \in Options : c.load_data \/ c.session_record => c.record_name \in Names}

LEMMA SettingOptions ==
  ASSUME NEW c \in Parsed, NEW o \in Option
  PROVE  SetOption(c, o) \in Parsed
<1>1. CASE o.opt = "load"
  BY <1>1 DEF Parsed, Options, Option, SetOption
<1>2. CASE o.opt = "record"
  BY <1>2 DEF Parsed, Options, Option, SetOption
<1>3. CASE o.opt = "query"
  BY <1>3, RecordAssumption DEF Parsed, Options, Option, SetOption
<1> QED
  BY <1>1, <1>2, <1>3 DEF Option

LEMMA ParsingOptions ==
  ASSUME NEW c \in Seq(Option)
  PROVE  FoldLeft(SetOption, NoCmd, c) \in Parsed
<1> DEFINE D == DOMAIN c
           S == SUBSET D
           rank == [s \in S |-> Cardinality(s)]
           prev == [s \in S |-> s \ {Max(s)}]
           rule == [p \in S \X Parsed |->
                      IF p[1] = {} THEN NoCmd ELSE SetOption(p[2], c[Max(p[1])])]
<1>1. NoCmd \in Parsed
  BY DEF NoCmd, Parsed, Options
<1>2. IsFiniteSet(D) /\ D \in SUBSET Nat
  BY FS_Interval
<1>3. ASSUME NEW s \in S, s # {}
      PROVE  Max(s) \in s
  <2>1. s \in SUBSET Nat /\ Len(c) \in Nat /\ \A x \in s : x <= Len(c)
    OBVIOUS
  <2>2. PICK x \in s : \A y \in s : y <= x
    BY <1>3, <2>1, Greatest
  <2>3. \A y \in s : x >= y
    BY <2>1, <2>2
  <2> QED
    BY <2>3 DEF Max
<1>4. rank \in [S -> Nat]
  BY <1>2, FS_Subset, FS_CardinalityType
<1>5. prev \in [S -> S]
  OBVIOUS
<1>6. \A s \in S \ {{}} : rank[prev[s]] < rank[s]
  <2> SUFFICES ASSUME NEW s \in S, s # {} PROVE rank[prev[s]] < rank[s]
    OBVIOUS
  <2>1. IsFiniteSet(s)
    BY <1>2, FS_Subset
  <2>2. Cardinality(s \ {Max(s)}) = Cardinality(s) - 1 /\ Cardinality(s) \in Nat
    BY <1>3, <2>1, FS_RemoveElement, FS_CardinalityType
  <2> QED
    BY <2>2
<1>7. rule \in [S \X Parsed -> Parsed]
  <2> SUFFICES ASSUME NEW s \in S, NEW p \in Parsed, s # {}
               PROVE  SetOption(p, c[Max(s)]) \in Parsed
    BY <1>1
  <2> QED
    BY <1>3, SettingOptions
<1> DEFINE Follows(f) ==
             f = [s \in S |-> IF s = {} THEN NoCmd
                              ELSE SetOption(f[s \ {Max(s)}], c[Max(s)])]
<1>8. \E f : Follows(f)
  <2>1. Parsed # {}
    BY <1>1
  <2>2. \A s \in S : \/ rank[prev[s]] < rank[s]
                     \/ \A p, q \in Parsed : rule[<<s, p>>] = rule[<<s, q>>]
    <3>1. \A p, q \in Parsed : rule[<<{}, p>>] = rule[<<{}, q>>]
      OBVIOUS
    <3> QED
      BY <1>6, <3>1
  <2> HIDE DEF rank, prev, rule
  <2>3. WellRanked(S, Parsed, rank, prev, rule)
    BY <1>4, <1>5, <1>7, <2>1, <2>2, Zenon DEF WellRanked
  <2>4. PICK f \in [S -> Parsed] : Obeys(f, S, prev, rule)
    BY <2>3, Recursion, Zenon
  <2>5. \A s \in S : f[s] = IF s = {} THEN NoCmd ELSE SetOption(f[s \ {Max(s)}], c[Max(s)])
    <3> SUFFICES ASSUME NEW s \in S
                 PROVE  f[s] = IF s = {} THEN NoCmd
                               ELSE SetOption(f[s \ {Max(s)}], c[Max(s)])
      OBVIOUS
    <3>1. f[s] = rule[<<s, f[prev[s]]>>] /\ prev[s] = s \ {Max(s)}
      BY <2>4 DEF Obeys, prev
    <3>2. f[s \ {Max(s)}] \in Parsed
      OBVIOUS
    <3> QED
      BY <3>1, <3>2 DEF rule
  <2> QED
    BY <2>5
<1>9. ASSUME NEW f, Follows(f)
      PROVE  f[D] \in Parsed
  <2> DEFINE P == {s \in S : f[s] \in Parsed}
  <2>1. ASSUME NEW s \in S, \A t \in S : rank[t] < rank[s] => t \in P
        PROVE  s \in P
    <3>1. f[s] = IF s = {} THEN NoCmd ELSE SetOption(f[s \ {Max(s)}], c[Max(s)])
      BY <1>9
    <3>2. CASE s = {}
      BY <1>1, <3>1, <3>2
    <3>3. CASE s # {}
      <4>1. s \ {Max(s)} \in P
        BY <1>6, <2>1, <3>3
      <4> QED
        BY <1>3, <3>1, <3>3, <4>1, SettingOptions
    <3> QED
      BY <3>2, <3>3
  <2> HIDE DEF rank
  <2>2. P = S
    <3> HIDE DEF S
    <3>1. Inductive(S, rank, P)
      BY <1>4, <2>1 DEF Inductive
    <3> QED
      BY <3>1, RankInduction
  <2> QED
    BY <2>2
<1>10. FoldLeft(SetOption, NoCmd, c) = (CHOOSE f : Follows(f))[D]
  BY Zenon DEF FoldLeft, MapThenFoldSet
<1> QED
  BY <1>8, <1>9, <1>10
-----------------------------------------------------------------------------
LEMMA Cells ==
  ASSUME file \in Seq(Cell)
  PROVE  /\ Len(file) \in Nat /\ DOMAIN file = 1..Len(file)
         /\ LineStarts \in SUBSET (1..Len(file))
         /\ \A k \in DOMAIN file : file[k] \in Cell
         /\ \A k : Is(k, "head") => /\ k \in 1..Len(file) /\ file[k].of \in Names
                                    /\ file[k] = HeadOf(file[k].of)
  BY DEF LineStarts, Is, Cell, HeadOf

AnyName == Names \cup {NoName}

FirstLine(k) == \A j \in LineStarts : j >= k

Before(k) == CHOOSE j \in LineStarts : /\ j < k
                                       /\ \A i \in LineStarts : i < k => i <= j

LEMMA LineBefore ==
  ASSUME file \in Seq(Cell), NEW k \in LineStarts, ~FirstLine(k)
  PROVE  Before(k) \in LineStarts /\ Before(k) < k
<1> DEFINE S == {j \in LineStarts : j < k}
<1>1. S \in SUBSET Nat /\ S # {} /\ k \in Nat /\ \A j \in S : j <= k
  BY Cells DEF FirstLine
<1>2. PICK j \in S : \A i \in S : i <= j
  BY <1>1, Greatest
<1>3. \E m \in LineStarts : m < k /\ \A i \in LineStarts : i < k => i <= m
  BY <1>2
<1> QED
  BY <1>3 DEF Before

\* The names in hand exist, and each follows from the one before.
LEMMA Naming ==
  ASSUME file \in Seq(Cell)
  PROVE  \A k \in LineStarts :
           /\ NameInHand[k] \in AnyName
           /\ NameInHand[k] = NameAt(k, IF FirstLine(k) THEN NoName ELSE NameInHand[Before(k)])
<1> DEFINE S == LineStarts
           rank == [k \in S |-> k]
           prev == [k \in S |-> IF FirstLine(k) THEN k ELSE Before(k)]
           rule == [p \in S \X AnyName |->
                      NameAt(p[1], IF FirstLine(p[1]) THEN NoName ELSE p[2])]
           Follows(f) == f = [k \in S |-> NameAt(k, IF FirstLine(k) THEN NoName
                                                    ELSE f[Before(k)])]
<1>1. rank \in [S -> Nat] /\ prev \in [S -> S]
  BY Cells, LineBefore
<1>2. \A k \in S, n \in AnyName : NameAt(k, n) \in AnyName
  BY Cells, RecordAssumption DEF AnyName, NameAt
<1>3. rule \in [S \X AnyName -> AnyName]
  <2>1. NoName \in AnyName
    BY DEF AnyName
  <2> QED
    BY <1>2, <2>1
<1>4. \A k \in S : \/ rank[prev[k]] < rank[k]
                   \/ \A n, m \in AnyName : rule[<<k, n>>] = rule[<<k, m>>]
  <2> SUFFICES ASSUME NEW k \in S
               PROVE  \/ rank[prev[k]] < rank[k]
                      \/ \A n, m \in AnyName : rule[<<k, n>>] = rule[<<k, m>>]
    OBVIOUS
  <2>1. CASE FirstLine(k)
    BY <2>1
  <2>2. CASE ~FirstLine(k)
    BY <2>2, LineBefore
  <2> QED
    BY <2>1, <2>2
<1>5. \E f \in [S -> AnyName] : Follows(f)
  <2> HIDE DEF rank, prev, rule, S
  <2>1. WellRanked(S, AnyName, rank, prev, rule)
    <3>1. AnyName # {}
      BY DEF AnyName
    <3> QED
      BY <1>1, <1>3, <1>4, <3>1, Zenon DEF WellRanked
  <2>2. PICK f \in [S -> AnyName] : Obeys(f, S, prev, rule)
    BY <2>1, Recursion, Zenon
  <2>3. ASSUME NEW k \in S
        PROVE  f[k] = NameAt(k, IF FirstLine(k) THEN NoName ELSE f[Before(k)])
    <3>1. f[k] = rule[<<k, f[prev[k]]>>] /\ prev[k] = IF FirstLine(k) THEN k ELSE Before(k)
      BY <2>2 DEF Obeys, prev
    <3>2. f[prev[k]] \in AnyName
      BY <1>1
    <3> QED
      BY <3>1, <3>2 DEF rule
  <2>4. Follows(f)
    BY <2>3
  <2> QED
    BY <2>4
<1>6. NameInHand = CHOOSE f : Follows(f)
  BY Zenon DEF NameInHand, FirstLine, Before
<1>7. Follows(NameInHand)
  <2> HIDE DEF Follows
  <2> QED
    BY <1>5, <1>6
<1>8. ASSUME NEW k \in S
      PROVE  NameInHand[k] = NameAt(k, IF FirstLine(k) THEN NoName
                                       ELSE NameInHand[Before(k)])
  BY <1>7, Zenon
<1> DEFINE P == {k \in S : NameInHand[k] \in AnyName}
<1>9. ASSUME NEW k \in S, \A j \in S : rank[j] < rank[k] => j \in P
      PROVE  k \in P
  <2>1. CASE FirstLine(k)
    BY <1>2, <1>8, <2>1 DEF AnyName
  <2>2. CASE ~FirstLine(k)
    <3>1. NameInHand[Before(k)] \in AnyName
      BY <1>9, <2>2, LineBefore
    <3> QED
      BY <1>2, <1>8, <2>2, <3>1
  <2> QED
    BY <2>1, <2>2
<1>10. P = S
  <2> HIDE DEF S, rank
  <2>1. Inductive(S, rank, P)
    BY <1>1, <1>9 DEF Inductive
  <2> QED
    BY <2>1, RankInduction
<1> QED
  BY <1>8, <1>10

\* Where a line has a head, its name is in hand; where it has none, what is left of names
\* in the file.
LEMMA NamesInHand ==
  ASSUME file \in Seq(Cell), NEW k \in LineStarts
  PROVE  /\ Is(k, "head") =>
              NameInHand[k] = IF Is(k + 1, "head") THEN NoName ELSE file[k].of
         /\ \A C \in SUBSET AnyName :
              /\ NoName \in C /\ \A c \in C : Shorter(c) \in C
              /\ \A h \in DOMAIN file : Is(h, "head") => Shorter(file[h].of) \in C
              /\ ~Is(k, "head")
              => NameInHand[k] \in C
<1>1. ASSUME NEW l \in LineStarts, Is(l, "head")
      PROVE  NameInHand[l] = IF Is(l + 1, "head") THEN NoName ELSE file[l].of
  BY <1>1, Naming DEF NameAt
<1>2. ASSUME NEW C \in SUBSET AnyName, NoName \in C, \A c \in C : Shorter(c) \in C,
             \A h \in DOMAIN file : Is(h, "head") => Shorter(file[h].of) \in C,
             ~Is(k, "head")
      PROVE  NameInHand[k] \in C
  <2> DEFINE S == LineStarts
             rank == [l \in S |-> l]
             P == {l \in S : ~Is(l, "head") => NameInHand[l] \in C}
  <2>1. ASSUME NEW l \in S, \A j \in S : rank[j] < rank[l] => j \in P
        PROVE  l \in P
    <3> SUFFICES ASSUME ~Is(l, "head") PROVE NameInHand[l] \in C
      OBVIOUS
    <3>1. CASE FirstLine(l)
      <4>1. NameInHand[l] = Shorter(NoName)
        BY <3>1, Naming DEF NameAt
      <4> QED
        BY <1>2, <4>1
    <3>2. CASE ~FirstLine(l)
      <4>1. Before(l) \in P
        BY <2>1, <3>2, LineBefore
      <4>2. NameInHand[l] = Shorter(NameInHand[Before(l)])
        BY <3>2, Naming DEF NameAt
      <4>3. CASE ~Is(Before(l), "head")
        BY <1>2, <4>1, <4>2, <4>3
      <4>4. CASE Is(Before(l), "head")
        <5>1. Before(l) \in DOMAIN file
          BY <4>4 DEF Is
        <5> QED
          BY <1>1, <1>2, <4>1, <4>2, <4>4, <5>1
      <4> QED
        BY <4>3, <4>4
    <3> QED
      BY <3>1, <3>2
  <2>2. rank \in [S -> Nat]
    BY Cells
  <2>3. P = S
    <3> HIDE DEF S, rank
    <3>1. Inductive(S, rank, P)
      BY <2>1, <2>2 DEF Inductive
    <3> QED
      BY <3>1, RankInduction
  <2> QED
    BY <1>2, <2>3
<1> QED
  BY <1>1, <1>2
-----------------------------------------------------------------------------
LEMMA Searching ==
  ASSUME file \in Seq(Cell), NEW n
  PROVE  /\ Search(n).at \in 0..Len(file)
         /\ Search(n).found <=> \E k \in LineStarts : NameInHand[k] = n
         /\ ~Search(n).found => Search(n).at = Len(file)
         /\ Search(n).found =>
              \E first \in LineStarts :
                /\ NameInHand[first] = n
                /\ \A k \in LineStarts : NameInHand[k] = n => first <= k
                /\ Search(n).at = IF Is(first, "head") THEN first ELSE first - 1
<1> DEFINE found == {k \in LineStarts : NameInHand[k] = n}
           first == CHOOSE k \in found : \A j \in found : k <= j
<1>1. CASE found = {}
  <2>1. Search(n) = [found |-> FALSE, at |-> Len(file)]
    BY <1>1, Zenon DEF Search
  <2> QED
    BY <1>1, <2>1, Cells
<1>2. CASE found # {}
  <2>1. \E k \in found : \A j \in found : k <= j
    <3>1. found \in SUBSET Nat
      BY Cells
    <3> HIDE DEF found
    <3> QED
      BY <1>2, <3>1, Least
  <2>2. first \in found /\ \A j \in found : first <= j
    <3> HIDE DEF found
    <3> QED
      BY <2>1
  <2>3. Search(n) = [found |-> TRUE, at |-> IF Is(first, "head") THEN first ELSE first - 1]
    BY <1>2, Zenon DEF Search
  <2> HIDE DEF first
  <2>4. first \in 1..Len(file)
    BY <2>2, Cells
  <2> QED
    BY <2>2, <2>3, <2>4, Cells
<1> QED
  BY <1>1, <1>2

DataLen(s) == IF cmd[s].query_existance THEN 2 ELSE 1

LEMMA DataCells ==
  ASSUME NEW s \in Sessions
  PROVE  /\ DataOf(s) \in Seq(Cell) /\ Len(DataOf(s)) = DataLen(s) /\ DataLen(s) \in 1..2
         /\ \A k \in 1..DataLen(s) : DataOf(s)[k] = [kind |-> "data", of |-> s]
  BY DEF DataOf, DataLen, Cell

LEMMA TextCells ==
  ASSUME NEW s \in Sessions, cmd[s].record_name \in Names
  PROVE  /\ TextOf(s) \in Seq(Cell) /\ Len(TextOf(s)) = DataLen(s) + 2
         /\ TextOf(s)[1] = HeadOf(cmd[s].record_name)
         /\ TextOf(s)[DataLen(s) + 2] = End
         /\ \A k \in 1..DataLen(s) : TextOf(s)[k + 1] = DataOf(s)[k]
<1> DEFINE d == DataOf(s)
<1>1. d \in Seq(Cell) /\ Len(d) = DataLen(s) /\ DataLen(s) \in 1..2
  BY DataCells
<1>2. HeadOf(cmd[s].record_name) \in Cell /\ End \in Cell
  BY DEF HeadOf, End, Cell
<1> HIDE DEF d
<1> QED
  BY <1>1, <1>2 DEF TextOf, d

LEMMA Loading ==
  ASSUME file \in Seq(Cell), NEW n
  PROVE  Lookup(n) \in Seq(Cell)
<1> DEFINE from == Search(n).at + 1
           line == {k \in from..Len(file) : \A j \in from..k : ~Is(j, "end")}
<1>1. from \in 1..(Len(file) + 1) /\ Len(file) \in Nat
  BY Searching
<1>2. IsFiniteSet(from..Len(file)) /\ Cardinality(from..Len(file)) = Len(file) - from + 1
  <2>1. from \in Int /\ Len(file) \in Int
    BY <1>1
  <2>2. /\ IsFiniteSet(from..Len(file))
        /\ Cardinality(from..Len(file)) = IF from > Len(file) THEN 0 ELSE Len(file) - from + 1
    <3> HIDE DEF from
    <3> QED
      BY <2>1, FS_Interval
  <2> QED
    BY <1>1, <2>2
<1>3. Cardinality(line) \in Nat /\ Cardinality(line) <= Len(file) - from + 1
  <2>1. line \in SUBSET (from..Len(file))
    OBVIOUS
  <2> HIDE DEF line, from
  <2>2. IsFiniteSet(line) /\ Cardinality(line) <= Cardinality(from..Len(file))
    BY <1>2, <2>1, FS_Subset
  <2> QED
    BY <1>2, <2>2, FS_CardinalityType
<1>4. \A i \in 1..Cardinality(line) : file[from + i - 1] \in Cell
  <2> HIDE DEF line, from
  <2> QED
    BY <1>1, <1>3
<1>5. [i \in 1..Cardinality(line) |-> file[from + i - 1]] \in Seq(Cell)
  <2> HIDE DEF line, from
  <2> QED
    BY <1>3, <1>4
<1>6. CASE Search(n).found
  <2>1. Lookup(n) = [i \in 1..Cardinality(line) |-> file[from + i - 1]]
    BY <1>6, Zenon DEF Lookup
  <2> QED
    BY <1>5, <2>1, Zenon
<1>7. CASE ~Search(n).found
  BY <1>7 DEF Lookup
<1> QED
  BY <1>6, <1>7

LEMMA LoadingRecord ==
  ASSUME file \in Seq(Cell), NEW n, NEW s \in Sessions,
         Search(n).found, RecordAt(Search(n).at, s)
  PROVE  Lookup(n) = DataOf(s)
<1> DEFINE at == Search(n).at
           from == at + 1
           line == {k \in from..Len(file) : \A j \in from..k : ~Is(j, "end")}
           l == DataLen(s)
<1>1. at \in 0..Len(file) /\ Len(file) \in Nat /\ l \in 1..2
  <2>1. l \in 1..2
    BY DataCells
  <2>2. Len(file) \in Nat
    OBVIOUS
  <2> QED
    BY <2>1, <2>2, Searching
<1>2. /\ at + l + 1 \in 1..Len(file) /\ file[at + l + 1] = End
      /\ \A j \in 1..l : file[at + j] = DataOf(s)[j] /\ DataOf(s)[j].kind = "data"
  <2>1. Len(DataOf(s)) = l /\ \A j \in 1..l : DataOf(s)[j].kind = "data"
    <3>1. Len(DataOf(s)) = l /\ \A j \in 1..l : DataOf(s)[j] = [kind |-> "data", of |-> s]
      BY DataCells, Zenon
    <3> HIDE DEF l
    <3> QED
      BY <3>1
  <2>2. DOMAIN file = 1..Len(file)
    OBVIOUS
  <2> HIDE DEF at, l
  <2>3. RecordAt(at, s)
    BY DEF at
  <2> QED
    BY <2>1, <2>2, <2>3 DEF RecordAt
<1> HIDE DEF at, l
<1>3. line = from..(at + l)
  <2>1. ASSUME NEW k \in from..(at + l)
        PROVE  k \in line
    <3>1. k \in from..Len(file)
      BY <1>1, <1>2
    <3>2. \A j \in from..k : ~Is(j, "end")
      <4> SUFFICES ASSUME NEW j \in from..k PROVE ~Is(j, "end")
        OBVIOUS
      <4>1. j - at \in 1..l /\ at + (j - at) = j
        BY <1>1
      <4>2. file[j].kind = "data"
        BY <1>2, <4>1
      <4> QED
        BY <4>2 DEF Is
    <3> QED
      BY <3>1, <3>2
  <2>2. ASSUME NEW k \in line
        PROVE  k \in from..(at + l)
    <3> SUFFICES ASSUME k > at + l PROVE FALSE
      BY <1>1
    <3>1. at + l + 1 \in from..k
      BY <1>1
    <3>2. Is(at + l + 1, "end")
      BY <1>2, Cells DEF Is, End
    <3> QED
      BY <3>1, <3>2
  <2> QED
    BY <2>1, <2>2
<1>4. Cardinality(line) = l
  <2> DEFINE to == at + l
  <2>1. from \in Int /\ to \in Int /\ to - from + 1 = l /\ ~(from > to)
    BY <1>1
  <2> HIDE DEF from, to
  <2>2. Cardinality(from..to) = IF from > to THEN 0 ELSE to - from + 1
    BY <2>1, FS_Interval
  <2>3. line = from..to
    BY <1>3 DEF to
  <2> QED
    BY <2>1, <2>2, <2>3
<1>5. \A i \in 1..l : file[from + i - 1] = DataOf(s)[i]
  BY <1>1, <1>2
<1>6. Lookup(n) = [i \in 1..Cardinality(line) |-> file[from + i - 1]]
  BY Zenon DEF Lookup, at
<1>7. DataOf(s) = [i \in 1..l |-> DataOf(s)[i]]
  BY DataCells DEF l, DataOf, DataLen
<1> HIDE DEF line
<1> QED
  BY <1>4, <1>5, <1>6, <1>7

LEMMA Writing ==
  ASSUME file \in Seq(Cell), NEW text \in Seq(Cell), NEW at \in Nat
  PROVE  /\ Written(at, text) \in Seq(Cell)
         /\ at <= Len(file) =>
              /\ Len(Written(at, text)) = IF at + Len(text) > Len(file) THEN at + Len(text)
                                          ELSE Len(file)
              /\ \A k \in 1..Len(text) : Written(at, text)[at + k] = text[k]
              /\ \A k \in 1..Len(file) :
                   k <= at \/ k > at + Len(text) => Written(at, text)[k] = file[k]
<1>1. Hole \in Cell /\ Len(file) \in Nat /\ Len(text) \in Nat
  BY DEF Hole, Cell
<1> DEFINE m == IF at + Len(text) > Len(file) THEN at + Len(text) ELSE Len(file)
<1>2. m \in Nat
  BY <1>1
<1> HIDE DEF m
<1>3. /\ Written(at, text) =
           [k \in 1..m |-> IF k > at /\ k <= at + Len(text) THEN text[k - at]
                           ELSE IF k <= Len(file) THEN file[k] ELSE Hole]
  BY Zenon DEF Written, m
<1>4. \A k \in 1..m : Written(at, text)[k] \in Cell
  <2> SUFFICES ASSUME NEW k \in 1..m PROVE Written(at, text)[k] \in Cell
    OBVIOUS
  <2>1. CASE k > at /\ k <= at + Len(text)
    <3>1. k - at \in 1..Len(text)
      BY <1>1, <2>1
    <3> QED
      BY <1>3, <2>1, <3>1
  <2>2. CASE ~(k > at /\ k <= at + Len(text)) /\ k <= Len(file)
    BY <1>1, <1>2, <1>3, <2>2
  <2>3. CASE ~(k > at /\ k <= at + Len(text)) /\ ~(k <= Len(file))
    BY <1>1, <1>3, <2>3
  <2> QED
    BY <2>1, <2>2, <2>3
<1>5. Written(at, text) \in Seq(Cell) /\ Len(Written(at, text)) = m
  BY <1>2, <1>3, <1>4
<1>6. ASSUME at <= Len(file)
      PROVE  /\ \A k \in 1..Len(text) : Written(at, text)[at + k] = text[k]
             /\ \A k \in 1..Len(file) :
                  k <= at \/ k > at + Len(text) => Written(at, text)[k] = file[k]
  <2>1. \A k \in 1..Len(text) : at + k \in 1..m /\ at + k > at /\ at + k <= at + Len(text)
                                /\ (at + k) - at = k
    BY <1>1 DEF m
  <2>2. \A k \in 1..Len(file) : k \in 1..m
    BY <1>1 DEF m
  <2> QED
    BY <1>1, <1>3, <2>1, <2>2
<1> QED
  BY <1>5, <1>6 DEF m
-----------------------------------------------------------------------------
LEMMA BasicInit == Init => TypeOK /\ Sessional
<1> SUFFICES ASSUME Init PROVE TypeOK /\ Sessional
  OBVIOUS
<1>1. TypeOK
  <2>1. NoCmd \in Options
    BY DEF NoCmd, Options
  <2>2. cmd \in [Sessions -> Options]
    BY <2>1 DEF Init
  <2>3. /\ pc \in [Sessions -> {"options", "load", "access", "open", "create", "write", "done"}]
        /\ offset \in [Sessions -> Nat] /\ loaded \in [Sessions -> Seq(Cell)]
    BY DEF Init
  <2>4. file \in Seq(Cell) /\ order \in Seq(Sessions)
    BY DEF Init
  <2>5. exists \in BOOLEAN /\ timely \in BOOLEAN /\ current \subseteq Sessions
    BY Zenon DEF Init
  <2> QED
    BY <2>2, <2>3, <2>4, <2>5 DEF TypeOK, Options
<1>2. Sessional
  BY DEF Init, Sessional, Recorded
<1> QED
  BY <1>1, <1>2

LEMMA BasicStart ==
  ASSUME TypeOK, Sessional, NEW s \in Sessions, Start(s)
  PROVE  TypeOK' /\ Sessional'
<1>1. PICK c \in Commands :
        LET parsed == FoldLeft(SetOption, NoCmd, c) IN
        /\ cmd' = [cmd EXCEPT ![s] = parsed]
        /\ pc' = [pc EXCEPT ![s] = IF parsed.load_data THEN "load"
                                   ELSE IF parsed.session_record THEN "access" ELSE "done"]
  BY Zenon DEF Start
<1> DEFINE p == FoldLeft(SetOption, NoCmd, c)
<1>2. p \in Parsed
  <2>1. c \in Seq(Option)
    BY RecordAssumption
  <2> QED
    BY <2>1, ParsingOptions
<1> HIDE DEF p
<1>3. /\ cmd' = [cmd EXCEPT ![s] = p]
      /\ pc' = [pc EXCEPT ![s] = IF p.load_data THEN "load"
                                 ELSE IF p.session_record THEN "access" ELSE "done"]
  BY <1>1, Zenon DEF p
<1>4. p \in Options /\ (p.load_data \/ p.session_record => p.record_name \in Names)
  BY <1>2 DEF Parsed
<1>5. TypeOK'
  BY <1>3, <1>4 DEF TypeOK, Start, Options
<1>6. Sessional'
  <2>1. Recorded' = Recorded /\ pc[s] = "options" /\ loaded[s] = <<>> /\ offset[s] = 0
    BY DEF Start, Sessional, Recorded
  <2>2. UNCHANGED <<exists, file, offset, loaded, order>>
    BY DEF Start
  <2>3. /\ cmd'[s] = p /\ pc'[s] \in {"load", "access", "done"}
        /\ pc'[s] # "done" => p.record_name \in Names
        /\ \A t \in Sessions : t # s => cmd'[t] = cmd[t] /\ pc'[t] = pc[t]
    BY <1>3, <1>4 DEF TypeOK
  <2>4. s \notin Recorded
    BY <2>1 DEF Sessional
  <2>5. ASSUME NEW t \in Sessions
        PROVE  /\ pc'[t] \notin {"options", "done"} => cmd'[t].record_name \in Names
               /\ pc'[t] \in {"options", "load"} => loaded[t] = <<>>
               /\ pc'[t] # "write" /\ pc'[t] # "done" => offset[t] = 0
               /\ pc'[t] \in {"open", "write"} => exists
               /\ t \in Recorded => pc'[t] = "done" /\ cmd'[t].record_name \in Names
    BY <2>1, <2>3, <2>4 DEF Sessional
  <2> QED
    BY <2>1, <2>2, <2>5 DEF Sessional
<1> QED
  BY <1>5, <1>6

LEMMA BasicAccess ==
  ASSUME TypeOK, Sessional, NEW s \in Sessions, Access(s)
  PROVE  TypeOK' /\ Sessional'
<1>1. TypeOK'
  BY DEF TypeOK, Access
<1>2. Sessional'
  BY DEF TypeOK, Access, Sessional, Recorded
<1> QED
  BY <1>1, <1>2

LEMMA BasicOpen ==
  ASSUME TypeOK, Sessional, NEW s \in Sessions, Open(s)
  PROVE  TypeOK' /\ Sessional'
<1> DEFINE at == Search(cmd[s].record_name).at
<1>1. at \in Nat
  BY Searching DEF TypeOK
<1>2. offset' = [offset EXCEPT ![s] = at]
  BY DEF Open
<1> HIDE DEF at
<1>3. TypeOK'
  BY <1>1, <1>2 DEF TypeOK, Open
<1>4. Sessional'
  BY <1>1, <1>2 DEF TypeOK, Open, Sessional, Recorded
<1> QED
  BY <1>3, <1>4

LEMMA BasicCreate ==
  ASSUME TypeOK, Sessional, NEW s \in Sessions, Create(s)
  PROVE  TypeOK' /\ Sessional'
<1>1. TypeOK'
  BY DEF TypeOK, Create
<1>2. Sessional'
  BY DEF TypeOK, Create, Sessional, Recorded
<1> QED
  BY <1>1, <1>2

LEMMA Ordered ==
  ASSUME order \in Seq(Sessions), NEW s \in Sessions, order' = Append(order, s)
  PROVE  /\ Len(order) \in Nat /\ Len(order') = Len(order) + 1
         /\ DOMAIN order = 1..Len(order) /\ DOMAIN order' = 1..(Len(order) + 1)
         /\ order'[Len(order) + 1] = s /\ \A i \in DOMAIN order : order'[i] = order[i]
         /\ Recorded' = Recorded \cup {s}
<1>1. /\ Len(order) \in Nat /\ Len(order') = Len(order) + 1
      /\ DOMAIN order = 1..Len(order) /\ DOMAIN order' = 1..(Len(order) + 1)
      /\ order'[Len(order) + 1] = s /\ \A i \in DOMAIN order : order'[i] = order[i]
  OBVIOUS
<1>2. Recorded' = Recorded \cup {s}
  BY <1>1 DEF Recorded
<1> QED
  BY <1>1, <1>2

LEMMA BasicWrite ==
  ASSUME TypeOK, Sessional, NEW s \in Sessions, Write(s)
  PROVE  TypeOK' /\ Sessional'
<1>1. cmd[s].record_name \in Names /\ exists /\ s \notin Recorded
  BY DEF Sessional, Write
<1>2. file' \in Seq(Cell)
  BY <1>1, TextCells, Writing DEF TypeOK, Write
<1>3. order' = Append(order, s) /\ order \in Seq(Sessions)
  BY DEF Write, TypeOK
<1>4. TypeOK'
  BY <1>2, <1>3 DEF TypeOK, Write
<1>5. Recorded' = Recorded \cup {s}
  BY <1>3, Ordered
<1>6. \A i, j \in DOMAIN order' : order'[i] = order'[j] => i = j
  <2>1. \A i, j \in DOMAIN order : order[i] = order[j] => i = j
    BY DEF Sessional
  <2>2. \A i \in DOMAIN order : order[i] # s
    BY <1>1 DEF Recorded
  <2> QED
    BY <1>3, <2>1, <2>2, Ordered
<1>7. Sessional'
  BY <1>1, <1>5, <1>6 DEF TypeOK, Write, Sessional
<1> QED
  BY <1>4, <1>7

LEMMA BasicGiveUp ==
  ASSUME TypeOK, Sessional, NEW s \in Sessions, GiveUp(s)
  PROVE  TypeOK' /\ Sessional'
<1>1. TypeOK'
  BY DEF TypeOK, GiveUp
<1>2. Sessional'
  BY DEF TypeOK, GiveUp, Sessional, Recorded
<1> QED
  BY <1>1, <1>2

LEMMA BasicLoad ==
  ASSUME TypeOK, Sessional, NEW s \in Sessions, Load(s)
  PROVE  TypeOK' /\ Sessional'
<1> DEFINE l == Lookup(cmd[s].record_name)
<1>1. l \in Seq(Cell)
  BY Loading DEF TypeOK
<1>2. loaded' = [loaded EXCEPT ![s] = l]
  BY DEF Load
<1> HIDE DEF l
<1>3. TypeOK'
  BY <1>1, <1>2 DEF TypeOK, Load
<1>4. Sessional'
  <2>1. Recorded' = Recorded /\ pc[s] = "load" /\ UNCHANGED <<exists, file, cmd, offset, order>>
    BY DEF Load, Recorded
  <2>2. pc'[s] = "done" /\ \A t \in Sessions : t # s => pc'[t] = pc[t] /\ loaded'[t] = loaded[t]
    BY <1>2 DEF TypeOK, Load
  <2>3. s \notin Recorded
    BY <2>1 DEF Sessional
  <2>4. ASSUME NEW t \in Sessions
        PROVE  /\ pc'[t] \notin {"options", "done"} => cmd[t].record_name \in Names
               /\ pc'[t] \in {"options", "load"} => loaded'[t] = <<>>
               /\ pc'[t] # "write" /\ pc'[t] # "done" => offset[t] = 0
               /\ pc'[t] \in {"open", "write"} => exists
               /\ t \in Recorded => pc'[t] = "done" /\ cmd[t].record_name \in Names
    BY <2>1, <2>2, <2>3 DEF Sessional
  <2> QED
    BY <2>1, <2>4 DEF Sessional
<1> QED
  BY <1>3, <1>4

LEMMA BasicStep ==
  ASSUME TypeOK, Sessional, [Next]_vars
  PROVE  TypeOK' /\ Sessional'
<1>1. CASE UNCHANGED vars
  <2>1. TypeOK'
    BY <1>1 DEF TypeOK, vars
  <2>2. Sessional'
    BY <1>1 DEF Sessional, vars, Recorded
  <2> QED
    BY <2>1, <2>2
<1>2. CASE Next
  BY <1>2, BasicStart, BasicAccess, BasicOpen, BasicCreate, BasicWrite, BasicGiveUp, BasicLoad
     DEF Next
<1> QED
  BY <1>1, <1>2
-----------------------------------------------------------------------------
LEMMA SameFile ==
  ASSUME file' = file
  PROVE  /\ \A k, kind : Is(k, kind)' = Is(k, kind)
         /\ LineStarts' = LineStarts
         /\ NameInHand' = NameInHand
         /\ \A n : Search(n)' = Search(n)
<1>1. \A k, kind : Is(k, kind)' = Is(k, kind)
  BY DEF Is
<1>2. LineStarts' = LineStarts
  BY DEF LineStarts, Is
<1>3. NameInHand' = NameInHand
  BY DEF NameInHand, NameAt, LineStarts, Is
<1>4. \A n : Search(n)' = Search(n)
  BY DEF Search, NameInHand, NameAt, LineStarts, Is
<1> QED
  BY <1>1, <1>2, <1>3, <1>4

LEMMA SameRecords ==
  ASSUME order' = order, \A t \in Recorded : cmd'[t] = cmd[t]
  PROVE  /\ Recorded' = Recorded
         /\ \A i \in DOMAIN order : NameOf(i)' = NameOf(i)
         /\ \A n : Under(n)' = Under(n)
         /\ Distinct' = Distinct /\ Uncut' = Uncut
         /\ \A i, n : Newest(i, n)' = Newest(i, n)
<1>1. Recorded' = Recorded
  BY DEF Recorded
<1>2. \A i \in DOMAIN order : NameOf(i)' = NameOf(i)
  BY DEF NameOf, Recorded
<1>3. \A n : Under(n)' = Under(n)
  BY <1>2 DEF Under
<1>4. Distinct' = Distinct
  BY <1>2 DEF Distinct
<1>5. Uncut' = Uncut
  BY <1>2 DEF Uncut
<1>6. \A i, n : Newest(i, n)' = Newest(i, n)
  BY <1>3 DEF Newest
<1> QED
  BY <1>1, <1>2, <1>3, <1>4, <1>5, <1>6

LEMMA Untouched ==
  ASSUME file' = file, order' = order, \A t \in Recorded : cmd'[t] = cmd[t],
         timely' => timely, Kept, Sound
  PROVE  Kept' /\ Sound'
<1>1. \A t \in Recorded : \A k : RecordAt(k, t)' = RecordAt(k, t)
  BY DEF RecordAt, DataOf, HeadOf, End
<1>2. Closed' = Closed
  BY SameFile DEF Closed
<1>3. Kept'
  BY <1>1, <1>2, SameFile, SameRecords DEF Kept
<1>4. \A k, n : Filed(k, n)' = Filed(k, n)
  <2>1. \A n : Under(n) \subseteq DOMAIN order
    BY DEF Under
  <2>2. \A i \in DOMAIN order : \A k : RecordAt(k, order[i])' = RecordAt(k, order[i])
    BY <1>1 DEF Recorded
  <2> QED
    BY <2>1, <2>2, SameFile, SameRecords DEF Filed, HeadOf
<1>5. Sound'
  BY <1>2, <1>4, SameFile, SameRecords DEF Sound
<1> QED
  BY <1>3, <1>5
-----------------------------------------------------------------------------
LEMMA TimedInit == Init => Timed
  BY DEF Init, Timed

\* A step that leaves the file alone, of a session that knows what it is about to do.
LEMMA TimedElse ==
  ASSUME Timed, NEW s \in Sessions, file' = file, timely' => timely,
         \A t \in current' : t # s => /\ t \in current
                                     /\ pc'[t] = pc[t] /\ cmd'[t] = cmd[t]
                                     /\ offset'[t] = offset[t],
         pc'[s] = "create" => file = <<>>,
         pc'[s] = "write" => offset'[s] = Search(cmd'[s].record_name).at
  PROVE  Timed'
<1> SUFFICES ASSUME timely', NEW t \in current'
             PROVE  /\ pc'[t] = "create" => file' = <<>>
                    /\ pc'[t] = "write" => offset'[t] = Search(cmd[t].record_name)'.at
  BY DEF Timed
<1>1. Search(cmd[t].record_name)' = Search(cmd'[t].record_name)
  BY SameFile
<1>2. CASE t = s
  BY <1>1, <1>2
<1>3. CASE t # s
  BY <1>1, <1>3 DEF Timed
<1> QED
  BY <1>2, <1>3

LEMMA NothingFound ==
  ASSUME file = <<>>, NEW n
  PROVE  Search(n).at = 0
<1>1. LineStarts = {} /\ Len(file) = 0
  BY DEF LineStarts
<1>2. Search(n) = [found |-> FALSE, at |-> Len(file)]
  BY <1>1, Zenon DEF Search
<1> QED
  BY <1>1, <1>2

LEMMA TimedTurn ==
  ASSUME TypeOK, Sessional, Timed, NEW s \in Sessions, Access(s) \/ Open(s) \/ Create(s)
  PROVE  Timed'
<1>1. CASE Access(s)
  <2>1. pc'[s] = "create" => file = <<>>
    BY <1>1 DEF Access, TypeOK, Sessional
  <2>2. pc'[s] # "write"
    BY <1>1 DEF Access, TypeOK
  <2>3. \A t \in current' : t # s => /\ t \in current
                                    /\ pc'[t] = pc[t] /\ cmd'[t] = cmd[t]
                                    /\ offset'[t] = offset[t]
    BY <1>1 DEF Access, TypeOK
  <2> QED
    BY <1>1, <2>1, <2>2, <2>3, TimedElse DEF Access
<1>2. CASE Open(s)
  <2>1. pc'[s] = "write" /\ offset'[s] = Search(cmd'[s].record_name).at
    BY <1>2 DEF Open, TypeOK
  <2>2. \A t \in current' : t # s => /\ t \in current
                                    /\ pc'[t] = pc[t] /\ cmd'[t] = cmd[t]
                                    /\ offset'[t] = offset[t]
    BY <1>2 DEF Open, TypeOK
  <2> QED
    BY <1>2, <2>1, <2>2, TimedElse DEF Open
<1>3. CASE Create(s)
  <2> SUFFICES ASSUME timely' PROVE Timed'
    BY DEF Timed
  <2>1. timely /\ s \in current /\ pc[s] = "create"
    BY <1>3 DEF Create
  <2>2. file = <<>> /\ file' = file
    BY <1>3, <2>1 DEF Create, Timed
  <2>3. pc'[s] = "write" /\ offset'[s] = 0
    BY <1>3 DEF Create, TypeOK, Sessional
  <2>4. Search(cmd'[s].record_name).at = 0
    BY <2>2, NothingFound
  <2>5. \A t \in current' : t # s => /\ t \in current
                                    /\ pc'[t] = pc[t] /\ cmd'[t] = cmd[t]
                                    /\ offset'[t] = offset[t]
    BY <1>3 DEF Create, TypeOK
  <2> QED
    BY <2>1, <2>2, <2>3, <2>4, <2>5, TimedElse
<1> QED
  BY <1>1, <1>2, <1>3

LEMMA TimedStep ==
  ASSUME TypeOK, Sessional, Timed, [Next]_vars
  PROVE  Timed'
<1>1. CASE UNCHANGED vars
  <2>1. UNCHANGED <<file, pc, cmd, offset, current, timely>>
    BY <1>1 DEF vars
  <2> QED
    BY <2>1, SameFile DEF Timed
<1>2. ASSUME NEW s \in Sessions, Start(s) \/ GiveUp(s) \/ Load(s)
      PROVE  Timed'
  <2>1. file' = file /\ (timely' => timely) /\ offset' = offset /\ current' \subseteq current
    BY <1>2 DEF Start, GiveUp, Load
  <2>2. /\ \A t \in Sessions : t # s => pc'[t] = pc[t] /\ cmd'[t] = cmd[t]
        /\ pc'[s] \notin {"create", "write"}
    <3>1. CASE Start(s)
      BY <3>1 DEF Start, TypeOK
    <3>2. CASE GiveUp(s) \/ Load(s)
      BY <3>2 DEF GiveUp, Load, TypeOK
    <3> QED
      BY <1>2, <3>1, <3>2
  <2>3. \A t \in current' : t \in current /\ t \in Sessions
    BY <2>1 DEF TypeOK
  <2> QED
    BY <2>1, <2>2, <2>3, TimedElse
<1>3. ASSUME NEW s \in Sessions, Write(s)
      PROVE  Timed'
  BY <1>3 DEF Write, Timed
<1> QED
  BY <1>1, <1>2, <1>3, TimedTurn DEF Next
-----------------------------------------------------------------------------
\* A name is found at its head: what is left of a name that is cut is another.
LEMMA FoundAtHead ==
  ASSUME TypeOK, NEW n \in Names, Search(n).found,
         \A i \in DOMAIN order : ~Beginning(n, NameOf(i)),
         \A k \in DOMAIN file : Is(k, "head") => Under(file[k].of) # {}
  PROVE  \E at \in LineStarts :
           /\ at = Search(n).at /\ NameInHand[at] = n
           /\ Is(at, "head") /\ file[at] = HeadOf(n) /\ ~Is(at + 1, "head")
           /\ \A k \in LineStarts : NameInHand[k] = n => at <= k
<1> DEFINE Cut == {c \in AnyName : \E C \in SUBSET AnyName :
                     c \in C /\ n \notin C /\ \A d \in C : Shorter(d) \in C}
<1>1. Cut \in SUBSET AnyName /\ n \notin Cut /\ \A c \in Cut : Shorter(c) \in Cut
  OBVIOUS
<1>2. NoName \in Cut
  <2>1. {NoName} \in SUBSET AnyName /\ n \notin {NoName} /\ Shorter(NoName) = NoName
    BY RecordAssumption DEF AnyName
  <2> QED
    BY <2>1
<1>3. ASSUME NEW k \in DOMAIN file, Is(k, "head")
      PROVE  Shorter(file[k].of) \in Cut
  <2>1. PICK i \in DOMAIN order : NameOf(i) = file[k].of
    BY <1>3 DEF Under
  <2>2. PICK C \in SUBSET AnyName :
          Shorter(file[k].of) \in C /\ (\A c \in C : Shorter(c) \in C) /\ n \notin C
    BY <2>1 DEF Beginning, AnyName
  <2> QED
    BY <2>2
<1>4. PICK first \in LineStarts :
        /\ NameInHand[first] = n
        /\ \A k \in LineStarts : NameInHand[k] = n => first <= k
        /\ Search(n).at = IF Is(first, "head") THEN first ELSE first - 1
  BY Searching DEF TypeOK
<1> HIDE DEF Cut
<1>5. Is(first, "head")
  BY <1>1, <1>2, <1>3, <1>4, NamesInHand DEF TypeOK
<1>6. n # NoName
  BY RecordAssumption
<1>7. ~Is(first + 1, "head") /\ file[first].of = n
  BY <1>4, <1>5, <1>6, NamesInHand DEF TypeOK
<1>8. file[first] = HeadOf(n)
  BY <1>5, <1>7, Cells DEF TypeOK
<1> QED
  BY <1>4, <1>5, <1>7, <1>8

\* What is recorded under the names once one more session has written.
NameAdded(s, n, last) ==
  /\ n \in Names /\ s \notin Recorded
  /\ \A i \in DOMAIN order : NameOf(i)' = NameOf(i) /\ order'[i] = order[i]
  /\ NameOf(last)' = n /\ order'[last] = s
  /\ DOMAIN order' = DOMAIN order \cup {last}
  /\ \A i \in DOMAIN order : i < last
  /\ Under(n)' = Under(n) \cup {last}
  /\ \A m : m # n => Under(m)' = Under(m)
  /\ Cardinality(Under(n)) \in Nat
  /\ Cardinality(Under(n)') = Cardinality(Under(n)) + 1
  /\ Under(n) # {} => Cardinality(Under(n)) >= 1

LEMMA OneMore ==
  ASSUME TypeOK, Sessional, NEW s \in Sessions, Write(s), NEW n, n = cmd[s].record_name,
         NEW last, last = Len(order) + 1
  PROVE  NameAdded(s, n, last)
<1>1. n \in Names /\ s \notin Recorded /\ cmd' = cmd
  BY DEF Sessional, Write
<1>2. order \in Seq(Sessions) /\ order' = Append(order, s)
  BY DEF TypeOK, Write
<1>3. /\ Len(order) \in Nat /\ DOMAIN order = 1..Len(order)
      /\ DOMAIN order' = 1..last /\ order'[last] = s
      /\ \A i \in DOMAIN order : order'[i] = order[i]
  BY <1>2, Ordered
<1>4. /\ \A i \in DOMAIN order : NameOf(i)' = NameOf(i)
      /\ NameOf(last)' = n
  BY <1>1, <1>3 DEF NameOf
<1>5. DOMAIN order' = DOMAIN order \cup {last} /\ last \notin DOMAIN order
  BY <1>3
<1>6. Under(n)' = Under(n) \cup {last}
  BY <1>4, <1>5 DEF Under
<1>7. \A m : m # n => Under(m)' = Under(m)
  BY <1>4, <1>5 DEF Under
<1>8. IsFiniteSet(Under(n))
  <2>1. IsFiniteSet(1..Len(order))
    BY <1>3, FS_Interval
  <2>2. Under(n) \in SUBSET (1..Len(order))
    BY <1>3 DEF Under
  <2> QED
    BY <2>1, <2>2, FS_Subset
<1>9. /\ Cardinality(Under(n)) \in Nat
      /\ Cardinality(Under(n)') = Cardinality(Under(n)) + 1
  <2>1. last \notin Under(n)
    BY <1>5 DEF Under
  <2> QED
    BY <1>6, <1>8, <2>1, FS_AddElement, FS_CardinalityType
<1>10. Under(n) # {} => Cardinality(Under(n)) >= 1
  BY <1>8, <1>9, FS_EmptySet
<1>11. \A i \in DOMAIN order : i < last
  BY <1>3
<1> QED
  BY <1>1, <1>3, <1>4, <1>5, <1>6, <1>7, <1>9, <1>10, <1>11, Zenon DEF NameAdded

\* Where a text lies that was written behind the first a cells.
LEMMA Span ==
  ASSUME NEW a \in Nat, NEW l \in 1..2, NEW old \in Nat, a <= old, NEW new \in Nat,
         new = IF a + l + 2 > old THEN a + l + 2 ELSE old, NEW k \in Int
  PROVE  /\ k \in (a + 1)..(a + l + 2) <=> ~(k <= a \/ k > a + l + 2)
         /\ k \in 1..new <=> \/ k \in (a + 1)..(a + l + 2)
                             \/ (k <= a \/ k > a + l + 2) /\ k \in 1..old
         /\ k \in (a + 1)..(a + l + 2) =>
              k = a + 1 \/ k = a + l + 2 \/ k - a - 1 \in 1..l
         /\ a + 1 + (k - a - 1) = k /\ a + 1 # a + l + 2
<1>1. k \in (a + 1)..(a + l + 2) <=> ~(k <= a \/ k > a + l + 2)
  OBVIOUS
<1>2. k \in 1..new <=> \/ k \in (a + 1)..(a + l + 2)
                       \/ (k <= a \/ k > a + l + 2) /\ k \in 1..old
  OBVIOUS
<1>3. k \in (a + 1)..(a + l + 2) => k = a + 1 \/ k = a + l + 2 \/ k - a - 1 \in 1..l
  OBVIOUS
<1>4. a + 1 + (k - a - 1) = k /\ a + 1 # a + l + 2
  OBVIOUS
<1> QED
  BY <1>1, <1>2, <1>3, <1>4

\* The cells of the file once a record is written over its place.
CellsWritten(s, n, a, l) ==
  /\ a \in Nat /\ l \in 1..2 /\ Len(file) \in Nat /\ file' \in Seq(Cell)
  /\ DOMAIN file = 1..Len(file) /\ DOMAIN file' = 1..Len(file')
  /\ Len(file') = IF a + l + 2 > Len(file) THEN a + l + 2 ELSE Len(file)
  /\ \A k \in 1..Len(file) : k <= a \/ k > a + l + 2 => file'[k] = file[k]
  /\ file'[a + 1] = HeadOf(n) /\ RecordAt(a + 1, s)'
  /\ \A k \in Int : Is(k, "head")' <=>
       k = a + 1 \/ ((k <= a \/ k > a + l + 2) /\ Is(k, "head"))
  /\ \A k \in Int : Is(k, "end")' <=>
       k = a + l + 2 \/ ((k <= a \/ k > a + l + 2) /\ Is(k, "end"))

LEMMA WrittenCells ==
  ASSUME TypeOK, Sessional, NEW s \in Sessions, Write(s), NEW n, n = cmd[s].record_name,
         NEW a, a = offset[s], a <= Len(file), NEW l, l = DataLen(s)
  PROVE  CellsWritten(s, n, a, l)
<1>1. n \in Names /\ a \in Nat /\ l \in 1..2 /\ file \in Seq(Cell) /\ Len(file) \in Nat
  <2>1. n \in Names
    BY DEF Sessional, Write
  <2>2. a \in Nat /\ file \in Seq(Cell) /\ Len(file) \in Nat
    BY DEF TypeOK
  <2>3. l \in 1..2
    BY DataCells, Zenon
  <2> QED
    BY <2>1, <2>2, <2>3
<1> DEFINE text == TextOf(s)
<1>2. /\ text \in Seq(Cell) /\ Len(text) = l + 2 /\ text[1] = HeadOf(n) /\ text[l + 2] = End
      /\ \A k \in 1..l : text[k + 1] = [kind |-> "data", of |-> s]
  <2>1. /\ TextOf(s) \in Seq(Cell) /\ Len(TextOf(s)) = DataLen(s) + 2
        /\ TextOf(s)[1] = HeadOf(cmd[s].record_name) /\ TextOf(s)[DataLen(s) + 2] = End
        /\ \A k \in 1..DataLen(s) : TextOf(s)[k + 1] = DataOf(s)[k]
    BY <1>1, TextCells, Zenon
  <2>2. \A k \in 1..DataLen(s) : DataOf(s)[k] = [kind |-> "data", of |-> s]
    BY DataCells, Zenon
  <2> QED
    BY <2>1, <2>2, Zenon
<1> HIDE DEF text
<1>3. file' = Written(a, text)
  BY DEF Write, text
<1>4. /\ file' \in Seq(Cell)
      /\ Len(file') = IF a + (l + 2) > Len(file) THEN a + (l + 2) ELSE Len(file)
      /\ \A k \in 1..(l + 2) : file'[a + k] = text[k]
      /\ \A k \in 1..Len(file) : k <= a \/ k > a + (l + 2) => file'[k] = file[k]
  <2>1. /\ Written(a, text) \in Seq(Cell)
        /\ Len(Written(a, text)) = IF a + Len(text) > Len(file) THEN a + Len(text)
                                   ELSE Len(file)
        /\ \A k \in 1..Len(text) : Written(a, text)[a + k] = text[k]
        /\ \A k \in 1..Len(file) :
             k <= a \/ k > a + Len(text) => Written(a, text)[k] = file[k]
    BY <1>1, <1>2, Writing, Zenon
  <2> QED
    BY <1>2, <1>3, <2>1, Zenon
<1>5. /\ Len(file') = IF a + l + 2 > Len(file) THEN a + l + 2 ELSE Len(file)
      /\ \A k \in 1..Len(file) : k <= a \/ k > a + l + 2 => file'[k] = file[k]
      /\ file'[a + 1] = HeadOf(n) /\ file'[a + l + 2] = End
      /\ \A k \in 1..l : file'[a + 1 + k] = [kind |-> "data", of |-> s]
  <2>1. 1 \in 1..(l + 2) /\ l + 2 \in 1..(l + 2) /\ a + (l + 2) = a + l + 2
    BY <1>1
  <2>2. \A k \in 1..l : k + 1 \in 1..(l + 2) /\ a + (k + 1) = a + 1 + k
    BY <1>1
  <2>3. /\ Len(file') = IF a + l + 2 > Len(file) THEN a + l + 2 ELSE Len(file)
        /\ \A k \in 1..Len(file) : k <= a \/ k > a + l + 2 => file'[k] = file[k]
    BY <1>4, <2>1, Zenon
  <2>4. file'[a + 1] = HeadOf(n) /\ file'[a + l + 2] = End
    BY <1>2, <1>4, <2>1, Zenon
  <2>5. ASSUME NEW k \in 1..l
        PROVE  file'[a + 1 + k] = [kind |-> "data", of |-> s]
    BY <1>2, <1>4, <2>2, Zenon
  <2> QED
    BY <2>3, <2>4, <2>5, Zenon
<1>6. DOMAIN file = 1..Len(file) /\ DOMAIN file' = 1..Len(file') /\ Len(file') \in Nat
  BY <1>1, <1>4
<1>7. RecordAt(a + 1, s)'
  <2>1. cmd' = cmd
    BY DEF Write
  <2>2. DataOf(s)' = DataOf(s)
    BY <2>1 DEF DataOf
  <2>3. Len(DataOf(s)) = l /\ \A k \in 1..l : DataOf(s)[k] = [kind |-> "data", of |-> s]
    BY DataCells
  <2>4. a + 1 + l + 1 \in DOMAIN file' /\ a + 1 + l + 1 = a + l + 2
    <3>1. a + 1 + l + 1 = a + l + 2 /\ 1 <= a + l + 2 /\ a + l + 2 \in Int
      BY <1>1
    <3>2. a + l + 2 <= Len(file')
      BY <1>1, <1>5
    <3> QED
      BY <1>6, <3>1, <3>2
  <2>5. HeadOf(cmd[s].record_name)' = HeadOf(n) /\ End' = End
    BY <2>1 DEF HeadOf, End
  <2>6. /\ \A j \in 1..l : file'[a + 1 + j] = DataOf(s)[j]
        /\ a + 1 + l + 1 \in DOMAIN file' /\ file'[a + 1 + l + 1] = End
    BY <1>5, <2>3, <2>4
  <2> QED
    BY <1>5, <2>2, <2>3, <2>5, <2>6 DEF RecordAt
<1>8. \A k \in Int : k \in DOMAIN file' <=>
        \/ k \in (a + 1)..(a + l + 2)
        \/ (k <= a \/ k > a + l + 2) /\ k \in DOMAIN file
  <2> SUFFICES ASSUME NEW k \in Int
               PROVE  k \in DOMAIN file' <=>
                        \/ k \in (a + 1)..(a + l + 2)
                        \/ (k <= a \/ k > a + l + 2) /\ k \in DOMAIN file
    OBVIOUS
  <2>1. k \in 1..Len(file') <=> \/ k \in (a + 1)..(a + l + 2)
                                \/ (k <= a \/ k > a + l + 2) /\ k \in 1..Len(file)
    <3>1. /\ a \in Nat /\ l \in 1..2 /\ Len(file) \in Nat /\ Len(file') \in Nat
          /\ Len(file') = IF a + l + 2 > Len(file) THEN a + l + 2 ELSE Len(file)
      BY <1>1, <1>5, <1>6, Zenon
    <3> QED
      BY <3>1, Span
  <2> QED
    BY <1>6, <2>1, Zenon
<1>9. ASSUME NEW k \in Int, k \in (a + 1)..(a + l + 2)
      PROVE  file'[k].kind = IF k = a + 1 THEN "head"
                             ELSE IF k = a + l + 2 THEN "end" ELSE "data"
  <2>1. CASE k = a + 1
    BY <1>1, <1>5, <2>1 DEF HeadOf
  <2>2. CASE k = a + l + 2
    BY <1>1, <1>5, <2>2 DEF End
  <2>3. CASE k # a + 1 /\ k # a + l + 2
    <3>1. k - a - 1 \in 1..l /\ a + 1 + (k - a - 1) = k
      <4>1. k = a + 1 \/ k = a + l + 2 \/ k - a - 1 \in 1..l
        BY <1>1, <1>5, <1>6, <1>9, Span, Zenon
      <4>2. a + 1 + (k - a - 1) = k
        BY <1>1, <1>5, <1>6, Span
      <4> QED
        BY <2>3, <4>1, <4>2, Zenon
    <3>2. file'[a + 1 + (k - a - 1)] = [kind |-> "data", of |-> s]
      BY <1>5, <3>1, Zenon
    <3> QED
      BY <2>3, <3>1, <3>2
  <2> QED
    BY <1>1, <2>1, <2>2, <2>3
<1>10. ASSUME NEW k \in Int
       PROVE  /\ Is(k, "head")' <=> k = a + 1 \/ ((k <= a \/ k > a + l + 2) /\ Is(k, "head"))
              /\ Is(k, "end")' <=> k = a + l + 2 \/ ((k <= a \/ k > a + l + 2) /\ Is(k, "end"))
  <2>1. CASE k \in (a + 1)..(a + l + 2)
    <3>1. ~(k <= a \/ k > a + l + 2) /\ k \in DOMAIN file' /\ a + 1 # a + l + 2
      <4>1. ~(k <= a \/ k > a + l + 2) /\ a + 1 # a + l + 2
        BY <1>1, <1>5, <1>6, <2>1, Span, Zenon
      <4> QED
        BY <1>8, <2>1, <4>1, Zenon
    <3>2. k = a + l + 2 => k # a + 1
      BY <3>1
    <3> QED
      BY <1>9, <2>1, <3>1, <3>2, Zenon DEF Is
  <2>2. CASE k \notin (a + 1)..(a + l + 2)
    <3>1. /\ k <= a \/ k > a + l + 2
          /\ k # a + 1 /\ k # a + l + 2 /\ (k \in DOMAIN file' <=> k \in DOMAIN file)
      BY <1>1, <1>8, <2>2
    <3>2. k \in DOMAIN file => file'[k] = file[k]
      BY <1>5, <1>6, <3>1
    <3> QED
      BY <3>1, <3>2 DEF Is
  <2> QED
    BY <2>1, <2>2
<1> QED
  BY <1>1, <1>4, <1>5, <1>6, <1>7, <1>10, Zenon DEF CellsWritten

\* A cell of a record that ends before a, or starts behind b, does so too.
LEMMA CellApart ==
  ASSUME NEW k \in Int, NEW d \in Int, NEW j \in Int, NEW a \in Int, NEW b \in Int,
         NEW len \in Int, k \in 1..len, k + d + 1 \in 1..len, 0 <= j, j <= d + 1,
         k + d + 1 <= a \/ k > b
  PROVE  k + j \in 1..len /\ (k + j <= a \/ k + j > b)
<1>1. k + j >= k /\ k + j <= k + d + 1
  OBVIOUS
<1>2. k + j \in Int
  OBVIOUS
<1> QED
  BY <1>1, <1>2

LEMMA RecordStays ==
  ASSUME TypeOK, Sessional, NEW s \in Sessions, Write(s), NEW n, n = cmd[s].record_name,
         NEW a, a = offset[s], a <= Len(file), NEW l, l = DataLen(s),
         NEW t \in Sessions, NEW k \in DOMAIN file, RecordAt(k, t),
         k + DataLen(t) + 1 <= a \/ k > a + l + 2
  PROVE  RecordAt(k, t)'
<1> DEFINE d == DataLen(t)
<1>1. d \in 1..2 /\ Len(DataOf(t)) = d
  BY DataCells, Zenon
<1>2. /\ a \in Nat /\ l \in 1..2 /\ Len(file) \in Nat
      /\ DOMAIN file = 1..Len(file) /\ DOMAIN file' = 1..Len(file')
      /\ Len(file') = IF a + l + 2 > Len(file) THEN a + l + 2 ELSE Len(file)
      /\ \A j \in 1..Len(file) : j <= a \/ j > a + l + 2 => file'[j] = file[j]
  <2>1. CellsWritten(s, n, a, l)
    BY WrittenCells, Zenon
  <2> QED
    BY <2>1, Zenon DEF CellsWritten
<1>3. k + d + 1 <= a \/ k > a + l + 2
  OBVIOUS
<1> HIDE DEF d
<1>4. /\ k + d + 1 \in 1..Len(file) /\ file[k] = HeadOf(cmd[t].record_name)
      /\ file[k + d + 1] = End /\ \A j \in 1..d : file[k + j] = DataOf(t)[j]
  BY <1>1, <1>2 DEF RecordAt
<1>5. ASSUME NEW j \in 0..(d + 1)
      PROVE  file'[k + j] = file[k + j]
  <2>1. k \in 1..Len(file) /\ k + d + 1 \in 1..Len(file)
    BY <1>2, <1>4
  <2>2. d \in Int /\ a \in Int /\ a + l + 2 \in Int /\ Len(file) \in Int /\ k \in Int
    BY <1>1, <1>2, <2>1
  <2>3. j \in Int /\ 0 <= j /\ j <= d + 1
    BY <1>1
  <2>4. k + j \in 1..Len(file) /\ (k + j <= a \/ k + j > a + l + 2)
    BY <1>3, <2>1, <2>2, <2>3, CellApart, Zenon
  <2> QED
    BY <1>2, <2>4, Zenon
<1>6. /\ k + d + 1 \in DOMAIN file' /\ file'[k] = file[k]
      /\ file'[k + d + 1] = file[k + d + 1] /\ \A j \in 1..d : file'[k + j] = file[k + j]
  <2>1. d \in Int /\ k \in Int /\ 1 <= d
    BY <1>1, <1>2
  <2>2. 0 \in 0..(d + 1) /\ d + 1 \in 0..(d + 1) /\ k + 0 = k /\ k + (d + 1) = k + d + 1
    BY <2>1
  <2>3. \A j \in 1..d : j \in 0..(d + 1)
    BY <2>1
  <2>4. k + d + 1 \in DOMAIN file'
    <3>1. k + d + 1 \in 1..Len(file) /\ Len(file) <= Len(file') /\ Len(file') \in Int
      BY <1>2, <1>4
    <3>2. k + d + 1 \in 1..Len(file')
      BY <1>2, <3>1
    <3> QED
      BY <1>2, <3>2, Zenon
  <2> QED
    BY <1>5, <2>2, <2>3, <2>4
<1>7. cmd' = cmd
  BY DEF Write
<1>8. DataOf(t)' = DataOf(t) /\ HeadOf(cmd[t].record_name)' = HeadOf(cmd[t].record_name)
      /\ End' = End
  BY <1>7 DEF DataOf, HeadOf, End
<1>9. /\ k + d + 1 \in DOMAIN file' /\ file'[k] = HeadOf(cmd[t].record_name)
      /\ file'[k + d + 1] = End /\ \A j \in 1..d : file'[k + j] = DataOf(t)[j]
  BY <1>4, <1>6
<1> QED
  BY <1>1, <1>8, <1>9 DEF RecordAt

LEMMA RecordCells ==
  ASSUME file \in Seq(Cell), NEW t \in Sessions, NEW k \in DOMAIN file, RecordAt(k, t)
  PROVE  /\ DataLen(t) \in 1..2 /\ k + DataLen(t) + 1 \in 1..Len(file)
         /\ file[k] = HeadOf(cmd[t].record_name) /\ Is(k, "head")
         /\ Is(k + DataLen(t) + 1, "end")
         /\ \A j \in 1..DataLen(t) : Is(k + j, "data")
<1> DEFINE d == DataLen(t)
<1>1. /\ d \in 1..2 /\ Len(DataOf(t)) = d
      /\ \A j \in 1..d : DataOf(t)[j] = [kind |-> "data", of |-> t]
  BY DataCells, Zenon
<1> HIDE DEF d
<1>2. /\ k \in 1..Len(file) /\ Len(file) \in Nat
      /\ k + d + 1 \in 1..Len(file) /\ file[k] = HeadOf(cmd[t].record_name)
      /\ file[k + d + 1] = End /\ \A j \in 1..d : file[k + j] = [kind |-> "data", of |-> t]
  BY <1>1 DEF RecordAt
<1>3. Is(k, "head")
  BY <1>2 DEF Is, HeadOf
<1>4. Is(k + d + 1, "end")
  BY <1>2 DEF Is, End
<1>5. ASSUME NEW j \in 1..d
      PROVE  Is(k + j, "data")
  <2>1. k + j \in DOMAIN file
    BY <1>1, <1>2
  <2> QED
    BY <1>2, <2>1 DEF Is
<1> QED
  BY <1>1, <1>2, <1>3, <1>4, <1>5 DEF d

\* A record under a name that is new is written behind all others.
LEMMA KeptWrite ==
  ASSUME TypeOK, Sessional, Timed, Kept, NEW s \in Sessions, Write(s)
  PROVE  Kept'
<1> SUFFICES ASSUME timely, s \in current, Distinct',
                    NEW n, n = cmd[s].record_name, NEW a, a = offset[s],
                    NEW l, l = DataLen(s), NEW last, last = Len(order) + 1
             PROVE  Kept'
  BY DEF Kept, Write
<1>1. /\ n \in Names /\ cmd' = cmd /\ Recorded' = Recorded \cup {s}
      /\ file \in Seq(Cell) /\ order \in Seq(Sessions) /\ Recorded \subseteq Sessions
  <2>1. file \in Seq(Cell) /\ order \in Seq(Sessions) /\ order' = Append(order, s)
    BY DEF TypeOK, Write
  <2>2. Recorded' = Recorded \cup {s} /\ Recorded \subseteq Sessions
    BY <2>1, Ordered DEF Recorded
  <2> QED
    BY <2>1, <2>2 DEF Sessional, Write
<1>2. \A i \in DOMAIN order : NameOf(i) # n
  <2>1. /\ \A i \in DOMAIN order : NameOf(i)' = NameOf(i)
        /\ NameOf(last)' = n /\ DOMAIN order' = DOMAIN order \cup {last}
        /\ \A i \in DOMAIN order : i < last
    <3>1. NameAdded(s, n, last)
      BY OneMore, Zenon
    <3> QED
      BY <3>1, Zenon DEF NameAdded
  <2>2. ASSUME NEW i \in DOMAIN order, NameOf(i) = n
        PROVE  FALSE
    <3>1. NameOf(i)' = NameOf(last)' /\ i \in DOMAIN order' /\ last \in DOMAIN order'
      BY <2>1, <2>2
    <3>2. i = last
      BY <3>1 DEF Distinct
    <3>3. i < last /\ i \in Int
      BY <1>1, <2>1
    <3> QED
      BY <3>2, <3>3
  <2> QED
    BY <2>2
<1>3. Distinct
  <2>1. NameAdded(s, n, last)
    BY OneMore, Zenon
  <2>2. /\ \A i \in DOMAIN order : NameOf(i)' = NameOf(i)
        /\ DOMAIN order' = DOMAIN order \cup {last}
    BY <2>1, Zenon DEF NameAdded
  <2> QED
    BY <2>2 DEF Distinct
<1>4. /\ Closed
      /\ \A k \in DOMAIN file : Is(k, "head") <=> k \in LineStarts
      /\ \A k \in LineStarts : \E t \in Recorded : RecordAt(k, t)
      /\ \A t \in Recorded : \E k \in LineStarts : RecordAt(k, t)
      /\ \A k, j \in LineStarts : file[k] = file[j] => k = j
  BY <1>3 DEF Kept
<1>5. /\ LineStarts \in SUBSET (1..Len(file)) /\ DOMAIN file = 1..Len(file)
      /\ Len(file) \in Nat
  BY <1>1, Cells
<1>6. \A k \in LineStarts : file[k] # HeadOf(n)
  <2> SUFFICES ASSUME NEW k \in LineStarts, file[k] = HeadOf(n) PROVE FALSE
    OBVIOUS
  <2>1. PICK t \in Recorded : RecordAt(k, t)
    BY <1>4
  <2>2. cmd[t].record_name = n
    BY <2>1 DEF RecordAt, HeadOf
  <2> QED
    BY <1>2, <2>2 DEF NameOf, Recorded
<1>7. a = Len(file)
  <2>1. \A k \in LineStarts : NameInHand[k] # n
    <3> SUFFICES ASSUME NEW k \in LineStarts, NameInHand[k] = n PROVE FALSE
      OBVIOUS
    <3>1. Is(k, "head")
      BY <1>4, <1>5
    <3>2. NameInHand[k] = NoName \/ NameInHand[k] = file[k].of
      BY <1>1, <3>1, NamesInHand
    <3>3. file[k] = HeadOf(n)
      BY <1>1, <3>1, <3>2, Cells, RecordAssumption
    <3> QED
      BY <1>6, <3>3
  <2>2. Search(n).at = Len(file)
    BY <1>1, <2>1, Searching
  <2> QED
    BY <2>2 DEF Timed, Write
<1>8. a <= Len(file)
  BY <1>5, <1>7
<1>9. /\ l \in 1..2 /\ file' \in Seq(Cell) /\ DOMAIN file' = 1..Len(file')
      /\ Len(file') = Len(file) + l + 2
      /\ \A k \in 1..Len(file) : file'[k] = file[k]
      /\ file'[a + 1] = HeadOf(n) /\ RecordAt(a + 1, s)'
      /\ \A k \in Int : Is(k, "head")' <=> k = a + 1 \/ (k <= a /\ Is(k, "head"))
      /\ \A k \in Int : Is(k, "end")' <=> k = a + l + 2 \/ (k <= a /\ Is(k, "end"))
  <2>1. /\ a \in Nat /\ l \in 1..2 /\ Len(file) \in Nat /\ file' \in Seq(Cell)
        /\ DOMAIN file = 1..Len(file) /\ DOMAIN file' = 1..Len(file')
        /\ Len(file') = IF a + l + 2 > Len(file) THEN a + l + 2 ELSE Len(file)
        /\ \A k \in 1..Len(file) : k <= a \/ k > a + l + 2 => file'[k] = file[k]
        /\ file'[a + 1] = HeadOf(n) /\ RecordAt(a + 1, s)'
    <3>1. CellsWritten(s, n, a, l)
      BY <1>8, WrittenCells, Zenon
    <3> QED
      BY <3>1, Zenon DEF CellsWritten
  <2>2. /\ \A k \in Int : Is(k, "head")' <=>
             k = a + 1 \/ ((k <= a \/ k > a + l + 2) /\ Is(k, "head"))
        /\ \A k \in Int : Is(k, "end")' <=>
             k = a + l + 2 \/ ((k <= a \/ k > a + l + 2) /\ Is(k, "end"))
    <3>1. CellsWritten(s, n, a, l)
      BY <1>8, WrittenCells, Zenon
    <3> QED
      BY <3>1, Zenon DEF CellsWritten
  <2>3. \A k \in Int : k > a + l + 2 => ~Is(k, "head") /\ ~Is(k, "end")
    BY <1>7, <2>1 DEF Is
  <2>4. Len(file') = Len(file) + l + 2 /\ \A k \in 1..Len(file) : k <= a
    BY <1>7, <2>1
  <2> QED
    BY <2>1, <2>2, <2>3, <2>4
<1>10. ASSUME NEW k \in DOMAIN file'
       PROVE  k \in LineStarts' <=> k \in LineStarts \cup {a + 1}
  <2>1. k \in Int /\ k - 1 \in Int /\ k \in 1..(a + l + 2)
    BY <1>7, <1>9
  <2> DEFINE b == a + l + 2
  <2>6. a \in Nat /\ b \in Int /\ b > a + 1 /\ DOMAIN file = 1..a
    BY <1>5, <1>7, <1>9
  <2>7. ASSUME NEW i \in Int
        PROVE  Is(i, "end")' <=> i = b \/ (i <= a /\ Is(i, "end"))
    BY <1>9, Zenon
  <2> HIDE DEF b
  <2>2. k \in LineStarts' <=> ~Is(k, "end")' /\ (k = 1 \/ Is(k - 1, "end")')
    BY DEF LineStarts
  <2>3. CASE k <= a
    <3>1. k \in DOMAIN file /\ k # b /\ k - 1 # b /\ k # a + 1 /\ k - 1 <= a
      BY <2>1, <2>3, <2>6
    <3>2. (Is(k, "end")' <=> Is(k, "end")) /\ (Is(k - 1, "end")' <=> Is(k - 1, "end"))
      BY <2>1, <2>3, <2>7, <3>1, Zenon
    <3> QED
      BY <2>2, <3>1, <3>2 DEF LineStarts
  <2>4. CASE k = a + 1
    <3>1. a = 0 \/ Is(a, "end")
      BY <1>4, <1>7 DEF Closed
    <3>2. k # b /\ ~(k <= a) /\ k - 1 = a /\ a <= a /\ (a = 0 => k = 1)
      BY <2>4, <2>6
    <3>3. ~Is(k, "end")'
      BY <2>1, <2>7, <3>2, Zenon
    <3>4. Is(a, "end") => Is(k - 1, "end")'
      BY <2>1, <2>7, <3>2, Zenon
    <3> QED
      BY <2>2, <2>4, <3>1, <3>2, <3>3, <3>4, Zenon
  <2>5. CASE k > a + 1
    <3>1. k # 1 /\ k - 1 # b /\ ~(k - 1 <= a) /\ k # a + 1 /\ k \notin 1..a
      <4>1. k <= b
        BY <2>1, <2>6 DEF b
      <4> QED
        BY <2>1, <2>5, <2>6, <4>1
    <3>2. ~Is(k - 1, "end")'
      BY <2>1, <2>7, <3>1, Zenon
    <3>3. k \notin LineStarts
      BY <2>6, <3>1 DEF LineStarts
    <3> QED
      BY <2>2, <3>1, <3>2, <3>3
  <2> QED
    BY <2>1, <2>3, <2>4, <2>5, <2>6
<1>11. LineStarts' = LineStarts \cup {a + 1}
  <2>1. LineStarts' \subseteq DOMAIN file'
    BY DEF LineStarts
  <2>2. LineStarts \cup {a + 1} \subseteq DOMAIN file'
    <3>1. a + 1 \in 1..Len(file') /\ \A k \in 1..Len(file) : k \in 1..Len(file')
      BY <1>5, <1>7, <1>9
    <3> QED
      BY <1>5, <1>9, <3>1
  <2> QED
    BY <1>10, <2>1, <2>2
<1>12. Closed'
  <2>1. Len(file') = a + l + 2 /\ Len(file') \in Int
    BY <1>5, <1>7, <1>9
  <2>2. Is(a + l + 2, "end")'
    BY <1>9, <2>1
  <2> QED
    BY <2>1, <2>2 DEF Closed, Is
<1>13. \A k \in DOMAIN file' : Is(k, "head")' <=> k \in LineStarts'
  <2> SUFFICES ASSUME NEW k \in DOMAIN file' PROVE Is(k, "head")' <=> k \in LineStarts'
    OBVIOUS
  <2>1. k \in Int
    BY <1>9
  <2>2. Is(k, "head") <=> k \in LineStarts
    BY <1>4, <1>5 DEF Is
  <2>3. k \in LineStarts => k <= a
    BY <1>5, <1>7
  <2> QED
    BY <1>9, <1>11, <2>1, <2>2, <2>3
<1>14. ASSUME NEW t \in Recorded, NEW k \in LineStarts, RecordAt(k, t)
       PROVE  RecordAt(k, t)'
  <2>1. t \in Sessions /\ k \in DOMAIN file
    BY <1>1, <1>5
  <2>2. k + DataLen(t) + 1 <= a
    BY <1>1, <1>5, <1>7, <1>14, <2>1, RecordCells
  <2> QED
    BY <1>8, <1>14, <2>1, <2>2, RecordStays
<1>15. \A k \in LineStarts' : \E t \in Recorded' : RecordAt(k, t)'
  BY <1>1, <1>4, <1>9, <1>11, <1>14
<1>16. \A t \in Recorded' : \E k \in LineStarts' : RecordAt(k, t)'
  BY <1>1, <1>4, <1>9, <1>11, <1>14
<1>17. \A k, j \in LineStarts' : file'[k] = file'[j] => k = j
  <2>1. \A k \in LineStarts : file'[k] = file[k]
    BY <1>5, <1>9
  <2>2. \A k \in LineStarts : file'[k] # file'[a + 1]
    BY <1>6, <1>9, <2>1
  <2>3. \A k, j \in LineStarts : file[k] = file[j] => k = j
    BY <1>4
  <2> QED
    BY <1>11, <2>1, <2>2, <2>3
<1> QED
  BY <1>12, <1>13, <1>15, <1>16, <1>17 DEF Kept

\* A record under a name that is taken is written behind the first head of that name, which
\* then comes before one of its own; nothing else that a head promises is disturbed.
LEMMA SoundWrite ==
  ASSUME TypeOK, Sessional, Timed, Sound, NEW s \in Sessions, Write(s)
  PROVE  Sound'
<1> SUFFICES ASSUME timely, s \in current, Uncut',
                    NEW n, n = cmd[s].record_name, NEW a, a = offset[s],
                    NEW l, l = DataLen(s), NEW last, last = Len(order) + 1
             PROVE  Sound'
  BY DEF Sound, Write
<1>1. /\ file \in Seq(Cell) /\ order \in Seq(Sessions) /\ cmd' = cmd
      /\ Len(file) \in Nat /\ DOMAIN file = 1..Len(file)
      /\ LineStarts \in SUBSET (1..Len(file))
  BY Cells DEF TypeOK, Write
<1>2. /\ n \in Names
      /\ \A i \in DOMAIN order : NameOf(i)' = NameOf(i) /\ order'[i] = order[i]
      /\ NameOf(last)' = n /\ order'[last] = s
      /\ DOMAIN order' = DOMAIN order \cup {last}
      /\ \A i \in DOMAIN order : i < last
      /\ Under(n)' = Under(n) \cup {last}
      /\ \A m : m # n => Under(m)' = Under(m)
      /\ Cardinality(Under(n)) \in Nat
      /\ Cardinality(Under(n)') = Cardinality(Under(n)) + 1
      /\ Under(n) # {} => Cardinality(Under(n)) >= 1
  <2>1. NameAdded(s, n, last)
    BY OneMore, Zenon
  <2> QED
    BY <2>1, Zenon DEF NameAdded
<1>3. Uncut /\ \A i \in DOMAIN order : ~Beginning(n, NameOf(i))
  <2>1. \A i, j \in DOMAIN order' : ~Beginning(NameOf(i)', NameOf(j)')
    BY DEF Uncut, Beginning
  <2>2. last \in DOMAIN order' /\ \A i \in DOMAIN order : i \in DOMAIN order'
    BY <1>2
  <2>3. \A i, j \in DOMAIN order : ~Beginning(NameOf(i), NameOf(j))
    BY <1>2, <2>1, <2>2
  <2>4. \A i \in DOMAIN order : ~Beginning(n, NameOf(i))
    BY <1>2, <2>1, <2>2
  <2> QED
    BY <2>3, <2>4 DEF Uncut
<1>4. /\ Closed
      /\ \A k \in DOMAIN file : Is(k, "head") => Filed(k, file[k].of)
      /\ \A k, j \in DOMAIN file :
           Is(k, "head") /\ file[k] = file[j] /\ Cardinality(Under(file[k].of)) <= 1 => k = j
  BY <1>3 DEF Sound
<1>5. a = Search(n).at /\ a \in 0..Len(file)
  BY <1>1, Searching DEF Timed, Write
<1>6. ASSUME Search(n).found
      PROVE  /\ a \in LineStarts /\ Is(a, "head") /\ file[a] = HeadOf(n) /\ ~Is(a + 1, "head")
             /\ Filed(a, n)
  <2>1. \A k \in DOMAIN file : Is(k, "head") => Under(file[k].of) # {}
    BY <1>4 DEF Filed
  <2>2. a \in LineStarts /\ Is(a, "head") /\ file[a] = HeadOf(n) /\ ~Is(a + 1, "head")
    BY <1>2, <1>3, <1>5, <1>6, <2>1, FoundAtHead
  <2>3. file[a].of = n /\ a \in DOMAIN file
    BY <2>2 DEF HeadOf, Is
  <2> QED
    BY <1>4, <2>2, <2>3
<1>7. ASSUME ~Search(n).found
      PROVE  a = Len(file) /\ \A k \in LineStarts : NameInHand[k] # n
  BY <1>1, <1>5, <1>7, Searching
<1>8. a <= Len(file) /\ a \in Int
  BY <1>1, <1>5
<1>9. /\ a \in Nat /\ l \in 1..2 /\ file' \in Seq(Cell) /\ DOMAIN file' = 1..Len(file')
      /\ Len(file') = IF a + l + 2 > Len(file) THEN a + l + 2 ELSE Len(file)
      /\ \A k \in 1..Len(file) : k <= a \/ k > a + l + 2 => file'[k] = file[k]
      /\ file'[a + 1] = HeadOf(n) /\ RecordAt(a + 1, s)'
      /\ \A k \in Int : Is(k, "head")' <=>
           k = a + 1 \/ ((k <= a \/ k > a + l + 2) /\ Is(k, "head"))
      /\ \A k \in Int : Is(k, "end")' <=>
           k = a + l + 2 \/ ((k <= a \/ k > a + l + 2) /\ Is(k, "end"))
  <2>1. CellsWritten(s, n, a, l)
    BY <1>8, WrittenCells, Zenon
  <2> QED
    BY <2>1, Zenon DEF CellsWritten
<1>10. ASSUME NEW k \in DOMAIN file, k < a \/ k > a + l + 2, NEW i \in DOMAIN order,
              RecordAt(k, order[i])
       PROVE  RecordAt(k, order[i])'
  <2>1. order[i] \in Sessions
    BY <1>1
  <2> DEFINE d == DataLen(order[i])
  <2>2. /\ d \in 1..2 /\ k + d + 1 \in 1..Len(file) /\ Is(k + d + 1, "end")
        /\ \A j \in 1..d : Is(k + j, "data")
    BY <1>1, <1>10, <2>1, RecordCells
  <2> HIDE DEF d
  <2>3. k + d + 1 <= a \/ k > a + l + 2
    <3>1. CASE Search(n).found
      <4> SUFFICES ASSUME k < a, a < k + d + 1 \/ a = k + d + 1 PROVE FALSE
        BY <1>8, <1>10, <2>2
      <4>1. Is(a, "head")
        BY <1>6, <3>1
      <4>2. CASE a = k + d + 1
        BY <2>2, <4>1, <4>2 DEF Is
      <4>3. CASE a < k + d + 1
        <5>1. a - k \in 1..d /\ k + (a - k) = a
          <6>1. k \in Int
            BY <1>1
          <6> QED
            BY <1>8, <2>2, <4>3, <6>1
        <5>2. Is(k + (a - k), "data")
          BY <2>2, <5>1
        <5> QED
          BY <4>1, <5>1, <5>2 DEF Is
      <4> QED
        BY <4>2, <4>3
    <3>2. CASE ~Search(n).found
      BY <1>1, <1>7, <2>2, <3>2
    <3> QED
      BY <3>1, <3>2
  <2>4. RecordAt(k, order[i])
    BY <1>10
  <2>5. ASSUME NEW t \in Sessions, t = order[i]
        PROVE  RecordAt(k, t)'
    BY <1>8, <2>3, <2>4, <2>5, RecordStays DEF d
  <2> QED
    BY <1>2, <2>1, <2>5
<1>11. ASSUME NEW k \in DOMAIN file, NEW i \in Under(n), RecordAt(k, order[i]), k # a
       PROVE  ~(Cardinality(Under(n)') <= 2)
  <2> SUFFICES ASSUME Cardinality(Under(n)) <= 1 PROVE FALSE
    BY <1>2
  <2>1. order[i] \in Sessions /\ cmd[order[i]].record_name = n
    BY <1>1 DEF Under, NameOf
  <2>2. Is(k, "head") /\ file[k] = HeadOf(n) /\ Is(k + 1, "data")
    <3>1. /\ DataLen(order[i]) \in 1..2 /\ file[k] = HeadOf(n) /\ Is(k, "head")
          /\ \A j \in 1..DataLen(order[i]) : Is(k + j, "data")
      BY <1>1, <1>11, <2>1, RecordCells
    <3>2. 1 \in 1..DataLen(order[i])
      BY <3>1
    <3> QED
      BY <3>1, <3>2
  <2>3. file[k].of = n
    BY <2>2 DEF HeadOf
  <2>4. \A j \in DOMAIN file : file[j] = HeadOf(n) => j = k
    BY <1>4, <2>2, <2>3
  <2>5. CASE Search(n).found
    <3>1. a \in DOMAIN file /\ file[a] = HeadOf(n)
      BY <1>1, <1>6, <2>5
    <3> QED
      BY <1>11, <2>4, <3>1
  <2>6. CASE ~Search(n).found
    <3>1. k = 1 \/ Is(k - 1, "end") \/ file[k - 1] = HeadOf(n)
      BY <1>4, <2>2, <2>3 DEF Filed
    <3>2. k = 1 \/ (k - 1 \in DOMAIN file /\ k - 1 # k)
      BY <1>1
    <3>3. k \in LineStarts
      BY <2>2, <2>4, <3>1, <3>2 DEF LineStarts, Is
    <3>4. ~Is(k + 1, "head")
      BY <2>2 DEF Is
    <3> QED
      BY <1>1, <1>7, <2>2, <2>3, <2>6, <3>3, <3>4, NamesInHand
  <2> QED
    BY <2>5, <2>6
<1>12. ASSUME NEW k \in DOMAIN file, Is(k, "head"), k < a \/ k > a + l + 2,
              NEW m, m = file[k].of
       PROVE  Filed(k, m)'
  <2>1. Filed(k, m) /\ k \in Int /\ k - 1 \in Int /\ k + 1 \in Int
    BY <1>1, <1>4, <1>12
  <2>2. Under(m) \subseteq Under(m)' /\ Under(m) \subseteq DOMAIN order
    BY <1>2 DEF Under
  <2>3. k = 1 \/ Is(k - 1, "end")' \/ file'[k - 1] = HeadOf(m)
    <3>1. CASE k = a + l + 2 + 1
      <4>1. k - 1 = a + l + 2
        BY <1>9, <3>1
      <4> QED
        BY <1>9, <2>1, <4>1
    <3>2. CASE k # a + l + 2 + 1 /\ k # 1
      <4>1. k - 1 \in 1..Len(file) /\ (k - 1 <= a \/ k - 1 > a + l + 2)
        <5>1. k - 1 \in 1..Len(file)
          BY <1>1, <3>2
        <5>2. CASE k < a
          BY <1>8, <2>1, <5>1, <5>2
        <5>3. CASE k > a + l + 2
          <6>1. a + l + 2 \in Int
            BY <1>9
          <6>2. \A b \in Int : k > b /\ k # b + 1 => k - 1 > b
            BY <2>1
          <6> QED
            BY <3>2, <5>1, <5>3, <6>1, <6>2, Zenon
        <5> QED
          BY <1>12, <5>2, <5>3
      <4>2. file'[k - 1] = file[k - 1] /\ (Is(k - 1, "end")' <=> Is(k - 1, "end"))
        BY <1>1, <1>9, <2>1, <4>1 DEF Is
      <4> QED
        BY <2>1, <3>2, <4>2 DEF Filed
    <3> QED
      BY <3>1, <3>2
  <2>4. \/ Is(k + 1, "head")' /\ file'[k + 1] = HeadOf(m)
        \/ \E i \in Under(m)' : RecordAt(k, order[i])' /\ Newest(i, m)'
    <3>1. CASE Is(k + 1, "head") /\ file[k + 1] = HeadOf(m)
      <4>1. k + 1 \in 1..Len(file) /\ (k + 1 <= a \/ k + 1 > a + l + 2)
        BY <1>1, <1>9, <1>12, <2>1, <3>1 DEF Is
      <4> QED
        BY <1>9, <2>1, <3>1, <4>1
    <3>2. ASSUME NEW i \in Under(m), RecordAt(k, order[i]), Newest(i, m)
          PROVE  i \in Under(m)' /\ RecordAt(k, order[i])' /\ Newest(i, m)'
      <4>1. i \in Under(m)' /\ RecordAt(k, order[i])'
        BY <1>10, <1>12, <2>2, <3>2
      <4>2. CASE m # n
        <5>1. Under(m)' = Under(m)
          BY <1>2, <4>2
        <5> QED
          BY <3>2, <4>1, <5>1 DEF Newest
      <4>3. CASE m = n
        <5>1. k # a
          <6>1. a \in Int /\ l \in Nat
            BY <1>9
          <6> QED
            BY <1>12, <2>1, <6>1
        <5>2. ~(Cardinality(Under(m)') <= 2)
          BY <1>11, <3>2, <4>3, <5>1
        <5> QED
          BY <4>1, <5>2 DEF Newest
      <4> QED
        BY <4>2, <4>3
    <3> QED
      BY <2>1, <3>1, <3>2 DEF Filed
  <2>5. Under(m)' # {}
    BY <2>1, <2>2 DEF Filed
  <2>6. HeadOf(m)' = HeadOf(m)
    BY DEF HeadOf
  <2> QED
    BY <2>3, <2>4, <2>5, <2>6 DEF Filed
<1>13. ASSUME Search(n).found
       PROVE  Filed(a, n)'
  <2>1. Filed(a, n) /\ a \in 1..Len(file)
    BY <1>1, <1>6, <1>13
  <2>2. a = 1 \/ Is(a - 1, "end")' \/ file'[a - 1] = HeadOf(n)
    <3>1. CASE a # 1
      <4>1. a - 1 \in 1..Len(file) /\ a - 1 <= a /\ a - 1 \in Int
        BY <1>1, <2>1, <3>1
      <4>2. a - 1 # a + l + 2
        BY <1>9, <4>1
      <4>3. file'[a - 1] = file[a - 1] /\ (Is(a - 1, "end")' <=> Is(a - 1, "end"))
        BY <1>9, <4>1, <4>2
      <4> QED
        BY <2>1, <3>1, <4>3 DEF Filed
    <3> QED
      BY <3>1
  <2>3. Is(a + 1, "head")'
    BY <1>8, <1>9
  <2>4. Under(n)' # {} /\ HeadOf(n)' = HeadOf(n)
    BY <1>2 DEF HeadOf
  <2> QED
    BY <1>9, <2>2, <2>3, <2>4 DEF Filed
<1>14. Filed(a + 1, n)'
  <2>1. a + 1 = 1 \/ Is(a, "end")' \/ file'[a] = HeadOf(n)
    <3>1. CASE Search(n).found
      <4>1. a \in 1..Len(file) /\ a <= a
        BY <1>1, <1>6, <1>8, <3>1
      <4> QED
        BY <1>6, <1>9, <3>1, <4>1
    <3>2. CASE ~Search(n).found
      <4>1. a = 0 \/ Is(a, "end")
        BY <1>4, <1>7, <3>2 DEF Closed
      <4> QED
        BY <1>8, <1>9, <4>1
    <3> QED
      BY <3>1, <3>2
  <2>3. Newest(last, n)' /\ last \in Under(n)'
    <3>1. \A j \in Under(n)' : j <= last
      <4>1. last <= last /\ \A j \in Under(n) : j <= last
        BY <1>1, <1>2 DEF Under
      <4> QED
        BY <1>2, <4>1
    <3> QED
      BY <1>2, <3>1 DEF Newest
  <2>4. RecordAt(a + 1, order[last])'
    BY <1>2, <1>9
  <2>5. \E i \in Under(n)' : RecordAt(a + 1, order[i])' /\ Newest(i, n)'
    BY <2>3, <2>4
  <2>6. Under(n)' # {} /\ HeadOf(n)' = HeadOf(n)
    BY <1>2 DEF HeadOf
  <2>7. ASSUME NEW k, k = a + 1
        PROVE  Filed(k, n)'
    <3>1. k - 1 = a
      BY <1>8, <2>7
    <3> QED
      BY <2>1, <2>5, <2>6, <2>7, <3>1 DEF Filed
  <2> QED
    BY <2>7
<1>15. ASSUME NEW k \in DOMAIN file', Is(k, "head")'
       PROVE  \A m : m = file'[k].of => Filed(k, m)'
  <2>1. k \in Int
    BY <1>9
  <2>2. CASE k = a + 1
    <3>1. file'[k] = HeadOf(n) /\ HeadOf(n).of = n
      <4>1. HeadOf(n).of = n
        BY DEF HeadOf
      <4> QED
        BY <1>9, <2>2, <4>1, Zenon
    <3> QED
      BY <1>14, <2>2, <3>1
  <2>3. CASE k # a + 1
    <3>1. (k <= a \/ k > a + l + 2) /\ Is(k, "head")
      BY <1>9, <1>15, <2>1, <2>3
    <3>2. k \in 1..Len(file) /\ file'[k] = file[k]
      BY <1>1, <1>9, <3>1 DEF Is
    <3>3. CASE k = a
      <4>1. Search(n).found
        BY <1>1, <1>4, <1>7, <3>1, <3>2, <3>3 DEF Closed, Is
      <4>2. file[k].of = n
        BY <1>6, <3>3, <4>1 DEF HeadOf
      <4> QED
        BY <1>13, <3>2, <3>3, <4>1, <4>2
    <3>4. CASE k # a
      <4>1. k < a \/ k > a + l + 2
        BY <1>8, <2>1, <3>1, <3>4
      <4> QED
        BY <1>1, <1>12, <3>1, <3>2, <4>1
    <3> QED
      BY <3>3, <3>4
  <2> QED
    BY <2>2, <2>3
<1>16. Closed'
  <2>1. CASE a + l + 2 > Len(file)
    <3>1. Is(a + l + 2, "end")' /\ Len(file') = a + l + 2
      BY <1>9, <2>1
    <3> QED
      BY <3>1 DEF Closed, Is
  <2>2. CASE ~(a + l + 2 > Len(file))
    <3>1. Len(file) \in 1..Len(file) /\ Len(file') = Len(file)
      BY <1>1, <1>9, <2>2
    <3>2. Is(Len(file), "end")
      BY <1>4, <3>1 DEF Closed
    <3>3. Len(file) = a + l + 2 \/ Len(file) > a + l + 2
      BY <1>1, <1>9, <2>2
    <3>4. ASSUME NEW m, m = Len(file)
          PROVE  Is(m, "end")'
      <4>1. m \in Int
        BY <1>1, <3>4
      <4> QED
        BY <1>9, <3>2, <3>3, <3>4, <4>1, Zenon
    <3> QED
      BY <3>1, <3>4 DEF Closed, Is
  <2> QED
    BY <2>1, <2>2
<1>17. ASSUME NEW k \in DOMAIN file', NEW j \in DOMAIN file', Is(k, "head")',
              file'[k] = file'[j], NEW m, m = file'[k].of, Cardinality(Under(m)') <= 1
       PROVE  k = j
  <2>1. k \in Int /\ j \in Int /\ Is(j, "head")'
    BY <1>9, <1>17 DEF Is
  <2>2. CASE m = n
    <3>1. Under(n) = {}
      <4>1. Cardinality(Under(n)') <= 1
        BY <1>17, <2>2
      <4>2. ~(Cardinality(Under(n)) >= 1)
        BY <1>2, <4>1
      <4> QED
        BY <1>2, <4>2
    <3>2. \A i \in DOMAIN file : Is(i, "head") => file[i].of # n
      BY <1>4, <3>1 DEF Filed
    <3>3. ASSUME NEW i \in DOMAIN file', Is(i, "head")', file'[i].of = n
          PROVE  i = a + 1
      <4> SUFFICES ASSUME i # a + 1 PROVE FALSE
        OBVIOUS
      <4>1. (i <= a \/ i > a + l + 2) /\ Is(i, "head")
        <5>1. i \in Int
          BY <1>9
        <5> QED
          BY <1>9, <3>3, <5>1, Zenon
      <4>2. i \in 1..Len(file) /\ file'[i] = file[i]
        BY <1>1, <1>9, <4>1 DEF Is
      <4> QED
        BY <1>1, <3>2, <3>3, <4>1, <4>2
    <3>4. k = a + 1 /\ j = a + 1
      BY <1>17, <2>1, <2>2, <3>3
    <3> QED
      BY <3>4
  <2>3. CASE m # n
    <3>1. k # a + 1 /\ j # a + 1
      <4>1. file'[a + 1].of = n
        BY <1>9 DEF HeadOf
      <4> QED
        BY <1>17, <2>3, <4>1, Zenon
    <3>2. /\ (k <= a \/ k > a + l + 2) /\ Is(k, "head")
          /\ (j <= a \/ j > a + l + 2) /\ Is(j, "head")
      BY <1>9, <1>17, <2>1, <3>1
    <3>3. k \in 1..Len(file) /\ file'[k] = file[k] /\ j \in 1..Len(file) /\ file'[j] = file[j]
      BY <1>1, <1>9, <3>2 DEF Is
    <3>4. Under(m) = Under(m)'
      BY <1>2, <2>3
    <3> QED
      BY <1>1, <1>4, <1>17, <3>2, <3>3, <3>4
  <2> QED
    BY <2>2, <2>3
<1>18. \A k, j \in DOMAIN file' :
         Is(k, "head")' /\ file'[k] = file'[j] /\ Cardinality(Under(file[k].of)') <= 1 => k = j
  <2> SUFFICES ASSUME NEW k \in DOMAIN file', NEW j \in DOMAIN file', Is(k, "head")',
                      file'[k] = file'[j], Cardinality(Under(file[k].of)') <= 1
               PROVE  k = j
    OBVIOUS
  <2>1. ASSUME NEW m, m = file'[k].of
        PROVE  Under(file[k].of)' = Under(m)'
    BY <2>1 DEF Under
  <2> QED
    BY <1>17, <2>1
<1>19. \A k \in DOMAIN file' : Is(k, "head")' => Filed(k, file[k].of)'
  <2> SUFFICES ASSUME NEW k \in DOMAIN file', Is(k, "head")' PROVE Filed(k, file[k].of)'
    OBVIOUS
  <2>1. ASSUME NEW m, m = file'[k].of
        PROVE  Filed(k, file[k].of)'
    BY <1>15, <2>1
  <2> QED
    BY <2>1
<1> QED
  BY <1>16, <1>18, <1>19 DEF Sound
-----------------------------------------------------------------------------
LEMMA RecordInit == Init => RecordInv
<1> SUFFICES ASSUME Init PROVE RecordInv
  OBVIOUS
<1>1. file = <<>> /\ order = <<>>
  BY DEF Init
<1>2. DOMAIN file = {} /\ DOMAIN order = {} /\ LineStarts = {} /\ Recorded = {}
  BY <1>1 DEF LineStarts, Recorded
<1>3. Kept
  BY <1>1, <1>2 DEF Kept, Closed
<1>4. Sound
  BY <1>1, <1>2 DEF Sound, Closed
<1> QED
  BY <1>3, <1>4, BasicInit, TimedInit DEF RecordInv

LEMMA KeptStep ==
  ASSUME RecordInv, [Next]_vars
  PROVE  Kept' /\ Sound'
<1> USE DEF RecordInv
<1>1. CASE UNCHANGED vars
  BY <1>1, Untouched DEF vars
<1>2. ASSUME NEW s \in Sessions, Start(s)
      PROVE  Kept' /\ Sound'
  <2>1. s \notin Recorded /\ Recorded \subseteq Sessions
    <3>1. s \notin Recorded
      BY <1>2 DEF Sessional, Start
    <3>2. order \in Seq(Sessions)
      BY DEF TypeOK
    <3> QED
      BY <3>1, <3>2 DEF Recorded
  <2>2. \A t \in Recorded : cmd'[t] = cmd[t]
    BY <1>2, <2>1 DEF Start, TypeOK
  <2> QED
    BY <1>2, <2>2, Untouched DEF Start
<1>3. ASSUME NEW s \in Sessions, Access(s) \/ Open(s) \/ GiveUp(s) \/ Load(s)
      PROVE  Kept' /\ Sound'
  <2>1. file' = file /\ order' = order /\ cmd' = cmd
    BY <1>3 DEF Access, Open, GiveUp, Load
  <2>2. timely' => timely
    BY <1>3, Zenon DEF Access, Open, GiveUp, Load
  <2> QED
    BY <2>1, <2>2, Untouched
<1>4. ASSUME NEW s \in Sessions, Create(s)
      PROVE  Kept' /\ Sound'
  <2>1. CASE timely'
    <3>1. timely /\ s \in current /\ pc[s] = "create"
      BY <1>4, <2>1 DEF Create
    <3>2. file' = file /\ order' = order /\ cmd' = cmd
      BY <1>4, <3>1 DEF Create, Timed
    <3> QED
      BY <3>1, <3>2, Untouched
  <2>2. CASE ~timely'
    BY <2>2 DEF Kept, Sound
  <2> QED
    BY <2>1, <2>2
<1>5. ASSUME NEW s \in Sessions, Write(s)
      PROVE  Kept' /\ Sound'
  BY <1>5, KeptWrite, SoundWrite
<1> QED
  BY <1>1, <1>2, <1>3, <1>4, <1>5 DEF Next

LEMMA RecordStep == RecordInv /\ [Next]_vars => RecordInv'
  BY BasicStep, TimedStep, KeptStep DEF RecordInv

LEMMA Invariance == Spec => []RecordInv
  BY RecordInit, RecordStep, PTL DEF Spec

LEMMA KeptRecords == RecordInv => RecordsKept
<1> SUFFICES ASSUME RecordInv, timely, Distinct, NEW i \in DOMAIN order
             PROVE  Lookup(NameOf(i)) = DataOf(order[i])
  BY DEF RecordsKept, Distinct
<1> DEFINE s == order[i]
           n == NameOf(i)
<1>1. /\ \A k \in DOMAIN file : Is(k, "head") <=> k \in LineStarts
      /\ \A t \in Recorded : \E k \in LineStarts : RecordAt(k, t)
      /\ \A k, j \in LineStarts : file[k] = file[j] => k = j
  BY DEF RecordInv, Kept
<1>2. s \in Recorded /\ s \in Sessions /\ n = cmd[s].record_name /\ n \in Names
      /\ file \in Seq(Cell)
  BY DEF RecordInv, TypeOK, Sessional, Recorded, NameOf
<1>3. PICK k \in LineStarts : RecordAt(k, s)
  BY <1>1, <1>2
<1> HIDE DEF s
<1>4. LineStarts \in SUBSET (1..Len(file)) /\ DOMAIN file = 1..Len(file)
  BY <1>2, Cells
<1>5. Is(k, "head") /\ file[k] = HeadOf(n) /\ Is(k + 1, "data")
  <2>1. /\ DataLen(s) \in 1..2 /\ file[k] = HeadOf(n) /\ Is(k, "head")
        /\ \A j \in 1..DataLen(s) : Is(k + j, "data")
    BY <1>2, <1>3, <1>4, RecordCells
  <2>2. 1 \in 1..DataLen(s)
    BY <2>1
  <2> QED
    BY <2>1, <2>2
<1>6. NameInHand[k] = n
  BY <1>2, <1>5, NamesInHand DEF Is, HeadOf
<1> HIDE DEF n
<1>7. PICK first \in LineStarts :
        /\ NameInHand[first] = n
        /\ Search(n).found
        /\ Search(n).at = IF Is(first, "head") THEN first ELSE first - 1
  BY <1>2, <1>6, Searching
<1>8. Is(first, "head") /\ Search(n).at = first
  BY <1>1, <1>4, <1>7
<1>9. file[first] = HeadOf(n)
  BY <1>2, <1>7, <1>8, NamesInHand, Cells, RecordAssumption
<1>10. first = k
  BY <1>1, <1>5, <1>9
<1>11. Lookup(n) = DataOf(s)
  BY <1>2, <1>3, <1>7, <1>8, <1>10, LoadingRecord
<1> QED
  BY <1>11 DEF s, n

LEMMA NeverStaleStep ==
  ASSUME RecordInv, [Next]_vars, NEW s \in Sessions, NEW n, n = cmd[s].record_name,
         loaded'[s] # loaded[s], timely,
         \A i \in DOMAIN order : /\ ~Beginning(n, NameOf(i))
                                 /\ \A j \in DOMAIN order : ~Beginning(NameOf(j), NameOf(i))
  PROVE  \E i \in Under(n) :
           /\ loaded'[s] = DataOf(order[i])
           /\ Cardinality(Under(n)) <= 2 => \A j \in Under(n) : j <= i
<1> USE DEF RecordInv
<1>1. Load(s)
  <2>1. ASSUME NEW t \in Sessions,
               Start(t) \/ Access(t) \/ Open(t) \/ Create(t) \/ Write(t) \/ GiveUp(t)
        PROVE  FALSE
    BY <2>1 DEF Start, Access, Open, Create, Write, GiveUp
  <2>2. ASSUME NEW t \in Sessions, Load(t)
        PROVE  Load(s)
    BY <2>2 DEF Load, TypeOK
  <2>3. ~UNCHANGED vars
    BY DEF vars
  <2> QED
    BY <2>1, <2>2, <2>3 DEF Next
<1>2. /\ loaded'[s] = Lookup(n) /\ loaded[s] = <<>> /\ n \in Names
      /\ file \in Seq(Cell) /\ order \in Seq(Sessions)
  BY <1>1 DEF Load, Sessional, TypeOK
<1>3. Search(n).found
  BY <1>2 DEF Lookup
<1>4. Uncut
  BY DEF Uncut
<1>5. \A k \in DOMAIN file : Is(k, "head") => Filed(k, file[k].of)
  BY <1>4 DEF Sound
<1>6. PICK at \in LineStarts :
        at = Search(n).at /\ Is(at, "head") /\ file[at] = HeadOf(n) /\ ~Is(at + 1, "head")
  <2>1. \A k \in DOMAIN file : Is(k, "head") => Under(file[k].of) # {}
    BY <1>5 DEF Filed
  <2> QED
    BY <1>2, <1>3, <2>1, FoundAtHead
<1>7. Filed(at, n)
  BY <1>5, <1>6 DEF HeadOf, Is
<1>8. PICK i \in Under(n) : RecordAt(at, order[i]) /\ Newest(i, n)
  BY <1>6, <1>7 DEF Filed
<1>9. order[i] \in Sessions
  BY <1>2 DEF Under
<1>10. Lookup(n) = DataOf(order[i])
  BY <1>2, <1>3, <1>6, <1>8, <1>9, LoadingRecord
<1> QED
  BY <1>2, <1>8, <1>10 DEF Newest

\* Whatever sessions do at the same time, the file is made of whole cells and every place
\* to write at is in it or behind it, never before its start.
THEOREM TypeCorrect == Spec => []TypeOK
<1>1. Init => TypeOK /\ Sessional
  BY BasicInit
<1>2. TypeOK /\ Sessional /\ [Next]_vars => TypeOK' /\ Sessional'
  BY BasicStep
<1> QED
  BY <1>1, <1>2, PTL DEF Spec

\* Whatever the names and however many sessions: as long as nobody writes to the file
\* between a session's look at it and its own writing, records under different names can
\* all be loaded as they were written.
THEOREM NothingLost == Spec => []RecordsKept
  BY Invariance, KeptRecords, PTL

\* Unless one name begins like another, and as long as nobody writes between a session's
\* look and its own writing, what is loaded is a whole record of that name, and the last
\* one if the name was used no more than twice.
THEOREM NothingStale == Spec => NeverStale
<1>1. RecordInv /\ [Next]_vars =>
        [\A s \in Sessions :
           LET n == cmd[s].record_name IN
           /\ loaded'[s] # loaded[s] /\ timely
           /\ \A i \in DOMAIN order : /\ ~Beginning(n, NameOf(i))
                                     /\ \A j \in DOMAIN order : ~Beginning(NameOf(j), NameOf(i))
           => \E i \in Under(n) :
                /\ loaded'[s] = DataOf(order[i])
                /\ Cardinality(Under(n)) <= 2 => \A j \in Under(n) : j <= i]_vars
  BY NeverStaleStep
<1> QED
  BY <1>1, Invariance, PTL DEF Spec, NeverStale
=============================================================================
