------------------------------ MODULE RecordFile ------------------------------
(***************************************************************************)
(* Project_work: the file of records.  A session is started with options   *)
(* (ParseCmdArgs) and writes its connection under a name to the file, or   *)
(* loads one (ConnectionData).  A writer looks whether the file is there,  *)
(* opens it and searches for the name, and writes where the search ended;  *)
(* several sessions may do so at the same time.                            *)
(*                                                                         *)
(* The text of a record is a head, "[[Record_name:X]", one piece of data   *)
(* or two (with a query) of the session that wrote it, and the end of the  *)
(* line.  Heads, pieces and ends are taken to be of one length.            *)
(***************************************************************************)
EXTENDS Integers, SequencesExt

CONSTANTS
  Sessions,
  Names,
  Shorter(_),  \* external: a name without its last character
  NoName,      \* a text that is no name, nor becomes one when it is cut
  Commands     \* the lists of options sessions are started with

Option == [opt : {"load", "record"}, arg : Names] \cup [opt : {"query"}, arg : {NoName}]

ASSUME RecordAssumption ==
  /\ NoName \notin Names /\ Shorter(NoName) = NoName
  /\ \A n \in Names : Shorter(n) \in Names \cup {NoName}
  /\ Commands \subseteq Seq(Option)

VARIABLES
  exists,  \* the file is there
  file,    \* its contents, a sequence of cells
  pc,      \* where each session is
  cmd,     \* its parsed options
  offset,  \* how many cells lie before the place where it will write
  loaded,  \* what it loaded
  order,   \* history: the sessions that have written, in order
  current, \* history: the sessions that have looked at the file since it was last written
  timely   \* history: whoever cut or wrote the file was one of them

vars == <<exists, file, pc, cmd, offset, loaded, order, current, timely>>

NoCmd == [load_data |-> FALSE, session_record |-> FALSE, query_existance |-> FALSE,
          record_name |-> NoName]

\* --load and --record set the one record_name.
SetOption(c, o) ==
  CASE o.opt = "load"   -> [c EXCEPT !.load_data = TRUE, !.record_name = o.arg]
    [] o.opt = "record" -> [c EXCEPT !.session_record = TRUE, !.record_name = o.arg]
    [] o.opt = "query"  -> [c EXCEPT !.query_existance = TRUE]

Init ==
  /\ exists = FALSE /\ file = <<>>
  /\ pc = [s \in Sessions |-> "options"] /\ cmd = [s \in Sessions |-> NoCmd]
  /\ offset = [s \in Sessions |-> 0] /\ loaded = [s \in Sessions |-> <<>>]
  /\ order = <<>> /\ current = {} /\ timely = TRUE
-----------------------------------------------------------------------------
Cell       == [kind : {"head"}, of : Names] \cup [kind : {"data"}, of : Sessions]
                \cup [kind : {"end", "hole"}, of : {NoName}]
HeadOf(n)   == [kind |-> "head", of |-> n]
End        == [kind |-> "end",  of |-> NoName]
Hole       == [kind |-> "hole", of |-> NoName]

DataOf(s)  == [k \in 1..(IF cmd[s].query_existance THEN 2 ELSE 1) |->
                 [kind |-> "data", of |-> s]]
TextOf(s)  == <<HeadOf(cmd[s].record_name)>> \o DataOf(s) \o <<End>>

Is(k, kind) == k \in DOMAIN file /\ file[k].kind = kind

\* A name is read up to the next blank: two heads that touch are one long name.  Where
\* no head is, the name of the line before stays and is cut once more.
NameAt(k, before) ==
  IF ~Is(k, "head") THEN Shorter(before)
  ELSE IF Is(k + 1, "head") THEN NoName ELSE file[k].of

\* A line starts behind an end of line; blank lines are skipped.
LineStarts == {k \in DOMAIN file : ~Is(k, "end") /\ (k = 1 \/ Is(k - 1, "end"))}

\* The name in hand at each line, in check_name_existance.
NameInHand ==
  LET name[k \in LineStarts] ==
        NameAt(k, IF \A j \in LineStarts : j >= k THEN NoName
                  ELSE name[CHOOSE j \in LineStarts :
                              /\ j < k
                              /\ \A i \in LineStarts : i < k => i <= j])
  IN  name

\* How far the search for a name reads: past its head, or to the end of the file.
Search(n) ==
  LET found == {k \in LineStarts : NameInHand[k] = n}
      first == CHOOSE k \in found : \A j \in found : k <= j
  IN  IF found = {} THEN [found |-> FALSE, at |-> Len(file)]
      ELSE [found |-> TRUE, at |-> IF Is(first, "head") THEN first ELSE first - 1]

\* What load_record reads: the rest of the line.
Lookup(n) ==
  LET from == Search(n).at + 1
      line == {k \in from..Len(file) : \A j \in from..k : ~Is(j, "end")}
  IN  IF Search(n).found THEN [i \in 1..Cardinality(line) |-> file[from + i - 1]] ELSE <<>>

\* The file with a text written at a place, over what is there.
Written(at, text) ==
  [k \in 1..(IF at + Len(text) > Len(file) THEN at + Len(text) ELSE Len(file)) |->
     IF k > at /\ k <= at + Len(text) THEN text[k - at]
     ELSE IF k <= Len(file) THEN file[k] ELSE Hole]
-----------------------------------------------------------------------------
\* A session parses its options; --load wins over --record.
Start(s) ==
  /\ pc[s] = "options"
  /\ \E c \in Commands :
       LET parsed == FoldLeft(SetOption, NoCmd, c) IN
       /\ cmd' = [cmd EXCEPT ![s] = parsed]
       /\ pc' = [pc EXCEPT ![s] = IF parsed.load_data THEN "load"
                                  ELSE IF parsed.session_record THEN "access" ELSE "done"]
  /\ UNCHANGED <<exists, file, offset, loaded, order, current, timely>>

\* access: is the file there?
Access(s) ==
  /\ pc[s] = "access"
  /\ pc' = [pc EXCEPT ![s] = IF exists THEN "open" ELSE "create"]
  /\ current' = current \cup {s}
  /\ UNCHANGED <<exists, file, cmd, offset, loaded, order, timely>>

\* Mutant: a name that is taken is written once more behind all the others.
OpenAtEnd(s) ==
  /\ pc[s] = "open"
  /\ offset' = [offset EXCEPT ![s] = Len(file)]
  /\ pc' = [pc EXCEPT ![s] = "write"]
  /\ current' = current \cup {s}
  /\ UNCHANGED <<exists, file, cmd, loaded, order, timely>>

\* Mutant: the search is left out.
OpenAtStart(s) ==
  /\ pc[s] = "open"
  /\ pc' = [pc EXCEPT ![s] = "write"]
  /\ current' = current \cup {s}
  /\ UNCHANGED <<exists, file, cmd, offset, loaded, order, timely>>

\* fopen(.., "r+") and the search.
Open(s) ==
  /\ pc[s] = "open"
  /\ offset' = [offset EXCEPT ![s] = Search(cmd[s].record_name).at]
  /\ pc' = [pc EXCEPT ![s] = "write"]
  /\ current' = current \cup {s}
  /\ UNCHANGED <<exists, file, cmd, loaded, order, timely>>

\* fopen(.., "w") cuts the file, though one may have come into being since.
Create(s) ==
  /\ pc[s] = "create"
  /\ exists' = TRUE /\ file' = <<>>
  /\ pc' = [pc EXCEPT ![s] = "write"]
  /\ timely' = (timely /\ s \in current)
  /\ UNCHANGED <<cmd, offset, loaded, order, current>>

\* fclose writes the record, also if the name is taken: the result of the search is in a
\* variable that hides the one that is tested.
Write(s) ==
  /\ pc[s] = "write"
  /\ file' = Written(offset[s], TextOf(s))
  /\ order' = Append(order, s)
  /\ pc' = [pc EXCEPT ![s] = "done"]
  /\ current' = {} /\ timely' = (timely /\ s \in current)
  /\ UNCHANGED <<exists, cmd, offset, loaded>>

\* A session ends before fclose and writes nothing: its address cannot be parsed, fopen
\* fails, or it is killed.
GiveUp(s) ==
  /\ pc[s] \in {"access", "open", "create", "write"}
  /\ pc' = [pc EXCEPT ![s] = "done"]
  /\ current' = current \ {s}
  /\ UNCHANGED <<exists, file, cmd, offset, loaded, order, timely>>

\* A session loads a record, if there is the file and the name.
Load(s) ==
  /\ pc[s] = "load"
  /\ loaded' = [loaded EXCEPT ![s] = Lookup(cmd[s].record_name)]
  /\ pc' = [pc EXCEPT ![s] = "done"]
  /\ UNCHANGED <<exists, file, cmd, offset, order, current, timely>>

Next == \E s \in Sessions :
  Start(s) \/ Access(s) \/ Open(s) \/ Create(s) \/ Write(s) \/ GiveUp(s) \/ Load(s)

Spec == Init /\ [][Next]_vars
-----------------------------------------------------------------------------
\* Every variable has its type; no place to write at lies before the file.
TypeOK ==
  /\ exists \in BOOLEAN /\ file \in Seq(Cell)
  /\ pc \in [Sessions -> {"options", "load", "access", "open", "create", "write", "done"}]
  /\ cmd \in [Sessions -> [load_data : BOOLEAN, session_record : BOOLEAN,
                           query_existance : BOOLEAN, record_name : Names \cup {NoName}]]
  /\ offset \in [Sessions -> Nat] /\ loaded \in [Sessions -> Seq(Cell)]
  /\ order \in Seq(Sessions) /\ current \subseteq Sessions /\ timely \in BOOLEAN

NameOf(i) == cmd[order[i]].record_name

Distinct == \A i, j \in DOMAIN order : NameOf(i) = NameOf(j) => i = j

\* "Current name has already been used! Cannot make a record." (ConnectionData.cpp:52):
\* unless another session wrote between its look at the file and its own writing, a
\* session writes no record under a name that is taken.
NameRefused == timely => Distinct

\* Whatever sessions did in between, records under different names are all kept, each to
\* be loaded as it was written, as long as nobody wrote to the file between a session's
\* look at it (access, or the search) and its cutting (fopen "w") or writing it
\* (ConnectionData.cpp:27-48, 62-75).
RecordsKept ==
  timely /\ Distinct => \A i \in DOMAIN order : Lookup(NameOf(i)) = DataOf(order[i])

\* Name n is what is left of name m when it is cut, once or more often.
Beginning(n, m) ==
  \A C \in SUBSET (Names \cup {NoName}) :
    Shorter(m) \in C /\ (\A c \in C : Shorter(c) \in C) => n \in C

\* What was recorded under a name.
Under(n) == {i \in DOMAIN order : NameOf(i) = n}

\* What is left when a taken name is not refused (34): unless one name begins like another
\* or a session wrote what another had already looked at, a session still loads what was
\* recorded under its name or nothing, never a part of a record nor one of another name;
\* and of a name used twice it loads the newer record.
NeverStale ==
  [][\A s \in Sessions :
       LET n == cmd[s].record_name IN
       /\ loaded'[s] # loaded[s] /\ timely
       /\ \A i \in DOMAIN order : /\ ~Beginning(n, NameOf(i))
                                 /\ \A j \in DOMAIN order : ~Beginning(NameOf(j), NameOf(i))
       => \E i \in Under(n) :
            /\ loaded'[s] = DataOf(order[i])
            /\ Cardinality(Under(n)) <= 2 => \A j \in Under(n) : j <= i]_vars
=============================================================================
