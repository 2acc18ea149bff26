------------------------------- MODULE FindFile -------------------------------
(***************************************************************************)
(* find_me: the directories are searched, down to a depth, for a file of   *)
(* a name.  What an entry is the search asks of stat with the bare name,   *)
(* which looks in the working directory instead of the one that is read;   *)
(* if there is nothing of that name, buf says what it said of the entry    *)
(* before.                                                                 *)
(*                                                                         *)
(* A directory is a number, 1 the working directory, and its listing the   *)
(* sequence of its entries, in any order; ".." is left out, "." does the   *)
(* same.  The files are not changed meanwhile, and paths are short enough. *)
(* Any directory may be refused to opendir (no permission, too many open). *)
(***************************************************************************)
EXTENDS Integers, Sequences

CONSTANTS
  Trees,       \* the listings of all directories
  Wanted,      \* name_to_find
  MaxDepth     \* bound: depth_of_search

VARIABLES
  listing,         \* what each directory holds
  name_to_open,    \* the directory the search began with
  depth_of_search, \* and its depth
  calls,           \* the calls of find_the_file, the innermost last
  found,           \* the directories whose path was printed
  fpc              \* whether it is to open the first directory, searches, is done, or was
                   \* killed: on no directory, or on one that was refused

findVars == <<listing, name_to_open, depth_of_search, calls, found, fpc>>

Cwd    == 1
NoDir  == 0  \* what an entry is that is no directory
Self   == "."

\* What a file system is: an entry is no directory or one of those there are, a name is
\* once in a directory, "." is the directory itself, and no other entry is the working
\* directory (there are no links).  The name that is looked for is not ".".
ASSUME TreeAssumption ==
  /\ MaxDepth \in Nat /\ Trees # {} /\ Wanted # Self
  /\ \A t \in Trees :
       /\ Cwd \in DOMAIN t /\ NoDir \notin DOMAIN t
       /\ \A d \in DOMAIN t :
            /\ t[d] \in Seq([name : STRING, is : {NoDir} \cup DOMAIN t])
            /\ \A k, n \in DOMAIN t[d] : t[d][k].name = t[d][n].name => k = n
            /\ \A k \in DOMAIN t[d] : t[d][k].name = Self => t[d][k].is = d
            /\ \A k \in DOMAIN t[d] : t[d][k].is = Cwd => t[d][k].name = Self

\* A call reads one entry of its directory after the other.
Call(d, depth) == [dir |-> d, next |-> 1, buf |-> FALSE, depth |-> depth]

FindInit ==
  /\ listing \in Trees /\ name_to_open \in DOMAIN listing
  /\ depth_of_search \in 0..MaxDepth
  /\ calls = <<Call(name_to_open, depth_of_search)>>
  /\ found = {} /\ fpc = "open"

Top   == calls[Len(calls)]
Entry == listing[Top.dir][Top.next]

\* What stat leaves in buf: is it a directory?
Stat ==
  LET named == {k \in DOMAIN listing[Cwd] : listing[Cwd][k].name = Entry.name}
  IN  IF named = {} THEN Top.buf ELSE \E k \in named : listing[Cwd][k].is # NoDir

TakenForDirectory == Stat /\ Top.depth # 0 /\ Entry.name # Self

Reading == fpc = "search" /\ Top.next <= Len(listing[Top.dir])

\* The calls, the innermost one entry further.
Advanced == [calls EXCEPT ![Len(calls)].next = @ + 1, ![Len(calls)].buf = Stat]

\* opendir of the directory that was asked for.
OpenFirst ==
  /\ fpc = "open" /\ fpc' = "search"
  /\ UNCHANGED <<listing, name_to_open, depth_of_search, calls, found>>

\* Mutant: the depth is handed on as it is.
DescendFurther ==
  /\ Reading /\ TakenForDirectory /\ Entry.is # NoDir
  /\ calls' = Append(Advanced, Call(Entry.is, Top.depth))
  /\ UNCHANGED <<listing, name_to_open, depth_of_search, found, fpc>>

\* A directory is searched before the next entry.
Descend ==
  /\ Reading /\ TakenForDirectory /\ Entry.is # NoDir
  /\ calls' = Append(Advanced, Call(Entry.is, Top.depth - 1))
  /\ UNCHANGED <<listing, name_to_open, depth_of_search, found, fpc>>

\* A directory is refused, the first or another: readdir(NULL) kills the process.
Refuse ==
  /\ fpc = "open" \/ (Reading /\ TakenForDirectory /\ Entry.is # NoDir)
  /\ fpc' = "refused"
  /\ UNCHANGED <<listing, name_to_open, depth_of_search, calls, found>>

\* opendir fails on what is no directory, and readdir(NULL) kills the process.
OpenFails ==
  /\ Reading /\ TakenForDirectory /\ Entry.is = NoDir
  /\ fpc' = "killed"
  /\ UNCHANGED <<listing, name_to_open, depth_of_search, calls, found>>

\* Any other entry is compared with the name.
Compare ==
  /\ Reading /\ ~TakenForDirectory
  /\ found' = IF Entry.name = Wanted THEN found \cup {Top.dir} ELSE found
  /\ calls' = Advanced
  /\ UNCHANGED <<listing, name_to_open, depth_of_search, fpc>>

\* closedir, and back to the call before.
Close ==
  /\ fpc = "search" /\ Top.next > Len(listing[Top.dir])
  /\ calls' = SubSeq(calls, 1, Len(calls) - 1)
  /\ fpc' = IF Len(calls) = 1 THEN "done" ELSE "search"
  /\ UNCHANGED <<listing, name_to_open, depth_of_search, found>>

FindNext == OpenFirst \/ Refuse \/ Descend \/ OpenFails \/ Compare \/ Close

FindSpec == FindInit /\ [][FindNext]_findVars
-----------------------------------------------------------------------------
FindTypeOK ==
  /\ listing \in Trees /\ name_to_open \in DOMAIN listing /\ depth_of_search \in 0..MaxDepth
  /\ \A k \in DOMAIN calls :
       /\ calls[k].dir \in DOMAIN listing
       /\ calls[k].next \in 1..Len(listing[calls[k].dir])+1
       /\ calls[k].buf \in BOOLEAN /\ calls[k].depth \in 0..MaxDepth
  /\ found \subseteq DOMAIN listing /\ fpc \in {"open", "search", "done", "killed", "refused"}

\* What stat says is right of the entries of the working directory (find_me.c:61).
Near == name_to_open = Cwd /\ depth_of_search <= 1

\* A search that only asks about these takes no file for a directory (50, 61, 76): it is
\* killed only if a directory is refused; and one that comes to its end has found the name
\* wherever it is no directory that is searched itself (70, 89).
FoundAll ==
  Near => fpc # "killed" /\ (fpc = "done" =>
    LET Below == IF depth_of_search = 0 THEN {}
                 ELSE {listing[Cwd][k].is : k \in DOMAIN listing[Cwd]} \ {NoDir, Cwd}
    IN  found = {d \in {Cwd} \cup Below :
                   \E k \in DOMAIN listing[d] :
                     /\ listing[d][k].name = Wanted
                     /\ d = Cwd /\ depth_of_search = 1 => listing[d][k].is = NoDir})
=============================================================================
