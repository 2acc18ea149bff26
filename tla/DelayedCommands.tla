--------------------------- MODULE DelayedCommands ---------------------------
(***************************************************************************)
(* hw_5b: for each line of a file a child is forked, which sleeps as long  *)
(* as the line says and then becomes the line's command.  The child gets   *)
(* to its command only through the test of the parent's loop.              *)
(***************************************************************************)
EXTENDS Integers, Sequences

CONSTANT MaxText \* bound: the lines of the file

ASSUME DelayAssumption == MaxText \in Nat

VARIABLES
  text,       \* each line: a command that "runs", one that cannot be "bad", or none "empty"
  terminated, \* the last line has its newline
  dpc,        \* where the parent is
  reads,      \* how many lines it has read
  kpc         \* where the child of each line is

delayVars == <<text, terminated, dpc, reads, kpc>>

\* Behind a last newline one more line is read, which is empty.
ReadLines == IF terminated THEN Append(text, "empty") ELSE text

DelayInit ==
  /\ text \in UNION {[1..n -> {"runs", "bad", "empty"}] : n \in 1..MaxText}
  /\ terminated \in BOOLEAN
  /\ dpc = "read" /\ reads = 0
  /\ kpc = [i \in 1..MaxText+1 |-> "none"]

\* is_it_EOF, once line i was read; a child has the value of its own line.
IsEOF(i) == i = Len(ReadLines)

\* A line is read and split, and a child forked for it.
ReadFork ==
  /\ dpc = "read"
  /\ reads' = reads + 1
  /\ kpc' = [kpc EXCEPT ![reads'] = "test"]
  /\ dpc' = IF IsEOF(reads') THEN "done" ELSE "read"
  /\ UNCHANGED <<text, terminated>>

\* Mutant: the child leaves the loop when the parent does.
TestParent(i) ==
  /\ kpc[i] = "test"
  /\ kpc' = [kpc EXCEPT ![i] = IF dpc = "done" THEN "done" ELSE "sleep"]
  /\ UNCHANGED <<text, terminated, dpc, reads>>

\* while(!is_it_EOF): the child of the last line leaves the loop; an empty line's reads
\* its time from a null pointer.
Test(i) ==
  /\ kpc[i] = "test"
  /\ kpc' = [kpc EXCEPT ![i] = IF IsEOF(i) \/ text[i] = "empty" THEN "done" ELSE "sleep"]
  /\ UNCHANGED <<text, terminated, dpc, reads>>

\* After its sleep the child becomes the command, or comes round again if it cannot.
Exec(i) ==
  /\ kpc[i] = "sleep"
  /\ kpc' = [kpc EXCEPT ![i] = IF text[i] = "runs" THEN "command" ELSE "test"]
  /\ UNCHANGED <<text, terminated, dpc, reads>>

DelayNext == ReadFork \/ \E i \in 1..MaxText+1 : Test(i) \/ Exec(i)

DelaySpec == DelayInit /\ [][DelayNext]_delayVars
-----------------------------------------------------------------------------
DelayTypeOK ==
  /\ text \in Seq({"runs", "bad", "empty"}) /\ Len(text) \in 1..MaxText
  /\ terminated \in BOOLEAN /\ dpc \in {"read", "done"} /\ reads \in 0..MaxText+1
  /\ kpc \in [1..MaxText+1 -> {"none", "test", "sleep", "command", "done"}]

\* In the end the commands of all lines are executed that have their newline, that of an
\* unterminated last line is not (hw_5b.c:34, 43, 49), and a command that cannot be is
\* tried for ever (54).
CommandsRun ==
  <>[]\A i \in DOMAIN text :
        LET newline == i < Len(text) \/ terminated
        IN  /\ kpc[i] = "command" <=> text[i] = "runs" /\ newline
            /\ kpc[i] \in {"test", "sleep"} <=> text[i] = "bad" /\ newline
=============================================================================
