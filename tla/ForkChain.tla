------------------------------ MODULE ForkChain ------------------------------
(***************************************************************************)
(* my_prog and my_prog1: a chain of processes, each the child of the one   *)
(* before.  Every process but the last waits for its child; then it ends   *)
(* (my_prog), or becomes the command of a line of a file (my_prog1), the   *)
(* last process that of the first line.                                    *)
(***************************************************************************)
EXTENDS Integers, Sequences

CONSTANT MaxNodes \* bound: the length of the chain

ASSUME ChainAssumption == MaxNodes \in Nat \ {0}

VARIABLES
  commands, \* it is my_prog1
  nodes,    \* the number entered, or of the lines
  lpc,      \* where the process of each level is
  order     \* history: the levels that ended or became their command, in order

chainVars == <<commands, nodes, lpc, order>>

\* The last level: the first fork comes before any test.
Deep == LET d == IF commands THEN nodes - 1 ELSE nodes IN IF d < 1 THEN 1 ELSE d

Levels == 0..MaxNodes

\* line_counter - current_fork_lvl
LineOf(l) == nodes - 1 - l

ChainInit ==
  /\ commands \in BOOLEAN
  /\ nodes \in IF commands THEN 1..MaxNodes ELSE 0..MaxNodes
  /\ lpc = [l \in Levels |-> IF l = 0 THEN "fork" ELSE "none"]
  /\ order = <<>>

\* my_prog does not enter its loop without nodes.
Waits == commands \/ nodes > 0

\* A process forks the next level.
ChainFork(l) ==
  /\ lpc[l] = "fork"
  /\ lpc' = [lpc EXCEPT ![l] = IF Waits THEN "wait" ELSE "act",
                        ![l + 1] = IF l + 1 < Deep THEN "fork" ELSE "act"]
  /\ UNCHANGED <<commands, nodes, order>>

\* Mutant: it goes on as soon as the child is there.
ChainWaitNot(l) ==
  /\ lpc[l] = "wait"
  /\ lpc' = [lpc EXCEPT ![l] = "act"]
  /\ UNCHANGED <<commands, nodes, order>>

\* wait: the child has ended, be it as a command.
ChainWait(l) ==
  /\ lpc[l] = "wait" /\ lpc[l + 1] = "done"
  /\ lpc' = [lpc EXCEPT ![l] = "act"]
  /\ UNCHANGED <<commands, nodes, order>>

\* exit, or execvp with the line of the level, which is behind the array if there is only
\* one line; should it fail the process ends.
ChainAct(l) ==
  /\ lpc[l] = "act"
  /\ lpc' = [lpc EXCEPT ![l] = IF commands THEN "command" ELSE "done"]
  /\ order' = Append(order, l)
  /\ UNCHANGED <<commands, nodes>>

\* external: the command ends.
ChainEnd(l) ==
  /\ lpc[l] = "command"
  /\ lpc' = [lpc EXCEPT ![l] = "done"]
  /\ UNCHANGED <<commands, nodes, order>>

Level(l) == ChainFork(l) \/ ChainWait(l) \/ ChainAct(l) \/ ChainEnd(l)

ChainNext == \E l \in Levels : Level(l)

ChainSpec == ChainInit /\ [][ChainNext]_chainVars
-----------------------------------------------------------------------------
ChainTypeOK ==
  /\ commands \in BOOLEAN /\ nodes \in 0..MaxNodes
  /\ lpc \in [Levels -> {"none", "fork", "wait", "act", "command", "done"}]
  /\ order \in Seq(Levels)

\* Processes end from the last to the first (my_prog.c:26-37), and no command begins before
\* the one before has ended.  So the lines are executed in the order of the file, from the
\* first (my_prog1.c:81, 87); of a file of one line the child takes the one before it.
DeepestFirst ==
  Waits => \A i \in DOMAIN order :
    /\ order[i] = Deep - i + 1
    /\ i > 1 => lpc[order[i - 1]] = "done"
    /\ commands => LineOf(order[i]) = IF nodes = 1 THEN i - 2 ELSE i - 1
=============================================================================
