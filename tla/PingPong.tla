------------------------------- MODULE PingPong -------------------------------
(***************************************************************************)
(* FUPM_THE_: a child prints "FUPM" and signals its parent, which prints   *)
(* "champion" and signals back, for ever.  Both signals are blocked before *)
(* the fork; each process ignores the one it receives, and takes it with   *)
(* sigwait all the same, since a signal that is blocked stays pending.     *)
(***************************************************************************)
EXTENDS Integers

VARIABLES
  cpc,         \* where the child is
  ppc,         \* where the parent is
  usr1Pending, \* SIGUSR1 is pending for the child
  usr2Pending, \* SIGUSR2 is pending for the parent
  ahead,       \* how many more times "FUPM" was printed than "champion"
  answered,    \* history: "champion" was printed
  lost         \* history: a signal was discarded

pingVars == <<cpc, ppc, usr1Pending, usr2Pending, ahead, answered, lost>>

PingInit ==
  /\ cpc = "ignore" /\ ppc = "ignore" /\ usr1Pending = FALSE /\ usr2Pending = FALSE
  /\ ahead = 0 /\ answered = FALSE /\ lost = FALSE
-----------------------------------------------------------------------------
\* signal(SIG_IGN) discards the signal if it is pending.
ChildIgnore ==
  /\ cpc = "ignore" /\ cpc' = "print"
  /\ usr1Pending' = FALSE /\ lost' = (lost \/ usr1Pending)
  /\ UNCHANGED <<ppc, usr2Pending, ahead, answered>>

ChildPrint ==
  /\ cpc = "print" /\ cpc' = "kill"
  /\ ahead' = ahead + 1
  /\ UNCHANGED <<ppc, usr1Pending, usr2Pending, answered, lost>>

ChildKill ==
  /\ cpc = "kill" /\ cpc' = "wait"
  /\ usr2Pending' = TRUE
  /\ UNCHANGED <<ppc, usr1Pending, ahead, answered, lost>>

ChildWait ==
  /\ cpc = "wait" /\ usr1Pending /\ cpc' = "print"
  /\ usr1Pending' = FALSE
  /\ UNCHANGED <<ppc, usr2Pending, ahead, answered, lost>>

ParentIgnore ==
  /\ ppc = "ignore" /\ ppc' = "wait"
  /\ usr2Pending' = FALSE /\ lost' = (lost \/ usr2Pending)
  /\ UNCHANGED <<cpc, usr1Pending, ahead, answered>>

ParentWait ==
  /\ ppc = "wait" /\ usr2Pending /\ ppc' = "print"
  /\ usr2Pending' = FALSE
  /\ UNCHANGED <<cpc, usr1Pending, ahead, answered, lost>>

ParentPrint ==
  /\ ppc = "print" /\ ppc' = "kill"
  /\ ahead' = ahead - 1 /\ answered' = TRUE
  /\ UNCHANGED <<cpc, usr1Pending, usr2Pending, lost>>

\* Mutant: the parent loops back to its signal().
ParentKillIgnoring ==
  /\ ppc = "kill" /\ ppc' = "ignore"
  /\ usr1Pending' = TRUE
  /\ UNCHANGED <<cpc, usr2Pending, ahead, answered, lost>>

\* Mutant: the signals are not blocked, and the child ignores the one it is sent.
ParentKillUnblocked ==
  /\ ppc = "kill" /\ ppc' = "wait"
  /\ UNCHANGED <<cpc, usr1Pending, usr2Pending, ahead, answered, lost>>

ParentKill ==
  /\ ppc = "kill" /\ ppc' = "wait"
  /\ usr1Pending' = TRUE
  /\ UNCHANGED <<cpc, usr2Pending, ahead, answered, lost>>

PingChild  == ChildIgnore \/ ChildPrint \/ ChildKill \/ ChildWait
PingParent == ParentIgnore \/ ParentWait \/ ParentPrint \/ ParentKill

PingNext == PingChild \/ PingParent

PingSpec == PingInit /\ [][PingNext]_pingVars
-----------------------------------------------------------------------------
PingTypeOK ==
  /\ cpc \in {"ignore", "print", "kill", "wait"} /\ ppc \in {"ignore", "print", "kill", "wait"}
  /\ usr1Pending \in BOOLEAN /\ usr2Pending \in BOOLEAN
  /\ ahead \in Int /\ answered \in BOOLEAN /\ lost \in BOOLEAN

\* The two print in turn, whatever is lost (FUPM_THE_.c:27-43), and a signal is only lost
\* before the first answer: the child's first, when the parent is late to ignore it (36).
InTurn == ahead \in 0..1 /\ (lost => ~answered)

\* Unless it is, they print in turn for ever.
Alternate == /\ ahead = 0 ~> ahead = 1
             /\ ahead = 1 ~> ahead = 0 \/ lost
=============================================================================
