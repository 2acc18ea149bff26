------------------------------ MODULE AllAssets ------------------------------
(***************************************************************************)
(* Project_work/working.c with --all: main forks one recorder process for  *)
(* each name in the file of records and waits.  A child leaves the loop    *)
(* and becomes a recorder, whose life is RecorderLifecycle.                *)
(*                                                                         *)
(* Ctrl-C goes to all processes of the terminal.  Main ignores it when it  *)
(* waits, but not before; a child ends, by default or by its handler.      *)
(***************************************************************************)
EXTENDS Integers, FiniteSets

CONSTANT Records \* records_amount

ASSUME AssetsAssumption == Records \in Nat \ {0}

VARIABLES
  apc,                 \* where the parent is
  current_process_num, \* the parent's copy
  forked,              \* how many children there are
  asset,               \* the asset number each child records, -1 before it is forked
  child                \* whether each child runs, has ended or was waited for

assetVars == <<apc, current_process_num, forked, asset, child>>

Procs == 0..Records-1

AssetInit ==
  /\ apc = "fork" /\ current_process_num = 0 /\ forked = 0
  /\ asset = [p \in Procs |-> -1] /\ child = [p \in Procs |-> "none"]

\* Mutant: the number is set when the child is already there.
ForkStale ==
  /\ apc = "fork"
  /\ current_process_num' = forked
  /\ asset' = [asset EXCEPT ![forked] = current_process_num]
  /\ child' = [child EXCEPT ![forked] = "runs"]
  /\ forked' = forked + 1
  /\ apc' = IF forked' = Records THEN "sigset" ELSE "fork"

\* The child takes the parent's current_process_num with it.
Fork ==
  /\ apc = "fork"
  /\ current_process_num' = forked
  /\ asset' = [asset EXCEPT ![forked] = current_process_num']
  /\ child' = [child EXCEPT ![forked] = "runs"]
  /\ forked' = forked + 1
  /\ apc' = IF forked' = Records THEN "sigset" ELSE "fork"

\* "Bad fork!": main exits and leaves the children that are there.
ForkFails ==
  /\ apc = "fork" /\ apc' = "failed"
  /\ current_process_num' = forked
  /\ UNCHANGED <<forked, asset, child>>

\* Ctrl-C before sigset(SIGINT, SIG_IGN) kills main as well.
Interrupted ==
  /\ apc \in {"fork", "sigset"} /\ apc' = "killed"
  /\ UNCHANGED <<current_process_num, forked, asset, child>>

Sigset ==
  /\ apc = "sigset" /\ apc' = "wait"
  /\ UNCHANGED <<current_process_num, forked, asset, child>>

\* A recorder is interrupted and ends.
ChildEnds(p) ==
  /\ child[p] = "runs"
  /\ child' = [child EXCEPT ![p] = "ended"]
  /\ UNCHANGED <<apc, current_process_num, forked, asset>>

\* for(...); wait(NULL): the semicolon ends the loop, so that main waits once.
WaitOnce ==
  /\ apc = "wait"
  /\ \E p \in Procs : child[p] = "ended" /\ child' = [child EXCEPT ![p] = "waited"]
  /\ apc' = "done"
  /\ UNCHANGED <<current_process_num, forked, asset>>

ForkAll   == Fork \/ ForkFails \/ Sigset
AssetNext == ForkAll \/ Interrupted \/ WaitOnce \/ \E p \in Procs : ChildEnds(p)

AssetSpec == AssetInit /\ [][AssetNext]_assetVars
-----------------------------------------------------------------------------
AssetTypeOK ==
  /\ apc \in {"fork", "sigset", "wait", "done", "failed", "killed"}
  /\ current_process_num \in Procs /\ forked \in 0..Records
  /\ asset \in [Procs -> -1..Records-1]
  /\ child \in [Procs -> {"none", "runs", "ended", "waited"}]

\* Every asset gets a recorder of its own, though it is named in a variable that main goes
\* on to change (working.c:80-93, 106-109), unless a fork fails or a Ctrl-C meets main
\* before it ignores it (97); and once all recorders have ended main does not wait for
\* ever, however many of them end before it waits.
AllRecorded ==
  /\ <>(apc \in {"failed", "killed"} \/ \A p \in Procs : asset[p] = p)
  /\ (\A p \in Procs : child[p] = "ended") ~> apc \in {"done", "killed"}
=============================================================================
