------------------------------- MODULE Kitchen -------------------------------
(***************************************************************************)
(* washer_machine/kitchen.c: main forks the generator, the washer and the  *)
(* dryer, which run until each is done; the parent only waits for them.    *)
(* The IPC objects outlive the processes, so a run that was killed leaves  *)
(* them to the next one as they are.                                       *)
(***************************************************************************)
EXTENDS DishGenerator, DishDryer

VARIABLE runs \* how often the program has been started

vars == <<ipcVars, genVars, washVars, dryVars, runs>>

Init == IPCInit /\ GenInit /\ WashInit /\ DryInit /\ runs = 1

AllDone == gpc = "done" /\ wpc = "done" /\ dpc = "done"

\* The user starts the program again; ...get_access finds or recreates every object.
Rerun ==
  /\ runs < MaxRuns
  /\ KillAllowed \/ AllDone
  /\ runs' = runs + 1
  /\ gpc' = "start" /\ dishes_amount' = 0 /\ i' = 0
  /\ wpc' = WashBegin /\ current' = 0 /\ dish' = Blank
  /\ closing' = FALSE /\ msg_sent' = 0 /\ washed' = <<>>
  /\ dpc' = "start" /\ nodes_amount' = 0 /\ dried' = <<>>
  /\ removed' = {}
  /\ UNCHANGED <<sem, array, table, genQueue, dryQueue>>

GenStep  == Generator /\ UNCHANGED <<washVars, dryVars, runs>>
WashStep == Washer /\ UNCHANGED <<genVars, dryVars, runs>>
DryStep  == Dryer /\ UNCHANGED <<genVars, washVars, runs>>

Next == GenStep \/ WashStep \/ DryStep \/ Rerun

\* Each process is scheduled; on each semaphore and queue at most one process waits.
Fairness == WF_vars(GenStep) /\ WF_vars(WashStep) /\ WF_vars(DryStep)

Spec     == Init /\ [][Next]_vars
FairSpec == Spec /\ Fairness
-----------------------------------------------------------------------------
\* Every variable has its type.
TypeOK ==
  /\ IPCTypeOK /\ GenTypeOK /\ WashTypeOK /\ DryTypeOK
  /\ runs \in 1..MaxRuns

InOrder(work) ==
  /\ Len(work) <= dishes_amount + 1
  /\ \A k \in 1..Len(work) : work[k] = IF k <= dishes_amount THEN k ELSE END

\* The k-th thing the washer washes and the k-th thing the dryer dries is the
\* k-th dish made: nothing lost, doubled or reordered in either link.  All that
\* can follow is the end mark, once, when a consumer reads the mark's slot too
\* early (dish_washer.h:138, dish_dryer.h:26) and takes the mark for a dish.
DishOrder == InOrder(washed) /\ InOrder(dried) /\ Len(dried) <= Len(washed) + 1

\* A dish comes to the dryer washed (dish_washer.h:37,146): never with
\* is_it_clean unset, on either link.
DriedClean ==
  /\ dpc = "dry" => table[DrySlot].is_it_clean \/ table[DrySlot].time_to_wash = END
  /\ \A k \in 1..Len(dryQueue) :
       dryQueue[k].is_it_clean \/ dryQueue[k].time_to_wash = END

\* What the washer has put down and the dryer not yet dried, the dish that is
\* just being announced included.
Waiting == IF DryLink = "sem"
           THEN msg_sent + (IF wpc = "post" THEN 1 ELSE 0) - nodes_amount
           ELSE Len(dryQueue)

\* At most dryer_table_size dishes (kitchen.c:28) wait for the dryer: the washer
\* never writes into a slot of the table whose dish is not dry.
TableNotOverrun == Waiting <= TableSize

\* The dryer removes its objects as soon as it sees the end mark, which may be
\* before the washer has posted it.  That post is the only call that can meet a
\* removed object: all earlier calls of the send are over, and no later one comes.
NoUseOfRemoved ==
  /\ removed \cap {"place", "diff"} # {} => wpc \notin {"send", "put"}
  /\ "gen" \in removed => gpc = "done" /\ wpc = "done"

\* When the three processes have ended, no object of theirs is left with
\* anything in it: the next run finds what the first one found.
CleanExit == AllDone =>
  /\ sem = [s \in Sems |-> 0]
  /\ array = BlankArray /\ table = BlankTable
  /\ genQueue = <<>> /\ dryQueue = <<>>
-----------------------------------------------------------------------------
\* The three processes end, so that the parent's wait() calls return.
Termination == <>AllDone

Dishes(work) == SubSeq(work, 1, IF Len(work) < dishes_amount THEN Len(work) ELSE dishes_amount)

Pipeline == INSTANCE DishPipeline
  WITH total <- dishes_amount, made <- i, washed <- Dishes(washed), dried <- Dishes(dried)

\* The kitchen implements the pipeline: each step of a process is a step of the
\* pipeline or none, and the pipeline never stops before every dish is dry.
ImplementsPipeline == Pipeline!Spec
=============================================================================
