----------------------------- MODULE KitchenIPC -----------------------------
(***************************************************************************)
(* The System V IPC objects through which the three processes of           *)
(* washer_machine/kitchen.c (generator, washer, dryer) work together, and  *)
(* the record that travels through them.  The processes are the modules    *)
(* DishGenerator, DishWasher and DishDryer; Kitchen composes them.         *)
(*                                                                         *)
(* An object is named by the role it plays.  Removing one (IPC_RMID) puts  *)
(* its contents back to what the next ...get_access would create, and      *)
(* remembers in `removed' that the identifiers still held are dead.        *)
(***************************************************************************)
EXTENDS Integers, Sequences

CONSTANTS
  GenLink,    \* argv[1]: the generator-washer link, "sem" or "queue"
  DryLink,    \* argv[2]: the washer-dryer link, "sem" or "queue"
  TableSize,  \* argv[3]: the slots of the dryer's table
  MaxDishes,  \* the largest value of rand() % 10 + 1
  ArraySize,  \* WASHER_ARRAY_SIZE
  WashTimes,  \* the values of rand() % 10
  QueueCap,   \* the messages a System V queue holds (msg_qbytes)
  MaxRuns,    \* bound: how often the program is started on the same objects
  KillAllowed \* TRUE if a run may be killed before it is over

END == 100500  \* END_OF_THE_DAY

ASSUME KitchenAssumption ==
  /\ GenLink \in {"sem", "queue"} /\ DryLink \in {"sem", "queue"}
  /\ TableSize \in Nat \ {0}
  /\ MaxDishes \in Nat \ {0} /\ MaxDishes < END
  /\ ArraySize \in Nat /\ ArraySize > MaxDishes + 1
  /\ WashTimes \subseteq Nat /\ WashTimes # {} /\ END \notin WashTimes
  /\ QueueCap \in Nat \ {0}
  /\ MaxRuns \in Nat \ {0} /\ KillAllowed \in BOOLEAN

VARIABLES
  sem,      \* the semaphores' values
  array,    \* the shared memory between generator and washer
  table,    \* the shared memory between washer and dryer
  genQueue, \* the message queue between generator and washer
  dryQueue, \* the message queue between washer and dryer
  removed   \* the semaphores removed since the program was started

ipcVars == <<sem, array, table, genQueue, dryQueue, removed>>

Sems == {"gen", "place", "diff"}

(***************************************************************************)
(* dish_t.  `item' stands for dish_name: the number of the dish in the     *)
(* generator's order, 0 in memory never written.  time_to_dry (a copy of   *)
(* time_to_wash that only feeds sleep) and is_it_dry (never read) are left *)
(* out.                                                                    *)
(***************************************************************************)
Dish == [item : 0..MaxDishes, time_to_wash : WashTimes \cup {0, END}, is_it_clean : BOOLEAN]

Blank == [item |-> 0, time_to_wash |-> 0, is_it_clean |-> FALSE]

BlankArray == [k \in 0..ArraySize-1 |-> Blank]
BlankTable == [k \in 0..TableSize-1 |-> Blank]

IPCInit ==
  /\ sem = [s \in Sems |-> 0]
  /\ array = BlankArray
  /\ table = BlankTable
  /\ genQueue = <<>> /\ dryQueue = <<>>
  /\ removed = {}

(***************************************************************************)
(* semop with +n and with -1.  No caller looks at the result, so on a      *)
(* removed set both return at once and do nothing.                         *)
(***************************************************************************)
SemAdd(s, n) == sem' = IF s \in removed THEN sem ELSE [sem EXCEPT ![s] = @ + n]

SemTake(s) ==
  \/ s \in removed /\ UNCHANGED sem
  \/ s \notin removed /\ sem[s] > 0 /\ sem' = [sem EXCEPT ![s] = @ - 1]

SemRemove(s) ==
  /\ sem' = [sem EXCEPT ![s] = 0]
  /\ removed' = removed \cup {s}

IPCTypeOK ==
  /\ sem \in [Sems -> Nat]
  /\ array \in [0..ArraySize-1 -> Dish]
  /\ table \in [0..TableSize-1 -> Dish]
  /\ genQueue \in Seq(Dish) /\ Len(genQueue) <= QueueCap
  /\ dryQueue \in Seq(Dish) /\ Len(dryQueue) <= QueueCap
  /\ removed \subseteq Sems
=============================================================================
