------------------------------ MODULE DishDryer ------------------------------
(***************************************************************************)
(* The dryer process (washer_machine/dish_dryer.h): it opens table_size    *)
(* places, dries what the washer passes on and gives the places back.  At  *)
(* the end of the day it removes the objects of its link.                  *)
(***************************************************************************)
EXTENDS DishWasher

VARIABLES
  dpc,          \* where the dryer is
  nodes_amount, \* how many dishes it has taken from the table
  dried         \* history: what it dried, the end mark as END

dryVars == <<dpc, nodes_amount, dried>>

DryInit == dpc = "start" /\ nodes_amount = 0 /\ dried = <<>>

\* Mutant: the slot of the dish after the next one.
DrySlotAhead == (nodes_amount + 1) % TableSize

\* first_node + nodes_amount % table_size
DrySlot == nodes_amount % TableSize

\* Mutant: one place more than the table has.
DryStartOneMore ==
  /\ dpc = "start"
  /\ SemAdd("place", TableSize + 1)
  /\ dpc' = IF DryLink = "sem" THEN "first" ELSE "recv"
  /\ UNCHANGED <<nodes_amount, dried, array, table, genQueue, dryQueue, removed>>

\* sem_ini adds to whatever value the semaphore has.
DryStart ==
  /\ dpc = "start"
  /\ SemAdd("place", TableSize)
  /\ dpc' = IF DryLink = "sem" THEN "first" ELSE "recv"
  /\ UNCHANGED <<nodes_amount, dried, array, table, genQueue, dryQueue, removed>>

\* recieve_dishes_sem_clean: one dish is waited for before the loop;
DryFirst ==
  /\ dpc = "first"
  /\ SemTake("diff")
  /\ dpc' = "check"
  /\ UNCHANGED <<nodes_amount, dried, array, table, genQueue, dryQueue, removed>>

\* Mutant: an empty slot is taken for the end of the day.
DryCheckEmpty ==
  /\ dpc = "check"
  /\ dpc' = IF table[DrySlot].time_to_wash \in {0, END} THEN "close"
            ELSE IF nodes_amount # 0 THEN "wait" ELSE "dry"
  /\ UNCHANGED <<nodes_amount, dried, ipcVars>>

\* every later one after the loop condition has read its slot.
DryCheck ==
  /\ dpc = "check"
  /\ dpc' = IF table[DrySlot].time_to_wash = END THEN "close"
            ELSE IF nodes_amount # 0 THEN "wait" ELSE "dry"
  /\ UNCHANGED <<nodes_amount, dried, ipcVars>>

DryWait ==
  /\ dpc = "wait"
  /\ SemTake("diff")
  /\ dpc' = "dry"
  /\ UNCHANGED <<nodes_amount, dried, array, table, genQueue, dryQueue, removed>>

DryDish ==
  /\ dpc = "dry"
  /\ dried' = Append(dried, Tag(table[DrySlot]))
  /\ nodes_amount' = nodes_amount + 1
  /\ dpc' = "free"
  /\ UNCHANGED ipcVars

\* recieve_dishes_queue_clean
DryRecv ==
  /\ dpc = "recv" /\ dryQueue # <<>>
  /\ dryQueue' = Tail(dryQueue)
  /\ IF Head(dryQueue).time_to_wash = END
     THEN dpc' = "rmplace" /\ UNCHANGED dried
     ELSE dpc' = "free" /\ dried' = Append(dried, Head(dryQueue).item)
  /\ UNCHANGED <<nodes_amount, sem, array, table, genQueue, removed>>

\* Mutant: the place is not given back.
DryFreeForgotten ==
  /\ dpc = "free"
  /\ dpc' = IF DryLink = "sem" THEN "check" ELSE "recv"
  /\ UNCHANGED <<nodes_amount, dried, ipcVars>>

DryFree ==
  /\ dpc = "free"
  /\ SemAdd("place", 1)
  /\ dpc' = IF DryLink = "sem" THEN "check" ELSE "recv"
  /\ UNCHANGED <<nodes_amount, dried, array, table, genQueue, dryQueue, removed>>

\* detach_shmem, delete_shmem
DryClose ==
  /\ dpc = "close"
  /\ table' = BlankTable
  /\ dpc' = "rmplace"
  /\ UNCHANGED <<nodes_amount, dried, sem, array, genQueue, dryQueue, removed>>

\* Mutant: the semaphore of the places is left behind.
DryRemovePlaceForgotten ==
  /\ dpc = "rmplace"
  /\ dpc' = IF DryLink = "sem" THEN "rmdiff" ELSE "rmqueue"
  /\ UNCHANGED <<nodes_amount, dried, ipcVars>>

DryRemovePlace ==
  /\ dpc = "rmplace"
  /\ SemRemove("place")
  /\ dpc' = IF DryLink = "sem" THEN "rmdiff" ELSE "rmqueue"
  /\ UNCHANGED <<nodes_amount, dried, array, table, genQueue, dryQueue>>

DryRemoveDiff ==
  /\ dpc = "rmdiff"
  /\ SemRemove("diff")
  /\ dpc' = "done"
  /\ UNCHANGED <<nodes_amount, dried, array, table, genQueue, dryQueue>>

DryRemoveQueue ==
  /\ dpc = "rmqueue"
  /\ dryQueue' = <<>>
  /\ dpc' = "done"
  /\ UNCHANGED <<nodes_amount, dried, sem, array, table, genQueue, removed>>

Dryer ==
  \/ DryStart \/ DryFirst \/ DryCheck \/ DryWait \/ DryDish \/ DryRecv \/ DryFree
  \/ DryClose \/ DryRemovePlace \/ DryRemoveDiff \/ DryRemoveQueue

DryTypeOK ==
  /\ dpc \in {"start", "first", "check", "wait", "dry", "recv", "free", "close",
              "rmplace", "rmdiff", "rmqueue", "done"}
  /\ nodes_amount \in Nat
  /\ dried \in Seq(0..MaxDishes \cup {END})
=============================================================================
