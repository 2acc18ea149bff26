---------------------------- MODULE DishGenerator ----------------------------
(***************************************************************************)
(* The generator process (washer_machine/dish_generator.h): it puts        *)
(* dishes_amount dishes and then the END_OF_THE_DAY mark into the link to  *)
(* the washer, either the shared array counted by a semaphore or a message *)
(* queue.                                                                  *)
(***************************************************************************)
EXTENDS KitchenIPC

VARIABLES
  gpc,           \* where the generator is
  dishes_amount, \* how many dishes it will make
  i              \* how many dishes it has passed on

genVars == <<gpc, dishes_amount, i>>

GenInit == gpc = "start" /\ dishes_amount = 0 /\ i = 0

\* generate_dishes_sem, generate_dishes_queue: get the objects, choose the number of dishes.
GenStart ==
  /\ gpc = "start"
  /\ dishes_amount' \in 1..MaxDishes
  /\ gpc' = IF GenLink = "sem" THEN "fill" ELSE "send"
  /\ UNCHANGED <<i, ipcVars>>

\* fill_the_table: a slot that still holds an unwashed dish is left as it is.
GenFill ==
  /\ gpc = "fill" /\ i < dishes_amount
  /\ IF array[i].time_to_wash = 0 \/ array[i].is_it_clean
     THEN \E w \in WashTimes :
            array' = [array EXCEPT ![i] =
              [item |-> i + 1, time_to_wash |-> w, is_it_clean |-> array[i].is_it_clean]]
     ELSE UNCHANGED array
  /\ gpc' = "post"
  /\ UNCHANGED <<dishes_amount, i, sem, table, genQueue, dryQueue, removed>>

GenPost ==
  /\ gpc = "post"
  /\ SemAdd("gen", 1)
  /\ i' = i + 1
  /\ gpc' = "fill"
  /\ UNCHANGED <<dishes_amount, array, table, genQueue, dryQueue, removed>>

\* end_it writes one field; the rest of the slot stays.
GenFillEnd ==
  /\ gpc = "fill" /\ i = dishes_amount
  /\ array' = [array EXCEPT ![i].time_to_wash = END]
  /\ gpc' = "postEnd"
  /\ UNCHANGED <<dishes_amount, i, sem, table, genQueue, dryQueue, removed>>

GenPostEnd ==
  /\ gpc = "postEnd"
  /\ SemAdd("gen", 1)
  /\ gpc' = "done"
  /\ UNCHANGED <<dishes_amount, i, array, table, genQueue, dryQueue, removed>>

\* mybuf_output is a local nobody initialises: its is_it_clean is any value.
GenSend ==
  /\ gpc = "send" /\ i < dishes_amount
  /\ Len(genQueue) < QueueCap
  /\ \E w \in WashTimes, garbage \in BOOLEAN :
       genQueue' = Append(genQueue,
                     [item |-> i + 1, time_to_wash |-> w, is_it_clean |-> garbage])
  /\ i' = i + 1
  /\ UNCHANGED <<gpc, dishes_amount, sem, array, table, dryQueue, removed>>

\* The end mark is the last dish with time_to_wash overwritten.
GenSendEnd ==
  /\ gpc = "send" /\ i = dishes_amount
  /\ Len(genQueue) < QueueCap
  /\ \E garbage \in BOOLEAN :
       genQueue' = Append(genQueue,
                     [item |-> i, time_to_wash |-> END, is_it_clean |-> garbage])
  /\ gpc' = "done"
  /\ UNCHANGED <<dishes_amount, i, sem, array, table, dryQueue, removed>>

Generator ==
  \/ GenStart \/ GenFill \/ GenPost \/ GenFillEnd \/ GenPostEnd
  \/ GenSend \/ GenSendEnd

GenTypeOK ==
  /\ gpc \in {"start", "fill", "post", "postEnd", "send", "done"}
  /\ dishes_amount \in 0..MaxDishes
  /\ i \in 0..dishes_amount
=============================================================================
