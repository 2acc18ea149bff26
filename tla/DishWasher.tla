----------------------------- MODULE DishWasher -----------------------------
(***************************************************************************)
(* The washer process (washer_machine/dish_washer.h): it takes dishes from *)
(* the generator's link, washes them and passes them to the dryer's link,  *)
(* whose free places are counted by the semaphore "place".                 *)
(***************************************************************************)
EXTENDS KitchenIPC

VARIABLES
  wpc,      \* where the washer is
  current,  \* current_node - first_node in the generator's array
  dish,     \* the dish in the washer's hands (dish_output, mybuf_input)
  closing,  \* TRUE once the dish in hand is taken to be the end mark
  msg_sent, \* how many dishes it has passed to the dryer
  washed    \* history: what it washed, the end mark as END

washVars == <<wpc, current, dish, closing, msg_sent, washed>>

\* What a process works on: a dish's number, or END for the end mark.
Tag(d) == IF d.time_to_wash = END THEN END ELSE d.item

WashBegin == IF GenLink = "sem" THEN "check" ELSE "recv"

WashInit ==
  /\ wpc = WashBegin /\ current = 0 /\ dish = Blank
  /\ closing = FALSE /\ msg_sent = 0 /\ washed = <<>>

\* recieve_dishes_sem: the loop condition is read before the dish is waited for.
WashCheck ==
  /\ wpc = "check"
  /\ wpc' = IF array[current].time_to_wash # END THEN "wait" ELSE "waitEnd"
  /\ UNCHANGED <<current, dish, closing, msg_sent, washed, ipcVars>>

WashWait ==
  /\ wpc = "wait"
  /\ SemTake("gen")
  /\ wpc' = "wash"
  /\ UNCHANGED <<current, dish, closing, msg_sent, washed>>
  /\ UNCHANGED <<array, table, genQueue, dryQueue, removed>>

\* Mutant: the dish is copied before it is marked as clean.
WashDishCopyFirst ==
  /\ wpc = "wash"
  /\ array' = [array EXCEPT ![current].is_it_clean = TRUE]
  /\ dish' = array[current]
  /\ washed' = Append(washed, Tag(dish'))
  /\ wpc' = "send"
  /\ UNCHANGED <<current, closing, msg_sent>>
  /\ UNCHANGED <<sem, table, genQueue, dryQueue, removed>>

WashDish ==
  /\ wpc = "wash"
  /\ array' = [array EXCEPT ![current].is_it_clean = TRUE]
  /\ dish' = array'[current]
  /\ washed' = Append(washed, Tag(dish'))
  /\ wpc' = "send"
  /\ UNCHANGED <<current, closing, msg_sent>>
  /\ UNCHANGED <<sem, table, genQueue, dryQueue, removed>>

WashWaitEnd ==
  /\ wpc = "waitEnd"
  /\ SemTake("gen")
  /\ dish' = array[current]
  /\ closing' = TRUE
  /\ wpc' = "send"
  /\ UNCHANGED <<current, msg_sent, washed>>
  /\ UNCHANGED <<array, table, genQueue, dryQueue, removed>>

\* recieve_dishes_queue: the end mark is passed on unwashed and ends the loop.
WashRecv ==
  /\ wpc = "recv" /\ genQueue # <<>>
  /\ genQueue' = Tail(genQueue)
  /\ LET d == Head(genQueue) IN
       IF d.time_to_wash = END
       THEN dish' = d /\ closing' = TRUE /\ UNCHANGED washed
       ELSE /\ dish' = [d EXCEPT !.is_it_clean = TRUE]
            /\ washed' = Append(washed, d.item)
            /\ UNCHANGED closing
  /\ wpc' = "send"
  /\ UNCHANGED <<current, msg_sent, sem, array, table, dryQueue, removed>>

\* send_dryer_sem, send_dryer_queue: wait for a free place,
SendTake ==
  /\ wpc = "send"
  /\ SemTake("place")
  /\ wpc' = "put"
  /\ UNCHANGED <<current, dish, closing, msg_sent, washed>>
  /\ UNCHANGED <<array, table, genQueue, dryQueue, removed>>

\* then fill the next slot of the table
SendFill ==
  /\ wpc = "put" /\ DryLink = "sem"
  /\ table' = [table EXCEPT ![msg_sent % TableSize] = dish]
  /\ wpc' = "post"
  /\ UNCHANGED <<current, dish, closing, msg_sent, washed>>
  /\ UNCHANGED <<sem, array, genQueue, dryQueue, removed>>

\* What the caller does after the send: stop, or go to the next dish.
SendReturn ==
  /\ msg_sent' = msg_sent + 1
  /\ wpc' = IF closing THEN "close" ELSE WashBegin
  /\ current' = IF closing \/ GenLink = "queue" THEN current ELSE current + 1
  /\ UNCHANGED <<dish, closing, washed>>

\* and tell the dryer,
SendPost ==
  /\ wpc = "post"
  /\ SemAdd("diff", 1)
  /\ SendReturn
  /\ UNCHANGED <<array, table, genQueue, dryQueue, removed>>

\* or send the dish in a message.
SendMsg ==
  /\ wpc = "put" /\ DryLink = "queue"
  /\ Len(dryQueue) < QueueCap
  /\ dryQueue' = Append(dryQueue, dish)
  /\ SendReturn
  /\ UNCHANGED <<sem, array, table, genQueue, removed>>

\* Mutant: the shared memory is detached but not deleted.
WashCloseDetachOnly ==
  /\ wpc = "close"
  /\ wpc' = IF GenLink = "sem" THEN "rmsem" ELSE "done"
  /\ UNCHANGED <<current, dish, closing, msg_sent, washed, ipcVars>>

\* delete_shmem, or delete_queue
WashClose ==
  /\ wpc = "close"
  /\ IF GenLink = "sem" THEN array' = BlankArray /\ wpc' = "rmsem" /\ UNCHANGED genQueue
                        ELSE genQueue' = <<>> /\ wpc' = "done" /\ UNCHANGED array
  /\ UNCHANGED <<current, dish, closing, msg_sent, washed>>
  /\ UNCHANGED <<sem, table, dryQueue, removed>>

WashRemoveSem ==
  /\ wpc = "rmsem"
  /\ SemRemove("gen")
  /\ wpc' = "done"
  /\ UNCHANGED <<current, dish, closing, msg_sent, washed>>
  /\ UNCHANGED <<array, table, genQueue, dryQueue>>

Washer ==
  \/ WashCheck \/ WashWait \/ WashDish \/ WashWaitEnd \/ WashRecv
  \/ SendTake \/ SendFill \/ SendPost \/ SendMsg \/ WashClose \/ WashRemoveSem

WashTypeOK ==
  /\ wpc \in {"check", "wait", "wash", "waitEnd", "recv", "send", "put", "post",
              "close", "rmsem", "done"}
  /\ current \in 0..ArraySize-1
  /\ dish \in Dish
  /\ closing \in BOOLEAN
  /\ msg_sent \in Nat
  /\ washed \in Seq(0..MaxDishes \cup {END})
=============================================================================
