---------------------------- MODULE KitchenProofs ----------------------------
(***************************************************************************)
(* The kitchen, for every table size, number of dishes and pair of links:  *)
(* its types, the order of the dishes, the table that is never overrun,    *)
(* and what a run leaves behind.  They hold for runs that are not killed,  *)
(* one after another; a run that is killed breaks them.                    *)
(***************************************************************************)
EXTENDS Kitchen, SequenceTheorems, TLAPS

\* The k-th thing that comes along: a dish, or after the last one the end mark.
Exp(k) == IF k <= dishes_amount THEN k ELSE END

InHand == wpc \in {"send", "put", "post"}
Ended  == gpc \in {"postEnd", "done"}
Over   == dpc \in {"close", "rmplace", "rmdiff", "rmqueue", "done"}

\* How many things the generator has written, how many of them it has announced,
Filled == i + (IF gpc = "post" THEN 1 ELSE 0)
Passed == i + (IF gpc = "done" THEN 1 ELSE 0)

\* how many the washer has taken and how many of them it has put on the table,
Held   == msg_sent + (IF InHand THEN 1 ELSE 0)
Placed == msg_sent + (IF wpc = "post" THEN 1 ELSE 0)

\* how many places the dryer has given back, and how many posts it has waited for.
Freed == Len(dried) - (IF dpc = "free" THEN 1 ELSE 0)
Heard == CASE dpc \in {"start", "first"} -> 0
           [] dpc = "dry" -> nodes_amount + 1
           [] OTHER -> IF nodes_amount = 0 THEN 1 ELSE nodes_amount
-----------------------------------------------------------------------------
\* Where each process can be with its links.
Control ==
  /\ GenLink = "sem" => gpc # "send" /\ wpc # "recv"
  /\ GenLink = "queue" => /\ gpc \in {"start", "send", "done"}
                         /\ wpc \notin {"check", "wait", "wash", "waitEnd", "rmsem"}
  /\ DryLink = "sem" => dpc \notin {"recv", "rmqueue"}
  /\ DryLink = "queue" => /\ wpc # "post"
                         /\ dpc \notin {"first", "check", "wait", "dry", "close", "rmdiff"}
  /\ closing => InHand \/ wpc \in {"close", "rmsem", "done"}
  /\ wpc \in {"close", "rmsem", "done"} => closing

Removal ==
  /\ "gen" \in removed <=> GenLink = "sem" /\ wpc = "done"
  /\ "place" \in removed <=> dpc \in {"rmdiff", "rmqueue", "done"}
  /\ "diff" \in removed <=> DryLink = "sem" /\ dpc = "done"
  /\ \A s \in removed : sem[s] = 0

\* The generator's own count.
Making ==
  /\ dishes_amount = 0 <=> gpc = "start"
  /\ gpc = "post" => i < dishes_amount
  /\ Ended => i = dishes_amount

\* The shared array holds what was written and nothing else; the semaphore counts
\* what was announced and not yet taken.
ArrayHolds ==
  \A k \in 0..ArraySize-1 :
    /\ k < Filled => array[k].item = k + 1 /\ array[k].time_to_wash # END
    /\ k = dishes_amount /\ Ended => array[k].time_to_wash = END
    /\ k >= Filled /\ ~(k = dishes_amount /\ Ended) => array[k] = Blank

GenTokens ==
  sem["gen"] + current + (IF wpc \in {"wash", "close"} \/ InHand THEN 1 ELSE 0) = Passed

SemGen ==
  /\ wpc \notin {"rmsem", "done"} => ArrayHolds /\ GenTokens
  /\ wpc \in {"rmsem", "done"} => array = BlankArray
  /\ wpc = "waitEnd" => current = dishes_amount /\ Ended
  /\ current = IF wpc \in {"close", "rmsem", "done"} THEN msg_sent - 1 ELSE msg_sent
  /\ genQueue = <<>>

QueueGen ==
  /\ array = BlankArray /\ current = 0 /\ sem["gen"] = 0
  /\ wpc = "done" => genQueue = <<>>
  /\ wpc # "done" => Held + Len(genQueue) = Passed
  /\ \A k \in 1..Len(genQueue) : Tag(genQueue[k]) = Exp(Held + k)

\* What the washer has taken, washed and has in its hands.
Washing ==
  /\ Held <= Passed
  /\ closing => gpc = "done" /\ Held = dishes_amount + 1
  /\ Len(washed) = IF closing THEN Held - 1 ELSE Held
  /\ \A k \in 1..Len(washed) : washed[k] = Exp(k)
  /\ InHand => /\ Tag(dish) = Exp(msg_sent + 1)
               /\ dish.is_it_clean \/ dish.time_to_wash = END

\* The places: in the semaphore, taken by the washer, or not yet given back.
PlaceTokens ==
  "place" \notin removed =>
    sem["place"] + msg_sent + (IF wpc \in {"put", "post"} THEN 1 ELSE 0)
      = (IF dpc = "start" THEN 0 ELSE TableSize) + Freed

\* What the dryer has dried, and that it only closes on the end mark.
Drying ==
  /\ Len(dried) <= msg_sent
  /\ \A k \in 1..Len(dried) : dried[k] = Exp(k)
  /\ dpc = "start" => dried = <<>>
  /\ dpc = "free" => Len(dried) >= 1
  /\ Over => Placed = dishes_amount + 1

\* The table holds the dishes that wait, in their slots; the end mark is put there last.
TableHolds ==
  /\ \A k \in nodes_amount..Placed-1 :
       /\ Tag(table[k % TableSize]) = Exp(k + 1)
       /\ table[k % TableSize].is_it_clean \/ table[k % TableSize].time_to_wash = END
  /\ \A s \in 0..TableSize-1 : table[s].time_to_wash = END => Placed = dishes_amount + 1

SemDry ==
  /\ nodes_amount = Len(dried) /\ dryQueue = <<>>
  /\ dpc \in {"start", "first"} => nodes_amount = 0
  /\ dpc = "wait" => nodes_amount # 0
  /\ dpc # "done" => sem["diff"] + Heard = msg_sent
  /\ dpc \notin {"rmplace", "rmdiff", "done"} => TableHolds
  /\ dpc \in {"rmplace", "rmdiff", "done"} => table = BlankTable

QueueDry ==
  /\ nodes_amount = 0 /\ table = BlankTable /\ sem["diff"] = 0
  /\ Over => dryQueue = <<>>
  /\ ~Over => msg_sent = Len(dried) + Len(dryQueue)
  /\ \A k \in 1..Len(dryQueue) :
       /\ Tag(dryQueue[k]) = Exp(Len(dried) + k)
       /\ dryQueue[k].is_it_clean \/ dryQueue[k].time_to_wash = END

IInv ==
  /\ TypeOK /\ Control /\ Removal
  /\ Making /\ Washing
  /\ GenLink = "sem" => SemGen
  /\ GenLink = "queue" => QueueGen
  /\ PlaceTokens /\ Drying /\ TableNotOverrun
  /\ DryLink = "sem" => SemDry
  /\ DryLink = "queue" => QueueDry

\* What only the generator and the washer can change, and
Front ==
  /\ Making /\ Washing
  /\ GenLink = "sem" => SemGen
  /\ GenLink = "queue" => QueueGen

\* what only the washer and the dryer can.
Back ==
  /\ PlaceTokens /\ Drying /\ TableNotOverrun
  /\ DryLink = "sem" => SemDry
  /\ DryLink = "queue" => QueueDry

LEMMA Parts == IInv <=> TypeOK /\ Control /\ Removal /\ Front /\ Back
  BY DEF IInv, Front, Back

-----------------------------------------------------------------------------
\* The counts are numbers, and none runs past the end mark.
LEMMA Counts ==
  ASSUME IInv
  PROVE  /\ i \in Nat /\ dishes_amount \in Nat /\ msg_sent \in Nat /\ nodes_amount \in Nat
         /\ Len(dried) \in Nat /\ Len(washed) \in Nat
         /\ i <= dishes_amount /\ dishes_amount <= MaxDishes
         /\ Passed <= dishes_amount + 1 /\ Passed \in Nat /\ Held \in Nat /\ Placed \in Nat
         /\ Freed \in Nat
         /\ Held <= Passed /\ msg_sent <= Held /\ Placed <= Held
         /\ (InHand /\ wpc # "post" => Placed < Held)
         /\ MaxDishes \in Nat /\ TableSize \in Nat \ {0} /\ ArraySize \in Nat
         /\ ArraySize > MaxDishes + 1
<1>1. /\ i \in Nat /\ dishes_amount \in Nat /\ msg_sent \in Nat /\ nodes_amount \in Nat
      /\ i <= dishes_amount /\ dishes_amount <= MaxDishes
  BY KitchenAssumption DEF IInv, TypeOK, GenTypeOK, WashTypeOK, DryTypeOK
<1>2. dried \in Seq(0..MaxDishes \cup {END}) /\ washed \in Seq(0..MaxDishes \cup {END})
  BY DEF IInv, TypeOK, WashTypeOK, DryTypeOK
<1>3. Len(dried) \in Nat /\ Len(washed) \in Nat
  BY <1>2
<1>4. Passed <= dishes_amount + 1 /\ Passed \in Nat
  BY <1>1 DEF Passed
<1>5. Held \in Nat /\ Placed \in Nat /\ msg_sent <= Held /\ Placed <= Held
      /\ (InHand /\ wpc # "post" => Placed < Held)
  BY <1>1 DEF Held, Placed, InHand
<1>6. Freed \in Nat
  BY <1>3 DEF IInv, Drying, Freed
<1> QED
  BY <1>1, <1>3, <1>4, <1>5, <1>6, KitchenAssumption DEF IInv, Washing

\* A step of the generator leaves the dryer's side alone once the dishes are counted.
LEMMA BackFrame ==
  ASSUME Back, UNCHANGED <<table, dryQueue, dryVars, msg_sent, removed, dishes_amount>>,
         sem'["place"] = sem["place"], sem'["diff"] = sem["diff"],
         wpc' = "post" <=> wpc = "post", wpc' = "put" <=> wpc = "put"
  PROVE  Back'
  BY DEF Back, PlaceTokens, Drying, TableNotOverrun, SemDry, QueueDry, dryVars, Freed, Heard,
     Over, Placed, Waiting, TableHolds, Exp, Tag

\* A step of the dryer leaves the generator's side alone.
LEMMA FrontFrame ==
  ASSUME Front, UNCHANGED <<array, genQueue, genVars, washVars>>, sem'["gen"] = sem["gen"]
  PROVE  Front'
  BY DEF Front, Making, Washing, SemGen, QueueGen, ArrayHolds, GenTokens, genVars, washVars,
     Held, InHand, Passed, Filled, Ended, Exp, Tag
-----------------------------------------------------------------------------
\* The generator.
LEMMA GenStartInv ==
  ASSUME IInv, GenStart, UNCHANGED <<washVars, dryVars, runs>> PROVE IInv'
<1> USE DEF GenStart, ipcVars, washVars, dryVars
<1>1. i = 0 /\ dishes_amount = 0 /\ Passed = 0 /\ Held = 0 /\ msg_sent = 0 /\ Placed = 0
      /\ ~InHand /\ ~Over /\ ~closing /\ nodes_amount \in Nat /\ TableSize \in Nat \ {0}
  <2>1. i = 0 /\ dishes_amount = 0 /\ Passed = 0
    BY Counts DEF IInv, Making, Passed
  <2>2. Held = 0 /\ msg_sent = 0 /\ Placed = 0
    BY <2>1, Counts
  <2>3. ~InHand /\ ~Over
    BY <2>1, <2>2, Counts DEF Held, InHand, IInv, Drying
  <2> QED
    BY <2>1, <2>2, <2>3, Counts DEF IInv, Washing
<1>2. dried = <<>> /\ washed = <<>> /\ nodes_amount = 0 /\ Waiting \in Int
  <2>1. Len(dried) = 0 /\ Len(washed) = 0
    <3>1. Len(dried) <= msg_sent /\ Len(washed) = (IF closing THEN Held - 1 ELSE Held)
      BY DEF IInv, Drying, Washing
    <3>2. dried \in Seq(0..MaxDishes \cup {END}) /\ washed \in Seq(0..MaxDishes \cup {END})
      BY DEF IInv, TypeOK, WashTypeOK, DryTypeOK
    <3> HIDE DEF GenStart
    <3> QED
      BY <1>1, <3>1, <3>2
  <2>2. dried = <<>> /\ washed = <<>>
    BY <2>1 DEF IInv, TypeOK, WashTypeOK, DryTypeOK
  <2>3. nodes_amount = 0
    BY <2>1, KitchenAssumption DEF IInv, SemDry, QueueDry
  <2> QED
    BY <1>1, <2>2, <2>3 DEF Waiting, IInv, TypeOK, IPCTypeOK
<1>3. TypeOK' /\ Control' /\ Removal'
  BY <1>1, KitchenAssumption DEF IInv, TypeOK, IPCTypeOK, GenTypeOK, WashTypeOK, DryTypeOK,
     Control, Removal, InHand
<1>4. Making' /\ Washing'
  BY <1>1, <1>2 DEF IInv, Making, Washing, Held, InHand, Passed, Ended, Exp
<1>5. GenLink = "sem" => SemGen'
  BY <1>1 DEF IInv, SemGen, ArrayHolds, GenTokens, Passed, Filled, Ended, InHand, TypeOK,
     GenTypeOK, Control
<1>6. GenLink = "queue" => QueueGen'
  <2> SUFFICES ASSUME GenLink = "queue" PROVE QueueGen'
    OBVIOUS
  <2>1. QueueGen /\ genQueue \in Seq(Dish) /\ wpc # "done"
    BY <1>1 DEF IInv, TypeOK, IPCTypeOK, Control
  <2>2. Len(genQueue) = 0
    BY <1>1, <2>1 DEF QueueGen
  <2> QED
    BY <1>1, <2>1, <2>2 DEF QueueGen, Passed, Held, InHand
<1>7. PlaceTokens' /\ Drying' /\ TableNotOverrun'
  BY <1>1, <1>2 DEF IInv, PlaceTokens, Drying, TableNotOverrun, Freed, Over, Waiting
<1>8. DryLink = "sem" => SemDry'
  BY <1>1, <1>2 DEF IInv, SemDry, TableHolds, Placed, Heard
<1>9. DryLink = "queue" => QueueDry'
  <2> SUFFICES ASSUME DryLink = "queue" PROVE QueueDry'
    OBVIOUS
  <2>1. Len(dryQueue) = 0
    BY <1>1, <1>2 DEF IInv, QueueDry, TypeOK, IPCTypeOK
  <2> QED
    BY <1>1, <1>2, <2>1 DEF IInv, QueueDry, Over
<1> QED
  BY <1>3, <1>4, <1>5, <1>6, <1>7, <1>8, <1>9 DEF IInv

\* While the generator is busy the washer has not finished with its link.
LEMMA Busy ==
  ASSUME IInv, gpc # "done"
  PROVE  ~closing /\ wpc \notin {"close", "rmsem", "done"} /\ "gen" \notin removed
  BY DEF IInv, Washing, Control, Removal

LEMMA GenFillInv ==
  ASSUME IInv, GenFill, UNCHANGED <<washVars, dryVars, runs>> PROVE IInv'
<1>1. gpc = "fill" /\ i < dishes_amount /\ gpc' = "post"
      /\ UNCHANGED <<dishes_amount, i, sem, table, genQueue, dryQueue, removed>>
      /\ UNCHANGED <<wpc, current, dish, closing, msg_sent, washed>>
      /\ UNCHANGED <<dpc, nodes_amount, dried, runs>>
  BY DEF GenFill, washVars, dryVars
<1>2. GenLink = "sem" /\ SemGen /\ ~closing /\ wpc \notin {"close", "rmsem", "done"}
  BY <1>1, Busy, KitchenAssumption DEF IInv, Control
<1>3. array \in [0..ArraySize-1 -> Dish] /\ i \in 0..ArraySize-1 /\ i + 1 \in 0..MaxDishes
      /\ i \in Nat /\ dishes_amount \in Nat
  <2>1. array \in [0..ArraySize-1 -> Dish]
    BY DEF IInv, TypeOK, IPCTypeOK
  <2>2. i \in 0..MaxDishes /\ dishes_amount \in 0..MaxDishes
    BY Counts
  <2> QED
    BY <1>1, <2>1, <2>2, KitchenAssumption
<1>4. array[i] = Blank
  BY <1>1, <1>2, <1>3 DEF SemGen, ArrayHolds, Filled, Ended
<1>5. PICK w \in WashTimes :
        array' = [array EXCEPT ![i] = [item |-> i + 1, time_to_wash |-> w, is_it_clean |-> FALSE]]
  <2>1. array[i].time_to_wash = 0 /\ array[i].is_it_clean = FALSE
    BY <1>4 DEF Blank
  <2> QED
    BY <2>1 DEF GenFill
<1> DEFINE d == [item |-> i + 1, time_to_wash |-> w, is_it_clean |-> FALSE]
<1>6. d \in Dish /\ d.item = i + 1 /\ d.time_to_wash # END
  BY <1>3, KitchenAssumption DEF Dish
<1> HIDE DEF d
<1>7. /\ array' \in [0..ArraySize-1 -> Dish] /\ array'[i] = d
      /\ \A k \in 0..ArraySize-1 : k # i => array'[k] = array[k]
  BY <1>3, <1>5, <1>6 DEF d
<1>8. TypeOK' /\ Control' /\ Removal'
  BY <1>1, <1>2, <1>7, KitchenAssumption DEF IInv, TypeOK, IPCTypeOK, GenTypeOK, WashTypeOK,
     DryTypeOK, Control, Removal, InHand
<1>9. Making' /\ Washing'
  BY <1>1 DEF IInv, Making, Washing, Held, InHand, Passed, Ended, Exp
<1>10. ArrayHolds'
  BY <1>1, <1>2, <1>3, <1>6, <1>7 DEF SemGen, ArrayHolds, Filled, Ended
<1>11. SemGen'
  BY <1>1, <1>2, <1>10 DEF SemGen, GenTokens, Passed, InHand, Ended
<1>12. Back'
  BY <1>1, BackFrame, Parts DEF dryVars
<1> QED
  BY <1>2, <1>8, <1>9, <1>11, <1>12 DEF IInv, Front, Back

LEMMA GenPostInv ==
  ASSUME IInv, GenPost, UNCHANGED <<washVars, dryVars, runs>> PROVE IInv'
<1> USE DEF GenPost, washVars, dryVars
<1>1. GenLink = "sem" /\ SemGen /\ ~closing /\ wpc \notin {"close", "rmsem", "done"}
      /\ "gen" \notin removed
  BY Busy, KitchenAssumption DEF IInv, Control
<1>2. sem \in [Sems -> Nat] /\ sem' = [sem EXCEPT !["gen"] = @ + 1]
  BY <1>1 DEF SemAdd, IInv, TypeOK, IPCTypeOK
<1>3. sem'["gen"] = sem["gen"] + 1 /\ sem'["place"] = sem["place"] /\ sem'["diff"] = sem["diff"]
      /\ sem' \in [Sems -> Nat] /\ sem["gen"] \in Nat
  BY <1>2 DEF Sems
<1>4. i \in Nat /\ dishes_amount \in Nat /\ i < dishes_amount
      /\ current \in Nat /\ msg_sent \in Nat
  BY <1>1, Counts, KitchenAssumption DEF IInv, Making, TypeOK, WashTypeOK
<1>5. TypeOK' /\ Control' /\ Removal'
  BY <1>1, <1>3, <1>4, KitchenAssumption DEF IInv, TypeOK, IPCTypeOK, GenTypeOK, WashTypeOK,
     DryTypeOK, Control, Removal, InHand, Sems
<1>6. Passed' = Passed + 1 /\ Held' = Held /\ Filled' = Filled /\ Held \in Nat /\ Passed \in Nat
  BY <1>4, Counts DEF Passed, Held, Filled, InHand
<1>7. Making' /\ Washing'
  BY <1>1, <1>4, <1>6 DEF IInv, Making, Washing, InHand, Ended, Exp
<1>8. SemGen'
  <2>1. ArrayHolds'
    BY <1>1, <1>6 DEF SemGen, ArrayHolds, Ended
  <2>2. GenTokens'
    BY <1>1, <1>3, <1>4, <1>6 DEF SemGen, GenTokens, InHand
  <2> QED
    BY <1>1, <2>1, <2>2 DEF SemGen, Ended
<1>9. Back'
  BY <1>3, BackFrame, Parts DEF dryVars
<1> QED
  BY <1>1, <1>5, <1>7, <1>8, <1>9 DEF IInv, Front, Back

LEMMA GenFillEndInv ==
  ASSUME IInv, GenFillEnd, UNCHANGED <<washVars, dryVars, runs>> PROVE IInv'
<1>1. gpc = "fill" /\ i = dishes_amount /\ gpc' = "postEnd"
      /\ array' = [array EXCEPT ![i].time_to_wash = END]
      /\ UNCHANGED <<dishes_amount, i, sem, table, genQueue, dryQueue, removed>>
      /\ UNCHANGED <<wpc, current, dish, closing, msg_sent, washed>>
      /\ UNCHANGED <<dpc, nodes_amount, dried, runs>>
  BY DEF GenFillEnd, washVars, dryVars
<1>2. GenLink = "sem" /\ SemGen /\ ~closing /\ wpc \notin {"close", "rmsem", "done"}
  BY <1>1, Busy, KitchenAssumption DEF IInv, Control
<1>3. array \in [0..ArraySize-1 -> Dish] /\ i \in 0..ArraySize-1
      /\ i \in Nat /\ dishes_amount \in Nat
  <2>1. array \in [0..ArraySize-1 -> Dish]
    BY DEF IInv, TypeOK, IPCTypeOK
  <2> QED
    BY <1>1, <2>1, Counts
<1>4. /\ array' \in [0..ArraySize-1 -> Dish] /\ array'[i].time_to_wash = END
      /\ \A k \in 0..ArraySize-1 : k # i => array'[k] = array[k]
  BY <1>1, <1>3 DEF Dish
<1>5. TypeOK' /\ Control' /\ Removal'
  BY <1>1, <1>2, <1>4, KitchenAssumption DEF IInv, TypeOK, IPCTypeOK, GenTypeOK, WashTypeOK,
     DryTypeOK, Control, Removal, InHand
<1>6. Making' /\ Washing'
  BY <1>1 DEF IInv, Making, Washing, Held, InHand, Passed, Ended, Exp
<1>7. ArrayHolds'
  BY <1>1, <1>2, <1>3, <1>4 DEF SemGen, ArrayHolds, Filled, Ended
<1>8. SemGen'
  BY <1>1, <1>2, <1>7 DEF SemGen, GenTokens, Passed, InHand, Ended
<1>9. Back'
  BY <1>1, BackFrame, Parts DEF dryVars
<1> QED
  BY <1>2, <1>5, <1>6, <1>8, <1>9 DEF IInv, Front, Back

LEMMA GenPostEndInv ==
  ASSUME IInv, GenPostEnd, UNCHANGED <<washVars, dryVars, runs>> PROVE IInv'
<1>1. gpc = "postEnd" /\ gpc' = "done" /\ SemAdd("gen", 1)
      /\ UNCHANGED <<dishes_amount, i, array, table, genQueue, dryQueue, removed>>
      /\ UNCHANGED <<wpc, current, dish, closing, msg_sent, washed>>
      /\ UNCHANGED <<dpc, nodes_amount, dried, runs>>
  BY DEF GenPostEnd, washVars, dryVars
<1>2. GenLink = "sem" /\ SemGen /\ ~closing /\ wpc \notin {"close", "rmsem", "done"}
      /\ "gen" \notin removed
  BY <1>1, Busy, KitchenAssumption DEF IInv, Control
<1>3. sem'["gen"] = sem["gen"] + 1 /\ sem'["place"] = sem["place"] /\ sem'["diff"] = sem["diff"]
      /\ sem' \in [Sems -> Nat] /\ sem["gen"] \in Nat
  BY <1>1, <1>2 DEF SemAdd, IInv, TypeOK, IPCTypeOK, Sems
<1>4. i \in Nat /\ dishes_amount \in Nat /\ i = dishes_amount
      /\ current \in Nat /\ msg_sent \in Nat
  BY <1>1, <1>2, Counts, KitchenAssumption DEF IInv, Making, TypeOK, WashTypeOK, Ended
<1>5. TypeOK' /\ Control' /\ Removal'
  BY <1>1, <1>2, <1>3, KitchenAssumption DEF IInv, TypeOK, IPCTypeOK, GenTypeOK, WashTypeOK,
     DryTypeOK, Control, Removal, InHand, Sems
<1>6. Passed' = Passed + 1 /\ Held' = Held /\ Filled' = Filled /\ Held \in Nat /\ Passed \in Nat
  BY <1>1, <1>4, Counts DEF Passed, Held, Filled, InHand
<1>7. Making' /\ Washing'
  BY <1>1, <1>2, <1>4, <1>6 DEF IInv, Making, Washing, InHand, Ended, Exp
<1>8. SemGen'
  <2>1. ArrayHolds'
    BY <1>1, <1>2, <1>6 DEF SemGen, ArrayHolds, Ended
  <2>2. GenTokens'
    BY <1>1, <1>2, <1>3, <1>4, <1>6 DEF SemGen, GenTokens, InHand
  <2> QED
    BY <1>1, <1>2, <2>1, <2>2 DEF SemGen, Ended
<1>9. Back'
  BY <1>1, <1>3, BackFrame, Parts DEF dryVars
<1> QED
  BY <1>2, <1>5, <1>7, <1>8, <1>9 DEF IInv, Front, Back

\* A queue that gets one more message.
LEMMA QueueAppend ==
  ASSUME NEW q \in Seq(Dish), NEW d \in Dish, Len(q) < QueueCap
  PROVE  /\ Append(q, d) \in Seq(Dish) /\ Len(Append(q, d)) = Len(q) + 1
         /\ Len(Append(q, d)) <= QueueCap /\ Append(q, d)[Len(q) + 1] = d
         /\ \A k \in 1..Len(q) : Append(q, d)[k] = q[k]
  BY KitchenAssumption

\* A queue from which the oldest message is taken.
LEMMA QueueTail ==
  ASSUME NEW q \in Seq(Dish), q # <<>>
  PROVE  /\ Head(q) = q[1] /\ Head(q) \in Dish /\ 1 \in 1..Len(q)
         /\ Tail(q) \in Seq(Dish) /\ Len(Tail(q)) = Len(q) - 1
         /\ \A k \in 1..Len(q)-1 : Tail(q)[k] = q[k+1]
  OBVIOUS

\* Both sends append what is next to come.
LEMMA GenSendQueue ==
  ASSUME IInv, GenLink = "queue", gpc = "send", Len(genQueue) < QueueCap, NEW d \in Dish,
         genQueue' = Append(genQueue, d), Passed' = Passed + 1, Tag(d) = Exp(Passed + 1),
         UNCHANGED <<dishes_amount, washVars, array>>, sem'["gen"] = sem["gen"]
  PROVE  QueueGen' /\ genQueue' \in Seq(Dish) /\ Len(genQueue') <= QueueCap
<1>1. QueueGen /\ genQueue \in Seq(Dish) /\ wpc # "done"
  BY Busy DEF IInv, TypeOK, IPCTypeOK
<1>2. /\ genQueue' \in Seq(Dish) /\ Len(genQueue') = Len(genQueue) + 1
      /\ Len(genQueue') <= QueueCap /\ genQueue'[Len(genQueue) + 1] = d
      /\ \A k \in 1..Len(genQueue) : genQueue'[k] = genQueue[k]
  BY <1>1, QueueAppend
<1>3. Held' = Held /\ Held \in Nat /\ Passed \in Nat /\ Len(genQueue) \in Nat
  <2>1. Held' = Held
    BY DEF Held, InHand, washVars
  <2>2. Held \in Nat /\ Passed \in Nat
    BY Counts
  <2> QED
    BY <1>1, <2>1, <2>2
<1>4. ASSUME NEW k \in 1..Len(genQueue') PROVE Tag(genQueue'[k]) = Exp(Held + k)
  <2>1. CASE k \in 1..Len(genQueue)
    BY <1>1, <1>2, <2>1 DEF QueueGen
  <2>2. CASE k = Len(genQueue) + 1
    BY <1>1, <1>2, <1>3, <2>2 DEF QueueGen
  <2> QED
    BY <1>2, <1>3, <2>1, <2>2
<1>5. QueueGen /\ UNCHANGED <<wpc, current, array, dishes_amount>>
  BY <1>1 DEF washVars
<1>6. \A k \in 1..Len(genQueue') :
        Tag(genQueue'[k]) = IF Held + k <= dishes_amount THEN Held + k ELSE END
  BY <1>4 DEF Exp
<1>7. (\A k \in 1..Len(genQueue) : Tag(genQueue[k]) = Exp(Held + k))'
  BY <1>3, <1>5, <1>6 DEF Exp, Tag
<1>8. Held' + Len(genQueue') = Passed'
  BY <1>1, <1>2, <1>3, <1>5 DEF QueueGen
<1>9. array' = BlankArray /\ current' = 0 /\ sem'["gen"] = 0
  BY <1>5 DEF QueueGen
<1> QED
  BY <1>1, <1>2, <1>5, <1>7, <1>8, <1>9 DEF QueueGen, BlankArray

LEMMA GenSendInv ==
  ASSUME IInv, GenSend, UNCHANGED <<washVars, dryVars, runs>> PROVE IInv'
<1>1. gpc = "send" /\ i < dishes_amount /\ i' = i + 1 /\ Len(genQueue) < QueueCap
      /\ UNCHANGED <<gpc, dishes_amount, sem, array, table, dryQueue, removed>>
  BY DEF GenSend
<1>2. UNCHANGED <<wpc, current, dish, closing, msg_sent, washed>>
      /\ UNCHANGED <<dpc, nodes_amount, dried, runs>>
  BY DEF washVars, dryVars
<1>3. PICK w \in WashTimes, garbage \in BOOLEAN :
        genQueue' = Append(genQueue,
                      [item |-> i + 1, time_to_wash |-> w, is_it_clean |-> garbage])
  BY DEF GenSend
<1> DEFINE d == [item |-> i + 1, time_to_wash |-> w, is_it_clean |-> garbage]
<1>4. GenLink = "queue" /\ ~closing /\ wpc # "done"
  BY <1>1, Busy, KitchenAssumption DEF IInv, Control
<1>5. i \in Nat /\ dishes_amount \in Nat /\ i + 1 \in 0..MaxDishes /\ Passed = i /\ Passed' = i + 1
  <2>1. i \in Nat /\ dishes_amount \in Nat /\ dishes_amount <= MaxDishes /\ MaxDishes \in Nat
    BY Counts, Zenon
  <2> QED
    BY <1>1, <2>1 DEF Passed
<1>6. d \in Dish /\ Tag(d) = Exp(Passed + 1)
  BY <1>1, <1>5, KitchenAssumption DEF Dish, Tag, Exp
<1> HIDE DEF d
<1>7. QueueGen' /\ genQueue' \in Seq(Dish) /\ Len(genQueue') <= QueueCap
  BY <1>1, <1>3, <1>4, <1>5, <1>6, GenSendQueue DEF d
<1>8. TypeOK' /\ Control' /\ Removal'
  BY <1>1, <1>2, <1>4, <1>5, <1>7, KitchenAssumption DEF IInv, TypeOK, IPCTypeOK, GenTypeOK,
     WashTypeOK, DryTypeOK, Control, Removal, InHand
<1>9. Making' /\ Washing'
  <2>1. Making'
    BY <1>1, <1>5 DEF IInv, Making, Ended
  <2>2. Held' = Held /\ (InHand' <=> InHand)
    BY <1>2 DEF Held, InHand
  <2>3. Held \in Nat /\ Held <= Passed /\ Washing
    BY Counts DEF IInv
  <2>4. Held' <= Passed'
    BY <1>5, <2>2, <2>3
  <2>5. UNCHANGED dishes_amount /\ ~closing'
    BY <1>1, <1>2, <1>4
  <2> QED
    BY <1>2, <1>4, <2>1, <2>2, <2>3, <2>4, <2>5 DEF Washing, Exp, Tag
<1>10. Back'
  BY <1>1, <1>2, BackFrame, Parts DEF dryVars
<1> QED
  BY <1>4, <1>7, <1>8, <1>9, <1>10 DEF IInv, Front, Back

LEMMA GenSendEndInv ==
  ASSUME IInv, GenSendEnd, UNCHANGED <<washVars, dryVars, runs>> PROVE IInv'
<1>1. gpc = "send" /\ i = dishes_amount /\ gpc' = "done" /\ Len(genQueue) < QueueCap
      /\ UNCHANGED <<dishes_amount, i, sem, array, table, dryQueue, removed>>
  BY DEF GenSendEnd
<1>2. UNCHANGED <<wpc, current, dish, closing, msg_sent, washed>>
      /\ UNCHANGED <<dpc, nodes_amount, dried, runs>>
  BY DEF washVars, dryVars
<1>3. PICK garbage \in BOOLEAN :
        genQueue' = Append(genQueue,
                      [item |-> i, time_to_wash |-> END, is_it_clean |-> garbage])
  BY DEF GenSendEnd
<1> DEFINE d == [item |-> i, time_to_wash |-> END, is_it_clean |-> garbage]
<1>4. GenLink = "queue" /\ ~closing /\ wpc # "done"
  BY <1>1, Busy, KitchenAssumption DEF IInv, Control
<1>5. i \in Nat /\ dishes_amount \in Nat /\ i \in 0..MaxDishes /\ Passed = i /\ Passed' = i + 1
  BY <1>1, Counts DEF Passed
<1>6. d \in Dish /\ Tag(d) = Exp(Passed + 1)
  BY <1>1, <1>5, KitchenAssumption DEF Dish, Tag, Exp
<1> HIDE DEF d
<1>7. QueueGen' /\ genQueue' \in Seq(Dish) /\ Len(genQueue') <= QueueCap
  BY <1>1, <1>3, <1>4, <1>5, <1>6, GenSendQueue DEF d
<1>8. TypeOK' /\ Control' /\ Removal'
  BY <1>1, <1>2, <1>4, <1>5, <1>7, KitchenAssumption DEF IInv, TypeOK, IPCTypeOK, GenTypeOK,
     WashTypeOK, DryTypeOK, Control, Removal, InHand
<1>9. Making' /\ Washing'
  BY <1>1, <1>2, <1>4, <1>5, Counts DEF IInv, Making, Washing, Held, InHand, Ended, Exp, Tag
<1>10. Back'
  BY <1>1, <1>2, BackFrame, Parts DEF dryVars
<1> QED
  BY <1>4, <1>7, <1>8, <1>9, <1>10 DEF IInv, Front, Back
-----------------------------------------------------------------------------
\* The washer takes from the generator.
LEMMA SemMode ==
  ASSUME IInv, wpc \in {"check", "wait", "wash", "waitEnd"}
  PROVE  /\ GenLink = "sem" /\ GenLink # "queue" /\ SemGen /\ ArrayHolds /\ GenTokens
         /\ ~closing /\ ~InHand /\ "gen" \notin removed /\ Held = msg_sent /\ current = msg_sent
         /\ current \in Nat /\ current \in 0..ArraySize-1 /\ sem["gen"] \in Nat
         /\ array \in [0..ArraySize-1 -> Dish]
<1>1. GenLink = "sem" /\ GenLink # "queue" /\ SemGen /\ ~closing /\ ~InHand /\ "gen" \notin removed
  BY KitchenAssumption DEF IInv, Control, Removal, InHand
<1>2. Held = msg_sent /\ current = msg_sent
  <2>1. msg_sent \in Nat
    BY Counts, Zenon
  <2> QED
    BY <1>1, <2>1 DEF Held, InHand, SemGen
<1>3. sem["gen"] \in Nat /\ array \in [0..ArraySize-1 -> Dish] /\ current \in 0..ArraySize-1
  BY DEF IInv, TypeOK, IPCTypeOK, WashTypeOK, Sems
<1> QED
  BY <1>1, <1>2, <1>3, Counts DEF SemGen

LEMMA WashCheckInv ==
  ASSUME IInv, WashCheck, UNCHANGED <<genVars, dryVars, runs>> PROVE IInv'
<1>1. wpc = "check" /\ wpc' \in {"wait", "waitEnd"}
      /\ (wpc' = "waitEnd" => array[current].time_to_wash = END)
      /\ UNCHANGED <<current, dish, closing, msg_sent, washed>>
      /\ UNCHANGED <<gpc, dishes_amount, i, dpc, nodes_amount, dried, runs>>
      /\ UNCHANGED <<sem, array, table, genQueue, dryQueue, removed>>
  BY DEF WashCheck, genVars, dryVars, ipcVars
<1>2. GenLink = "sem" /\ GenLink # "queue" /\ SemGen /\ ArrayHolds /\ GenTokens /\ ~closing
      /\ ~InHand /\ current \in 0..ArraySize-1
  BY <1>1, SemMode
<1>3. wpc' = "waitEnd" => current = dishes_amount /\ Ended
  <2>1. i \in Nat /\ current \in Nat
    BY <1>1, SemMode, Counts
  <2>2. Filled \in Nat
    BY <2>1 DEF Filled
  <2> QED
    BY <1>1, <1>2, <2>1, <2>2 DEF ArrayHolds, Blank, END
<1>4. TypeOK' /\ Control' /\ Removal'
  BY <1>1, <1>2, KitchenAssumption DEF IInv, TypeOK, IPCTypeOK, GenTypeOK, WashTypeOK,
     DryTypeOK, Control, Removal, InHand
<1>5. Making' /\ Washing'
  BY <1>1, <1>2 DEF IInv, Making, Washing, Held, InHand, Passed, Ended, Exp, Tag
<1>6. SemGen'
  BY <1>1, <1>2, <1>3 DEF SemGen, ArrayHolds, GenTokens, Passed, Filled, InHand, Ended
<1>7. Back'
  BY <1>1, BackFrame, Parts DEF dryVars
<1> QED
  BY <1>2, <1>4, <1>5, <1>6, <1>7 DEF IInv, Front, Back

\* Waiting on the generator's semaphore takes one token.
LEMMA TakeGen ==
  ASSUME IInv, "gen" \notin removed, SemTake("gen")
  PROVE  /\ sem["gen"] \in Nat /\ sem["gen"] > 0 /\ sem'["gen"] = sem["gen"] - 1
         /\ sem'["place"] = sem["place"] /\ sem'["diff"] = sem["diff"] /\ sem' \in [Sems -> Nat]
  BY DEF SemTake, IInv, TypeOK, IPCTypeOK, Sems

LEMMA WashWaitInv ==
  ASSUME IInv, WashWait, UNCHANGED <<genVars, dryVars, runs>> PROVE IInv'
<1>1. wpc = "wait" /\ wpc' = "wash" /\ SemTake("gen")
      /\ UNCHANGED <<current, dish, closing, msg_sent, washed>>
      /\ UNCHANGED <<gpc, dishes_amount, i, dpc, nodes_amount, dried, runs>>
      /\ UNCHANGED <<array, table, genQueue, dryQueue, removed>>
  BY DEF WashWait, genVars, dryVars
<1>2. GenLink = "sem" /\ GenLink # "queue" /\ SemGen /\ ArrayHolds /\ GenTokens /\ ~closing
      /\ ~InHand /\ "gen" \notin removed /\ current \in Nat
  BY <1>1, SemMode
<1>3. /\ sem["gen"] \in Nat /\ sem["gen"] > 0 /\ sem'["gen"] = sem["gen"] - 1
      /\ sem'["place"] = sem["place"] /\ sem'["diff"] = sem["diff"] /\ sem' \in [Sems -> Nat]
  BY <1>1, <1>2, TakeGen
<1>4. TypeOK' /\ Control' /\ Removal'
  BY <1>1, <1>2, <1>3, KitchenAssumption DEF IInv, TypeOK, IPCTypeOK, GenTypeOK, WashTypeOK,
     DryTypeOK, Control, Removal, InHand, Sems
<1>5. Making' /\ Washing'
  BY <1>1, <1>2 DEF IInv, Making, Washing, Held, InHand, Passed, Ended, Exp, Tag
<1>6. GenTokens'
  <2>1. sem["gen"] + current = Passed
    BY <1>1, <1>2, <1>3 DEF GenTokens
  <2>2. Passed' = Passed /\ Passed \in Nat
    BY <1>1, Counts DEF Passed
  <2> QED
    BY <1>1, <1>2, <1>3, <2>1, <2>2 DEF GenTokens, InHand
<1>7. SemGen'
  BY <1>1, <1>2, <1>6 DEF SemGen, ArrayHolds, Filled, Ended
<1>8. Back'
  BY <1>1, <1>3, BackFrame, Parts DEF dryVars
<1> QED
  BY <1>2, <1>4, <1>5, <1>7, <1>8 DEF IInv, Front, Back

\* What is in the slot the washer has a token for.
LEMMA SlotTaken ==
  ASSUME IInv, GenLink = "sem", ArrayHolds, current \in 0..ArraySize-1, current < Passed
  PROVE  /\ Tag(array[current]) = Exp(current + 1)
         /\ current = dishes_amount => gpc = "done"
<1>1. i \in Nat /\ dishes_amount \in Nat /\ current \in Nat /\ i <= dishes_amount
  BY Counts
<1>2. CASE current < i
  BY <1>1, <1>2 DEF ArrayHolds, Filled, Tag, Exp
<1>3. CASE ~(current < i)
  <2>1. gpc = "done" /\ current = i /\ i = dishes_amount
    BY <1>1, <1>3 DEF Passed, IInv, Making, Ended
  <2> QED
    BY <1>1, <2>1 DEF ArrayHolds, Ended, Tag, Exp
<1> QED
  BY <1>2, <1>3, <1>1

\* Appending what was expected keeps the order.
LEMMA WashedAppend ==
  ASSUME IInv, ~closing, ~InHand, NEW x, x = Exp(msg_sent + 1),
         x \in 0..MaxDishes \cup {END}, washed' = Append(washed, x)
  PROVE  /\ washed' \in Seq(0..MaxDishes \cup {END}) /\ Len(washed') = msg_sent + 1
         /\ \A k \in 1..Len(washed') : washed'[k] = Exp(k)
<1>1. washed \in Seq(0..MaxDishes \cup {END})
  BY DEF IInv, TypeOK, WashTypeOK
<1>2. Len(washed) = msg_sent /\ msg_sent \in Nat /\ \A k \in 1..Len(washed) : washed[k] = Exp(k)
  BY Counts DEF IInv, Washing, Held
<1>3. washed' \in Seq(0..MaxDishes \cup {END}) /\ Len(washed') = Len(washed) + 1
      /\ washed'[Len(washed) + 1] = x /\ \A k \in 1..Len(washed) : washed'[k] = washed[k]
  BY <1>1
<1>4. \A k \in 1..Len(washed') : k \in 1..Len(washed) \/ k = Len(washed) + 1
  BY <1>2, <1>3
<1> QED
  BY <1>2, <1>3, <1>4

LEMMA Cleaned ==
  ASSUME NEW d \in Dish, NEW e, e = [d EXCEPT !.is_it_clean = TRUE]
  PROVE  e \in Dish /\ e.item = d.item /\ e.time_to_wash = d.time_to_wash /\ e.is_it_clean
<1>1. e \in Dish
  BY DEF Dish
<1>2. e.item = d.item
  BY DEF Dish
<1>3. e.time_to_wash = d.time_to_wash
  BY DEF Dish
<1>4. e.is_it_clean
  BY DEF Dish
<1> QED
  BY <1>1, <1>2, <1>3, <1>4

LEMMA WashDishInv ==
  ASSUME IInv, WashDish, UNCHANGED <<genVars, dryVars, runs>> PROVE IInv'
<1>1. wpc = "wash" /\ wpc' = "send" /\ array' = [array EXCEPT ![current].is_it_clean = TRUE]
      /\ dish' = array'[current] /\ washed' = Append(washed, Tag(dish'))
      /\ UNCHANGED <<current, closing, msg_sent>>
      /\ UNCHANGED <<gpc, dishes_amount, i, dpc, nodes_amount, dried, runs>>
      /\ UNCHANGED <<sem, table, genQueue, dryQueue, removed>>
  BY DEF WashDish, genVars, dryVars, Tag
<1>2. GenLink = "sem" /\ GenLink # "queue" /\ SemGen /\ ArrayHolds /\ GenTokens /\ ~closing
      /\ ~InHand /\ current \in 0..ArraySize-1 /\ current \in Nat /\ current = msg_sent
      /\ array \in [0..ArraySize-1 -> Dish] /\ sem["gen"] \in Nat
  BY <1>1, SemMode
<1>3. sem["gen"] + current + 1 = Passed /\ current < Passed /\ Passed \in Nat
  <2>1. sem["gen"] + current + 1 = Passed
    BY <1>1, <1>2 DEF GenTokens
  <2>2. Passed \in Nat
    BY Counts
  <2> QED
    BY <2>1, <2>2, <1>2
<1>4. /\ array' \in [0..ArraySize-1 -> Dish] /\ dish' \in Dish /\ dish'.is_it_clean
      /\ dish'.item = array[current].item /\ dish'.time_to_wash = array[current].time_to_wash
      /\ array'[current].item = array[current].item
      /\ array'[current].time_to_wash = array[current].time_to_wash
      /\ \A k \in 0..ArraySize-1 : k # current => array'[k] = array[k]
  <2> DEFINE e == [array[current] EXCEPT !.is_it_clean = TRUE]
  <2>1. array[current] \in Dish
    BY <1>2
  <2>2. e \in Dish /\ e.item = array[current].item /\ e.is_it_clean
        /\ e.time_to_wash = array[current].time_to_wash
    BY <2>1, Cleaned
  <2>3. array' = [array EXCEPT ![current] = e]
    BY <1>1
  <2> HIDE DEF e
  <2>4. array'[current] = e /\ array' \in [0..ArraySize-1 -> Dish]
        /\ \A k \in 0..ArraySize-1 : k # current => array'[k] = array[k]
    BY <1>2, <2>2, <2>3
  <2> QED
    BY <1>1, <2>2, <2>4
<1>5. Tag(dish') = Exp(msg_sent + 1) /\ Tag(dish') \in 0..MaxDishes \cup {END}
  BY <1>2, <1>3, <1>4, SlotTaken DEF Tag, Dish
<1>6. /\ washed' \in Seq(0..MaxDishes \cup {END}) /\ Len(washed') = msg_sent + 1
      /\ \A k \in 1..Len(washed') : washed'[k] = Exp(k)
  <2>1. washed' = Append(washed, Tag(dish'))
    BY <1>1
  <2> QED
    BY <1>2, <1>5, <2>1, WashedAppend
<1>7. TypeOK' /\ Control' /\ Removal'
  BY <1>1, <1>2, <1>4, <1>6, KitchenAssumption DEF IInv, TypeOK, IPCTypeOK, GenTypeOK,
     WashTypeOK, DryTypeOK, Control, Removal, InHand
<1>8. Held' = msg_sent + 1 /\ Passed' = Passed /\ Filled' = Filled
  BY <1>1 DEF Held, InHand, Passed, Filled
<1>9. Making' /\ Washing'
  <2>1. Tag(dish)' = Exp(msg_sent + 1)'
    BY <1>1, <1>5 DEF Tag, Exp
  <2>2. (\A k \in 1..Len(washed) : washed[k] = Exp(k))'
    BY <1>1, <1>6 DEF Exp
  <2>3. Making'
    BY <1>1 DEF IInv, Making, Ended
  <2> QED
    BY <1>1, <1>2, <1>3, <1>4, <1>6, <1>8, <2>1, <2>2, <2>3 DEF Washing
<1>10. SemGen'
  <2>1. ArrayHolds'
    <3>1. ~(current >= Filled /\ ~(current = dishes_amount /\ Ended))
      <4>1. i \in Nat /\ current \in Nat /\ (Ended => i = dishes_amount)
        BY <1>2, Counts DEF IInv, Making
      <4>2. current < i \/ (gpc = "done" /\ current = i)
        BY <1>3, <4>1 DEF Passed
      <4> QED
        BY <4>1, <4>2 DEF Filled, Ended
    <3> QED
      BY <1>1, <1>2, <1>4, <1>8, <3>1 DEF ArrayHolds, Ended
  <2> QED
    BY <1>1, <1>2, <1>3, <1>8, <2>1 DEF SemGen, GenTokens, InHand
<1>11. Back'
  BY <1>1, BackFrame, Parts DEF dryVars
<1> QED
  BY <1>2, <1>7, <1>9, <1>10, <1>11 DEF IInv, Front, Back

LEMMA WashWaitEndInv ==
  ASSUME IInv, WashWaitEnd, UNCHANGED <<genVars, dryVars, runs>> PROVE IInv'
<1>1. wpc = "waitEnd" /\ wpc' = "send" /\ SemTake("gen") /\ dish' = array[current]
      /\ closing' = TRUE
      /\ UNCHANGED <<current, msg_sent, washed>>
      /\ UNCHANGED <<gpc, dishes_amount, i, dpc, nodes_amount, dried, runs>>
      /\ UNCHANGED <<array, table, genQueue, dryQueue, removed>>
  BY DEF WashWaitEnd, genVars, dryVars
<1>2. GenLink = "sem" /\ GenLink # "queue" /\ SemGen /\ ArrayHolds /\ GenTokens /\ ~closing
      /\ ~InHand /\ "gen" \notin removed /\ current \in 0..ArraySize-1 /\ current \in Nat
      /\ current = msg_sent /\ array \in [0..ArraySize-1 -> Dish]
  BY <1>1, SemMode
<1>3. /\ sem["gen"] \in Nat /\ sem["gen"] > 0 /\ sem'["gen"] = sem["gen"] - 1
      /\ sem'["place"] = sem["place"] /\ sem'["diff"] = sem["diff"] /\ sem' \in [Sems -> Nat]
  BY <1>1, <1>2, TakeGen
<1>4. current = dishes_amount /\ Ended /\ sem["gen"] + current = Passed /\ current < Passed
  <2>1. sem["gen"] + current = Passed
    BY <1>1, <1>2, <1>3 DEF GenTokens
  <2> QED
    BY <1>1, <1>2, <1>3, <2>1 DEF SemGen
<1>5. Tag(dish') = Exp(msg_sent + 1) /\ gpc = "done" /\ dish'.time_to_wash = END /\ dish' \in Dish
  BY <1>1, <1>2, <1>4, SlotTaken DEF ArrayHolds
<1>6. TypeOK' /\ Control' /\ Removal'
  BY <1>1, <1>2, <1>3, <1>5, KitchenAssumption DEF IInv, TypeOK, IPCTypeOK, GenTypeOK,
     WashTypeOK, DryTypeOK, Control, Removal, InHand, Sems
<1>7. Held = msg_sent /\ Held' = msg_sent + 1 /\ Passed' = Passed /\ Passed \in Nat
      /\ dishes_amount \in Nat
  BY <1>1, <1>2, Counts DEF Held, InHand, Passed
<1>8. Making' /\ Washing'
  <2>1. Tag(dish)' = Exp(msg_sent + 1)'
    BY <1>1, <1>5 DEF Tag, Exp
  <2>2. (\A k \in 1..Len(washed) : washed[k] = Exp(k))'
    BY <1>1 DEF IInv, Washing, Exp
  <2>3. Making' /\ Len(washed) = msg_sent
    BY <1>1, <1>2, <1>7 DEF IInv, Making, Ended, Washing
  <2>4. dishes_amount' = dishes_amount /\ washed' = washed /\ msg_sent = dishes_amount
    BY <1>1, <1>2, <1>4
  <2>5. Passed' = Passed /\ Passed \in Nat /\ msg_sent < Passed
    BY <1>2, <1>4, <1>7
  <2>6. Held' <= Passed' /\ Held' = dishes_amount' + 1 /\ Len(washed') = Held' - 1
    BY <1>7, <2>3, <2>4, <2>5
  <2> QED
    BY <1>1, <1>5, <2>1, <2>2, <2>3, <2>6 DEF Washing
<1>9. SemGen'
  BY <1>1, <1>2, <1>3, <1>4, <1>7 DEF SemGen, ArrayHolds, GenTokens, Filled, Ended, InHand
<1>10. Back'
  BY <1>1, <1>3, BackFrame, Parts DEF dryVars
<1> QED
  BY <1>2, <1>6, <1>8, <1>9, <1>10 DEF IInv, Front, Back

LEMMA WashRecvInv ==
  ASSUME IInv, WashRecv, UNCHANGED <<genVars, dryVars, runs>> PROVE IInv'
<1> DEFINE d == Head(genQueue)
<1>1. wpc = "recv" /\ wpc' = "send" /\ genQueue # <<>> /\ genQueue' = Tail(genQueue)
      /\ UNCHANGED <<current, msg_sent>>
      /\ UNCHANGED <<gpc, dishes_amount, i, dpc, nodes_amount, dried, runs>>
      /\ UNCHANGED <<sem, array, table, dryQueue, removed>>
  BY DEF WashRecv, genVars, dryVars
<1>2. d.time_to_wash = END => dish' = d /\ closing' = TRUE /\ washed' = washed
  BY DEF WashRecv
<1>3. d.time_to_wash # END => /\ dish' = [d EXCEPT !.is_it_clean = TRUE]
                              /\ washed' = Append(washed, d.item) /\ closing' = closing
  BY DEF WashRecv
<1>4. GenLink = "queue" /\ GenLink # "sem" /\ QueueGen /\ ~closing /\ ~InHand
      /\ genQueue \in Seq(Dish)
  BY <1>1, KitchenAssumption DEF IInv, Control, InHand, TypeOK, IPCTypeOK
<1>5. /\ d = genQueue[1] /\ d \in Dish /\ 1 \in 1..Len(genQueue) /\ Len(genQueue) \in Nat
      /\ genQueue' \in Seq(Dish) /\ Len(genQueue') = Len(genQueue) - 1
      /\ \A k \in 1..Len(genQueue)-1 : genQueue'[k] = genQueue[k+1]
  BY <1>1, <1>4, QueueTail
<1> HIDE DEF d
<1>6. msg_sent \in Nat /\ Held = msg_sent /\ Held' = msg_sent + 1 /\ Passed' = Passed
      /\ Passed \in Nat /\ dishes_amount \in Nat /\ dishes_amount <= MaxDishes
      /\ Passed <= dishes_amount + 1 /\ i <= dishes_amount /\ i \in Nat
  BY <1>1, <1>4, Counts DEF Held, InHand, Passed
<1>7. Tag(d) = Exp(msg_sent + 1) /\ msg_sent + 1 <= Passed
      /\ Held + Len(genQueue) = Passed
  BY <1>1, <1>4, <1>5, <1>6 DEF QueueGen
<1>8. d.time_to_wash = END => msg_sent = dishes_amount /\ gpc = "done"
  <2> SUFFICES ASSUME d.time_to_wash = END PROVE msg_sent = dishes_amount /\ gpc = "done"
    OBVIOUS
  <2>1. Exp(msg_sent + 1) = END
    BY <1>7 DEF Tag
  <2>2. ~(msg_sent + 1 <= dishes_amount)
    BY <1>6, <2>1, KitchenAssumption DEF Exp, END
  <2>3. msg_sent = dishes_amount /\ Passed = dishes_amount + 1
    BY <1>6, <1>7, <2>2
  <2> QED
    BY <1>6, <2>3 DEF Passed
<1>9. /\ washed' \in Seq(0..MaxDishes \cup {END})
      /\ Len(washed') = IF closing' THEN Held' - 1 ELSE Held'
      /\ \A k \in 1..Len(washed') : washed'[k] = Exp(k)
  <2>1. CASE d.time_to_wash = END
    BY <1>2, <1>4, <1>6, <2>1 DEF IInv, TypeOK, WashTypeOK, Washing
  <2>2. CASE d.time_to_wash # END
    <3>1. d.item = Exp(msg_sent + 1) /\ d.item \in 0..MaxDishes \cup {END}
      BY <1>5, <1>7, <2>2 DEF Tag, Dish
    <3>2. washed' = Append(washed, d.item) /\ ~closing'
      BY <1>3, <1>4, <2>2
    <3> QED
      BY <1>4, <1>6, <3>1, <3>2, WashedAppend
  <2> QED
    BY <2>1, <2>2
<1>10. dish' \in Dish /\ Tag(dish') = Exp(msg_sent + 1)
       /\ (dish'.is_it_clean \/ dish'.time_to_wash = END) /\ closing' \in BOOLEAN
  <2>1. CASE d.time_to_wash = END
    BY <1>2, <1>5, <1>7, <2>1
  <2>2. CASE d.time_to_wash # END
    <3>1. dish' \in Dish /\ dish'.item = d.item /\ dish'.time_to_wash = d.time_to_wash
          /\ dish'.is_it_clean
      BY <1>3, <1>5, <2>2, Cleaned
    <3>2. closing' \in BOOLEAN
      BY <1>3, <2>2 DEF IInv, TypeOK, WashTypeOK
    <3> QED
      BY <1>7, <2>2, <3>1, <3>2 DEF Tag
  <2> QED
    BY <2>1, <2>2
<1>11. TypeOK' /\ Control' /\ Removal'
  <2>1. Len(genQueue') <= QueueCap
    BY <1>5, KitchenAssumption DEF IInv, TypeOK, IPCTypeOK
  <2>2. TypeOK'
    BY <1>1, <1>5, <1>9, <1>10, <2>1 DEF IInv, TypeOK, IPCTypeOK, GenTypeOK, WashTypeOK, DryTypeOK
  <2> QED
    BY <1>1, <1>4, <2>2, KitchenAssumption DEF IInv, Control, Removal, InHand
<1>12. Making' /\ Washing'
  <2>1. Tag(dish)' = Exp(msg_sent + 1)'
    BY <1>1, <1>10 DEF Tag, Exp
  <2>2. (\A k \in 1..Len(washed) : washed[k] = Exp(k))'
    BY <1>1, <1>9 DEF Exp
  <2>3. Making'
    BY <1>1 DEF IInv, Making, Ended
  <2>4. closing' => gpc' = "done" /\ Held' = dishes_amount' + 1
    BY <1>1, <1>3, <1>4, <1>6, <1>8
  <2>5. Held' <= Passed'
    BY <1>6, <1>7
  <2> QED
    BY <1>9, <1>10, <2>1, <2>2, <2>3, <2>4, <2>5 DEF Washing
<1>13. QueueGen'
  <2>1. ASSUME NEW k \in 1..Len(genQueue') PROVE Tag(genQueue'[k]) = Exp(msg_sent + 1 + k)
    <3>1. k + 1 \in 1..Len(genQueue) /\ genQueue'[k] = genQueue[k+1]
      BY <1>5
    <3>2. Tag(genQueue[k+1]) = Exp(Held + (k+1))
      BY <1>4, <3>1 DEF QueueGen
    <3>3. msg_sent + 1 + k = Held + (k+1)
      BY <1>6
    <3> QED
      BY <3>1, <3>2, <3>3
  <2>2. (\A k \in 1..Len(genQueue) : Tag(genQueue[k]) = Exp(Held + k))'
    BY <1>1, <1>6, <2>1 DEF Exp, Tag
  <2>3. Held' + Len(genQueue') = Passed'
    BY <1>5, <1>6, <1>7
  <2>4. array' = BlankArray /\ current' = 0 /\ sem'["gen"] = 0
    BY <1>1, <1>4 DEF QueueGen
  <2> QED
    BY <1>1, <2>2, <2>3, <2>4 DEF QueueGen, BlankArray
<1>14. Back'
  BY <1>1, BackFrame, Parts DEF dryVars
<1> QED
  BY <1>4, <1>11, <1>12, <1>13, <1>14 DEF IInv, Front, Back
-----------------------------------------------------------------------------
\* The washer passes on. While it does, the dryer's objects are there.
LEMMA SendOpen ==
  ASSUME IInv, wpc \in {"send", "put"}
  PROVE  ~Over /\ "place" \notin removed /\ "diff" \notin removed /\ InHand
         /\ Held = msg_sent + 1 /\ Placed = msg_sent /\ msg_sent \in Nat
         /\ msg_sent <= dishes_amount /\ dishes_amount \in Nat
<1>1. InHand /\ wpc # "post" /\ Held = msg_sent + 1 /\ Placed = msg_sent
  BY Counts DEF InHand, Held, Placed
<1>2. Placed # dishes_amount + 1 /\ msg_sent <= dishes_amount
  BY <1>1, Counts
<1> QED
  BY <1>1, <1>2, Counts DEF IInv, Drying, Removal, Over

\* On its way to the dryer the dish stays in the washer's hands.
LEMMA FrontInHand ==
  ASSUME Front, InHand, InHand', UNCHANGED <<array, genQueue, genVars>>,
         UNCHANGED <<current, dish, closing, msg_sent, washed>>, sem'["gen"] = sem["gen"]
  PROVE  Front'
<1>1. wpc \in {"send", "put", "post"} /\ wpc' \in {"send", "put", "post"}
  BY DEF InHand
<1>2. Held' = Held /\ Passed' = Passed /\ Filled' = Filled /\ (Ended' <=> Ended)
  BY DEF Held, Passed, Filled, Ended, genVars
<1>3. Making' /\ Washing'
  BY <1>2 DEF Front, Making, Washing, Exp, Tag, genVars, Ended
<1>4. GenLink = "sem" => SemGen'
  BY <1>1, <1>2 DEF Front, SemGen, ArrayHolds, GenTokens, genVars, BlankArray
<1>5. GenLink = "queue" => QueueGen'
  BY <1>1, <1>2 DEF Front, QueueGen, Exp, Tag, genVars, BlankArray
<1> QED
  BY <1>3, <1>4, <1>5 DEF Front

LEMMA SendTakeInv ==
  ASSUME IInv, SendTake, UNCHANGED <<genVars, dryVars, runs>> PROVE IInv'
<1>1. wpc = "send" /\ wpc' = "put" /\ SemTake("place")
      /\ UNCHANGED <<current, dish, closing, msg_sent, washed>>
      /\ UNCHANGED <<gpc, dishes_amount, i, dpc, nodes_amount, dried, runs>>
      /\ UNCHANGED <<array, table, genQueue, dryQueue, removed>>
  BY DEF SendTake, genVars, dryVars
<1>2. ~Over /\ "place" \notin removed /\ InHand /\ InHand' /\ msg_sent \in Nat
  BY <1>1, SendOpen DEF InHand
<1>3. /\ sem["place"] \in Nat /\ sem["place"] > 0 /\ sem'["place"] = sem["place"] - 1
      /\ sem'["gen"] = sem["gen"] /\ sem'["diff"] = sem["diff"] /\ sem' \in [Sems -> Nat]
  BY <1>1, <1>2 DEF SemTake, IInv, TypeOK, IPCTypeOK, Sems
<1>4. TypeOK' /\ Control' /\ Removal'
  BY <1>1, <1>2, <1>3, KitchenAssumption DEF IInv, TypeOK, IPCTypeOK, GenTypeOK, WashTypeOK,
     DryTypeOK, Control, Removal, InHand, Sems
<1>5. Front'
  BY <1>1, <1>2, <1>3, FrontInHand, Parts DEF genVars
<1>6. PlaceTokens'
  <2>1. sem["place"] + msg_sent = (IF dpc = "start" THEN 0 ELSE TableSize) + Freed
    BY <1>1, <1>2, <1>3 DEF IInv, PlaceTokens
  <2>2. Freed' = Freed
    BY <1>1 DEF Freed
  <2> QED
    BY <1>1, <1>2, <1>3, <2>1, <2>2 DEF PlaceTokens
<1>7. Placed' = Placed /\ Heard' = Heard /\ (Over' <=> Over) /\ Waiting' = Waiting
  BY <1>1 DEF Placed, Heard, Over, Waiting
<1>8. Drying' /\ TableNotOverrun'
  BY <1>1, <1>7 DEF IInv, Drying, TableNotOverrun, Exp
<1>9. DryLink = "sem" => SemDry'
  BY <1>1, <1>3, <1>7 DEF IInv, SemDry, TableHolds, Exp, Tag, BlankTable
<1>10. DryLink = "queue" => QueueDry'
  BY <1>1, <1>3, <1>7 DEF IInv, QueueDry, Exp, Tag, BlankTable
<1> QED
  BY <1>4, <1>5, <1>6, <1>8, <1>9, <1>10 DEF IInv, Front

\* Dishes less than a table apart have slots of their own.
LEMMA SlotsApart ==
  ASSUME NEW n \in Nat \ {0}, NEW a \in Nat, NEW b \in Nat, a < b, b - a < n
  PROVE  a % n # b % n
<1> SUFFICES ASSUME a % n = b % n PROVE FALSE
  OBVIOUS
<1> DEFINE p == a \div n  q == b \div n
<1>1. p \in Int /\ q \in Int /\ a = n * p + (a % n) /\ b = n * q + (b % n)
  OBVIOUS
<1> HIDE DEF p, q
<1>2. b - a = n * q - n * p
  BY <1>1
<1>3. n * q - n * p = n * (q - p)
  BY <1>1
<1>4. ASSUME NEW d \in Int PROVE ~(0 < n * d /\ n * d < n)
  <2>1. CASE d <= 0
    <3>1. n * (0 - d) >= 0 /\ n * (0 - d) = 0 - n * d
      BY <2>1
    <3> QED
      BY <3>1
  <2>2. CASE d >= 1
    <3>1. n * (d - 1) >= 0 /\ n * (d - 1) = n * d - n
      BY <2>2
    <3> QED
      BY <3>1
  <2> QED
    BY <2>1, <2>2
<1>5. q - p \in Int /\ 0 < n * (q - p) /\ n * (q - p) < n
  BY <1>1, <1>2, <1>3
<1> QED
  BY <1>4, <1>5

LEMMA SlotType ==
  ASSUME NEW n \in Nat \ {0}, NEW a \in Nat
  PROVE  a % n \in 0..n-1
  OBVIOUS

\* There is room on the table for the dish the washer has a place for.
LEMMA RoomToPut ==
  ASSUME IInv, wpc = "put"
  PROVE  /\ msg_sent + 1 - Len(dried) <= TableSize
         /\ sem["place"] \in Nat /\ Len(dried) \in Nat /\ msg_sent \in Nat /\ TableSize \in Nat
<1>1. sem["place"] \in Nat
  BY DEF IInv, TypeOK, IPCTypeOK, Sems
<1>2. sem["place"] + msg_sent + 1 = (IF dpc = "start" THEN 0 ELSE TableSize) + Freed
  BY SendOpen DEF IInv, PlaceTokens
<1>3. Freed <= Len(dried) /\ Freed \in Nat /\ Len(dried) \in Nat
  BY Counts DEF Freed
<1>4. msg_sent \in Nat /\ TableSize \in Nat
  BY Counts
<1> QED
  BY <1>1, <1>2, <1>3, <1>4

LEMMA SendFillInv ==
  ASSUME IInv, SendFill, UNCHANGED <<genVars, dryVars, runs>> PROVE IInv'
<1>1. wpc = "put" /\ DryLink = "sem" /\ wpc' = "post"
      /\ table' = [table EXCEPT ![msg_sent % TableSize] = dish]
      /\ UNCHANGED <<current, dish, closing, msg_sent, washed>>
      /\ UNCHANGED <<gpc, dishes_amount, i, dpc, nodes_amount, dried, runs>>
      /\ UNCHANGED <<sem, array, genQueue, dryQueue, removed>>
  BY DEF SendFill, genVars, dryVars
<1>2. ~Over /\ InHand /\ InHand' /\ msg_sent \in Nat /\ Placed = msg_sent
      /\ Held = msg_sent + 1 /\ "place" \notin removed /\ DryLink # "queue"
      /\ msg_sent <= dishes_amount /\ dishes_amount \in Nat
  BY <1>1, SendOpen DEF InHand
<1>3. SemDry /\ nodes_amount = Len(dried) /\ TableHolds
      /\ nodes_amount \in Nat /\ TableSize \in Nat \ {0}
  BY <1>1, <1>2, Counts DEF IInv, SemDry, Over
<1>4. /\ Tag(dish) = Exp(msg_sent + 1) /\ dish \in Dish
      /\ dish.is_it_clean \/ dish.time_to_wash = END
  BY <1>2 DEF IInv, Washing, TypeOK, WashTypeOK
<1>5. dish.time_to_wash = END => msg_sent = dishes_amount
  BY <1>2, <1>4, Counts, KitchenAssumption DEF Tag, Exp, END
<1>6. msg_sent % TableSize \in 0..TableSize-1
  BY <1>2, <1>3, SlotType
<1>7. /\ table' \in [0..TableSize-1 -> Dish] /\ table'[msg_sent % TableSize] = dish
      /\ \A s \in 0..TableSize-1 : s # msg_sent % TableSize => table'[s] = table[s]
  BY <1>1, <1>4, <1>6 DEF IInv, TypeOK, IPCTypeOK
<1>8. Placed' = msg_sent + 1
  BY <1>1 DEF Placed
<1>9. msg_sent + 1 - nodes_amount <= TableSize /\ Waiting' = msg_sent + 1 - nodes_amount
  BY <1>1, <1>3, RoomToPut DEF Waiting
<1>10. ASSUME NEW k \in nodes_amount..msg_sent
       PROVE  /\ Tag(table'[k % TableSize]) = Exp(k + 1)
              /\ table'[k % TableSize].is_it_clean \/ table'[k % TableSize].time_to_wash = END
  <2>1. CASE k = msg_sent
    BY <1>4, <1>7, <2>1
  <2>2. CASE k # msg_sent
    <3>1. k \in Nat /\ k < msg_sent /\ msg_sent - k < TableSize /\ k \in nodes_amount..Placed-1
      BY <1>2, <1>3, <1>9, <2>2
    <3>2. k % TableSize # msg_sent % TableSize /\ k % TableSize \in 0..TableSize-1
      BY <1>2, <1>3, <3>1, SlotsApart, SlotType
    <3>3. table'[k % TableSize] = table[k % TableSize]
      BY <1>7, <3>2
    <3> QED
      BY <1>3, <3>1, <3>3 DEF TableHolds
  <2> QED
    BY <2>1, <2>2
<1>11. ASSUME NEW s \in 0..TableSize-1, table'[s].time_to_wash = END
       PROVE  Placed' = dishes_amount + 1
  <2>1. CASE s = msg_sent % TableSize
    BY <1>5, <1>7, <1>8, <1>11, <2>1
  <2>2. CASE s # msg_sent % TableSize
    <3>1. Placed = dishes_amount + 1
      BY <1>3, <1>7, <1>11, <2>2 DEF TableHolds
    <3> QED
      BY <1>2, <3>1
  <2> QED
    BY <2>1, <2>2
<1>12. TableHolds'
  <2>1. nodes_amount'..Placed'-1 = nodes_amount..msg_sent
    BY <1>1, <1>2, <1>8
  <2>2. (\A k \in nodes_amount..Placed-1 :
          /\ Tag(table[k % TableSize]) = Exp(k + 1)
          /\ table[k % TableSize].is_it_clean \/ table[k % TableSize].time_to_wash = END)'
    BY <1>1, <1>10, <2>1 DEF Exp, Tag
  <2>3. (\A s \in 0..TableSize-1 : table[s].time_to_wash = END => Placed = dishes_amount + 1)'
    BY <1>1, <1>11
  <2> QED
    BY <2>2, <2>3 DEF TableHolds
<1>13. TypeOK' /\ Control' /\ Removal'
  BY <1>1, <1>2, <1>7, KitchenAssumption DEF IInv, TypeOK, IPCTypeOK, GenTypeOK, WashTypeOK,
     DryTypeOK, Control, Removal, InHand
<1>14. Front'
  BY <1>1, <1>2, FrontInHand, Parts DEF genVars
<1>15. PlaceTokens' /\ Drying' /\ TableNotOverrun'
  <2>1. Freed' = Freed /\ (Over' <=> Over)
    BY <1>1 DEF Freed, Over
  <2>2. PlaceTokens'
    BY <1>1, <1>2, <2>1 DEF IInv, PlaceTokens
  <2>3. Drying'
    BY <1>1, <1>2, <2>1 DEF IInv, Drying, Exp
  <2> QED
    BY <1>9, <2>2, <2>3 DEF TableNotOverrun
<1>16. SemDry'
  BY <1>1, <1>2, <1>3, <1>12 DEF SemDry, Heard, Over
<1> QED
  BY <1>2, <1>13, <1>14, <1>15, <1>16 DEF IInv, Front

\* After the send the washer goes to its next dish, or stops.
LEMMA Return ==
  ASSUME IInv, wpc \in {"put", "post"}, SendReturn, UNCHANGED <<genVars, array, genQueue>>,
         sem'["gen"] = sem["gen"]
  PROVE  Front' /\ WashTypeOK' /\ msg_sent' = msg_sent + 1 /\ msg_sent \in Nat
         /\ wpc' \notin {"send", "put", "post", "rmsem", "done"} /\ Held' = Held
         /\ (wpc' = "close" <=> closing') /\ closing' = closing
         /\ (GenLink = "sem" => wpc' \in {"check", "close"})
         /\ (GenLink = "queue" => wpc' \in {"recv", "close"})
<1>1. /\ msg_sent' = msg_sent + 1 /\ UNCHANGED <<dish, closing, washed>>
      /\ current' = IF closing \/ GenLink = "queue" THEN current ELSE current + 1
      /\ UNCHANGED <<gpc, dishes_amount, i, array, genQueue>>
  BY DEF SendReturn, genVars
<1>2. wpc' = IF closing THEN "close" ELSE IF GenLink = "sem" THEN "check" ELSE "recv"
  BY DEF SendReturn, WashBegin
<1>3. ~InHand' /\ InHand /\ (wpc' = "close" <=> closing)
      /\ wpc' \notin {"send", "put", "post", "rmsem", "done", "wash", "waitEnd", "wait"}
      /\ (GenLink = "sem" => wpc' \in {"check", "close"})
      /\ (GenLink = "queue" => wpc' \in {"recv", "close"})
  BY <1>2 DEF InHand
<1>4. msg_sent \in Nat /\ Held = msg_sent + 1 /\ Held' = msg_sent + 1 /\ Held <= Passed
      /\ Passed \in Nat /\ Passed <= dishes_amount + 1 /\ dishes_amount \in Nat
      /\ dishes_amount <= MaxDishes /\ ArraySize \in Nat /\ ArraySize > MaxDishes + 1
      /\ MaxDishes \in Nat
  BY <1>1, <1>3, Counts DEF Held
<1>5. Passed' = Passed /\ Filled' = Filled /\ (Ended' <=> Ended)
  BY <1>1 DEF Passed, Filled, Ended
<1>6. Making' /\ Washing'
  <2>1. (\A k \in 1..Len(washed) : washed[k] = Exp(k))'
    BY <1>1 DEF IInv, Washing, Exp
  <2>2. Making'
    BY <1>1, <1>5 DEF IInv, Making
  <2> QED
    BY <1>1, <1>3, <1>4, <1>5, <2>1, <2>2 DEF IInv, Washing
<1>7. ASSUME GenLink = "sem" PROVE SemGen' /\ current' \in 0..ArraySize-1
  <2>1. SemGen /\ current = msg_sent /\ ArrayHolds /\ GenTokens
    BY <1>7 DEF IInv, SemGen
  <2>2. GenLink # "queue"
    BY <1>7
  <2>3. ArrayHolds'
    BY <1>1, <1>5, <2>1 DEF ArrayHolds
  <2>4. sem["gen"] \in Nat /\ sem["gen"] + msg_sent + 1 = Passed
    BY <1>3, <2>1 DEF GenTokens, IInv, TypeOK, IPCTypeOK, Sems
  <2>5. GenTokens'
    BY <1>1, <1>3, <1>4, <1>5, <2>1, <2>2, <2>4 DEF GenTokens
  <2>6. current' = IF wpc' = "close" THEN msg_sent' - 1 ELSE msg_sent'
    BY <1>1, <1>3, <1>4, <2>1, <2>2
  <2>7. current' \in 0..ArraySize-1
    BY <1>4, <1>1, <2>1
  <2> QED
    BY <1>1, <1>3, <2>1, <2>3, <2>5, <2>6, <2>7 DEF SemGen
<1>8. ASSUME GenLink = "queue" PROVE QueueGen' /\ current' \in 0..ArraySize-1
  <2>1. QueueGen /\ wpc # "done"
    BY <1>8 DEF IInv
  <2>2. current' = 0 /\ array' = BlankArray /\ sem'["gen"] = 0
    BY <1>1, <1>8, <2>1 DEF QueueGen
  <2>3. (\A k \in 1..Len(genQueue) : Tag(genQueue[k]) = Exp(Held + k))'
    BY <1>1, <1>4, <2>1 DEF QueueGen, Exp, Tag
  <2>4. Held' + Len(genQueue') = Passed'
    BY <1>1, <1>4, <1>5, <2>1 DEF QueueGen
  <2> QED
    BY <1>3, <1>4, <2>2, <2>3, <2>4 DEF QueueGen, BlankArray
<1>9. WashTypeOK'
  BY <1>1, <1>2, <1>4, <1>7, <1>8, KitchenAssumption DEF IInv, TypeOK, WashTypeOK
<1> QED
  BY <1>1, <1>3, <1>4, <1>6, <1>7, <1>8, <1>9 DEF Front

LEMMA SendPostInv ==
  ASSUME IInv, SendPost, UNCHANGED <<genVars, dryVars, runs>> PROVE IInv'
<1>1. wpc = "post" /\ SemAdd("diff", 1) /\ SendReturn
      /\ UNCHANGED <<gpc, dishes_amount, i, dpc, nodes_amount, dried, runs>>
      /\ UNCHANGED <<array, table, genQueue, dryQueue, removed>>
  BY DEF SendPost, genVars, dryVars
<1>2. DryLink = "sem" /\ DryLink # "queue"
  BY <1>1, KitchenAssumption DEF IInv, Control
<1>3. /\ sem'["gen"] = sem["gen"] /\ sem'["place"] = sem["place"] /\ sem' \in [Sems -> Nat]
      /\ sem["diff"] \in Nat
      /\ sem'["diff"] = IF "diff" \in removed THEN sem["diff"] ELSE sem["diff"] + 1
  BY <1>1 DEF SemAdd, IInv, TypeOK, IPCTypeOK, Sems
<1>4. Front' /\ WashTypeOK' /\ msg_sent' = msg_sent + 1 /\ msg_sent \in Nat
      /\ wpc' \notin {"send", "put", "post", "rmsem", "done"} /\ Held' = Held
      /\ (wpc' = "close" <=> closing') /\ closing' = closing
      /\ (GenLink = "sem" => wpc' \in {"check", "close"})
      /\ (GenLink = "queue" => wpc' \in {"recv", "close"})
  BY <1>1, <1>3, Return DEF genVars
<1>5. TypeOK' /\ Control' /\ Removal'
  BY <1>1, <1>2, <1>3, <1>4, KitchenAssumption DEF IInv, TypeOK, IPCTypeOK, GenTypeOK,
     DryTypeOK, Control, Removal, InHand, Sems
<1>6. Placed' = Placed /\ Freed' = Freed /\ (Over' <=> Over) /\ Heard' = Heard
      /\ Waiting' = Waiting /\ Placed = msg_sent + 1 /\ Len(dried) \in Nat /\ nodes_amount \in Nat
  <2>1. Len(dried) \in Nat /\ nodes_amount \in Nat
    BY Counts
  <2>2. Placed = msg_sent + 1 /\ Placed' = Placed
    BY <1>1, <1>4 DEF Placed
  <2>3. Freed' = Freed /\ (Over' <=> Over) /\ Heard' = Heard
    BY <1>1 DEF Freed, Over, Heard
  <2>4. Waiting' = Waiting
    BY <1>1, <1>4, <2>1 DEF Waiting
  <2> QED
    BY <2>1, <2>2, <2>3, <2>4
<1>7. PlaceTokens'
  <2>1. "place" \notin removed =>
          sem["place"] + (msg_sent + 1) = (IF dpc = "start" THEN 0 ELSE TableSize) + Freed
    BY <1>1, <1>3, <1>4 DEF IInv, PlaceTokens, TypeOK, IPCTypeOK, Sems
  <2>2. sem["place"] \in Nat /\ sem'["place"] \in Nat
    BY <1>3 DEF Sems
  <2> QED
    BY <1>1, <1>3, <1>4, <1>6, <2>1, <2>2 DEF PlaceTokens
<1>8. Drying' /\ TableNotOverrun'
  BY <1>1, <1>4, <1>6 DEF IInv, Drying, TableNotOverrun, Exp
<1>9. SemDry'
  <2>1. SemDry /\ ("diff" \in removed <=> dpc = "done")
    BY <1>2 DEF IInv, Removal
  <2>2. dpc # "done" => sem'["diff"] + Heard' = msg_sent'
    <3>1. Heard \in Nat
      BY <1>6 DEF Heard
    <3> QED
      BY <1>3, <1>4, <1>6, <2>1, <3>1 DEF SemDry
  <2>3. TableHolds => TableHolds'
    BY <1>1, <1>6 DEF TableHolds, Exp, Tag
  <2> QED
    BY <1>1, <2>1, <2>2, <2>3 DEF SemDry, BlankTable
<1> QED
  BY <1>2, <1>4, <1>5, <1>7, <1>8, <1>9 DEF IInv, Front

LEMMA SendMsgInv ==
  ASSUME IInv, SendMsg, UNCHANGED <<genVars, dryVars, runs>> PROVE IInv'
<1>1. wpc = "put" /\ DryLink = "queue" /\ Len(dryQueue) < QueueCap
      /\ dryQueue' = Append(dryQueue, dish) /\ SendReturn
      /\ UNCHANGED <<gpc, dishes_amount, i, dpc, nodes_amount, dried, runs>>
      /\ UNCHANGED <<sem, array, table, genQueue, removed>>
  BY DEF SendMsg, genVars, dryVars
<1>2. Front' /\ WashTypeOK' /\ msg_sent' = msg_sent + 1 /\ msg_sent \in Nat
      /\ wpc' \notin {"send", "put", "post", "rmsem", "done"} /\ Held' = Held
      /\ (wpc' = "close" <=> closing') /\ closing' = closing
      /\ (GenLink = "sem" => wpc' \in {"check", "close"})
      /\ (GenLink = "queue" => wpc' \in {"recv", "close"})
  BY <1>1, Return DEF genVars
<1>3. ~Over /\ "place" \notin removed /\ InHand /\ DryLink # "sem" /\ QueueDry
  BY <1>1, SendOpen DEF IInv
<1>4. /\ Tag(dish) = Exp(msg_sent + 1) /\ dish \in Dish
      /\ dish.is_it_clean \/ dish.time_to_wash = END
  BY <1>3 DEF IInv, Washing, TypeOK, WashTypeOK
<1>5. dryQueue \in Seq(Dish)
  BY DEF IInv, TypeOK, IPCTypeOK
<1>6. /\ dryQueue' \in Seq(Dish) /\ Len(dryQueue') = Len(dryQueue) + 1
      /\ Len(dryQueue') <= QueueCap /\ dryQueue'[Len(dryQueue) + 1] = dish
      /\ \A k \in 1..Len(dryQueue) : dryQueue'[k] = dryQueue[k]
  BY <1>1, <1>4, <1>5, QueueAppend
<1>7. Len(dryQueue) \in Nat /\ Len(dried) \in Nat /\ msg_sent = Len(dried) + Len(dryQueue)
      /\ TableSize \in Nat
  BY <1>3, <1>5, Counts DEF QueueDry
<1>8. TypeOK' /\ Control' /\ Removal'
  BY <1>1, <1>2, <1>3, <1>6, KitchenAssumption DEF IInv, TypeOK, IPCTypeOK, GenTypeOK,
     DryTypeOK, Control, Removal, InHand, Sems
<1>9. PlaceTokens'
  <2>1. sem["place"] + (msg_sent + 1) = (IF dpc = "start" THEN 0 ELSE TableSize) + Freed
    BY <1>1, <1>2, <1>3 DEF IInv, PlaceTokens, TypeOK, IPCTypeOK, Sems
  <2>2. Freed' = Freed
    BY <1>1 DEF Freed
  <2>3. sem["place"] \in Nat
    BY <1>1, RoomToPut
  <2> QED
    BY <1>1, <1>2, <2>1, <2>2, <2>3 DEF PlaceTokens
<1>10. TableNotOverrun'
  BY <1>1, <1>6, <1>7, RoomToPut DEF TableNotOverrun, Waiting
<1>11. Drying'
  <2>1. Len(dried) <= msg_sent' /\ ~Over'
    BY <1>1, <1>2, <1>3, <1>7 DEF Over
  <2> QED
    BY <1>1, <2>1 DEF IInv, Drying, Exp
<1>12. QueueDry'
  <2>1. ASSUME NEW k \in 1..Len(dryQueue')
        PROVE  /\ Tag(dryQueue'[k]) = Exp(Len(dried) + k)
               /\ dryQueue'[k].is_it_clean \/ dryQueue'[k].time_to_wash = END
    <3>1. CASE k \in 1..Len(dryQueue)
      BY <1>3, <1>6, <3>1 DEF QueueDry
    <3>2. CASE k = Len(dryQueue) + 1
      <4>1. Len(dried) + k = msg_sent + 1
        BY <1>7, <3>2
      <4> QED
        BY <1>4, <1>6, <3>2, <4>1
    <3> QED
      BY <1>6, <1>7, <3>1, <3>2
  <2>2. (\A k \in 1..Len(dryQueue) :
          /\ Tag(dryQueue[k]) = Exp(Len(dried) + k)
          /\ dryQueue[k].is_it_clean \/ dryQueue[k].time_to_wash = END)'
    BY <1>1, <2>1 DEF Exp, Tag
  <2>3. msg_sent' = Len(dried') + Len(dryQueue')
    BY <1>1, <1>2, <1>6, <1>7
  <2>4. nodes_amount' = 0 /\ table' = BlankTable /\ sem'["diff"] = 0 /\ ~Over'
    BY <1>1, <1>3 DEF QueueDry, Over
  <2> QED
    BY <2>2, <2>3, <2>4 DEF QueueDry, BlankTable
<1> QED
  BY <1>2, <1>3, <1>8, <1>9, <1>10, <1>11, <1>12 DEF IInv, Front
-----------------------------------------------------------------------------
\* The washer removes the objects of its link with the generator.
LEMMA WashCloseInv ==
  ASSUME IInv, WashClose, UNCHANGED <<genVars, dryVars, runs>> PROVE IInv'
<1>1. /\ wpc = "close" /\ UNCHANGED <<current, dish, closing, msg_sent, washed>>
      /\ UNCHANGED <<gpc, dishes_amount, i, dpc, nodes_amount, dried, runs>>
      /\ UNCHANGED <<sem, table, dryQueue, removed>>
  BY DEF WashClose, genVars, dryVars
<1>2. /\ GenLink = "sem" => array' = BlankArray /\ wpc' = "rmsem" /\ genQueue' = genQueue
      /\ GenLink = "queue" => genQueue' = <<>> /\ wpc' = "done" /\ array' = array
  BY DEF WashClose
<1>3. wpc' \in {"rmsem", "done"} /\ ~InHand /\ ~InHand' /\ closing
  BY <1>1, <1>2, KitchenAssumption DEF InHand, IInv, Control
<1>4. array' \in [0..ArraySize-1 -> Dish] /\ genQueue' \in Seq(Dish) /\ Len(genQueue') <= QueueCap
  <2>1. Blank \in Dish
    BY KitchenAssumption DEF Blank, Dish
  <2>2. BlankArray \in [0..ArraySize-1 -> Dish]
    BY <2>1 DEF BlankArray
  <2>3. /\ array \in [0..ArraySize-1 -> Dish] /\ genQueue \in Seq(Dish)
        /\ Len(genQueue) <= QueueCap /\ GenLink \in {"sem", "queue"} /\ QueueCap \in Nat
    BY KitchenAssumption DEF IInv, TypeOK, IPCTypeOK
  <2>4. CASE GenLink = "sem"
    BY <1>2, <2>2, <2>3, <2>4
  <2>5. CASE GenLink = "queue"
    <3>1. <<>> \in Seq(Dish) /\ Len(<<>>) = 0
      OBVIOUS
    <3> QED
      BY <1>2, <2>3, <2>5, <3>1
  <2> QED
    BY <2>3, <2>4, <2>5
<1>5. TypeOK' /\ Control' /\ Removal'
  <2>1. TypeOK'
    BY <1>1, <1>3, <1>4 DEF IInv, TypeOK, IPCTypeOK, GenTypeOK, WashTypeOK, DryTypeOK
  <2>2. Control'
    BY <1>1, <1>2, <1>3, KitchenAssumption DEF IInv, Control, InHand
  <2>3. Removal'
    BY <1>1, <1>2, KitchenAssumption DEF IInv, Removal
  <2> QED
    BY <2>1, <2>2, <2>3
<1>6. Held' = Held /\ Passed' = Passed /\ (Ended' <=> Ended)
  BY <1>1, <1>3 DEF Held, Passed, Ended
<1>7. Making' /\ Washing'
  BY <1>1, <1>3, <1>6 DEF IInv, Making, Washing, Exp
<1>8. GenLink = "sem" => SemGen'
  BY <1>1, <1>2, <1>3, <1>6 DEF IInv, SemGen, BlankArray
<1>9. GenLink = "queue" => QueueGen'
  BY <1>1, <1>2, <1>3, <1>6 DEF IInv, QueueGen, BlankArray
<1>10. Back'
  BY <1>1, <1>3, BackFrame, Parts DEF dryVars
<1> QED
  BY <1>5, <1>7, <1>8, <1>9, <1>10 DEF IInv, Back

LEMMA WashRemoveSemInv ==
  ASSUME IInv, WashRemoveSem, UNCHANGED <<genVars, dryVars, runs>> PROVE IInv'
<1>1. /\ wpc = "rmsem" /\ wpc' = "done" /\ UNCHANGED <<current, dish, closing, msg_sent, washed>>
      /\ UNCHANGED <<gpc, dishes_amount, i, dpc, nodes_amount, dried, runs>>
      /\ UNCHANGED <<array, table, genQueue, dryQueue>>
      /\ removed' = removed \cup {"gen"}
  BY DEF WashRemoveSem, SemRemove, genVars, dryVars
<1>2. GenLink = "sem" /\ GenLink # "queue" /\ ~InHand /\ ~InHand' /\ closing /\ SemGen
  BY <1>1, KitchenAssumption DEF InHand, IInv, Control
<1>3. /\ sem' \in [Sems -> Nat] /\ sem'["gen"] = 0
      /\ sem'["place"] = sem["place"] /\ sem'["diff"] = sem["diff"]
  BY DEF WashRemoveSem, SemRemove, IInv, TypeOK, IPCTypeOK, Sems
<1>4. TypeOK'
  BY <1>1, <1>3 DEF IInv, TypeOK, IPCTypeOK, GenTypeOK, WashTypeOK, DryTypeOK, Sems
<1>5. Control'
  BY <1>1, <1>2 DEF IInv, Control, InHand
<1>6. Removal'
  BY <1>1, <1>2, <1>3 DEF IInv, Removal, TypeOK, IPCTypeOK, Sems
<1>7. Held' = Held /\ Passed' = Passed /\ (Ended' <=> Ended)
  BY <1>1, <1>2 DEF Held, Passed, Ended
<1>8. Making' /\ Washing'
  BY <1>1, <1>2, <1>7 DEF IInv, Making, Washing, Exp
<1>9. SemGen'
  BY <1>1, <1>2, <1>7 DEF SemGen, BlankArray
<1>10. PlaceTokens'
  BY <1>1, <1>3 DEF IInv, PlaceTokens, Freed
<1>11. Drying' /\ TableNotOverrun'
  BY <1>1 DEF IInv, Drying, TableNotOverrun, Waiting, Over, Placed, Exp
<1>12. DryLink = "sem" => SemDry'
  BY <1>1, <1>3 DEF IInv, SemDry, TableHolds, Heard, Placed, Exp, Tag, BlankTable
<1>13. DryLink = "queue" => QueueDry'
  BY <1>1, <1>3 DEF IInv, QueueDry, Over, Exp, Tag, BlankTable
<1> QED
  BY <1>2, <1>4, <1>5, <1>6, <1>8, <1>9, <1>10, <1>11, <1>12, <1>13 DEF IInv
-----------------------------------------------------------------------------
\* The dryer.  None of its steps touches the generator's side.
LEMMA DryStartInv ==
  ASSUME IInv, DryStart, UNCHANGED <<genVars, washVars, runs>> PROVE IInv'
<1>1. /\ dpc = "start" /\ SemAdd("place", TableSize)
      /\ dpc' = IF DryLink = "sem" THEN "first" ELSE "recv"
      /\ UNCHANGED <<nodes_amount, dried, array, table, genQueue, dryQueue, removed>>
      /\ UNCHANGED <<gpc, dishes_amount, i, runs>>
      /\ UNCHANGED <<wpc, current, dish, closing, msg_sent, washed>>
  BY DEF DryStart, genVars, washVars
<1>2. "place" \notin removed /\ ~Over /\ ~Over'
  BY <1>1 DEF IInv, Removal, Over
<1>3. /\ sem' \in [Sems -> Nat] /\ sem'["place"] = sem["place"] + TableSize
      /\ sem'["gen"] = sem["gen"] /\ sem'["diff"] = sem["diff"] /\ sem["place"] \in Nat
  BY <1>1, <1>2, KitchenAssumption DEF SemAdd, IInv, TypeOK, IPCTypeOK, Sems
<1>4. TypeOK' /\ Control' /\ Removal'
  BY <1>1, <1>2, <1>3, KitchenAssumption DEF IInv, TypeOK, IPCTypeOK, GenTypeOK, WashTypeOK,
     DryTypeOK, Control, Removal, InHand, Sems
<1>5. Front'
  BY <1>1, <1>3, FrontFrame, Parts DEF genVars, washVars
<1>6. Freed' = Freed /\ Placed' = Placed /\ Waiting' = Waiting
      /\ Freed \in Nat /\ msg_sent \in Nat /\ TableSize \in Nat
      /\ (DryLink = "sem" => Heard' = Heard)
  BY <1>1, Counts DEF Freed, Placed, Waiting, Heard
<1>7. PlaceTokens'
  BY <1>1, <1>2, <1>3, <1>6 DEF IInv, PlaceTokens
<1>8. Drying' /\ TableNotOverrun'
  BY <1>1, <1>2, <1>6 DEF IInv, Drying, TableNotOverrun, Exp
<1>9. DryLink = "sem" => SemDry'
  BY <1>1, <1>3, <1>6 DEF IInv, SemDry, TableHolds, Exp, Tag, BlankTable
<1>10. DryLink = "queue" => QueueDry'
  BY <1>1, <1>2, <1>3 DEF IInv, QueueDry, Exp, Tag, BlankTable
<1> QED
  BY <1>4, <1>5, <1>7, <1>8, <1>9, <1>10 DEF IInv, Front

\* A wait on "diff" takes one token, and only when something new is on the table.
LEMMA TakeDiff ==
  ASSUME IInv, DryLink = "sem", dpc # "done", SemTake("diff")
  PROVE  /\ sem["diff"] \in Nat /\ sem["diff"] > 0 /\ sem'["diff"] = sem["diff"] - 1
         /\ sem'["gen"] = sem["gen"] /\ sem'["place"] = sem["place"] /\ sem' \in [Sems -> Nat]
  BY DEF SemTake, IInv, Removal, TypeOK, IPCTypeOK, Sems

LEMMA DryFirstInv ==
  ASSUME IInv, DryFirst, UNCHANGED <<genVars, washVars, runs>> PROVE IInv'
<1>1. /\ dpc = "first" /\ SemTake("diff") /\ dpc' = "check"
      /\ UNCHANGED <<nodes_amount, dried, array, table, genQueue, dryQueue, removed>>
      /\ UNCHANGED <<gpc, dishes_amount, i, runs>>
      /\ UNCHANGED <<wpc, current, dish, closing, msg_sent, washed>>
  BY DEF DryFirst, genVars, washVars
<1>2. DryLink = "sem" /\ DryLink # "queue" /\ SemDry /\ ~Over /\ ~Over'
  BY <1>1, KitchenAssumption DEF IInv, Control, Over
<1>3. /\ sem["diff"] \in Nat /\ sem["diff"] > 0 /\ sem'["diff"] = sem["diff"] - 1
      /\ sem'["gen"] = sem["gen"] /\ sem'["place"] = sem["place"] /\ sem' \in [Sems -> Nat]
  BY <1>1, <1>2, TakeDiff
<1>4. TypeOK' /\ Control' /\ Removal'
  BY <1>1, <1>2, <1>3, KitchenAssumption DEF IInv, TypeOK, IPCTypeOK, GenTypeOK, WashTypeOK,
     DryTypeOK, Control, Removal, InHand, Sems
<1>5. Front'
  BY <1>1, <1>3, FrontFrame, Parts DEF genVars, washVars
<1>6. Freed' = Freed /\ Placed' = Placed /\ Waiting' = Waiting /\ Heard = 0 /\ Heard' = 1
      /\ msg_sent \in Nat
  BY <1>1, <1>2, Counts DEF Freed, Placed, Waiting, Heard, SemDry
<1>7. PlaceTokens'
  BY <1>1, <1>3, <1>6 DEF IInv, PlaceTokens
<1>8. Drying' /\ TableNotOverrun'
  BY <1>1, <1>2, <1>6 DEF IInv, Drying, TableNotOverrun, Exp
<1>9. SemDry'
  BY <1>1, <1>2, <1>3, <1>6 DEF SemDry, TableHolds, Exp, Tag, BlankTable
<1> QED
  BY <1>2, <1>4, <1>5, <1>7, <1>8, <1>9 DEF IInv, Front

LEMMA DryCheckInv ==
  ASSUME IInv, DryCheck, UNCHANGED <<genVars, washVars, runs>> PROVE IInv'
<1>1. /\ dpc = "check"
      /\ dpc' = IF table[DrySlot].time_to_wash = END THEN "close"
                ELSE IF nodes_amount # 0 THEN "wait" ELSE "dry"
      /\ UNCHANGED <<nodes_amount, dried, sem, array, table, genQueue, dryQueue, removed>>
      /\ UNCHANGED <<gpc, dishes_amount, i, runs>>
      /\ UNCHANGED <<wpc, current, dish, closing, msg_sent, washed>>
  BY DEF DryCheck, genVars, washVars, ipcVars
<1>2. DryLink = "sem" /\ DryLink # "queue" /\ SemDry /\ TableHolds
  BY <1>1, KitchenAssumption DEF IInv, Control, SemDry
<1>3. DrySlot \in 0..TableSize-1
  BY SlotType, Counts DEF DrySlot
<1>4. dpc' \in {"close", "wait", "dry"} /\ (dpc' = "wait" => nodes_amount # 0)
      /\ (dpc' = "dry" => nodes_amount = 0)
      /\ (dpc' = "close" => Placed = dishes_amount + 1)
  BY <1>1, <1>2, <1>3 DEF TableHolds
<1>5. TypeOK' /\ Control' /\ Removal'
  BY <1>1, <1>2, <1>4, KitchenAssumption DEF IInv, TypeOK, IPCTypeOK, GenTypeOK, WashTypeOK,
     DryTypeOK, Control, Removal, InHand, Sems
<1>6. Front'
  BY <1>1, FrontFrame, Parts DEF genVars, washVars
<1>7. Freed' = Freed /\ Placed' = Placed /\ Waiting' = Waiting /\ Heard' = Heard
  <2>1. Freed' = Freed /\ Placed' = Placed /\ Waiting' = Waiting
    BY <1>1, <1>4 DEF Freed, Placed, Waiting
  <2>2. nodes_amount \in Nat
    BY Counts
  <2>3. Heard = (IF nodes_amount = 0 THEN 1 ELSE nodes_amount)
    BY <1>1 DEF Heard
  <2>4. Heard' = Heard
    <3>1. CASE dpc' = "dry"
      BY <1>1, <1>4, <2>2, <2>3, <3>1 DEF Heard
    <3>2. CASE dpc' # "dry"
      BY <1>1, <1>4, <2>3, <3>2 DEF Heard
    <3> QED
      BY <3>1, <3>2
  <2> QED
    BY <2>1, <2>4
<1>8. PlaceTokens'
  BY <1>1, <1>4, <1>7 DEF IInv, PlaceTokens
<1>9. Drying' /\ TableNotOverrun'
  BY <1>1, <1>4, <1>7 DEF IInv, Drying, TableNotOverrun, Exp, Over
<1>10. SemDry'
  BY <1>1, <1>2, <1>4, <1>7 DEF SemDry, TableHolds, Exp, Tag, BlankTable
<1> QED
  BY <1>2, <1>5, <1>6, <1>8, <1>9, <1>10 DEF IInv, Front

LEMMA DryWaitInv ==
  ASSUME IInv, DryWait, UNCHANGED <<genVars, washVars, runs>> PROVE IInv'
<1>1. /\ dpc = "wait" /\ SemTake("diff") /\ dpc' = "dry"
      /\ UNCHANGED <<nodes_amount, dried, array, table, genQueue, dryQueue, removed>>
      /\ UNCHANGED <<gpc, dishes_amount, i, runs>>
      /\ UNCHANGED <<wpc, current, dish, closing, msg_sent, washed>>
  BY DEF DryWait, genVars, washVars
<1>2. DryLink = "sem" /\ DryLink # "queue" /\ SemDry /\ ~Over /\ ~Over' /\ nodes_amount # 0
  BY <1>1, KitchenAssumption DEF IInv, Control, Over, SemDry
<1>3. /\ sem["diff"] \in Nat /\ sem["diff"] > 0 /\ sem'["diff"] = sem["diff"] - 1
      /\ sem'["gen"] = sem["gen"] /\ sem'["place"] = sem["place"] /\ sem' \in [Sems -> Nat]
  BY <1>1, <1>2, TakeDiff
<1>4. TypeOK' /\ Control' /\ Removal'
  BY <1>1, <1>2, <1>3, KitchenAssumption DEF IInv, TypeOK, IPCTypeOK, GenTypeOK, WashTypeOK,
     DryTypeOK, Control, Removal, InHand, Sems
<1>5. Front'
  BY <1>1, <1>3, FrontFrame, Parts DEF genVars, washVars
<1>6. Freed' = Freed /\ Placed' = Placed /\ Waiting' = Waiting /\ Heard = nodes_amount
      /\ Heard' = nodes_amount + 1 /\ msg_sent \in Nat /\ nodes_amount \in Nat
  BY <1>1, <1>2, Counts DEF Freed, Placed, Waiting, Heard
<1>7. PlaceTokens'
  BY <1>1, <1>3, <1>6 DEF IInv, PlaceTokens
<1>8. Drying' /\ TableNotOverrun'
  BY <1>1, <1>2, <1>6 DEF IInv, Drying, TableNotOverrun, Exp
<1>9. SemDry'
  BY <1>1, <1>2, <1>3, <1>6 DEF SemDry, TableHolds, Exp, Tag, BlankTable
<1> QED
  BY <1>2, <1>4, <1>5, <1>7, <1>8, <1>9 DEF IInv, Front

\* What is dried next is the next thing that was passed on.
LEMMA DriedAppend ==
  ASSUME IInv, NEW x, x = Exp(Len(dried) + 1), x \in 0..MaxDishes \cup {END},
         dried' = Append(dried, x), UNCHANGED dishes_amount
  PROVE  /\ dried' \in Seq(0..MaxDishes \cup {END}) /\ Len(dried') = Len(dried) + 1
         /\ (\A k \in 1..Len(dried) : dried[k] = Exp(k))'
<1>1. dried \in Seq(0..MaxDishes \cup {END}) /\ \A k \in 1..Len(dried) : dried[k] = Exp(k)
  BY DEF IInv, TypeOK, DryTypeOK, Drying
<1>2. /\ dried' \in Seq(0..MaxDishes \cup {END}) /\ Len(dried') = Len(dried) + 1
      /\ dried'[Len(dried) + 1] = x /\ \A k \in 1..Len(dried) : dried'[k] = dried[k]
  BY <1>1
<1>3. ASSUME NEW k \in 1..Len(dried') PROVE dried'[k] = Exp(k)
  <2>1. k \in 1..Len(dried) \/ k = Len(dried) + 1
    BY <1>1, <1>2
  <2> QED
    BY <1>1, <1>2, <2>1
<1> QED
  BY <1>2, <1>3 DEF Exp

LEMMA DryDishInv ==
  ASSUME IInv, DryDish, UNCHANGED <<genVars, washVars, runs>> PROVE IInv'
<1>1. /\ dpc = "dry" /\ dpc' = "free" /\ nodes_amount' = nodes_amount + 1
      /\ dried' = Append(dried, Tag(table[DrySlot]))
      /\ UNCHANGED <<sem, array, table, genQueue, dryQueue, removed>>
      /\ UNCHANGED <<gpc, dishes_amount, i, runs>>
      /\ UNCHANGED <<wpc, current, dish, closing, msg_sent, washed>>
  BY DEF DryDish, genVars, washVars, ipcVars
<1>2. DryLink = "sem" /\ DryLink # "queue" /\ SemDry /\ TableHolds /\ ~Over /\ ~Over'
      /\ nodes_amount = Len(dried)
  BY <1>1, KitchenAssumption DEF IInv, Control, SemDry, Over
<1>3. nodes_amount \in Nat /\ msg_sent \in Nat /\ Placed \in Nat /\ msg_sent <= Placed
      /\ TableSize \in Nat \ {0} /\ DrySlot \in 0..TableSize-1
  <2>1. nodes_amount \in Nat /\ msg_sent \in Nat /\ Placed \in Nat /\ TableSize \in Nat \ {0}
    BY Counts
  <2>2. msg_sent <= Placed
    BY <2>1 DEF Placed
  <2>3. DrySlot \in 0..TableSize-1
    BY <2>1, SlotType DEF DrySlot
  <2> QED
    BY <2>1, <2>2, <2>3
<1>4. sem["diff"] \in Nat /\ sem["diff"] + (nodes_amount + 1) = msg_sent
  BY <1>1, <1>2 DEF SemDry, Heard, IInv, TypeOK, IPCTypeOK, Sems
<1>5. nodes_amount + 1 <= msg_sent /\ nodes_amount \in nodes_amount..Placed-1
  BY <1>3, <1>4
<1>6. Tag(table[DrySlot]) = Exp(Len(dried) + 1)
  BY <1>2, <1>5 DEF TableHolds, DrySlot
<1>7. Tag(table[DrySlot]) \in 0..MaxDishes \cup {END}
  <2>1. table[DrySlot] \in Dish
    BY <1>3 DEF IInv, TypeOK, IPCTypeOK
  <2> QED
    BY <2>1 DEF Tag, Dish
<1>8. /\ dried' \in Seq(0..MaxDishes \cup {END}) /\ Len(dried') = Len(dried) + 1
      /\ (\A k \in 1..Len(dried) : dried[k] = Exp(k))'
  BY <1>1, <1>6, <1>7, DriedAppend
<1>9. TypeOK' /\ Control' /\ Removal'
  <2>1. TypeOK'
    BY <1>1, <1>3, <1>8 DEF IInv, TypeOK, IPCTypeOK, GenTypeOK, WashTypeOK, DryTypeOK
  <2> QED
    BY <1>1, <1>2, <2>1 DEF IInv, Control, Removal, InHand
<1>10. Front'
  BY <1>1, FrontFrame, Parts DEF genVars, washVars
<1>11. Freed' = Freed /\ Placed' = Placed /\ Waiting' = Waiting - 1 /\ Heard' = nodes_amount + 1
       /\ Waiting \in Int
  BY <1>1, <1>2, <1>3, <1>8 DEF Freed, Placed, Waiting, Heard
<1>12. PlaceTokens'
  BY <1>1, <1>11 DEF IInv, PlaceTokens
<1>13. Drying'
  <2>1. Len(dried') <= msg_sent' /\ Len(dried') >= 1
    BY <1>1, <1>2, <1>3, <1>5, <1>8
  <2> QED
    BY <1>1, <1>2, <1>8, <2>1 DEF Drying
<1>14. TableNotOverrun'
  BY <1>3, <1>11 DEF IInv, TableNotOverrun
<1>15. TableHolds'
  <2>1. \A k \in nodes_amount'..Placed'-1 : k \in nodes_amount..Placed-1
    BY <1>1, <1>3, <1>11
  <2>2. (\A k \in nodes_amount..Placed-1 :
          /\ Tag(table[k % TableSize]) = Exp(k + 1)
          /\ table[k % TableSize].is_it_clean \/ table[k % TableSize].time_to_wash = END)'
    BY <1>1, <1>2, <2>1 DEF TableHolds, Exp, Tag
  <2>3. (\A s \in 0..TableSize-1 : table[s].time_to_wash = END => Placed = dishes_amount + 1)'
    BY <1>1, <1>2, <1>11 DEF TableHolds
  <2> QED
    BY <2>2, <2>3 DEF TableHolds
<1>16. SemDry'
  BY <1>1, <1>2, <1>4, <1>8, <1>11, <1>15 DEF SemDry
<1> QED
  BY <1>2, <1>9, <1>10, <1>12, <1>13, <1>14, <1>16 DEF IInv, Front

LEMMA DryRecvInv ==
  ASSUME IInv, DryRecv, UNCHANGED <<genVars, washVars, runs>> PROVE IInv'
<1> DEFINE d == Head(dryQueue)
<1>1. /\ dpc = "recv" /\ dryQueue # <<>> /\ dryQueue' = Tail(dryQueue)
      /\ UNCHANGED <<nodes_amount, sem, array, table, genQueue, removed>>
      /\ UNCHANGED <<gpc, dishes_amount, i, runs>>
      /\ UNCHANGED <<wpc, current, dish, closing, msg_sent, washed>>
  BY DEF DryRecv, genVars, washVars
<1>2. /\ d.time_to_wash = END => dpc' = "rmplace" /\ dried' = dried
      /\ d.time_to_wash # END => dpc' = "free" /\ dried' = Append(dried, d.item)
  BY DEF DryRecv
<1>3. DryLink = "queue" /\ DryLink # "sem" /\ QueueDry /\ ~Over /\ wpc # "post"
      /\ dryQueue \in Seq(Dish)
  BY <1>1, KitchenAssumption DEF IInv, Control, Over, TypeOK, IPCTypeOK
<1>4. /\ d = dryQueue[1] /\ d \in Dish /\ 1 \in 1..Len(dryQueue) /\ Len(dryQueue) \in Nat
      /\ dryQueue' \in Seq(Dish) /\ Len(dryQueue') = Len(dryQueue) - 1
      /\ \A k \in 1..Len(dryQueue)-1 : dryQueue'[k] = dryQueue[k+1]
  BY <1>1, <1>3, QueueTail
<1> HIDE DEF d
<1>5. /\ msg_sent \in Nat /\ Len(dried) \in Nat /\ dishes_amount \in Nat
      /\ msg_sent = Len(dried) + Len(dryQueue) /\ Placed = msg_sent
      /\ msg_sent <= dishes_amount + 1 /\ dishes_amount <= MaxDishes /\ MaxDishes \in Nat
  BY <1>3, Counts DEF QueueDry, Placed
<1>6. Tag(d) = Exp(Len(dried) + 1)
  BY <1>3, <1>4 DEF QueueDry
<1>7. d.time_to_wash = END => Placed = dishes_amount + 1 /\ Len(dryQueue) = 1
  <2> SUFFICES ASSUME d.time_to_wash = END PROVE Placed = dishes_amount + 1 /\ Len(dryQueue) = 1
    OBVIOUS
  <2>1. Exp(Len(dried) + 1) = END
    BY <1>6 DEF Tag
  <2>2. ~(Len(dried) + 1 <= dishes_amount)
    BY <1>5, <2>1, KitchenAssumption DEF Exp, END
  <2> QED
    BY <1>4, <1>5, <2>2
<1>8. /\ dried' \in Seq(0..MaxDishes \cup {END})
      /\ Len(dried') = Len(dried) + (IF dpc' = "free" THEN 1 ELSE 0)
      /\ (\A k \in 1..Len(dried) : dried[k] = Exp(k))'
      /\ dpc' \in {"free", "rmplace"}
  <2>1. CASE d.time_to_wash = END
    BY <1>1, <1>2, <1>5, <2>1 DEF IInv, TypeOK, DryTypeOK, Drying, Exp
  <2>2. CASE d.time_to_wash # END
    <3>1. d.item = Exp(Len(dried) + 1) /\ d.item \in 0..MaxDishes \cup {END}
      BY <1>4, <1>6, <2>2 DEF Tag, Dish
    <3> QED
      BY <1>1, <1>2, <2>2, <3>1, DriedAppend
  <2> QED
    BY <2>1, <2>2
<1>9. Over' <=> dpc' = "rmplace"
  BY <1>8 DEF Over
<1>10. dpc' = "rmplace" => Placed = dishes_amount + 1 /\ Len(dryQueue) = 1
  BY <1>2, <1>7
<1>11. TypeOK' /\ Control' /\ Removal'
  <2>1. Len(dryQueue') <= QueueCap
    BY <1>4, KitchenAssumption DEF IInv, TypeOK, IPCTypeOK
  <2>2. TypeOK'
    BY <1>1, <1>4, <1>8, <2>1 DEF IInv, TypeOK, IPCTypeOK, GenTypeOK, WashTypeOK, DryTypeOK
  <2> QED
    BY <1>1, <1>3, <1>8, <2>2 DEF IInv, Control, Removal, InHand
<1>12. Front'
  BY <1>1, FrontFrame, Parts DEF genVars, washVars
<1>13. Freed' = Freed /\ Placed' = Placed
  <2>1. Placed' = Placed
    BY <1>1 DEF Placed
  <2>2. Freed = Len(dried) /\ Len(dried) \in Nat
    BY <1>1, <1>5 DEF Freed
  <2>3. Len(dried') - (IF dpc' = "free" THEN 1 ELSE 0) = Len(dried)
    BY <1>8, <2>2
  <2> QED
    BY <2>1, <2>2, <2>3 DEF Freed
<1>14. PlaceTokens'
  BY <1>1, <1>8, <1>13 DEF IInv, PlaceTokens
<1>15. Drying'
  <2>1. Len(dried') <= msg_sent' /\ (dpc' = "free" => Len(dried') >= 1)
    BY <1>1, <1>4, <1>5, <1>8
  <2> QED
    BY <1>1, <1>8, <1>9, <1>10, <1>13, <2>1 DEF Drying
<1>16. TableNotOverrun'
  BY <1>3, <1>4, KitchenAssumption DEF IInv, TableNotOverrun, Waiting
<1>17. QueueDry'
  <2>1. ASSUME NEW k \in 1..Len(dryQueue')
        PROVE  /\ Tag(dryQueue'[k]) = Exp(Len(dried') + k)
               /\ dryQueue'[k].is_it_clean \/ dryQueue'[k].time_to_wash = END
    <3>1. k + 1 \in 1..Len(dryQueue) /\ dryQueue'[k] = dryQueue[k+1]
      BY <1>4
    <3>2. dpc' = "free"
      BY <1>4, <1>8, <1>10
    <3>3. Len(dried') + k = Len(dried) + (k+1)
      BY <1>5, <1>8, <3>2
    <3> QED
      BY <1>3, <3>1, <3>3 DEF QueueDry
  <2>2. (\A k \in 1..Len(dryQueue) :
          /\ Tag(dryQueue[k]) = Exp(Len(dried) + k)
          /\ dryQueue[k].is_it_clean \/ dryQueue[k].time_to_wash = END)'
    BY <1>1, <2>1 DEF Exp, Tag
  <2>3. ~Over' => msg_sent' = Len(dried') + Len(dryQueue')
    BY <1>1, <1>4, <1>5, <1>8, <1>9
  <2>4. Over' => dryQueue' = <<>>
    <3>1. dryQueue' \in Seq(Dish) /\ Len(dryQueue') = Len(dryQueue) - 1
      BY <1>4
    <3>2. Over' => Len(dryQueue') = 0
      BY <1>9, <1>10, <3>1
    <3>3. \A q \in Seq(Dish) : Len(q) = 0 => q = <<>>
      OBVIOUS
    <3> QED
      BY <3>1, <3>2, <3>3
  <2>5. nodes_amount' = 0 /\ table' = BlankTable /\ sem'["diff"] = 0
    BY <1>1, <1>3 DEF QueueDry
  <2> QED
    BY <2>2, <2>3, <2>4, <2>5 DEF QueueDry, BlankTable
<1> QED
  BY <1>3, <1>11, <1>12, <1>14, <1>15, <1>16, <1>17 DEF IInv, Front

LEMMA DryFreeInv ==
  ASSUME IInv, DryFree, UNCHANGED <<genVars, washVars, runs>> PROVE IInv'
<1>1. /\ dpc = "free" /\ SemAdd("place", 1)
      /\ dpc' = IF DryLink = "sem" THEN "check" ELSE "recv"
      /\ UNCHANGED <<nodes_amount, dried, array, table, genQueue, dryQueue, removed>>
      /\ UNCHANGED <<gpc, dishes_amount, i, runs>>
      /\ UNCHANGED <<wpc, current, dish, closing, msg_sent, washed>>
  BY DEF DryFree, genVars, washVars
<1>2. "place" \notin removed /\ ~Over /\ ~Over' /\ dpc' \notin {"start", "free"}
  BY <1>1 DEF IInv, Removal, Over
<1>3. /\ sem' \in [Sems -> Nat] /\ sem'["place"] = sem["place"] + 1
      /\ sem'["gen"] = sem["gen"] /\ sem'["diff"] = sem["diff"] /\ sem["place"] \in Nat
  BY <1>1, <1>2 DEF SemAdd, IInv, TypeOK, IPCTypeOK, Sems
<1>4. TypeOK' /\ Control' /\ Removal'
  BY <1>1, <1>2, <1>3, KitchenAssumption DEF IInv, TypeOK, IPCTypeOK, GenTypeOK, WashTypeOK,
     DryTypeOK, Control, Removal, InHand, Sems
<1>5. Front'
  BY <1>1, <1>3, FrontFrame, Parts DEF genVars, washVars
<1>6. Len(dried) \in Nat /\ Len(dried) >= 1 /\ nodes_amount \in Nat /\ msg_sent \in Nat
      /\ TableSize \in Nat
  BY <1>1, Counts DEF IInv, Drying
<1>7. Freed = Len(dried) - 1 /\ Freed' = Len(dried) /\ Placed' = Placed /\ Waiting' = Waiting
  <2>1. Freed = Len(dried) - 1 /\ dpc' # "free" /\ dried' = dried
    BY <1>1, <1>2 DEF Freed
  <2>2. Freed' = Len(dried)
    <3>1. dried' \in Seq(0..MaxDishes \cup {END})
      BY <2>1 DEF IInv, TypeOK, DryTypeOK
    <3> QED
      BY <1>6, <2>1, <3>1 DEF Freed
  <2>3. Placed' = Placed /\ Waiting' = Waiting
    BY <1>1 DEF Placed, Waiting
  <2> QED
    BY <2>1, <2>2, <2>3
<1>8. PlaceTokens'
  <2>1. sem["place"] + msg_sent + (IF wpc \in {"put", "post"} THEN 1 ELSE 0) = TableSize + Freed
    BY <1>1, <1>2 DEF IInv, PlaceTokens
  <2>2. dpc' # "start" /\ "place" \notin removed' /\ wpc' = wpc /\ msg_sent' = msg_sent
    BY <1>1, <1>2
  <2>3. sem'["place"] + msg_sent + (IF wpc \in {"put", "post"} THEN 1 ELSE 0)
          = TableSize + (Freed + 1)
    <3>1. sem["place"] \in Nat /\ sem'["place"] = sem["place"] + 1 /\ Freed \in Int
          /\ msg_sent \in Nat /\ TableSize \in Nat
      BY <1>3, <1>6, <1>7
    <3> QED
      BY <2>1, <3>1
  <2>4. Freed' = Freed + 1
    BY <1>6, <1>7
  <2> QED
    BY <2>2, <2>3, <2>4 DEF PlaceTokens
<1>9. Drying' /\ TableNotOverrun'
  BY <1>1, <1>2, <1>7 DEF IInv, Drying, TableNotOverrun, Exp
<1>10. DryLink = "sem" => SemDry'
  <2> SUFFICES ASSUME DryLink = "sem" PROVE SemDry'
    OBVIOUS
  <2>1. SemDry /\ Heard' = Heard /\ dpc' = "check"
    BY <1>1, <1>6 DEF IInv, Heard
  <2> QED
    BY <1>1, <1>3, <1>7, <2>1 DEF SemDry, TableHolds, Exp, Tag, BlankTable
<1>11. DryLink = "queue" => QueueDry'
  BY <1>1, <1>2, <1>3 DEF IInv, QueueDry, Exp, Tag, BlankTable
<1> QED
  BY <1>4, <1>5, <1>8, <1>9, <1>10, <1>11 DEF IInv, Front

\* Once the dryer has seen the end mark nothing more comes.
LEMMA DryCloseInv ==
  ASSUME IInv, DryClose, UNCHANGED <<genVars, washVars, runs>> PROVE IInv'
<1>1. /\ dpc = "close" /\ dpc' = "rmplace" /\ table' = BlankTable
      /\ UNCHANGED <<nodes_amount, dried, sem, array, genQueue, dryQueue, removed>>
      /\ UNCHANGED <<gpc, dishes_amount, i, runs>>
      /\ UNCHANGED <<wpc, current, dish, closing, msg_sent, washed>>
  BY DEF DryClose, genVars, washVars
<1>2. DryLink = "sem" /\ DryLink # "queue" /\ SemDry /\ Over /\ Over'
  BY <1>1, KitchenAssumption DEF IInv, Control, Over
<1>3. table' \in [0..TableSize-1 -> Dish]
  <2>1. Blank \in Dish
    BY KitchenAssumption DEF Blank, Dish
  <2> QED
    BY <1>1, <2>1 DEF BlankTable
<1>4. TypeOK' /\ Control' /\ Removal'
  <2>1. TypeOK'
    BY <1>1, <1>3 DEF IInv, TypeOK, IPCTypeOK, GenTypeOK, WashTypeOK, DryTypeOK
  <2> QED
    BY <1>1, <1>2, <2>1 DEF IInv, Control, Removal, InHand
<1>5. Front'
  BY <1>1, FrontFrame, Parts DEF genVars, washVars
<1>6. Freed' = Freed /\ Placed' = Placed /\ Waiting' = Waiting /\ Heard' = Heard
  BY <1>1, <1>2, Counts DEF Freed, Placed, Waiting, Heard
<1>7. PlaceTokens'
  BY <1>1, <1>6 DEF IInv, PlaceTokens
<1>8. Drying' /\ TableNotOverrun'
  BY <1>1, <1>2, <1>6 DEF IInv, Drying, TableNotOverrun, Exp
<1>9. SemDry'
  BY <1>1, <1>2, <1>6 DEF SemDry, BlankTable
<1> QED
  BY <1>2, <1>4, <1>5, <1>7, <1>8, <1>9 DEF IInv, Front

LEMMA DryRemovePlaceInv ==
  ASSUME IInv, DryRemovePlace, UNCHANGED <<genVars, washVars, runs>> PROVE IInv'
<1>1. /\ dpc = "rmplace" /\ dpc' = IF DryLink = "sem" THEN "rmdiff" ELSE "rmqueue"
      /\ removed' = removed \cup {"place"}
      /\ UNCHANGED <<nodes_amount, dried, array, table, genQueue, dryQueue>>
      /\ UNCHANGED <<gpc, dishes_amount, i, runs>>
      /\ UNCHANGED <<wpc, current, dish, closing, msg_sent, washed>>
  BY DEF DryRemovePlace, SemRemove, genVars, washVars
<1>2. /\ sem' \in [Sems -> Nat] /\ sem'["place"] = 0
      /\ sem'["gen"] = sem["gen"] /\ sem'["diff"] = sem["diff"]
  BY DEF DryRemovePlace, SemRemove, IInv, TypeOK, IPCTypeOK, Sems
<1>3. Over /\ Over' /\ dpc' \in {"rmdiff", "rmqueue"} /\ "diff" \notin removed
  BY <1>1 DEF Over, IInv, Removal
<1>4. TypeOK'
  BY <1>1, <1>2, <1>3 DEF IInv, TypeOK, IPCTypeOK, GenTypeOK, WashTypeOK, DryTypeOK, Sems
<1>5. Control'
  BY <1>1, <1>3, KitchenAssumption DEF IInv, Control, InHand
<1>6. Removal'
  BY <1>1, <1>2, <1>3 DEF IInv, Removal, TypeOK, IPCTypeOK, Sems
<1>7. Front'
  BY <1>1, <1>2, FrontFrame, Parts DEF genVars, washVars
<1>8. PlaceTokens'
  BY <1>1 DEF PlaceTokens
<1>9. Placed' = Placed /\ Waiting' = Waiting /\ Heard' = Heard
  BY <1>1, <1>3 DEF Placed, Waiting, Heard
<1>10. Drying' /\ TableNotOverrun'
  BY <1>1, <1>3, <1>9 DEF IInv, Drying, TableNotOverrun, Exp
<1>11. DryLink = "sem" => SemDry'
  BY <1>1, <1>2, <1>9 DEF IInv, SemDry, BlankTable
<1>12. DryLink = "queue" => QueueDry'
  BY <1>1, <1>2, <1>3 DEF IInv, QueueDry, Exp, Tag, BlankTable
<1> QED
  BY <1>4, <1>5, <1>6, <1>7, <1>8, <1>10, <1>11, <1>12 DEF IInv, Front

LEMMA DryRemoveDiffInv ==
  ASSUME IInv, DryRemoveDiff, UNCHANGED <<genVars, washVars, runs>> PROVE IInv'
<1>1. /\ dpc = "rmdiff" /\ dpc' = "done" /\ removed' = removed \cup {"diff"}
      /\ UNCHANGED <<nodes_amount, dried, array, table, genQueue, dryQueue>>
      /\ UNCHANGED <<gpc, dishes_amount, i, runs>>
      /\ UNCHANGED <<wpc, current, dish, closing, msg_sent, washed>>
  BY DEF DryRemoveDiff, SemRemove, genVars, washVars
<1>2. /\ sem' \in [Sems -> Nat] /\ sem'["diff"] = 0
      /\ sem'["gen"] = sem["gen"] /\ sem'["place"] = sem["place"]
  BY DEF DryRemoveDiff, SemRemove, IInv, TypeOK, IPCTypeOK, Sems
<1>3. DryLink = "sem" /\ DryLink # "queue" /\ Over /\ Over' /\ SemDry /\ "place" \in removed
  BY <1>1, KitchenAssumption DEF Over, IInv, Control, Removal
<1>4. TypeOK'
  BY <1>1, <1>2, <1>3 DEF IInv, TypeOK, IPCTypeOK, GenTypeOK, WashTypeOK, DryTypeOK, Sems
<1>5. Control'
  BY <1>1, <1>3 DEF IInv, Control, InHand
<1>6. Removal'
  BY <1>1, <1>2, <1>3 DEF IInv, Removal, TypeOK, IPCTypeOK, Sems
<1>7. Front'
  BY <1>1, <1>2, FrontFrame, Parts DEF genVars, washVars
<1>8. PlaceTokens'
  BY <1>1, <1>3 DEF PlaceTokens
<1>9. Placed' = Placed /\ Waiting' = Waiting
  BY <1>1 DEF Placed, Waiting
<1>10. Drying' /\ TableNotOverrun'
  BY <1>1, <1>3, <1>9 DEF IInv, Drying, TableNotOverrun, Exp
<1>11. SemDry'
  BY <1>1, <1>3 DEF SemDry, BlankTable
<1> QED
  BY <1>3, <1>4, <1>5, <1>6, <1>7, <1>8, <1>10, <1>11 DEF IInv, Front

LEMMA DryRemoveQueueInv ==
  ASSUME IInv, DryRemoveQueue, UNCHANGED <<genVars, washVars, runs>> PROVE IInv'
<1>1. /\ dpc = "rmqueue" /\ dpc' = "done" /\ dryQueue' = <<>>
      /\ UNCHANGED <<nodes_amount, dried, sem, array, table, genQueue, removed>>
      /\ UNCHANGED <<gpc, dishes_amount, i, runs>>
      /\ UNCHANGED <<wpc, current, dish, closing, msg_sent, washed>>
  BY DEF DryRemoveQueue, genVars, washVars
<1>2. DryLink = "queue" /\ DryLink # "sem" /\ Over /\ Over' /\ QueueDry /\ dryQueue = <<>>
  BY <1>1, KitchenAssumption DEF Over, IInv, Control, QueueDry
<1>3. TypeOK' /\ Control' /\ Removal'
  <2>1. TypeOK'
    BY <1>1, <1>2 DEF IInv, TypeOK, IPCTypeOK, GenTypeOK, WashTypeOK, DryTypeOK
  <2> QED
    BY <1>1, <1>2, <2>1 DEF IInv, Control, Removal, InHand
<1>4. Front'
  BY <1>1, FrontFrame, Parts DEF genVars, washVars
<1>5. Placed' = Placed /\ Waiting' = Waiting /\ Freed' = Freed
  BY <1>1, <1>2 DEF Placed, Waiting, Freed
<1>6. PlaceTokens' /\ Drying' /\ TableNotOverrun'
  BY <1>1, <1>2, <1>5 DEF IInv, PlaceTokens, Drying, TableNotOverrun, Exp
<1>7. QueueDry'
  BY <1>1, <1>2 DEF QueueDry, Exp, Tag, BlankTable
<1> QED
  BY <1>2, <1>3, <1>4, <1>6, <1>7 DEF IInv, Front
-----------------------------------------------------------------------------
\* A run that starts on empty objects, the first or a later one.
Fresh == IPCInit /\ GenInit /\ WashInit /\ DryInit /\ runs \in 1..MaxRuns

LEMMA FreshInv == Fresh => IInv
<1> SUFFICES ASSUME Fresh PROVE IInv
  OBVIOUS
<1>1. /\ sem["gen"] = 0 /\ sem["place"] = 0 /\ sem["diff"] = 0 /\ sem \in [Sems -> Nat]
      /\ array = BlankArray /\ table = BlankTable /\ genQueue = <<>> /\ dryQueue = <<>>
      /\ removed = {} /\ gpc = "start" /\ dishes_amount = 0 /\ i = 0
      /\ wpc = (IF GenLink = "sem" THEN "check" ELSE "recv")
      /\ current = 0 /\ dish = Blank /\ closing = FALSE /\ msg_sent = 0 /\ washed = <<>>
      /\ dpc = "start" /\ nodes_amount = 0 /\ dried = <<>> /\ runs \in 1..MaxRuns
  BY DEF Fresh, IPCInit, GenInit, WashInit, WashBegin, DryInit, Sems
<1>2. Blank \in Dish /\ Blank.time_to_wash # END
  BY KitchenAssumption DEF Blank, Dish, END
<1>3. /\ BlankArray \in [0..ArraySize-1 -> Dish] /\ BlankTable \in [0..TableSize-1 -> Dish]
      /\ \A k \in 0..ArraySize-1 : BlankArray[k] = Blank
      /\ \A k \in 0..TableSize-1 : BlankTable[k] = Blank
  BY <1>2 DEF BlankArray, BlankTable
<1>4. /\ ~InHand /\ ~Ended /\ ~Over /\ Filled = 0 /\ Passed = 0 /\ Held = 0 /\ Placed = 0
      /\ Freed = 0 /\ Heard = 0 /\ Waiting = 0
  BY <1>1 DEF InHand, Ended, Over, Filled, Passed, Held, Placed, Freed, Heard, Waiting
<1>5. TypeOK
  <2>1. IPCTypeOK
    BY <1>1, <1>3, KitchenAssumption DEF IPCTypeOK
  <2>2. GenTypeOK /\ WashTypeOK /\ DryTypeOK
    <3>1. 0 \in 0..ArraySize-1 /\ 0 \in 0..MaxDishes /\ 0 \in 0..0
      BY KitchenAssumption
    <3>2. <<>> \in Seq(0..MaxDishes \cup {END})
      OBVIOUS
    <3>3. GenTypeOK /\ DryTypeOK
      BY <1>1, <3>1, <3>2 DEF GenTypeOK, DryTypeOK
    <3>4. WashTypeOK
      BY <1>1, <1>2, <3>1, <3>2, KitchenAssumption DEF WashTypeOK
    <3> QED
      BY <3>3, <3>4
  <2> QED
    BY <1>1, <2>1, <2>2 DEF TypeOK
<1>6. Control /\ Removal /\ Making /\ Washing
  BY <1>1, <1>4, KitchenAssumption DEF Control, Removal, Making, Washing
<1>7. SemGen
  <2>1. ArrayHolds
    BY <1>1, <1>3, <1>4 DEF ArrayHolds
  <2>2. GenTokens
    BY <1>1, <1>4 DEF GenTokens
  <2> QED
    BY <1>1, <2>1, <2>2 DEF SemGen
<1>8. QueueGen
  BY <1>1, <1>4 DEF QueueGen
<1>9. PlaceTokens /\ Drying /\ TableNotOverrun
  BY <1>1, <1>4, KitchenAssumption DEF PlaceTokens, Drying, TableNotOverrun
<1>10. SemDry
  <2>1. TableHolds
    BY <1>1, <1>2, <1>3, <1>4 DEF TableHolds
  <2> QED
    BY <1>1, <1>4, <2>1 DEF SemDry
<1>11. QueueDry
  BY <1>1, <1>4 DEF QueueDry
<1> QED
  BY <1>5, <1>6, <1>7, <1>8, <1>9, <1>10, <1>11 DEF IInv

\* What a run that was not killed leaves behind.
LEMMA LeavesClean ==
  IInv => CleanExit
<1> SUFFICES ASSUME IInv, AllDone
             PROVE  /\ sem = [s \in Sems |-> 0]
                    /\ array = BlankArray /\ table = BlankTable
                    /\ genQueue = <<>> /\ dryQueue = <<>>
  BY DEF CleanExit
<1>1. gpc = "done" /\ wpc = "done" /\ dpc = "done" /\ Over
  BY DEF AllDone, Over
<1>2. sem["gen"] = 0 /\ array = BlankArray /\ genQueue = <<>>
  BY <1>1, KitchenAssumption DEF IInv, Removal, SemGen, QueueGen
<1>3. sem["place"] = 0 /\ sem["diff"] = 0 /\ table = BlankTable /\ dryQueue = <<>>
  BY <1>1, KitchenAssumption DEF IInv, Removal, SemDry, QueueDry
<1>4. sem \in [Sems -> Nat]
  BY DEF IInv, TypeOK, IPCTypeOK
<1> QED
  BY <1>2, <1>3, <1>4 DEF Sems

LEMMA RerunInv ==
  ASSUME ~KillAllowed, IInv, Rerun PROVE IInv'
<1>1. AllDone /\ runs < MaxRuns
  BY DEF Rerun
<1>2. /\ sem = [s \in Sems |-> 0] /\ array = BlankArray /\ table = BlankTable
      /\ genQueue = <<>> /\ dryQueue = <<>>
  BY <1>1, LeavesClean DEF CleanExit
<1>3. Fresh'
  BY <1>1, <1>2, KitchenAssumption DEF Rerun, Fresh, IPCInit, GenInit, WashInit, DryInit, IInv,
     TypeOK, BlankArray, BlankTable
<1>4. Fresh' => IInv'
  BY FreshInv, PTL
<1> QED
  BY <1>3, <1>4

LEMMA GenStepInv == ASSUME IInv, GenStep PROVE IInv'
  BY GenStartInv, GenFillInv, GenPostInv, GenFillEndInv, GenPostEndInv, GenSendInv,
     GenSendEndInv DEF GenStep, Generator

LEMMA WashStepInv == ASSUME IInv, WashStep PROVE IInv'
  BY WashCheckInv, WashWaitInv, WashDishInv, WashWaitEndInv, WashRecvInv, SendTakeInv,
     SendFillInv, SendPostInv, SendMsgInv, WashCloseInv, WashRemoveSemInv DEF WashStep, Washer

LEMMA DryStepInv == ASSUME IInv, DryStep PROVE IInv'
  BY DryStartInv, DryFirstInv, DryCheckInv, DryWaitInv, DryDishInv, DryRecvInv, DryFreeInv,
     DryCloseInv, DryRemovePlaceInv, DryRemoveDiffInv, DryRemoveQueueInv DEF DryStep, Dryer

LEMMA StutterInv == ASSUME IInv, UNCHANGED vars PROVE IInv'
<1>1. IInv <=> TypeOK /\ Control /\ Removal /\ Front /\ Back
  BY Parts
<1>2. Front' /\ Back'
  BY <1>1, FrontFrame, BackFrame DEF vars, ipcVars, genVars, washVars, dryVars
<1>3. TypeOK' /\ Control' /\ Removal'
  BY <1>1 DEF vars, ipcVars, genVars, washVars, dryVars, TypeOK, IPCTypeOK, GenTypeOK,
     WashTypeOK, DryTypeOK, Control, Removal, InHand
<1> QED
  BY <1>2, <1>3 DEF IInv, Front, Back
-----------------------------------------------------------------------------
\* As long as no run is killed, the invariant holds: of Init by FreshInv, of a step
\* of a process by the lemmas above, and of a new start because the last run has
\* emptied every object.
THEOREM Invariance == ~KillAllowed => (Spec => []IInv)
<1> SUFFICES ASSUME ~KillAllowed PROVE Spec => []IInv
  OBVIOUS
<1>1. Init => IInv
  BY FreshInv, KitchenAssumption DEF Init, Fresh
<1>2. IInv /\ [Next]_vars => IInv'
  BY GenStepInv, WashStepInv, DryStepInv, RerunInv, StutterInv DEF Next
<1> QED
  BY <1>1, <1>2, PTL DEF Spec

\* Every variable of the kitchen keeps its type, whatever the links and sizes.
THEOREM TypeCorrect == ~KillAllowed => (Spec => []TypeOK)
<1>1. IInv => TypeOK
  BY DEF IInv
<1> QED
  BY <1>1, Invariance, PTL

\* Nothing is lost, doubled or reordered between generator, washer and dryer
\* (dish_generator.h, dish_washer.h, dish_dryer.h), for any number of dishes, any
\* table and any pair of links.
THEOREM DishesInOrder == ~KillAllowed => (Spec => []DishOrder)
<1>1. IInv => DishOrder
  <2> SUFFICES ASSUME IInv PROVE DishOrder
    OBVIOUS
  <2>1. Len(washed) <= dishes_amount + 1 /\ Len(dried) <= msg_sent
        /\ msg_sent <= dishes_amount + 1 /\ msg_sent <= Len(washed) + 1
    <3>1. Len(washed) = Held \/ Len(washed) = Held - 1
      BY DEF IInv, Washing
    <3>2. Len(dried) <= msg_sent
      BY DEF IInv, Drying
    <3>3. /\ dishes_amount \in Nat /\ msg_sent \in Nat /\ Held \in Nat /\ Passed \in Nat
          /\ Passed <= dishes_amount + 1 /\ Held <= Passed /\ msg_sent <= Held
      BY Counts, Zenon
    <3> QED
      BY <3>1, <3>2, <3>3
  <2>2. InOrder(washed) /\ InOrder(dried)
    BY <2>1, Counts DEF InOrder, IInv, Washing, Drying, Exp
  <2> QED
    BY <2>1, <2>2, Counts DEF DishOrder
<1> QED
  BY <1>1, Invariance, PTL

\* The dryer gets no dish that the washer has not marked as clean (dish_washer.h:37,146).
THEOREM OnlyCleanDried == ~KillAllowed => (Spec => []DriedClean)
<1>1. IInv => DriedClean
  <2> SUFFICES ASSUME IInv PROVE DriedClean
    OBVIOUS
  <2>1. ASSUME dpc = "dry"
        PROVE  table[DrySlot].is_it_clean \/ table[DrySlot].time_to_wash = END
    <3>1. SemDry /\ TableHolds
      BY <2>1, KitchenAssumption DEF IInv, Control, SemDry
    <3>2. sem["diff"] \in Nat /\ sem["diff"] + (nodes_amount + 1) = msg_sent
      BY <2>1, <3>1 DEF SemDry, Heard, IInv, TypeOK, IPCTypeOK, Sems
    <3>3. nodes_amount \in Nat /\ msg_sent \in Nat
      BY Counts
    <3>4. msg_sent <= Placed /\ Placed \in Nat
      BY <3>3 DEF Placed
    <3>5. nodes_amount \in nodes_amount..Placed-1
      BY <3>2, <3>3, <3>4
    <3> QED
      BY <3>1, <3>5 DEF TableHolds, DrySlot
  <2>2. ASSUME NEW k \in 1..Len(dryQueue)
        PROVE  dryQueue[k].is_it_clean \/ dryQueue[k].time_to_wash = END
    <3>1. CASE DryLink = "sem"
      <4>1. dryQueue = <<>>
        BY <3>1 DEF IInv, SemDry
      <4> QED
        BY <4>1
    <3>2. CASE DryLink = "queue"
      BY <3>2 DEF IInv, QueueDry
    <3> QED
      BY <3>1, <3>2, KitchenAssumption
  <2> QED
    BY <2>1, <2>2 DEF DriedClean
<1> QED
  BY <1>1, Invariance, PTL

\* The dishes that wait for the dryer fit on its table (kitchen.c:28, dish_dryer.h:115-118):
\* no slot is written again before its dish is dry.
THEOREM TableNeverOverrun == ~KillAllowed => (Spec => []TableNotOverrun)
<1>1. IInv => TableNotOverrun
  BY DEF IInv
<1> QED
  BY <1>1, Invariance, PTL

\* The dryer removes its semaphores when nobody will wait on them again
\* (dish_dryer.h:58-61), and the washer removes the generator's when it is over.
THEOREM RemovedUnused == ~KillAllowed => (Spec => []NoUseOfRemoved)
<1>1. IInv => NoUseOfRemoved
  <2> SUFFICES ASSUME IInv PROVE NoUseOfRemoved
    OBVIOUS
  <2>1. removed \cap {"place", "diff"} # {} => wpc \notin {"send", "put"}
    BY SendOpen
  <2>2. "gen" \in removed => gpc = "done" /\ wpc = "done"
    BY DEF IInv, Removal, Control, Washing
  <2> QED
    BY <2>1, <2>2 DEF NoUseOfRemoved
<1> QED
  BY <1>1, Invariance, PTL

\* A run that ends leaves every object as the first run found it, which is why the
\* next run works (sem_ini of dish_dryer.h:115-118 adds to what is there).
THEOREM ExitsClean == ~KillAllowed => (Spec => []CleanExit)
  BY LeavesClean, Invariance, PTL

-----------------------------------------------------------------------------
(***************************************************************************)
(* The kitchen takes the steps of the pipeline: what is washed and dried,  *)
(* without the end mark, is always the first so many dishes.               *)
(***************************************************************************)
Upto(n)   == [k \in 1..n |-> k]
Cap(n, m) == IF n < m THEN n ELSE m

\* The dryer only ends when it has dried every dish.
AllDried == Over => Len(dried) >= dishes_amount

LEMMA FirstDishes ==
  ASSUME NEW n \in Nat, NEW w \in Seq(0..MaxDishes \cup {END}),
         \A k \in 1..Len(w) : w[k] = IF k <= n THEN k ELSE END
  PROVE  SubSeq(w, 1, Cap(Len(w), n)) = Upto(Cap(Len(w), n))
<1> DEFINE c == Cap(Len(w), n)
           s == SubSeq(w, 1, c)
<1>1. c \in Nat /\ c <= n /\ c <= Len(w) /\ Len(w) \in Nat
  BY DEF Cap
<1> HIDE DEF c
<1>2. /\ s \in Seq(0..MaxDishes \cup {END}) /\ Len(s) = c
      /\ \A k \in 1..c : s[k] = w[k]
  BY <1>1
<1> HIDE DEF s
<1>3. \A k \in 1..c : s[k] = k
  BY <1>1, <1>2
<1>4. DOMAIN s = 1..c /\ s = [k \in 1..c |-> s[k]]
  BY <1>2
<1>5. s = Upto(c)
  BY <1>3, <1>4 DEF Upto
<1> QED
  BY <1>5 DEF s, c

LEMMA UptoMore ==
  ASSUME NEW n \in Nat
  PROVE  /\ Append(Upto(n), n + 1) = Upto(n + 1) /\ Len(Upto(n)) = n
         /\ \A k \in 1..n : Upto(n)[k] = k
<1>1. Upto(n) \in Seq(Nat) /\ Len(Upto(n)) = n /\ \A k \in 1..n : Upto(n)[k] = k
  BY DEF Upto
<1>2. Append(Upto(n), n + 1) = Upto(n + 1)
  BY DEF Upto
<1> QED
  BY <1>1, <1>2

LEMMA Shown ==
  ASSUME IInv
  PROVE  /\ Dishes(washed) = Upto(Cap(Len(washed), dishes_amount))
         /\ Dishes(dried) = Upto(Cap(Len(dried), dishes_amount))
<1>1. /\ washed \in Seq(0..MaxDishes \cup {END}) /\ dried \in Seq(0..MaxDishes \cup {END})
      /\ dishes_amount \in Nat
  BY Counts DEF IInv, TypeOK, WashTypeOK, DryTypeOK
<1>2. /\ \A k \in 1..Len(washed) : washed[k] = IF k <= dishes_amount THEN k ELSE END
      /\ \A k \in 1..Len(dried) : dried[k] = IF k <= dishes_amount THEN k ELSE END
  BY DEF IInv, Washing, Drying, Exp
<1>3. /\ Dishes(washed) = SubSeq(washed, 1, Cap(Len(washed), dishes_amount))
      /\ Dishes(dried) = SubSeq(dried, 1, Cap(Len(dried), dishes_amount))
  BY DEF Dishes, Cap
<1> QED
  BY <1>1, <1>2, <1>3, FirstDishes

LEMMA ShownNext ==
  ASSUME IInv'
  PROVE  /\ Dishes(washed)' = Upto(Cap(Len(washed'), dishes_amount'))
         /\ Dishes(dried)' = Upto(Cap(Len(dried'), dishes_amount'))
<1>1. /\ washed' \in Seq(0..MaxDishes \cup {END}) /\ dried' \in Seq(0..MaxDishes \cup {END})
      /\ dishes_amount' \in Nat
  BY KitchenAssumption DEF IInv, TypeOK, WashTypeOK, DryTypeOK, GenTypeOK
<1>2. /\ \A k \in 1..Len(washed') : washed'[k] = IF k <= dishes_amount' THEN k ELSE END
      /\ \A k \in 1..Len(dried') : dried'[k] = IF k <= dishes_amount' THEN k ELSE END
  BY DEF IInv, Washing, Drying, Exp
<1>3. /\ Dishes(washed)' = SubSeq(washed', 1, Cap(Len(washed'), dishes_amount'))
      /\ Dishes(dried)' = SubSeq(dried', 1, Cap(Len(dried'), dishes_amount'))
  BY DEF Dishes, Cap
<1> QED
  BY <1>1, <1>2, <1>3, FirstDishes

\* Whoever closes has seen the end mark, which stands behind the last dish.
LEMMA AllDriedStep ==
  ASSUME ~KillAllowed, IInv, AllDried, IInv', [Next]_vars PROVE AllDried'
<1>0. /\ dishes_amount \in Nat /\ dishes_amount <= MaxDishes /\ MaxDishes \in Nat
      /\ MaxDishes < END /\ Len(dried) \in Nat /\ nodes_amount \in Nat
      /\ TableSize \in Nat \ {0} /\ END \in Nat
  BY Counts, KitchenAssumption DEF END
<1>1. CASE GenStep /\ GenStart
  <2>1. dishes_amount' \in 1..MaxDishes /\ wpc' = wpc /\ msg_sent' = msg_sent
    BY <1>1 DEF GenStep, GenStart, washVars
  <2>2. dishes_amount = 0 /\ i = 0 /\ Passed = 0
    BY <1>1, Counts DEF GenStart, IInv, Making, Passed
  <2>3. Placed = 0
    BY <2>2, Counts
  <2>4. Placed' = 0
    BY <2>1, <2>3 DEF Placed
  <2>5. dishes_amount' + 1 # 0
    <3>1. \A n \in 1..MaxDishes : n + 1 # 0
      BY <1>0
    <3> QED
      BY <2>1, <3>1
  <2>6. ~Over'
    BY <2>4, <2>5 DEF IInv, Drying
  <2> QED
    BY <2>6 DEF AllDried
<1>2. CASE (GenStep /\ ~GenStart) \/ WashStep \/ UNCHANGED vars
  <2>1. UNCHANGED <<dpc, dried, dishes_amount>>
    BY <1>2 DEF GenStep, Generator, GenFill, GenPost, GenFillEnd, GenPostEnd, GenSend,
       GenSendEnd, WashStep, genVars, dryVars, vars
  <2> QED
    BY <2>1 DEF AllDried, Over
<1>3. CASE DryStep /\ DryCheck
  <2>1. dpc = "check" /\ UNCHANGED <<dried, dishes_amount>>
        /\ (dpc' = "close" => table[DrySlot].time_to_wash = END)
        /\ dpc' \in {"close", "wait", "dry"}
    BY <1>3 DEF DryStep, DryCheck, genVars
  <2>2. SemDry /\ TableHolds /\ nodes_amount = Len(dried)
    BY <2>1, KitchenAssumption DEF IInv, Control, SemDry
  <2>3. ASSUME dpc' = "close", Len(dried) < dishes_amount PROVE FALSE
    <3>1. table[DrySlot].time_to_wash = END /\ DrySlot \in 0..TableSize-1
      BY <1>0, <2>1, <2>3, SlotType DEF DrySlot
    <3>2. Placed = dishes_amount + 1
      BY <2>2, <3>1 DEF TableHolds
    <3>3. nodes_amount \in nodes_amount..Placed-1
      BY <1>0, <2>2, <2>3, <3>2
    <3>4. Tag(table[DrySlot]) = Exp(nodes_amount + 1)
      BY <2>2, <3>3 DEF TableHolds, DrySlot
    <3>5. nodes_amount + 1 = END
      BY <1>0, <2>2, <2>3, <3>1, <3>4 DEF Tag, Exp
    <3> QED
      BY <1>0, <2>2, <2>3, <3>5
  <2> QED
    BY <1>0, <2>1, <2>3 DEF AllDried, Over
<1>4. CASE DryStep /\ DryRecv
  <2>1. /\ dpc = "recv" /\ dryQueue # <<>> /\ UNCHANGED dishes_amount
        /\ dpc' = "rmplace" => Head(dryQueue).time_to_wash = END /\ dried' = dried
        /\ dpc' \in {"rmplace", "free"}
    BY <1>4 DEF DryStep, DryRecv, genVars
  <2>2. DryLink = "queue" /\ QueueDry /\ dryQueue \in Seq(Dish)
    BY <2>1, KitchenAssumption DEF IInv, Control, TypeOK, IPCTypeOK
  <2>3. 1 \in 1..Len(dryQueue) /\ Head(dryQueue) = dryQueue[1]
    BY <2>1, <2>2
  <2>4. Tag(dryQueue[1]) = Exp(Len(dried) + 1)
    BY <2>2, <2>3 DEF QueueDry
  <2>5. dpc' = "rmplace" => Exp(Len(dried) + 1) = END
    BY <2>1, <2>3, <2>4 DEF Tag
  <2>6. dpc' = "rmplace" => Len(dried) >= dishes_amount
    BY <1>0, <2>5 DEF Exp
  <2> QED
    BY <2>1, <2>6 DEF AllDried, Over
<1>5. CASE DryStep /\ (DryStart \/ DryFirst \/ DryWait \/ DryDish \/ DryFree)
  <2>1. ~Over'
    BY <1>5, KitchenAssumption
       DEF DryStart, DryFirst, DryWait, DryDish, DryFree, Over
  <2> QED
    BY <2>1 DEF AllDried
<1>6. CASE DryStep /\ (DryClose \/ DryRemovePlace \/ DryRemoveDiff \/ DryRemoveQueue)
  BY <1>6 DEF DryStep, DryClose, DryRemovePlace, DryRemoveDiff, DryRemoveQueue, AllDried, Over,
     genVars
<1>7. CASE Rerun
  <2>1. ~Over'
    BY <1>7 DEF Rerun, Over
  <2> QED
    BY <2>1 DEF AllDried
<1> QED
  BY <1>1, <1>2, <1>3, <1>4, <1>5, <1>6, <1>7 DEF Next, DryStep, Dryer

-----------------------------------------------------------------------------
\* What the pipeline sees of a step: of most steps nothing.
Simulated == Pipeline!Next \/ UNCHANGED Pipeline!vars

LEMMA Unseen ==
  ASSUME UNCHANGED <<dishes_amount, i, washed, dried>> PROVE Simulated
  BY DEF Simulated, Pipeline!vars, Dishes

LEMMA GenSimulates == ASSUME IInv, IInv', GenStep PROVE Simulated
<1>0. UNCHANGED <<washed, dried>>
  BY DEF GenStep, washVars, dryVars
<1>1. CASE GenStart
  <2>1. dishes_amount = 0 /\ i = 0 /\ i' = i /\ dishes_amount' \in 1..MaxDishes
    BY <1>1, Counts DEF GenStart, IInv, Making
  <2>2. Passed = 0 /\ Len(washed) = 0 /\ Len(dried) = 0
    <3>1. Passed = 0
      BY <1>1, <2>1 DEF Passed, GenStart
    <3>2. Held = 0 /\ msg_sent = 0
      BY <3>1, Counts
    <3>3. /\ Len(dried) <= msg_sent /\ ~closing
          /\ Len(washed) = (IF closing THEN Held - 1 ELSE Held)
      BY <1>1 DEF IInv, Drying, Washing, GenStart
    <3>4. dried \in Seq(0..MaxDishes \cup {END}) /\ washed \in Seq(0..MaxDishes \cup {END})
      BY DEF IInv, TypeOK, WashTypeOK, DryTypeOK
    <3> QED
      BY <3>1, <3>2, <3>3, <3>4
  <2>3. washed = <<>> /\ dried = <<>>
    BY <2>2 DEF IInv, TypeOK, WashTypeOK, DryTypeOK
  <2>4. Dishes(washed)' = Dishes(washed) /\ Dishes(dried)' = Dishes(dried)
    <3>1. dishes_amount \in Nat /\ dishes_amount' \in Nat
      BY <2>1, KitchenAssumption
    <3>2. Cap(0, dishes_amount) = 0 /\ Cap(0, dishes_amount') = 0
      BY <3>1 DEF Cap
    <3> QED
      BY <1>0, <2>2, <3>2, Shown, ShownNext
  <2> QED
    BY <2>1, <2>4 DEF Simulated, Pipeline!Next, Pipeline!Work, Pipeline!Open
<1>2. CASE GenPost \/ GenSend
  <2>1. i < dishes_amount /\ i' = i + 1 /\ dishes_amount' = dishes_amount
    BY <1>2, Counts DEF GenPost, GenSend, IInv, Making
  <2>2. Dishes(washed)' = Dishes(washed) /\ Dishes(dried)' = Dishes(dried)
    BY <1>0, <2>1 DEF Dishes
  <2> QED
    BY <2>1, <2>2 DEF Simulated, Pipeline!Next, Pipeline!Work, Pipeline!Make
<1>3. CASE GenFill \/ GenFillEnd \/ GenPostEnd \/ GenSendEnd
  BY <1>0, <1>3, Unseen DEF GenFill, GenFillEnd, GenPostEnd, GenSendEnd
<1> QED
  BY <1>1, <1>2, <1>3 DEF GenStep, Generator

\* The washer washes one dish more, or the end mark, which the pipeline does not see.
LEMMA WashSimulates == ASSUME IInv, IInv', WashStep PROVE Simulated
<1>0. UNCHANGED <<dishes_amount, i, dried, gpc, dpc>>
  BY DEF WashStep, genVars, dryVars
<1>1. CASE washed' = washed
  BY <1>0, <1>1, Unseen
<1>2. ASSUME washed' # washed PROVE Simulated
  <2> DEFINE n == Len(washed)
             m == Len(dried)
             d == dishes_amount
  <2>1. /\ wpc \in {"wash", "recv"} /\ wpc' = "send" /\ ~closing' /\ UNCHANGED msg_sent
        /\ \E x : washed' = Append(washed, x)
    <3>1. WashDish \/ (WashRecv /\ Head(genQueue).time_to_wash # END)
      BY <1>2 DEF WashStep, Washer, WashCheck, WashWait, WashWaitEnd, WashRecv, SendTake,
         SendFill, SendPost, SendMsg, SendReturn, WashClose, WashRemoveSem
    <3>2. ~closing
      BY <3>1 DEF WashDish, WashRecv, IInv, Control, InHand
    <3> QED
      BY <3>1, <3>2 DEF WashDish, WashRecv
  <2>2. /\ n \in Nat /\ m \in Nat /\ d \in Nat /\ i \in Nat /\ TableSize \in Nat
        /\ msg_sent \in Nat
    BY Counts
  <2>3. washed \in Seq(0..MaxDishes \cup {END}) /\ Len(washed') = n + 1
    BY <2>1 DEF IInv, TypeOK, WashTypeOK
  <2>4. n = msg_sent
    <3>1. ~closing /\ ~InHand
      BY <2>1 DEF IInv, Control, InHand
    <3> QED
      BY <2>2, <3>1 DEF IInv, Washing, Held
  <2>5. n < d => n < i
    <3>1. Held' = n + 1
      BY <2>1, <2>2, <2>4 DEF Held, InHand
    <3>2. Held' <= Passed'
      BY DEF IInv, Washing
    <3>3. Passed' = Passed
      BY <1>0 DEF Passed
    <3>4. Passed \in {i, i + 1} /\ (Passed # i => i = d)
      BY <2>2 DEF Passed, IInv, Making, Ended
    <3> QED
      BY <2>2, <3>1, <3>2, <3>3, <3>4
  <2>6. n < d => n - Cap(m, d) <= TableSize
    <3> SUFFICES ASSUME n < d PROVE n - Cap(m, d) <= TableSize
      OBVIOUS
    <3>1. "place" \notin removed
      <4>1. "place" \in removed => Placed = d + 1
        BY DEF IInv, Removal, Drying, Over
      <4>2. Placed = msg_sent
        BY <2>1, <2>2 DEF Placed
      <4> QED
        BY <2>2, <2>4, <4>1, <4>2
    <3>2. /\ sem["place"] \in Nat /\ sem["place"] + msg_sent + 0
               = (IF dpc = "start" THEN 0 ELSE TableSize) + Freed
      <4>1. sem["place"] \in Nat
        BY DEF IInv, TypeOK, IPCTypeOK, Sems
      <4> QED
        BY <2>1, <3>1, <4>1 DEF IInv, PlaceTokens
    <3>3. Freed <= m /\ Freed \in Nat
      BY <2>2, Counts DEF Freed
    <3>4. n <= TableSize + m
      <4>1. sem["place"] + msg_sent + 0 <= TableSize + Freed
        BY <2>2, <3>2, <3>3
      <4> QED
        BY <2>2, <2>4, <3>2, <3>3, <4>1
    <3> QED
      BY <2>2, <3>4 DEF Cap
  <2>7. CASE n < d
    <3>1. Cap(n, d) = n /\ Cap(n + 1, d) = n + 1 /\ Cap(m, d) \in Nat
      <4>1. n \in Nat /\ m \in Nat /\ d \in Nat /\ n < d
        BY <2>2, <2>7
      <4> HIDE DEF n, m, d
      <4> QED
        BY <4>1 DEF Cap
    <3>2. Dishes(washed) = Upto(n) /\ Dishes(washed)' = Upto(n + 1)
          /\ Dishes(dried) = Upto(Cap(m, d)) /\ Dishes(dried)' = Dishes(dried)
      BY <1>0, <2>3, <3>1, Shown, ShownNext
    <3>3. Dishes(washed)' = Append(Dishes(washed), Len(Dishes(washed)) + 1)
          /\ Len(Dishes(washed)) = n /\ Len(Dishes(dried)) = Cap(m, d)
      BY <2>2, <3>1, <3>2, UptoMore
    <3>4. Len(Dishes(washed)) < i /\ Len(Dishes(washed)) - Len(Dishes(dried)) <= TableSize
      BY <2>5, <2>6, <2>7, <3>3
    <3> QED
      BY <1>0, <3>2, <3>3, <3>4 DEF Simulated, Pipeline!Next, Pipeline!Work, Pipeline!Wash
  <2>8. CASE ~(n < d)
    <3>1. Cap(n, d) = d /\ Cap(n + 1, d) = d
      BY <2>2, <2>8 DEF Cap
    <3>2. Dishes(washed)' = Dishes(washed) /\ Dishes(dried)' = Dishes(dried)
      BY <1>0, <2>3, <3>1, Shown, ShownNext
    <3> QED
      BY <1>0, <3>2 DEF Simulated, Pipeline!vars
  <2> QED
    BY <2>7, <2>8
<1> QED
  BY <1>1, <1>2

\* The dryer dries the next thing that was washed.
LEMMA DrySimulates == ASSUME IInv, IInv', DryStep PROVE Simulated
<1>0. UNCHANGED <<dishes_amount, i, washed, msg_sent>>
  BY DEF DryStep, genVars, washVars
<1>1. CASE dried' = dried
  BY <1>0, <1>1, Unseen
<1>2. ASSUME dried' # dried PROVE Simulated
  <2> DEFINE n == Len(washed)
             m == Len(dried)
             d == dishes_amount
  <2>1. \E x : dried' = Append(dried, x)
    BY <1>2 DEF DryStep, Dryer, DryStart, DryFirst, DryCheck, DryWait, DryDish, DryRecv,
       DryFree, DryClose, DryRemovePlace, DryRemoveDiff, DryRemoveQueue
  <2>2. n \in Nat /\ m \in Nat /\ d \in Nat /\ msg_sent \in Nat
    BY Counts
  <2>3. Len(dried') = m + 1
    BY <2>1 DEF IInv, TypeOK, DryTypeOK
  <2>4. m < d => m < Cap(n, d)
    <3>1. m + 1 <= msg_sent
      BY <1>0, <2>3 DEF IInv, Drying
    <3>2. CASE closing
      BY <2>2, <3>2, Counts DEF IInv, Washing, Cap
    <3>3. CASE ~closing
      <4>1. n = Held /\ msg_sent <= Held
        BY <3>3, Counts DEF IInv, Washing
      <4> QED
        BY <2>2, <3>1, <4>1 DEF Cap
    <3> QED
      BY <3>2, <3>3 DEF IInv, TypeOK, WashTypeOK
  <2>5. Dishes(washed) = Upto(Cap(n, d)) /\ Dishes(dried) = Upto(Cap(m, d))
        /\ Dishes(washed)' = Dishes(washed) /\ Dishes(dried)' = Upto(Cap(m + 1, d))
    BY <1>0, <2>3, Shown, ShownNext
  <2>6. CASE m < d
    <3>1. Cap(m, d) = m /\ Cap(m + 1, d) = m + 1 /\ Cap(n, d) \in Nat
      <4>1. n \in Nat /\ m \in Nat /\ d \in Nat /\ m < d
        BY <2>2, <2>6
      <4> HIDE DEF n, m, d
      <4> QED
        BY <4>1 DEF Cap
    <3>2. Len(Dishes(dried)) = m /\ Len(Dishes(washed)) = Cap(n, d)
          /\ Dishes(washed)[m + 1] = m + 1
      <4>1. m + 1 \in 1..Cap(n, d)
        BY <2>2, <2>4, <2>6, <3>1
      <4> QED
        BY <2>2, <2>5, <3>1, <4>1, UptoMore
    <3>3. Dishes(dried)' = Append(Dishes(dried), Dishes(washed)[Len(Dishes(dried)) + 1])
      BY <2>2, <2>5, <3>1, <3>2, UptoMore
    <3> QED
      BY <1>0, <2>4, <2>5, <2>6, <3>2, <3>3
         DEF Simulated, Pipeline!Next, Pipeline!Work, Pipeline!Dry
  <2>7. CASE ~(m < d)
    <3>1. Cap(m, d) = d /\ Cap(m + 1, d) = d
      BY <2>2, <2>7 DEF Cap
    <3> QED
      BY <1>0, <2>5, <3>1 DEF Simulated, Pipeline!vars
  <2> QED
    BY <2>6, <2>7
<1> QED
  BY <1>1, <1>2

\* The next run is the next day: every dish of the last is dry.
LEMMA RerunSimulates ==
  ASSUME ~KillAllowed, IInv, AllDried, IInv', Rerun PROVE Simulated
<1>1. AllDone /\ dishes_amount' = 0 /\ i' = 0 /\ washed' = <<>> /\ dried' = <<>>
  BY DEF Rerun
<1>2. dishes_amount > 0 /\ dishes_amount \in Nat
  BY <1>1, Counts DEF AllDone, IInv, Making
<1>3. Len(dried) >= dishes_amount /\ Len(dried) \in Nat
  BY <1>1, Counts DEF AllDone, AllDried, Over
<1>4. Cap(Len(dried), dishes_amount) = dishes_amount
  BY <1>2, <1>3 DEF Cap
<1>5. Len(Dishes(dried)) = dishes_amount
  BY <1>2, <1>4, Shown, UptoMore
<1>6. Dishes(washed)' = <<>> /\ Dishes(dried)' = <<>>
  <2>1. Cap(0, 0) = 0 /\ Upto(0) = <<>> /\ Len(washed') = 0 /\ Len(dried') = 0
    BY <1>1 DEF Cap, Upto
  <2> QED
    BY <1>1, <2>1, ShownNext
<1> QED
  BY <1>1, <1>2, <1>5, <1>6 DEF Simulated, Pipeline!Next, Pipeline!NextDay

\* The kitchen of kitchen.c, with any pair of links, any table and any number of dishes and
\* runs, only takes the steps of the pipeline; that it takes them all is left to TLC.
THEOREM KitchenIsPipeline == ~KillAllowed => (Spec => Pipeline!Steps)
<1> SUFFICES ASSUME ~KillAllowed PROVE Spec => Pipeline!Steps
  OBVIOUS
<1>1. Init => AllDried /\ Pipeline!Init
  BY DEF Init, DryInit, GenInit, WashInit, AllDried, Over, Pipeline!Init, Dishes
<1>2. IInv /\ AllDried /\ IInv' /\ [Next]_vars => AllDried'
  BY AllDriedStep
<1>3. IInv /\ AllDried /\ IInv' /\ [Next]_vars => [Pipeline!Next]_(Pipeline!vars)
  <2>1. CASE UNCHANGED vars
    <3>1. UNCHANGED <<dishes_amount, i, washed, dried>>
      BY <2>1 DEF vars, genVars, washVars, dryVars
    <3> QED
      BY <3>1, Unseen DEF Simulated
  <2> QED
    BY <2>1, GenSimulates, WashSimulates, DrySimulates, RerunSimulates DEF Next, Simulated
<1> QED
  BY <1>1, <1>2, <1>3, Invariance, PTL DEF Spec, Pipeline!Steps

=============================================================================
