----------------------------- MODULE DishPipeline -----------------------------
(***************************************************************************)
(* What the kitchen promises, whatever the links between its processes     *)
(* are: the dishes of the day are made, washed and dried in one order,     *)
(* none lost and none twice; no more than TableSize washed dishes wait for *)
(* the dryer beside the one in the washer's hands; all get dry, and before  *)
(* that no other day begins.                                               *)
(***************************************************************************)
EXTENDS Integers, Sequences

CONSTANTS MaxDishes, TableSize

VARIABLES
  total,  \* the dishes of the day
  made,   \* how many the generator has made
  washed, \* the dishes washed, in order
  dried   \* the dishes dried, in order

vars == <<total, made, washed, dried>>

Init == total = 0 /\ made = 0 /\ washed = <<>> /\ dried = <<>>

Open ==
  /\ total = 0
  /\ total' \in 1..MaxDishes
  /\ UNCHANGED <<made, washed, dried>>

Make ==
  /\ made < total
  /\ made' = made + 1
  /\ UNCHANGED <<total, washed, dried>>

Wash ==
  /\ Len(washed) < made
  /\ Len(washed) - Len(dried) <= TableSize
  /\ washed' = Append(washed, Len(washed) + 1)
  /\ UNCHANGED <<total, made, dried>>

Dry ==
  /\ Len(dried) < Len(washed)
  /\ dried' = Append(dried, washed[Len(dried) + 1])
  /\ UNCHANGED <<total, made, washed>>

\* The next day begins when every dish is dry.
NextDay ==
  /\ total > 0 /\ Len(dried) = total
  /\ total' = 0 /\ made' = 0 /\ washed' = <<>> /\ dried' = <<>>

Work == Open \/ Make \/ Wash \/ Dry
Next == Work \/ NextDay

Steps == Init /\ [][Next]_vars
Spec  == Steps /\ WF_vars(Work)
=============================================================================
