------------------------------ MODULE MCKitchen ------------------------------
(* Kitchen for TLC.  A dish is washed for no time or for some time: the code  *)
(* tells only 0, END_OF_THE_DAY and the rest apart.                           *)
EXTENDS Kitchen

MCWashTimes == {0, 3}
=============================================================================
