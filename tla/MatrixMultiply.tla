---------------------------- MODULE MatrixMultiply ----------------------------
(***************************************************************************)
(* hw5_4.c: a matrix is multiplied with itself by several threads.  Each   *)
(* serves a stretch of the elements of the product; the last thread takes  *)
(* what the division leaves over.  The threads share the output matrix and *)
(* no lock.                                                                *)
(*                                                                         *)
(* What an element's value is is left out: `output' counts how often each  *)
(* element was computed and stored.                                        *)
(***************************************************************************)
EXTENDS Integers

CONSTANTS matrix_size, thread_count

ASSUME MatrixAssumption == matrix_size \in Nat /\ thread_count \in Nat \ {0}

Size     == matrix_size * matrix_size
Elements == 0..Size-1
Threads  == 0..thread_count-1

VARIABLES
  mpc,           \* where main is
  created,       \* how many threads it has created, or joined
  tpc,           \* where each thread is
  elem_to_start, \* the element each thread comes to next
  loop_counter,  \* how many it has served
  output         \* how often each element was stored

matrixVars == <<mpc, created, tpc, elem_to_start, loop_counter, output>>

elems_to_serve == Size \div thread_count
Start(t) == elems_to_serve * t

MatrixInit ==
  /\ mpc = "create" /\ created = 0
  /\ tpc = [t \in Threads |-> "none"]
  /\ elem_to_start = [t \in Threads |-> 0]
  /\ loop_counter = [t \in Threads |-> 0]
  /\ output = [e \in Elements |-> 0]

Create ==
  /\ mpc = "create" /\ created < thread_count
  /\ tpc' = [tpc EXCEPT ![created] = "serve"]
  /\ elem_to_start' = [elem_to_start EXCEPT ![created] = Start(created)]
  /\ created' = created + 1
  /\ UNCHANGED <<mpc, loop_counter, output>>

JoinAll ==
  /\ mpc = "create" /\ created = thread_count
  /\ mpc' = "join" /\ created' = 0
  /\ UNCHANGED <<tpc, elem_to_start, loop_counter, output>>

Join ==
  /\ mpc = "join" /\ created < thread_count /\ tpc[created] = "ended"
  /\ created' = created + 1
  /\ UNCHANGED <<mpc, tpc, elem_to_start, loop_counter, output>>

PrintMatrix ==
  /\ mpc = "join" /\ created = thread_count
  /\ mpc' = "printed"
  /\ UNCHANGED <<created, tpc, elem_to_start, loop_counter, output>>

\* Mutant: the last thread stops like the others.
MoreNotLast(t) == elem_to_start[t] < Size /\ loop_counter[t] < elems_to_serve

\* The loop condition of my_thread: the last thread goes on to the end.
More(t) == /\ elem_to_start[t] < Size
           /\ loop_counter[t] < elems_to_serve \/ t = thread_count - 1

current_y(t) == elem_to_start[t] \div matrix_size
current_x(t) == elem_to_start[t] - current_y(t) * matrix_size

Serve(t) ==
  /\ tpc[t] = "serve" /\ More(t)
  /\ output' = [output EXCEPT ![current_y(t) * matrix_size + current_x(t)] = @ + 1]
  /\ elem_to_start' = [elem_to_start EXCEPT ![t] = @ + 1]
  /\ loop_counter' = [loop_counter EXCEPT ![t] = @ + 1]
  /\ UNCHANGED <<mpc, created, tpc>>

End(t) ==
  /\ tpc[t] = "serve" /\ ~More(t)
  /\ tpc' = [tpc EXCEPT ![t] = "ended"]
  /\ UNCHANGED <<mpc, created, elem_to_start, loop_counter, output>>

Main == Create \/ JoinAll \/ Join \/ PrintMatrix

MatrixNext == Main \/ \E t \in Threads : Serve(t) \/ End(t)

MatrixSpec == MatrixInit /\ [][MatrixNext]_matrixVars
-----------------------------------------------------------------------------
\* Every variable has its type.
MatrixTypeOK ==
  /\ mpc \in {"create", "join", "printed"} /\ created \in 0..thread_count
  /\ tpc \in [Threads -> {"none", "serve", "ended"}]
  /\ elem_to_start \in [Threads -> Nat]
  /\ loop_counter \in [Threads -> Nat]
  /\ output \in [Elements -> Nat]

\* No two threads store the same element, whatever the sizes (hw5_4.c:22-29), so
\* that the output matrix needs no lock.
StoredOnce == \A e \in Elements : output[e] <= 1

\* The matrix that main prints (hw5_4.c:107-119) is complete.
Complete == mpc = "printed" => \A e \in Elements : output[e] = 1

\* The product is printed in the end, however many threads have nothing to serve.
Printed == <>(mpc = "printed")
=============================================================================
