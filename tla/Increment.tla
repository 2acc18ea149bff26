------------------------------ MODULE Increment ------------------------------
(***************************************************************************)
(* increment: two threads count a shared variable up, each with the mutex  *)
(* held over all its rounds; main joins them and prints it.                *)
(***************************************************************************)
EXTENDS Integers

CONSTANT cycle_duration

ASSUME IncrementAssumption == cycle_duration \in Nat

Adders == 1..2

VARIABLES
  a,     \* the variable
  mutex, \* the thread that holds it, 0 if it is free
  ipc,   \* where each thread is
  i,     \* the rounds each thread has made
  reg,   \* what each thread read of a
  jpc    \* where main is: the thread it joins, or 3 when it has printed a

incVars == <<a, mutex, ipc, i, reg, jpc>>

IncInit ==
  /\ a = 0 /\ mutex = 0 /\ jpc = 1
  /\ ipc = [t \in Adders |-> "lock"]
  /\ i = [t \in Adders |-> 0] /\ reg = [t \in Adders |-> 0]

\* Mutant: the mutex is not waited for.
LockNot(t) ==
  /\ ipc[t] = "lock"
  /\ mutex' = t
  /\ ipc' = [ipc EXCEPT ![t] = "load"]
  /\ UNCHANGED <<a, i, reg, jpc>>

Lock(t) ==
  /\ ipc[t] = "lock" /\ mutex = 0
  /\ mutex' = t
  /\ ipc' = [ipc EXCEPT ![t] = "load"]
  /\ UNCHANGED <<a, i, reg, jpc>>

\* a += 1 reads the variable
Load(t) ==
  /\ ipc[t] = "load" /\ i[t] < cycle_duration
  /\ reg' = [reg EXCEPT ![t] = a]
  /\ ipc' = [ipc EXCEPT ![t] = "store"]
  /\ UNCHANGED <<a, mutex, i, jpc>>

\* and writes it.
Store(t) ==
  /\ ipc[t] = "store"
  /\ a' = reg[t] + 1
  /\ i' = [i EXCEPT ![t] = @ + 1]
  /\ ipc' = [ipc EXCEPT ![t] = "load"]
  /\ UNCHANGED <<mutex, reg, jpc>>

Unlock(t) ==
  /\ ipc[t] = "load" /\ i[t] = cycle_duration
  /\ mutex' = 0
  /\ ipc' = [ipc EXCEPT ![t] = "ended"]
  /\ UNCHANGED <<a, i, reg, jpc>>

JoinAdder ==
  /\ jpc \in Adders /\ ipc[jpc] = "ended"
  /\ jpc' = jpc + 1
  /\ UNCHANGED <<a, mutex, ipc, i, reg>>

Adder(t) == Lock(t) \/ Load(t) \/ Store(t) \/ Unlock(t)

IncNext == JoinAdder \/ \E t \in Adders : Adder(t)

IncSpec == IncInit /\ [][IncNext]_incVars
-----------------------------------------------------------------------------
IncTypeOK ==
  /\ a \in Nat /\ mutex \in 0..2 /\ jpc \in 1..3
  /\ ipc \in [Adders -> {"lock", "load", "store", "ended"}]
  /\ i \in [Adders -> 0..cycle_duration] /\ reg \in [Adders -> Nat]

\* No round is lost: what is printed is twice the rounds of a thread (increment.c:26-31).
Counted == jpc = 3 => a = 2 * cycle_duration
=============================================================================
