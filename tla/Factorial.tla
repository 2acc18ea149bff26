------------------------------ MODULE Factorial ------------------------------
(***************************************************************************)
(* Queue_CS_factorial: a server (facktorial1) takes one message from the   *)
(* queue, answers it with a factorial and ends; a client (facktorial2)     *)
(* sends a number, takes a message, prints it and removes the queue.  Both *)
(* create the queue if it is not there, all messages are of type 1 and     *)
(* both take any type.  Servers and clients are started at any time.       *)
(***************************************************************************)
EXTENDS Integers, Sequences, FiniteSetsExt

CONSTANTS
  Clients, Servers, \* the processes
  Inputs            \* the numbers users enter, less than 10

FactProcs == Clients \cup Servers

\* A process runs one of the two programs; a number that is typed is a char, as
\* "num < 10" (facktorial2.c:43) asks for.
ASSUME FactAssumption ==
  /\ IsFiniteSet(FactProcs) /\ Clients \cap Servers = {}
  /\ Inputs \subseteq -128..9

VARIABLES
  qpc,       \* where each process is
  msqid,    \* the queue each process got, 0 before
  queues,   \* how many queues were created
  queue,    \* the messages in the last of them
  there,    \* it is there
  input,    \* the number each process has in hand
  printed,  \* what each client printed
  alone,    \* history: no two clients ran at the same time
  robbed    \* history: a server took an answer for a request

factVars == <<qpc, msqid, queues, queue, there, input, printed, alone, robbed>>

Nothing == -1000  \* printed so far
Unknown == -2000  \* a number of which three bytes were never set

FactInit ==
  /\ qpc = [p \in FactProcs |-> "msgget"] /\ msqid = [p \in FactProcs |-> 0]
  /\ queues = 0 /\ queue = <<>> /\ there = FALSE
  /\ input = [p \in FactProcs |-> 0] /\ printed = [c \in Clients |-> Nothing]
  /\ alone = TRUE /\ robbed = FALSE

FactGo(p, to) == qpc' = [qpc EXCEPT ![p] = to]

\* The queue a process got is still there.
Has(p) == there /\ msqid[p] = queues

Request(n) == [kind |-> "request", val |-> n]
Reply(n)   == [kind |-> "reply",   val |-> n]

\* Mutant: the loop stops one too early.
FactBelow(n) ==
  LET f[k \in Int] == IF k < 1 THEN 1 ELSE (IF k < n THEN k ELSE 1) * f[k - 1]  IN f[n]

\* result, which is 1 if the loop is not entered.
Fact(n) == LET f[k \in Int] == IF k < 1 THEN 1 ELSE k * f[k - 1]  IN f[n]

\* What is left of an int in a char.
LowByte(n) == ((n + 128) % 256) - 128
-----------------------------------------------------------------------------
MsgGet(p) ==
  /\ qpc[p] = "msgget" /\ FactGo(p, IF p \in Clients THEN "send" ELSE "recv")
  /\ IF there THEN UNCHANGED <<there, queues, queue>>
              ELSE there' = TRUE /\ queues' = queues + 1 /\ queue' = <<>>
  /\ msqid' = [msqid EXCEPT ![p] = queues']
  /\ alone' = (alone /\ (p \in Clients => \A c \in Clients : qpc[c] \in {"msgget", "done"}))
  /\ UNCHANGED <<input, printed, robbed>>

\* A user enters a number, which is sent, unless the queue is gone.
Send(c) ==
  /\ qpc[c] = "send" /\ FactGo(c, IF Has(c) THEN "recv" ELSE "done")
  /\ \E n \in Inputs : /\ input' = [input EXCEPT ![c] = n]
                       /\ queue' = IF Has(c) THEN Append(queue, Request(n)) ELSE queue
  /\ UNCHANGED <<msqid, queues, there, printed, alone, robbed>>

\* msgrcv takes the first message of any type: p goes on if it got one.
Take(p, to) ==
  /\ qpc[p] = "recv"
  /\ IF Has(p) THEN queue # <<>> /\ queue' = Tail(queue) /\ FactGo(p, to)
               ELSE UNCHANGED queue /\ FactGo(p, "done")
  /\ UNCHANGED <<msqid, queues, there, alone>>

\* The client prints the first byte of what it took, be it an answer or a request.
Receive(c) ==
  /\ Take(c, "remove")
  /\ printed' = IF Has(c) THEN [printed EXCEPT ![c] = Head(queue).val] ELSE printed
  /\ UNCHANGED <<input, robbed>>

\* msgctl(IPC_RMID), whoever else uses the queue.
Remove(c) ==
  /\ qpc[c] = "remove" /\ FactGo(c, "done")
  /\ there' = (there /\ ~Has(c)) /\ queue' = IF Has(c) THEN <<>> ELSE queue
  /\ UNCHANGED <<msqid, queues, input, printed, alone, robbed>>

\* The server takes a message for a request.
ServerReceive(s) ==
  /\ Take(s, "answer")
  /\ input' = IF ~Has(s) THEN input
              ELSE [input EXCEPT ![s] = IF Head(queue).kind = "request" THEN Head(queue).val
                                                                        ELSE Unknown]
  /\ robbed' = (robbed \/ (Has(s) /\ Head(queue).kind = "reply"))
  /\ UNCHANGED printed

\* The factorial, cut to a char, is sent, unless the queue is gone.
Answer(s) ==
  /\ qpc[s] = "answer" /\ FactGo(s, "done")
  /\ queue' = IF ~Has(s) THEN queue
              ELSE Append(queue, Reply(IF input[s] = Unknown THEN Unknown
                                       ELSE LowByte(Fact(input[s]))))
  /\ UNCHANGED <<msqid, queues, there, input, printed, alone, robbed>>

Client(c) == MsgGet(c) \/ Send(c) \/ Receive(c) \/ Remove(c)
Server(s) == MsgGet(s) \/ ServerReceive(s) \/ Answer(s)

FactNext == (\E c \in Clients : Client(c)) \/ (\E s \in Servers : Server(s))

FactSpec == FactInit /\ [][FactNext]_factVars
-----------------------------------------------------------------------------
Value == Inputs \cup {LowByte(Fact(n)) : n \in Inputs} \cup {Unknown}

FactTypeOK ==
  /\ qpc \in [FactProcs -> {"msgget", "send", "recv", "answer", "remove", "done"}]
  /\ msqid \in [FactProcs -> 0..queues] /\ queues \in 0..Cardinality(FactProcs)
  /\ queue \in Seq([kind : {"request", "reply"}, val : Value]) /\ there \in BOOLEAN
  /\ input \in [FactProcs -> Inputs \cup {0, Unknown}]
  /\ printed \in [Clients -> Value \cup {Nothing}] /\ alone \in BOOLEAN /\ robbed \in BOOLEAN

\* A client that meets no other prints its own number, which it may have taken back
\* itself (facktorial2.c:55), or the char that is its factorial modulo 256
\* (facktorial1.c:61), if no other server took the answer for a request (49).
OwnAnswer ==
  alone /\ ~robbed => \A c \in Clients :
    \/ printed[c] \in {Nothing, input[c]}
    \/ /\ printed[c] \in -128..127
       /\ (printed[c] - ProductSet(1..input[c])) % 256 = 0

\* Every client that waits ends, with a wrong number maybe: the queue that its last user
\* removes (64) wakes the others.
ClientsEnd == \A c \in Clients : qpc[c] = "recv" ~> qpc[c] = "done"
=============================================================================
