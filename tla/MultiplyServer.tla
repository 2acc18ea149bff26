--------------------------- MODULE MultiplyServer ---------------------------
(***************************************************************************)
(* Client_Server: a server that multiplies two numbers for each client.    *)
(* Requests and replies share one System V message queue; the server hands *)
(* a request to one of THREADS_AMNT threads through a table of slots, and  *)
(* a semaphore counts the threads that may be started.                     *)
(*                                                                         *)
(* A client's two operands are both written as the client itself, so that  *)
(* the product of two operands is right exactly when they belong together. *)
(* The semaphore and the queue outlive the server.                         *)
(***************************************************************************)
EXTENDS Integers, Sequences, FiniteSets

CONSTANTS
  Clients,     \* the client processes, each of which makes one request
  Pid255,      \* those of them whose process id is 255
  THREADS_AMNT,
  QueueCap,    \* the messages the queue holds
  MaxStarts    \* bound: how often the server is started

Request == "request" \* mtype 1, which no client has as its process id
Nobody  == "nobody"  \* my_id 0, in a buffer no request was ever read into
Wrong   == "wrong"   \* a number that is the product or the operand of no client

ASSUME ServerAssumption ==
  /\ IsFiniteSet(Clients) /\ Pid255 \subseteq Clients
  /\ Request \notin Clients /\ Nobody \notin Clients /\ Wrong \notin Clients
  /\ THREADS_AMNT \in Nat \ {0}
  /\ QueueCap \in Nat \ {0}
  /\ MaxStarts \in Nat \ {0}

Operands == Clients \cup {Wrong}
Slots    == 0..THREADS_AMNT-1

VARIABLES
  queue,        \* the messages, oldest first
  sem,          \* the semaphore's value
  spc,          \* where the server's main thread is
  mybuf_input,  \* its buffer: mtype, num_one, num_two, my_id
  scan,         \* the slot its loop looks at (i)
  threads_used, \* the table of slots
  argument,     \* func_argument[i].buf_in
  tpc,          \* where the thread on a slot is, "none" if there is none
  output,       \* the reply it will send
  posting,      \* how many threads have left their slot and not yet posted
  cpc,          \* where each client is
  answer,       \* the product it printed
  starts,       \* how often the server has been started
  dropped,      \* history: how many messages found no free slot
  lost,         \* history: the clients they were for
  stolen        \* history: the clients whose reply the server took itself

serverVars  == <<spc, mybuf_input, scan, starts>>
threadVars  == <<threads_used, argument, tpc, output, posting>>
clientVars  == <<cpc, answer>>
historyVars == <<dropped, lost, stolen>>
vars == <<queue, sem, serverVars, threadVars, clientVars, historyVars>>

EmptyBuf == [mtype |-> Nobody, num_one |-> Wrong, num_two |-> Wrong, my_id |-> Nobody]

Idle == /\ spc = "down" /\ mybuf_input = EmptyBuf /\ scan = 0
        /\ threads_used = [t \in Slots |-> 0]
        /\ argument = [t \in Slots |-> EmptyBuf]
        /\ tpc = [t \in Slots |-> "none"]
        /\ output = [t \in Slots |-> EmptyBuf]
        /\ posting = 0

Init ==
  /\ Idle
  /\ queue = <<>> /\ sem = 0
  /\ cpc = [c \in Clients |-> "start"] /\ answer = [c \in Clients |-> Nobody]
  /\ starts = 0 /\ dropped = 0 /\ lost = {} /\ stolen = {}
-----------------------------------------------------------------------------
\* main up to the loop: the semaphore is added to, never set.
ServerStart ==
  /\ spc = "down" /\ starts < MaxStarts
  /\ starts' = starts + 1
  /\ sem' = sem + THREADS_AMNT + 1
  /\ spc' = "receive"
  /\ UNCHANGED <<queue, mybuf_input, scan, threadVars, clientVars, historyVars>>

\* The process ends, and its threads with it.
ServerEnds ==
  /\ spc' = "down" /\ mybuf_input' = EmptyBuf /\ scan' = 0
  /\ threads_used' = [t \in Slots |-> 0]
  /\ argument' = [t \in Slots |-> EmptyBuf]
  /\ tpc' = [t \in Slots |-> "none"]
  /\ output' = [t \in Slots |-> EmptyBuf]
  /\ posting' = 0
  /\ UNCHANGED starts

\* Mutant: the buffer is cleared before each message.
ServerReceiveCleared ==
  /\ spc = "receive" /\ queue # <<>>
  /\ queue' = Tail(queue)
  /\ LET m == Head(queue) IN
       IF m.mtype = Request
       THEN mybuf_input' = m /\ UNCHANGED stolen
       ELSE /\ mybuf_input' = [EmptyBuf EXCEPT !.mtype = m.mtype, !.num_one = Wrong]
            /\ stolen' = stolen \cup {m.mtype}
  /\ spc' = "look"
  /\ UNCHANGED <<sem, scan, starts, threadVars, clientVars, dropped, lost>>

\* Type 0 takes the oldest message whatever it is.  A reply is shorter than a
\* request: it covers mtype and num_one and leaves num_two and my_id as they were.
ServerReceive ==
  /\ spc = "receive" /\ queue # <<>>
  /\ queue' = Tail(queue)
  /\ LET m == Head(queue) IN
       IF m.mtype = Request
       THEN mybuf_input' = m /\ UNCHANGED stolen
       ELSE /\ mybuf_input' = [mybuf_input EXCEPT !.mtype = m.mtype, !.num_one = Wrong]
            /\ stolen' = stolen \cup {m.mtype}
  /\ spc' = "look"
  /\ UNCHANGED <<sem, scan, starts, threadVars, clientVars, dropped, lost>>

\* A message of type 255 ends the server,
ServerQuit ==
  /\ spc = "look" /\ mybuf_input.mtype \in Pid255
  /\ ServerEnds
  /\ UNCHANGED <<queue, sem, clientVars, historyVars>>

\* any other one waits for a thread.
ServerWait ==
  /\ spc = "look" /\ mybuf_input.mtype \notin Pid255
  /\ sem > 0 /\ sem' = sem - 1
  /\ spc' = "scan" /\ scan' = 0
  /\ UNCHANGED <<queue, mybuf_input, starts, threadVars, clientVars, historyVars>>

\* The loop over threads_used starts a thread on the first free slot it meets,
ServerScanFree ==
  /\ spc = "scan" /\ threads_used[scan] = 0
  /\ threads_used' = [threads_used EXCEPT ![scan] = 1]
  /\ argument' = [argument EXCEPT ![scan] = mybuf_input]
  /\ tpc' = [tpc EXCEPT ![scan] = "multiply"]
  /\ spc' = "receive"
  /\ UNCHANGED <<queue, sem, mybuf_input, scan, starts, output, posting>>
  /\ UNCHANGED <<clientVars, historyVars>>

ServerScanUsed ==
  /\ spc = "scan" /\ threads_used[scan] # 0 /\ scan < THREADS_AMNT - 1
  /\ scan' = scan + 1
  /\ UNCHANGED <<queue, sem, spc, mybuf_input, starts, threadVars, clientVars, historyVars>>

\* and forgets the message, and keeps what it took from the semaphore, if there is none.
ServerScanNone ==
  /\ spc = "scan" /\ threads_used[scan] # 0 /\ scan = THREADS_AMNT - 1
  /\ dropped' = dropped + 1
  /\ lost' = lost \cup ({mybuf_input.my_id} \cap Clients)
  /\ spc' = "receive"
  /\ UNCHANGED <<queue, sem, mybuf_input, scan, starts, threadVars, clientVars, stolen>>

\* The operator interrupts the server: it has no other end.
ServerKill ==
  /\ spc # "down" /\ starts < MaxStarts
  /\ ServerEnds
  /\ UNCHANGED <<queue, sem, clientVars, historyVars>>
-----------------------------------------------------------------------------
Product(b) == IF b.num_one = b.num_two THEN b.num_one ELSE Wrong

\* Mutant: the thread reads the server's buffer, not the copy it was given.
ThreadMultiplyShared(t) ==
  /\ tpc[t] = "multiply"
  /\ output' = [output EXCEPT ![t] =
       [EmptyBuf EXCEPT !.mtype = argument[t].my_id, !.num_one = Product(mybuf_input)]]
  /\ tpc' = [tpc EXCEPT ![t] = "send"]
  /\ UNCHANGED <<queue, sem, serverVars, threads_used, argument, posting>>
  /\ UNCHANGED <<clientVars, historyVars>>

\* my_thread: multiply,
ThreadMultiply(t) ==
  /\ tpc[t] = "multiply"
  /\ output' = [output EXCEPT ![t] =
       [EmptyBuf EXCEPT !.mtype = argument[t].my_id, !.num_one = Product(argument[t])]]
  /\ tpc' = [tpc EXCEPT ![t] = "send"]
  /\ UNCHANGED <<queue, sem, serverVars, threads_used, argument, posting>>
  /\ UNCHANGED <<clientVars, historyVars>>

\* send the reply,
ThreadSend(t) ==
  /\ tpc[t] = "send" /\ output[t].mtype # Nobody
  /\ Len(queue) < QueueCap
  /\ queue' = Append(queue, output[t])
  /\ tpc' = [tpc EXCEPT ![t] = "leave"]
  /\ UNCHANGED <<sem, serverVars, threads_used, argument, output, posting>>
  /\ UNCHANGED <<clientVars, historyVars>>

\* (a message of type 0 cannot be sent: the queue is removed, which fails every
\* client that waits on it, and the whole server exits)
ThreadSendFails(t) ==
  /\ tpc[t] = "send" /\ output[t].mtype = Nobody
  /\ queue' = <<>>
  /\ cpc' = [c \in Clients |-> IF cpc[c] = "wait" THEN "failed" ELSE cpc[c]]
  /\ ServerEnds
  /\ UNCHANGED <<sem, answer, historyVars>>

\* Mutant: the slot is not given back.
ThreadLeaveNot(t) ==
  /\ tpc[t] = "leave"
  /\ tpc' = [tpc EXCEPT ![t] = "none"]
  /\ posting' = posting + 1
  /\ UNCHANGED <<queue, sem, serverVars, threads_used, argument, output>>
  /\ UNCHANGED <<clientVars, historyVars>>

\* give the slot back, and only then
ThreadLeave(t) ==
  /\ tpc[t] = "leave"
  /\ threads_used' = [threads_used EXCEPT ![t] = 0]
  /\ tpc' = [tpc EXCEPT ![t] = "none"]
  /\ posting' = posting + 1
  /\ UNCHANGED <<queue, sem, serverVars, argument, output, clientVars, historyVars>>

\* Mutant: the semaphore is not given back.
ThreadPostNot ==
  /\ posting > 0
  /\ posting' = posting - 1
  /\ UNCHANGED <<queue, sem, serverVars, threads_used, argument, tpc, output>>
  /\ UNCHANGED <<clientVars, historyVars>>

\* the semaphore.
ThreadPost ==
  /\ posting > 0
  /\ posting' = posting - 1
  /\ sem' = sem + 1
  /\ UNCHANGED <<queue, serverVars, threads_used, argument, tpc, output>>
  /\ UNCHANGED <<clientVars, historyVars>>
-----------------------------------------------------------------------------
ClientSend(c) ==
  /\ cpc[c] = "start"
  /\ Len(queue) < QueueCap
  /\ queue' = Append(queue, [mtype |-> Request, num_one |-> c, num_two |-> c, my_id |-> c])
  /\ cpc' = [cpc EXCEPT ![c] = "wait"]
  /\ UNCHANGED <<sem, serverVars, threadVars, answer, historyVars>>

\* The first message whose type is the client's process id.
ClientReceive(c) ==
  /\ cpc[c] = "wait"
  /\ \E k \in 1..Len(queue) :
       /\ queue[k].mtype = c
       /\ \A j \in 1..k-1 : queue[j].mtype # c
       /\ queue' = SubSeq(queue, 1, k-1) \o SubSeq(queue, k+1, Len(queue))
       /\ answer' = [answer EXCEPT ![c] = queue[k].num_one]
  /\ cpc' = [cpc EXCEPT ![c] = "done"]
  /\ UNCHANGED <<sem, serverVars, threadVars, historyVars>>

\* The user gives up waiting.
ClientKill(c) ==
  /\ cpc[c] = "wait"
  /\ cpc' = [cpc EXCEPT ![c] = "killed"]
  /\ UNCHANGED <<queue, sem, serverVars, threadVars, answer, historyVars>>
-----------------------------------------------------------------------------
ServerLoop == \/ ServerReceive \/ ServerQuit \/ ServerWait
              \/ ServerScanFree \/ ServerScanUsed \/ ServerScanNone

Thread(t) == ThreadMultiply(t) \/ ThreadSend(t) \/ ThreadSendFails(t) \/ ThreadLeave(t)

Client(c) == ClientSend(c) \/ ClientReceive(c)

Next == \/ ServerStart \/ ServerLoop \/ ServerKill
        \/ \E t \in Slots : Thread(t)
        \/ ThreadPost
        \/ \E c \in Clients : Client(c) \/ ClientKill(c)

\* Every thread of every process runs; an interrupt and a start need not come,
\* nor a client's request.
Fairness ==
  /\ WF_vars(ServerLoop) /\ WF_vars(ThreadPost)
  /\ \A t \in Slots : WF_vars(Thread(t))
  /\ \A c \in Clients : WF_vars(ClientReceive(c))

Spec     == Init /\ [][Next]_vars
FairSpec == Spec /\ Fairness
-----------------------------------------------------------------------------
Buf == [mtype : Clients \cup {Request, Nobody}, num_one : Operands,
        num_two : Operands, my_id : Clients \cup {Nobody}]

\* Every variable has its type.
TypeOK ==
  /\ queue \in Seq(Buf) /\ Len(queue) <= QueueCap
  /\ sem \in Nat
  /\ spc \in {"down", "receive", "look", "scan"}
  /\ mybuf_input \in Buf
  /\ scan \in Slots
  /\ threads_used \in [Slots -> {0, 1}]
  /\ argument \in [Slots -> Buf]
  /\ tpc \in [Slots -> {"none", "multiply", "send", "leave"}]
  /\ output \in [Slots -> Buf]
  /\ posting \in Nat
  /\ cpc \in [Clients -> {"start", "wait", "done", "failed", "killed"}]
  /\ answer \in [Clients -> Operands \cup {Nobody}]
  /\ starts \in 0..MaxStarts
  /\ dropped \in Nat /\ lost \subseteq Clients /\ stolen \subseteq Clients

\* The semaphore is one too large (server.c:99), so that a message can find every
\* slot taken (server.c:135-156) and be dropped.  That message's token is never
\* given back, so it happens once; a restart (server.c:108) adds as many again.
DropBound == starts > 0 => dropped <= (THREADS_AMNT + 1) * starts - THREADS_AMNT

\* The product a client gets is that of its own numbers (client.c:76) as long as
\* the server has taken no reply for a request: no slot is overwritten under its
\* thread, no reply is sent to another client.
OwnProduct ==
  stolen = {} => \A c \in Clients : cpc[c] = "done" => answer[c] = c

\* A server that was never interrupted keeps the queue: a thread's reply has a
\* client to go to, and no client is failed by the removal (server.c:57-62).
QueueKept == starts <= 1 => \A c \in Clients : cpc[c] # "failed"

\* While the first server runs, a client that waits gets an answer, unless its
\* request was dropped or its reply taken by the server (server.c:120, 135), the
\* user gave up, or the server is interrupted or ended by a reply of type 255.
Answered == \A c \in Clients :
  cpc[c] = "wait" /\ starts = 1 /\ spc # "down" ~>
    cpc[c] # "wait" \/ c \in lost \/ c \in stolen \/ spc = "down"

\* "%d * %d = %d" (client.c:76): every product that is printed is the right one.
PrintsProduct == \A c \in Clients : cpc[c] = "done" => answer[c] = c
=============================================================================
