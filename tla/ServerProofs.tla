---------------------------- MODULE ServerProofs ----------------------------
(***************************************************************************)
(* MultiplyServer, for any clients, any number of threads, any queue and   *)
(* any number of starts: its variables have their types, the semaphore's   *)
(* tokens bound the messages that are dropped, a client gets the product   *)
(* of its own numbers, and a first server never removes the queue.         *)
(***************************************************************************)
EXTENDS MultiplyServer, FiniteSetTheorems, SequenceTheorems, TLAPS

\* A message always has a receiver: mtype 0 cannot be sent.
Addressed == \A k \in 1..Len(queue) : queue[k].mtype \in Clients \cup {Request}

TInv == TypeOK /\ Addressed

LEMMA EmptyBufType == EmptyBuf \in Buf
  BY DEF EmptyBuf, Buf, Operands

LEMMA SlotsType == 0 \in Slots /\ THREADS_AMNT - 1 \in Slots /\ IsFiniteSet(Slots)
                   /\ Cardinality(Slots) = THREADS_AMNT
  BY ServerAssumption, FS_Interval DEF Slots

LEMMA AppendMessage ==
  ASSUME NEW q \in Seq(Buf), NEW b \in Buf, Len(q) < QueueCap,
         b.mtype \in Clients \cup {Request},
         \A k \in 1..Len(q) : q[k].mtype \in Clients \cup {Request}
  PROVE  /\ Append(q, b) \in Seq(Buf) /\ Len(Append(q, b)) <= QueueCap
         /\ \A k \in 1..Len(Append(q, b)) : Append(q, b)[k].mtype \in Clients \cup {Request}
  BY ServerAssumption

\* The queue without its k-th message.
Without(q, k) == SubSeq(q, 1, k-1) \o SubSeq(q, k+1, Len(q))

LEMMA WithoutType ==
  ASSUME NEW q \in Seq(Buf), NEW k \in 1..Len(q)
  PROVE  /\ Without(q, k) \in Seq(Buf) /\ Len(Without(q, k)) = Len(q) - 1
         /\ \A n \in 1..Len(q)-1 : \E j \in 1..Len(q) : Without(q, k)[n] = q[j]
<1> DEFINE a == SubSeq(q, 1, k-1)  b == SubSeq(q, k+1, Len(q))
<1>1. a \in Seq(Buf) /\ Len(a) = k - 1 /\ \A n \in 1..k-1 : a[n] = q[n]
  OBVIOUS
<1>2. b \in Seq(Buf) /\ Len(b) = Len(q) - k /\ \A n \in 1..Len(q)-k : b[n] = q[k+n]
  OBVIOUS
<1> HIDE DEF a, b
<1>3. /\ a \o b \in Seq(Buf) /\ Len(a \o b) = Len(a) + Len(b)
      /\ \A n \in 1..Len(a)+Len(b) :
           (a \o b)[n] = IF n <= Len(a) THEN a[n] ELSE b[n - Len(a)]
  BY <1>1, <1>2, ConcatProperties
<1>4. Len(a \o b) = Len(q) - 1
  BY <1>1, <1>2, <1>3
<1>5. ASSUME NEW n \in 1..Len(q)-1
      PROVE  \E j \in 1..Len(q) : (a \o b)[n] = q[j]
  <2>1. CASE n <= k - 1
    <3>1. (a \o b)[n] = q[n] /\ n \in 1..Len(q)
      BY <2>1, <1>1, <1>2, <1>3
    <3> QED
      BY <3>1
  <2>2. CASE ~(n <= k - 1)
    <3>1. (a \o b)[n] = b[n - (k-1)] /\ n - (k-1) \in 1..Len(q)-k
      BY <2>2, <1>1, <1>2, <1>3
    <3>2. (a \o b)[n] = q[n + 1] /\ n + 1 \in 1..Len(q)
      BY <3>1, <1>2
    <3> QED
      BY <3>2
  <2> QED
    BY <2>1, <2>2
<1> QED
  BY <1>3, <1>4, <1>5 DEF Without, a, b
-----------------------------------------------------------------------------
LEMMA InitTypes == Init => TInv
  BY EmptyBufType, SlotsType, ServerAssumption
     DEF Init, Idle, TInv, TypeOK, Addressed, Operands

LEMMA EndsTypes ==
  ASSUME TInv, ServerEnds
  PROVE  /\ spc' \in {"down", "receive", "look", "scan"} /\ mybuf_input' \in Buf
         /\ scan' \in Slots /\ threads_used' \in [Slots -> {0, 1}]
         /\ argument' \in [Slots -> Buf]
         /\ tpc' \in [Slots -> {"none", "multiply", "send", "leave"}]
         /\ output' \in [Slots -> Buf] /\ posting' \in Nat /\ starts' \in 0..MaxStarts
  BY EmptyBufType, SlotsType DEF TInv, TypeOK, ServerEnds

LEMMA StepTypes == TInv /\ [Next]_vars => TInv'
<1> SUFFICES ASSUME TInv, [Next]_vars PROVE TInv'
  OBVIOUS
<1> USE DEF TInv, TypeOK, Addressed
<1> USE DEF serverVars, threadVars, clientVars, historyVars
<1>1. CASE ServerStart
  BY <1>1, ServerAssumption DEF ServerStart
<1>2. CASE ServerReceive
  <2> DEFINE m == Head(queue)
  <2>1. queue \in Seq(Buf) /\ queue # <<>> /\ m = queue[1] /\ 1 \in 1..Len(queue)
    BY <1>2 DEF ServerReceive
  <2>2. m \in Buf /\ m.mtype \in Clients \cup {Request}
    BY <2>1
  <2>3. queue' \in Seq(Buf) /\ Len(queue') = Len(queue) - 1
        /\ \A k \in 1..Len(queue') : queue'[k] = queue[k+1] /\ k + 1 \in 1..Len(queue)
    BY <1>2, <2>1 DEF ServerReceive
  <2>4. Len(queue') <= QueueCap /\ Addressed'
    BY <2>3, ServerAssumption
  <2>5. mybuf_input' \in Buf /\ stolen' \subseteq Clients
    <3> USE <1>2 DEF ServerReceive
    <3>1. CASE m.mtype = Request
      BY <3>1, <2>2
    <3>2. CASE m.mtype # Request
      <4>1. m.mtype \in Clients /\ mybuf_input \in Buf /\ Wrong \in Operands
        BY <3>2, <2>2 DEF Operands
      <4>2. [mybuf_input EXCEPT !.mtype = m.mtype, !.num_one = Wrong] \in Buf
        BY <4>1 DEF Buf
      <4>3. mybuf_input' = [mybuf_input EXCEPT !.mtype = m.mtype, !.num_one = Wrong]
            /\ stolen' = stolen \cup {m.mtype}
        BY <3>2
      <4> QED
        BY <4>1, <4>2, <4>3
    <3> QED
      BY <3>1, <3>2
  <2> QED
    BY <1>2, <2>3, <2>4, <2>5 DEF ServerReceive
<1>3. CASE ServerQuit
  BY <1>3, EndsTypes DEF ServerQuit
<1>4. CASE ServerWait
  BY <1>4, SlotsType DEF ServerWait
<1>5. CASE ServerScanFree
  BY <1>5 DEF ServerScanFree
<1>6. CASE ServerScanUsed
  BY <1>6, ServerAssumption DEF ServerScanUsed, Slots
<1>7. CASE ServerScanNone
  BY <1>7 DEF ServerScanNone
<1>8. CASE ServerKill
  BY <1>8, EndsTypes DEF ServerKill
<1>9. ASSUME NEW t \in Slots, ThreadMultiply(t) PROVE TInv'
  <2>1. [EmptyBuf EXCEPT !.mtype = argument[t].my_id, !.num_one = Product(argument[t])] \in Buf
    BY DEF EmptyBuf, Buf, Operands, Product
  <2> QED
    BY <1>9, <2>1 DEF ThreadMultiply
<1>10. ASSUME NEW t \in Slots, ThreadSend(t) PROVE TInv'
  <2>1. output[t] \in Buf /\ output[t].mtype \in Clients \cup {Request}
    BY <1>10 DEF ThreadSend, Buf
  <2>2. queue' \in Seq(Buf) /\ Len(queue') <= QueueCap /\ Addressed'
    BY <1>10, <2>1, AppendMessage DEF ThreadSend
  <2> QED
    BY <1>10, <2>2 DEF ThreadSend
<1>11. ASSUME NEW t \in Slots, ThreadSendFails(t) PROVE TInv'
  BY <1>11, EndsTypes, ServerAssumption DEF ThreadSendFails
<1>12. ASSUME NEW t \in Slots, ThreadLeave(t) PROVE TInv'
  BY <1>12 DEF ThreadLeave
<1>13. CASE ThreadPost
  BY <1>13 DEF ThreadPost
<1>14. ASSUME NEW c \in Clients, ClientSend(c) PROVE TInv'
  <2> DEFINE m == [mtype |-> Request, num_one |-> c, num_two |-> c, my_id |-> c]
  <2>1. m \in Buf /\ m.mtype = Request
    BY DEF Buf, Operands
  <2> HIDE DEF m
  <2>2. queue' = Append(queue, m)
    BY <1>14 DEF ClientSend, m
  <2>3. queue' \in Seq(Buf) /\ Len(queue') <= QueueCap /\ Addressed'
    BY <1>14, <2>1, <2>2, AppendMessage DEF ClientSend
  <2> QED
    BY <1>14, <2>3 DEF ClientSend
<1>15. ASSUME NEW c \in Clients, ClientReceive(c) PROVE TInv'
  <2>1. PICK k \in 1..Len(queue) :
          queue' = Without(queue, k) /\ answer' = [answer EXCEPT ![c] = queue[k].num_one]
    BY <1>15 DEF ClientReceive, Without
  <2>2. queue \in Seq(Buf) /\ Len(queue) <= QueueCap /\ Len(queue) \in Nat
    OBVIOUS
  <2>3. queue[k] \in Buf
    BY <2>2
  <2>4. queue[k].num_one \in Operands
    BY <2>3 DEF Buf
  <2>5. queue' \in Seq(Buf) /\ Len(queue') = Len(queue) - 1
        /\ \A n \in 1..Len(queue)-1 : \E j \in 1..Len(queue) : queue'[n] = queue[j]
    BY <2>1, <2>2, WithoutType
  <2>6. Len(queue') <= QueueCap /\ Addressed'
    BY <2>2, <2>5, ServerAssumption
  <2> QED
    BY <1>15, <2>1, <2>4, <2>5, <2>6 DEF ClientReceive
<1>16. ASSUME NEW c \in Clients, ClientKill(c) PROVE TInv'
  BY <1>16 DEF ClientKill
<1>17. CASE UNCHANGED vars
  BY <1>17 DEF vars
<1> QED
  BY <1>1, <1>2, <1>3, <1>4, <1>5, <1>6, <1>7, <1>8, <1>9, <1>10, <1>11, <1>12, <1>13,
     <1>14, <1>15, <1>16, <1>17 DEF Next, ServerLoop, Thread, Client

LEMMA TypesInvariant == Spec => []TInv
  BY InitTypes, StepTypes, PTL DEF Spec

\* Every variable of the server, its threads and its clients keeps its type.
THEOREM TypeCorrect == Spec => []TypeOK
<1>1. TInv => TypeOK
  BY DEF TInv
<1> QED
  BY <1>1, TypesInvariant, PTL
-----------------------------------------------------------------------------
(***************************************************************************)
(* The tokens.  Every start gives the semaphore THREADS_AMNT + 1; each     *)
(* token is in the semaphore, with the main thread that scans the table,   *)
(* with a slot, with a thread about to post, or gone with a dropped        *)
(* message.  A kill loses some, so there are never more than were given.   *)
(***************************************************************************)
Given    == (THREADS_AMNT + 1) * starts
Used     == {t \in Slots : threads_used[t] = 1}
Scanning == IF spc = "scan" THEN 1 ELSE 0

Tokens == sem + posting + Cardinality(Used) + Scanning + dropped <= Given

\* A slot is in use exactly while it has a thread.
Paired == \A t \in Slots : threads_used[t] = 0 <=> tpc[t] = "none"

\* A scan that began with every slot taken has the token that is one too many;
\* any other still has a free slot before it.
Ahead ==
  spc = "scan" => \/ dropped + THREADS_AMNT + 1 <= Given
                  \/ \E j \in Slots : j >= scan /\ threads_used[j] = 0

Idling == starts = 0 => spc = "down" /\ dropped = 0

DInv == TInv /\ Tokens /\ Paired /\ Ahead /\ Idling /\ DropBound

LEMMA GivenType ==
  ASSUME TypeOK
  PROVE  Given \in Nat /\ starts \in Nat /\ (starts = 0 => Given = 0)
         /\ (starts > 0 => Given >= THREADS_AMNT + 1)
<1>1. starts \in Nat /\ THREADS_AMNT \in Nat
  BY ServerAssumption DEF TypeOK
<1>2. \A m \in Nat, n \in Nat : /\ (m + 1) * n \in Nat
                                /\ n = 0 => (m + 1) * n = 0
                                /\ n > 0 => (m + 1) * n >= m + 1
  OBVIOUS
<1> QED
  BY <1>1, <1>2 DEF Given

LEMMA UsedType ==
  ASSUME TypeOK
  PROVE  IsFiniteSet(Used) /\ Cardinality(Used) \in Nat /\ Cardinality(Used) <= THREADS_AMNT
<1>1. Used \in SUBSET Slots
  BY DEF Used
<1>2. IsFiniteSet(Used) /\ Cardinality(Used) <= Cardinality(Slots)
  BY <1>1, SlotsType, FS_Subset
<1> QED
  BY <1>2, SlotsType, FS_CardinalityType

\* While it runs, the table has a free slot or every slot's token is out.
LEMMA FreeOrFull ==
  ASSUME TypeOK, \A t \in Slots : threads_used[t] # 0
  PROVE  Cardinality(Used) = THREADS_AMNT
<1>1. Used = Slots
  BY DEF Used, TypeOK
<1> QED
  BY <1>1, SlotsType

LEMMA InitTokens == Init => DInv
<1> SUFFICES ASSUME Init PROVE DInv
  OBVIOUS
<1>1. TInv /\ TypeOK
  BY InitTypes DEF TInv
<1>2. Used = {}
  BY DEF Init, Idle, Used
<1>3. Cardinality(Used) = 0
  BY <1>2, FS_EmptySet
<1>4. Given = 0
  BY <1>1, GivenType DEF Init
<1>5. Tokens
  BY <1>3, <1>4 DEF Init, Idle, Tokens, Scanning
<1> QED
  BY <1>1, <1>5 DEF DInv, Init, Idle, Paired, Ahead, Idling, DropBound

\* The end of the server's process takes its tokens with it.
LEMMA EndsTokens ==
  ASSUME DInv, ServerEnds, dropped' = dropped, sem' = sem
  PROVE  Tokens' /\ Paired' /\ Ahead' /\ Idling' /\ DropBound'
<1>1. Used' = {}
  BY DEF ServerEnds, Used
<1>2. Cardinality(Used') = 0
  BY <1>1, FS_EmptySet
<1>3. sem \in Nat /\ posting \in Nat /\ dropped \in Nat
      /\ Given' = Given /\ Given \in Nat /\ starts' = starts
  BY GivenType DEF DInv, TInv, TypeOK, ServerEnds, Given
<1>4. Cardinality(Used) \in Nat /\ Scanning \in Nat
  BY UsedType DEF DInv, TInv, Scanning
<1>5. Tokens'
  BY <1>2, <1>3, <1>4 DEF DInv, Tokens, Scanning, ServerEnds
<1> QED
  BY <1>3, <1>5 DEF DInv, ServerEnds, Paired, Ahead, Idling, DropBound

LEMMA StepTokens == DInv /\ [Next]_vars => DInv'
<1> SUFFICES ASSUME DInv, [Next]_vars PROVE Tokens' /\ Paired' /\ Ahead' /\ Idling' /\ DropBound'
  BY StepTypes DEF DInv
<1>1. TypeOK
  BY DEF DInv, TInv
<1>2. sem \in Nat /\ posting \in Nat /\ dropped \in Nat /\ starts \in Nat /\ scan \in Slots
      /\ threads_used \in [Slots -> {0, 1}] /\ DOMAIN tpc = Slots
  BY <1>1 DEF TypeOK
<1>3. Given \in Nat /\ THREADS_AMNT \in Nat \ {0}
  BY <1>1, GivenType, ServerAssumption
<1>4. IsFiniteSet(Used) /\ Cardinality(Used) \in Nat /\ Cardinality(Used) <= THREADS_AMNT
  BY <1>1, UsedType
<1>5. Tokens /\ Paired /\ Ahead /\ Idling /\ DropBound
  BY DEF DInv
<1>6. ASSUME UNCHANGED <<spc, threads_used, tpc, scan, dropped, starts, sem, posting>>
      PROVE  Tokens' /\ Paired' /\ Ahead' /\ Idling' /\ DropBound'
  BY <1>5, <1>6 DEF Tokens, Paired, Ahead, Idling, DropBound, Given, Used, Scanning
<1> USE DEF serverVars, threadVars, historyVars
<1>7. CASE ServerStart
  <2>1. Given' = Given + THREADS_AMNT + 1
    <3>1. \A m \in Nat, n \in Nat : (m + 1) * (n + 1) = (m + 1) * n + m + 1
      OBVIOUS
    <3> QED
      BY <1>2, <1>3, <1>7, <3>1 DEF Given, ServerStart
  <2>2. Used' = Used /\ spc = "down" /\ spc' = "receive" /\ sem' = sem + THREADS_AMNT + 1
        /\ UNCHANGED <<posting, dropped, threads_used, tpc>> /\ starts' = starts + 1
    BY <1>7 DEF ServerStart, Used
  <2>3. Tokens'
    BY <1>2, <1>3, <1>4, <1>5, <2>1, <2>2 DEF Tokens, Scanning
  <2>4. DropBound'
    <3>1. (THREADS_AMNT + 1) * (starts + 1) = Given + THREADS_AMNT + 1
      BY <2>1, <2>2 DEF Given
    <3>2. dropped <= Given
      BY <1>2, <1>3, <1>4, <1>5 DEF Tokens, Scanning
    <3> QED
      BY <1>2, <1>3, <2>2, <3>1, <3>2 DEF DropBound
  <2> QED
    BY <1>2, <1>5, <2>2, <2>3, <2>4 DEF Paired, Ahead, Idling
<1>8. CASE ServerReceive
  BY <1>8, <1>5 DEF ServerReceive, Tokens, Paired, Ahead, Idling, DropBound, Given, Used, Scanning
<1>9. CASE ServerQuit \/ ServerKill
  BY <1>9, EndsTokens DEF ServerQuit, ServerKill
<1>10. CASE ServerWait
  <2>1. Given' = Given /\ Used' = Used /\ spc = "look" /\ spc' = "scan" /\ sem > 0
        /\ sem' = sem - 1 /\ scan' = 0
        /\ UNCHANGED <<posting, dropped, threads_used, tpc, starts>>
    BY <1>10 DEF ServerWait, Given, Used
  <2>2. Tokens'
    BY <1>2, <1>3, <1>4, <1>5, <2>1 DEF Tokens, Scanning
  <2>3. Ahead'
    <3>1. CASE \E j \in Slots : threads_used[j] = 0
      <4>1. \A j \in Slots : j >= 0
        BY DEF Slots
      <4> QED
        BY <2>1, <3>1, <4>1 DEF Ahead
    <3>2. CASE ~\E j \in Slots : threads_used[j] = 0
      <4>1. Cardinality(Used) = THREADS_AMNT
        BY <1>1, <3>2, FreeOrFull
      <4> QED
        BY <1>2, <1>3, <1>5, <2>1, <4>1 DEF Ahead, Tokens, Scanning
    <3> QED
      BY <3>1, <3>2
  <2>4. Paired' /\ Idling'
    BY <1>5, <2>1 DEF Paired, Idling
  <2>5. DropBound'
    BY <1>5, <2>1 DEF DropBound
  <2> QED
    BY <2>2, <2>3, <2>4, <2>5
<1>11. CASE ServerScanFree
  <2>1. Given' = Given /\ spc = "scan" /\ spc' = "receive" /\ threads_used[scan] = 0
        /\ threads_used' = [threads_used EXCEPT ![scan] = 1]
        /\ tpc' = [tpc EXCEPT ![scan] = "multiply"]
        /\ UNCHANGED <<sem, posting, dropped, starts>>
    BY <1>11 DEF ServerScanFree, Given
  <2>2. Used' = Used \cup {scan} /\ scan \notin Used
    BY <1>2, <2>1 DEF Used
  <2>3. Cardinality(Used') = Cardinality(Used) + 1
    BY <1>4, <2>2, FS_AddElement
  <2>4. Tokens'
    BY <1>2, <1>3, <1>4, <1>5, <2>1, <2>3 DEF Tokens, Scanning
  <2>5. Paired'
    BY <1>2, <1>5, <2>1 DEF Paired
  <2>6. DropBound' /\ Ahead' /\ Idling'
    BY <1>5, <2>1 DEF DropBound, Ahead, Idling
  <2> QED
    BY <2>4, <2>5, <2>6
<1>12. CASE ServerScanUsed
  <2>1. Given' = Given /\ Used' = Used /\ Scanning' = Scanning /\ threads_used[scan] # 0
        /\ scan' = scan + 1 /\ spc = "scan"
        /\ UNCHANGED <<spc, sem, posting, dropped, threads_used, tpc, starts>>
    BY <1>12 DEF ServerScanUsed, Given, Used, Scanning
  <2>2. \A j \in Slots : j >= scan /\ j # scan => j >= scan + 1
    BY <1>2 DEF Slots
  <2>3. Ahead'
    BY <1>5, <2>1, <2>2 DEF Ahead
  <2> QED
    BY <1>5, <2>1, <2>3 DEF Tokens, Paired, Idling, DropBound
<1>13. CASE ServerScanNone
  <2>1. Given' = Given /\ Used' = Used /\ spc = "scan" /\ spc' = "receive"
        /\ threads_used[scan] # 0 /\ scan = THREADS_AMNT - 1 /\ dropped' = dropped + 1
        /\ UNCHANGED <<sem, posting, threads_used, tpc, starts>>
    BY <1>13 DEF ServerScanNone, Given, Used
  <2>2. \A j \in Slots : j >= scan => j = scan
    BY <1>3, <2>1 DEF Slots
  <2>3. dropped + THREADS_AMNT + 1 <= Given
    BY <1>5, <2>1, <2>2 DEF Ahead
  <2>4. DropBound'
    BY <1>2, <1>3, <2>1, <2>3 DEF DropBound, Given
  <2>5. Tokens'
    BY <1>2, <1>3, <1>4, <1>5, <2>1 DEF Tokens, Scanning
  <2> QED
    BY <1>5, <2>1, <2>4, <2>5 DEF Paired, Ahead, Idling
<1>14. ASSUME NEW t \in Slots, ThreadMultiply(t) \/ ThreadSend(t)
       PROVE  Tokens' /\ Paired' /\ Ahead' /\ Idling' /\ DropBound'
  <2>1. UNCHANGED <<spc, threads_used, scan, dropped, starts, sem, posting>>
    BY <1>14 DEF ThreadMultiply, ThreadSend
  <2>2. Paired'
    BY <1>2, <1>5, <1>14 DEF Paired, ThreadMultiply, ThreadSend
  <2> QED
    BY <1>5, <2>1, <2>2 DEF Tokens, Ahead, Idling, DropBound, Given, Used, Scanning
<1>15. ASSUME NEW t \in Slots, ThreadSendFails(t)
       PROVE  Tokens' /\ Paired' /\ Ahead' /\ Idling' /\ DropBound'
  BY <1>15, EndsTokens DEF ThreadSendFails
<1>16. ASSUME NEW t \in Slots, ThreadLeave(t)
       PROVE  Tokens' /\ Paired' /\ Ahead' /\ Idling' /\ DropBound'
  <2>1. Given' = Given /\ Scanning' = Scanning /\ posting' = posting + 1
        /\ threads_used' = [threads_used EXCEPT ![t] = 0]
        /\ tpc' = [tpc EXCEPT ![t] = "none"] /\ tpc[t] = "leave"
        /\ UNCHANGED <<spc, sem, dropped, starts, scan>>
    BY <1>16 DEF ThreadLeave, Given, Scanning
  <2>2. Used' = Used \ {t} /\ t \in Used
    BY <1>2, <1>5, <2>1 DEF Used, Paired
  <2>3. Cardinality(Used') = Cardinality(Used) - 1
    BY <1>4, <2>2, FS_RemoveElement
  <2>4. Tokens'
    BY <1>2, <1>3, <1>4, <1>5, <2>1, <2>3 DEF Tokens, Scanning
  <2>5. Paired'
    BY <1>2, <1>5, <2>1 DEF Paired
  <2>6. \A j \in Slots : threads_used[j] = 0 => threads_used'[j] = 0
    BY <1>2, <2>1
  <2>7. Ahead'
    BY <1>5, <2>1, <2>6 DEF Ahead
  <2> QED
    BY <1>5, <2>1, <2>4, <2>5, <2>7 DEF Idling, DropBound
<1>17. CASE ThreadPost
  <2>1. Given' = Given /\ Scanning' = Scanning /\ Used' = Used /\ posting > 0
        /\ posting' = posting - 1 /\ sem' = sem + 1
        /\ UNCHANGED <<spc, dropped, starts, scan, threads_used, tpc>>
    BY <1>17 DEF ThreadPost, Given, Scanning, Used
  <2>2. Tokens'
    BY <1>2, <1>3, <1>4, <1>5, <2>1 DEF Tokens, Scanning
  <2> QED
    BY <1>5, <2>1, <2>2 DEF Paired, Ahead, Idling, DropBound
<1>18. ASSUME NEW c \in Clients, ClientSend(c) \/ ClientReceive(c) \/ ClientKill(c)
       PROVE  Tokens' /\ Paired' /\ Ahead' /\ Idling' /\ DropBound'
  BY <1>6, <1>18 DEF ClientSend, ClientReceive, ClientKill
<1>19. CASE UNCHANGED vars
  BY <1>6, <1>19 DEF vars
<1> QED
  BY <1>7, <1>8, <1>9, <1>10, <1>11, <1>12, <1>13, <1>14, <1>15, <1>16, <1>17, <1>18, <1>19
     DEF Next, ServerLoop, Thread, Client

\* However often the server is started, no more messages are dropped for want of
\* a thread than the semaphore's surplus: THREADS_AMNT + 1 tokens a start
\* (server.c:99, 108), of which THREADS_AMNT belong to the slots (135-156).
THEOREM DropsBounded == Spec => []DropBound
<1>1. DInv => DropBound
  BY DEF DInv
<1>2. Spec => []DInv
  BY InitTokens, StepTokens, PTL DEF Spec
<1> QED
  BY <1>1, <1>2, PTL
-----------------------------------------------------------------------------
OwnRequest(b) == b.num_one = b.my_id /\ b.num_two = b.my_id /\ b.my_id \in Clients
OwnReply(b)   == b.num_one = b.mtype
Own(b)        == IF b.mtype = Request THEN OwnRequest(b) ELSE OwnReply(b)

Adding(t)   == tpc[t] = "multiply"
Replying(t) == tpc[t] = "send"

\* As long as the server has taken no reply for a request, the operands travel with
\* the client they came from, and its product with its process id.
OInv ==
  stolen = {} =>
    /\ \A k \in 1..Len(queue) : Own(queue[k])
    /\ spc \in {"look", "scan"} => OwnRequest(mybuf_input)
    /\ \A t \in Slots : Adding(t) => OwnRequest(argument[t])
    /\ \A t \in Slots : Replying(t) => output[t].mtype \in Clients /\ OwnReply(output[t])
    /\ \A c \in Clients : cpc[c] = "done" => answer[c] = c

\* Where the messages of the next queue come from.
LEMMA QueueStep ==
  ASSUME TInv, [Next]_vars
  PROVE  \A k \in 1..Len(queue') :
           \/ \E j \in 1..Len(queue) : queue'[k] = queue[j]
           \/ \E t \in Slots : ThreadSend(t) /\ queue'[k] = output[t]
           \/ \E c \in Clients :
                /\ ClientSend(c)
                /\ queue'[k] = [mtype |-> Request, num_one |-> c, num_two |-> c, my_id |-> c]
<1>1. queue \in Seq(Buf) /\ Len(queue) \in Nat
  BY DEF TInv, TypeOK
<1>2. CASE UNCHANGED queue
  BY <1>2
<1>3. CASE queue' = <<>>
  BY <1>3
<1>4. CASE ServerReceive
  <2>1. queue # <<>> /\ queue' = Tail(queue)
    BY <1>4 DEF ServerReceive
  <2>2. Len(queue') = Len(queue) - 1
        /\ \A k \in 1..Len(queue') : queue'[k] = queue[k+1] /\ k + 1 \in 1..Len(queue)
    BY <1>1, <2>1
  <2> QED
    BY <2>2
<1>5. ASSUME NEW t \in Slots, ThreadSend(t)
      PROVE  \A k \in 1..Len(queue') :
               (\E j \in 1..Len(queue) : queue'[k] = queue[j]) \/ queue'[k] = output[t]
  BY <1>1, <1>5 DEF ThreadSend
<1>6. ASSUME NEW c \in Clients, ClientSend(c)
      PROVE  \A k \in 1..Len(queue') :
               \/ \E j \in 1..Len(queue) : queue'[k] = queue[j]
               \/ queue'[k] = [mtype |-> Request, num_one |-> c, num_two |-> c, my_id |-> c]
  BY <1>1, <1>6 DEF ClientSend
<1>7. ASSUME NEW c \in Clients, ClientReceive(c)
      PROVE  \A k \in 1..Len(queue') : \E j \in 1..Len(queue) : queue'[k] = queue[j]
  <2>1. PICK k \in 1..Len(queue) : queue' = Without(queue, k)
    BY <1>7 DEF ClientReceive, Without
  <2> QED
    BY <1>1, <2>1, WithoutType
<1>8. UNCHANGED queue \/ queue' = <<>> \/ ServerReceive
      \/ (\E t \in Slots : ThreadSend(t)) \/ (\E c \in Clients : ClientSend(c) \/ ClientReceive(c))
  <2>1. CASE UNCHANGED vars
    BY <2>1 DEF vars
  <2>2. CASE Next
    BY <2>2 DEF Next, ServerLoop, Thread, Client, ServerStart, ServerQuit, ServerWait,
       ServerScanFree, ServerScanUsed, ServerScanNone, ServerKill, ThreadMultiply,
       ThreadSendFails, ThreadLeave, ThreadPost, ClientKill
  <2> QED
    BY <2>1, <2>2
<1> QED
  BY <1>2, <1>3, <1>4, <1>5, <1>6, <1>7, <1>8

LEMMA InitOwn == Init => OInv
  BY DEF Init, Idle, OInv, Adding, Replying

LEMMA StepOwn == TInv /\ OInv /\ [Next]_vars => OInv'
<1> SUFFICES ASSUME TInv, OInv, [Next]_vars, stolen' = {} PROVE OInv'
  BY DEF OInv
<1>1. /\ stolen = {}
      /\ \A k \in 1..Len(queue) : Own(queue[k])
      /\ spc \in {"look", "scan"} => OwnRequest(mybuf_input)
      /\ \A t \in Slots : Adding(t) => OwnRequest(argument[t])
      /\ \A t \in Slots : Replying(t) => output[t].mtype \in Clients /\ OwnReply(output[t])
      /\ \A c \in Clients : cpc[c] = "done" => answer[c] = c
  <2>1. stolen = {}
    BY DEF Next, vars, serverVars, threadVars, clientVars, historyVars, ServerLoop, Thread,
       Client, ServerStart, ServerReceive, ServerQuit, ServerWait, ServerScanFree,
       ServerScanUsed, ServerScanNone, ServerKill, ThreadMultiply, ThreadSend,
       ThreadSendFails, ThreadLeave, ThreadPost, ClientSend, ClientReceive, ClientKill
  <2> QED
    BY <2>1 DEF OInv
<1>2. Request \notin Clients /\ Nobody \notin Clients
  BY ServerAssumption
<1>3. /\ DOMAIN tpc = Slots /\ DOMAIN argument = Slots /\ DOMAIN output = Slots
      /\ DOMAIN cpc = Clients /\ DOMAIN answer = Clients
      /\ tpc \in [Slots -> {"none", "multiply", "send", "leave"}]
      /\ output \in [Slots -> Buf] /\ argument \in [Slots -> Buf]
      /\ cpc \in [Clients -> {"start", "wait", "done", "failed", "killed"}]
      /\ queue \in Seq(Buf) /\ Len(queue) \in Nat
  BY DEF TInv, TypeOK
<1>4. \A k \in 1..Len(queue') : Own(queue'[k])
  <2> SUFFICES ASSUME NEW k \in 1..Len(queue') PROVE Own(queue'[k])
    OBVIOUS
  <2>1. CASE \E j \in 1..Len(queue) : queue'[k] = queue[j]
    BY <1>1, <2>1
  <2>2. CASE \E t \in Slots : ThreadSend(t) /\ queue'[k] = output[t]
    BY <1>1, <1>2, <2>2 DEF ThreadSend, Replying, Own
  <2>3. CASE \E c \in Clients :
               queue'[k] = [mtype |-> Request, num_one |-> c, num_two |-> c, my_id |-> c]
    BY <2>3 DEF Own, OwnRequest
  <2> QED
    BY <2>1, <2>2, <2>3, QueueStep
<1> USE DEF serverVars, threadVars, clientVars, historyVars
<1>5. spc' \in {"look", "scan"} => OwnRequest(mybuf_input)'
  <2>1. CASE ServerReceive
    <3> DEFINE m == Head(queue)
    <3>1. m = queue[1] /\ 1 \in 1..Len(queue)
      BY <1>3, <2>1 DEF ServerReceive
    <3>2. Own(m)
      BY <1>1, <3>1
    <3>3. m.mtype = Request
      BY <2>1 DEF ServerReceive
    <3>4. mybuf_input' = m
      BY <2>1, <3>3 DEF ServerReceive
    <3> QED
      BY <3>2, <3>3, <3>4 DEF Own, OwnRequest
  <2>2. CASE UNCHANGED mybuf_input /\ (spc' \in {"look", "scan"} => spc \in {"look", "scan"})
    BY <1>1, <2>2 DEF OwnRequest
  <2>3. CASE spc' \notin {"look", "scan"}
    BY <2>3
  <2>4. CASE UNCHANGED vars
    BY <2>2, <2>4 DEF vars
  <2> QED
    BY <2>1, <2>2, <2>3, <2>4 DEF Next, ServerLoop, Thread, Client, ServerStart, ServerQuit,
       ServerWait, ServerScanFree, ServerScanUsed, ServerScanNone, ServerKill, ServerEnds,
       ThreadMultiply, ThreadSend, ThreadSendFails, ThreadLeave, ThreadPost, ClientSend,
       ClientReceive, ClientKill
<1>6. \A t \in Slots : Adding(t)' => OwnRequest(argument[t])'
  <2>1. CASE ServerScanFree
    BY <1>1, <1>3, <2>1 DEF ServerScanFree, Adding, OwnRequest
  <2>2. CASE UNCHANGED argument /\ \A t \in Slots : Adding(t)' => Adding(t)
    BY <1>1, <2>2 DEF OwnRequest
  <2>3. CASE ServerEnds
    BY <2>3 DEF ServerEnds, Adding
  <2>4. ASSUME NEW t \in Slots, Thread(t), ~ServerEnds
        PROVE  UNCHANGED argument /\ \A n \in Slots : Adding(n)' => Adding(n)
    BY <1>3, <2>4 DEF Thread, ThreadMultiply, ThreadSend, ThreadSendFails, ThreadLeave, Adding
  <2>5. CASE UNCHANGED <<argument, tpc>>
    BY <2>2, <2>5 DEF Adding
  <2> QED
    BY <2>1, <2>2, <2>3, <2>4, <2>5 DEF Next, vars, ServerLoop, Client, ServerStart,
       ServerReceive, ServerQuit, ServerWait, ServerScanUsed, ServerScanNone, ServerKill,
       ThreadPost, ClientSend, ClientReceive, ClientKill
<1>7. \A t \in Slots : Replying(t)' => output'[t].mtype \in Clients /\ OwnReply(output[t])'
  <2>1. ASSUME NEW t \in Slots, ThreadMultiply(t)
        PROVE  \A n \in Slots :
                 Replying(n)' => output'[n].mtype \in Clients /\ OwnReply(output[n])'
    <3> DEFINE b == argument[t]
               r == [EmptyBuf EXCEPT !.mtype = b.my_id, !.num_one = Product(b)]
    <3>1. OwnRequest(b)
      BY <1>1, <2>1 DEF ThreadMultiply, Adding
    <3>2. r.mtype = b.my_id /\ r.num_one = b.my_id
      BY <3>1 DEF EmptyBuf, Product, OwnRequest
    <3>3. output' = [output EXCEPT ![t] = r] /\ tpc' = [tpc EXCEPT ![t] = "send"]
      BY <2>1 DEF ThreadMultiply
    <3> HIDE DEF r
    <3>4. output'[t] = r
      BY <1>3, <3>3
    <3>5. ASSUME NEW n \in Slots, n # t PROVE output'[n] = output[n] /\ tpc'[n] = tpc[n]
      BY <1>3, <3>3, <3>5
    <3> QED
      BY <1>1, <3>1, <3>2, <3>4, <3>5 DEF OwnRequest, OwnReply, Replying
  <2>2. CASE UNCHANGED output /\ \A t \in Slots : Replying(t)' => Replying(t)
    BY <1>1, <2>2 DEF OwnReply
  <2>3. CASE ServerEnds
    BY <2>3 DEF ServerEnds, Replying
  <2>4. ASSUME NEW t \in Slots, Thread(t), ~ServerEnds, ~ThreadMultiply(t)
        PROVE  UNCHANGED output /\ \A n \in Slots : Replying(n)' => Replying(n)
    BY <1>3, <2>4 DEF Thread, ThreadSend, ThreadSendFails, ThreadLeave, Replying
  <2>5. CASE UNCHANGED <<output, tpc>>
    BY <2>2, <2>5 DEF Replying
  <2>6. CASE ServerScanFree
    BY <1>3, <2>2, <2>6 DEF ServerScanFree, Replying
  <2> QED
    BY <2>1, <2>2, <2>3, <2>4, <2>5, <2>6 DEF Next, vars, ServerLoop, Client, ServerStart,
       ServerReceive, ServerQuit, ServerWait, ServerScanUsed, ServerScanNone, ServerKill,
       ThreadPost, ClientSend, ClientReceive, ClientKill
<1>8. \A c \in Clients : cpc'[c] = "done" => answer'[c] = c
  <2>1. ASSUME NEW c \in Clients, ClientReceive(c)
        PROVE  \A d \in Clients : cpc'[d] = "done" => answer'[d] = d
    <3>1. PICK k \in 1..Len(queue) :
            queue[k].mtype = c /\ answer' = [answer EXCEPT ![c] = queue[k].num_one]
      BY <2>1 DEF ClientReceive
    <3>2. queue[k].num_one = c
      BY <1>1, <1>2, <3>1 DEF Own, OwnReply
    <3>3. cpc' = [cpc EXCEPT ![c] = "done"]
      BY <2>1 DEF ClientReceive
    <3> QED
      BY <1>1, <1>3, <3>1, <3>2, <3>3
  <2>2. CASE UNCHANGED answer /\ \A c \in Clients : cpc'[c] = "done" => cpc[c] = "done"
    BY <1>1, <2>2
  <2>3. ASSUME NEW c \in Clients, ClientSend(c) \/ ClientKill(c)
        PROVE  UNCHANGED answer /\ \A d \in Clients : cpc'[d] = "done" => cpc[d] = "done"
    BY <1>3, <2>3 DEF ClientSend, ClientKill
  <2>4. ASSUME NEW t \in Slots, ThreadSendFails(t)
        PROVE  UNCHANGED answer /\ \A d \in Clients : cpc'[d] = "done" => cpc[d] = "done"
    BY <1>3, <2>4 DEF ThreadSendFails
  <2>5. CASE UNCHANGED <<cpc, answer>>
    BY <2>2, <2>5
  <2> QED
    BY <2>1, <2>2, <2>3, <2>4, <2>5 DEF Next, vars, ServerLoop, Thread, Client, ServerStart,
       ServerReceive, ServerQuit, ServerWait, ServerScanFree, ServerScanUsed, ServerScanNone,
       ServerKill, ThreadMultiply, ThreadSend, ThreadLeave, ThreadPost
<1> QED
  BY <1>4, <1>5, <1>6, <1>7, <1>8 DEF OInv

\* A client's product is that of its own two numbers (client.c:76), in every
\* history in which the server took no reply for a request (server.c:120).
THEOREM ProductsOwn == Spec => []OwnProduct
<1>1. OInv => OwnProduct
  BY DEF OInv, OwnProduct
<1>2. Spec => []OInv
  BY InitOwn, StepOwn, TypesInvariant, PTL DEF Spec
<1> QED
  BY <1>1, <1>2, PTL
-----------------------------------------------------------------------------
Requests == \A k \in 1..Len(queue) : queue[k].mtype = Request
NoThread == \A t \in Slots : tpc[t] = "none"

\* Until it has read a request a first server finds nothing but requests, so that no
\* thread of its is ever given a message that names nobody.
FirstRun ==
  /\ starts = 0 => spc = "down" /\ Requests
  /\ spc # "down" /\ mybuf_input.my_id = Nobody => spc = "receive" /\ Requests /\ NoThread
  /\ \A t \in Slots : Adding(t) => argument[t].my_id # Nobody
  /\ \A t \in Slots : Replying(t) => output[t].mtype # Nobody
  /\ \A c \in Clients : cpc[c] # "failed"

KInv ==
  /\ \A k \in 1..Len(queue) : queue[k].mtype = Request => queue[k].my_id \in Clients
  /\ \A t \in Slots : Replying(t) => output[t].mtype # Request
  /\ spc = "down" => NoThread
  /\ starts <= 1 => FirstRun

LEMMA InitKept == Init => KInv
  BY DEF Init, Idle, KInv, FirstRun, Requests, NoThread, Adding, Replying

LEMMA StepKept == TInv /\ KInv /\ [Next]_vars => KInv'
<1> SUFFICES ASSUME TInv, KInv, [Next]_vars PROVE KInv'
  OBVIOUS
<1>1. Request \notin Clients /\ Nobody \notin Clients /\ Request # Nobody
  BY ServerAssumption DEF Request, Nobody
<1>2. /\ tpc \in [Slots -> {"none", "multiply", "send", "leave"}]
      /\ output \in [Slots -> Buf] /\ argument \in [Slots -> Buf]
      /\ mybuf_input \in Buf /\ scan \in Slots /\ starts \in Nat
      /\ cpc \in [Clients -> {"start", "wait", "done", "failed", "killed"}]
      /\ queue \in Seq(Buf) /\ Len(queue) \in Nat
  BY DEF TInv, TypeOK
<1>3. /\ \A k \in 1..Len(queue) : queue[k].mtype = Request => queue[k].my_id \in Clients
      /\ \A t \in Slots : Replying(t) => output[t].mtype # Request
      /\ spc = "down" => NoThread
      /\ starts <= 1 => FirstRun
  BY DEF KInv
<1> USE DEF serverVars, threadVars, clientVars, historyVars
<1>4. \A k \in 1..Len(queue') : queue'[k].mtype = Request => queue'[k].my_id \in Clients
  <2> SUFFICES ASSUME NEW k \in 1..Len(queue')
               PROVE  queue'[k].mtype = Request => queue'[k].my_id \in Clients
    OBVIOUS
  <2>1. CASE \E j \in 1..Len(queue) : queue'[k] = queue[j]
    BY <1>3, <2>1
  <2>2. CASE \E t \in Slots : ThreadSend(t) /\ queue'[k] = output[t]
    BY <1>3, <2>2 DEF ThreadSend, Replying
  <2>3. CASE \E c \in Clients :
               queue'[k] = [mtype |-> Request, num_one |-> c, num_two |-> c, my_id |-> c]
    BY <2>3
  <2> QED
    BY <2>1, <2>2, <2>3, QueueStep
<1>5. ASSUME ServerEnds,
             (\A c \in Clients : cpc'[c] # "failed") \/ ~(starts <= 1),
             starts = 0 => Requests'
      PROVE  KInv'
  BY <1>3, <1>4, <1>5 DEF ServerEnds, KInv, FirstRun, Adding, Replying, NoThread
<1>6. ASSUME UNCHANGED <<spc, starts, mybuf_input, tpc, argument, output>>,
             \A c \in Clients : cpc'[c] = "failed" => cpc[c] = "failed",
             Requests => Requests'
      PROVE  KInv'
  BY <1>3, <1>4, <1>6 DEF KInv, FirstRun, Adding, Replying, NoThread
<1>7. CASE ServerStart
  <2>1. NoThread /\ spc' = "receive" /\ starts' = starts + 1
        /\ UNCHANGED <<queue, threadVars, clientVars>>
    BY <1>3, <1>7 DEF ServerStart
  <2>2. starts' <= 1 => starts = 0
    BY <1>2, <2>1
  <2> QED
    BY <1>2, <1>3, <1>4, <2>1, <2>2
       DEF KInv, FirstRun, Requests, NoThread, Adding, Replying
<1>8. CASE ServerReceive
  <2> DEFINE m == Head(queue)
  <2>1. m = queue[1] /\ 1 \in 1..Len(queue)
    BY <1>2, <1>8 DEF ServerReceive
  <2>2. spc = "receive" /\ spc' = "look" /\ UNCHANGED <<starts, threadVars, clientVars>>
    BY <1>8 DEF ServerReceive
  <2>3. CASE m.mtype = Request
    <3>1. mybuf_input' = m /\ m.my_id \in Clients
      BY <1>3, <1>8, <2>1, <2>3 DEF ServerReceive
    <3> QED
      BY <1>1, <1>3, <1>4, <2>2, <3>1 DEF KInv, FirstRun, NoThread, Adding, Replying
  <2>4. CASE m.mtype # Request
    <3>1. mybuf_input'.my_id = mybuf_input.my_id
      BY <1>2, <1>8, <2>4 DEF ServerReceive, Buf
    <3>2. ~Requests
      BY <2>1, <2>4 DEF Requests
    <3> QED
      BY <1>3, <1>4, <2>2, <3>1, <3>2 DEF KInv, FirstRun, NoThread, Adding, Replying
  <2> QED
    BY <2>3, <2>4
<1>9. CASE ServerQuit \/ ServerKill
  BY <1>3, <1>5, <1>9 DEF ServerQuit, ServerKill, FirstRun, Requests
<1>10. CASE ServerWait \/ ServerScanUsed \/ ServerScanNone
  BY <1>3, <1>4, <1>10 DEF ServerWait, ServerScanUsed, ServerScanNone, KInv, FirstRun,
     Requests, NoThread, Adding, Replying
<1>11. CASE ServerScanFree
  <2>1. spc = "scan" /\ spc' = "receive" /\ tpc' = [tpc EXCEPT ![scan] = "multiply"]
        /\ argument' = [argument EXCEPT ![scan] = mybuf_input]
        /\ UNCHANGED <<queue, mybuf_input, starts, output, clientVars>>
    BY <1>11 DEF ServerScanFree
  <2>2. starts <= 1 => mybuf_input.my_id # Nobody /\ starts # 0
    BY <1>3, <2>1 DEF FirstRun
  <2>3. starts <= 1 => \A t \in Slots : Adding(t)' => argument'[t].my_id # Nobody
    BY <1>2, <1>3, <2>1, <2>2 DEF Adding, FirstRun
  <2>4. \A t \in Slots : Replying(t)' => Replying(t)
    BY <1>2, <2>1 DEF Replying
  <2> QED
    BY <1>3, <1>4, <2>1, <2>2, <2>3, <2>4 DEF KInv, FirstRun
<1>12. ASSUME NEW t \in Slots, ThreadMultiply(t) PROVE KInv'
  <2> DEFINE r == [EmptyBuf EXCEPT !.mtype = argument[t].my_id, !.num_one = Product(argument[t])]
  <2>1. tpc[t] = "multiply" /\ tpc' = [tpc EXCEPT ![t] = "send"]
        /\ output' = [output EXCEPT ![t] = r]
        /\ UNCHANGED <<queue, serverVars, argument, clientVars>>
    BY <1>12 DEF ThreadMultiply
  <2>2. r.mtype = argument[t].my_id
    BY DEF EmptyBuf
  <2> HIDE DEF r
  <2>3. r.mtype # Request /\ (starts <= 1 => r.mtype # Nobody)
    BY <1>1, <1>2, <1>3, <2>1, <2>2 DEF FirstRun, Adding, Buf
  <2>4. \A n \in Slots : /\ Adding(n)' => Adding(n)
                         /\ Replying(n)' => \/ output'[n] = r
                                            \/ Replying(n) /\ output'[n] = output[n]
    <3> TAKE n \in Slots
    <3>1. CASE n = t
      <4>1. tpc'[t] = "send" /\ output'[t] = r
        BY <1>2, <2>1
      <4> QED
        BY <3>1, <4>1 DEF Adding, Replying
    <3>2. CASE n # t
      <4>1. tpc'[n] = tpc[n] /\ output'[n] = output[n]
        BY <1>2, <2>1, <3>2
      <4> QED
        BY <4>1 DEF Adding, Replying
    <3> QED
      BY <3>1, <3>2
  <2>5. ~NoThread
    BY <2>1 DEF NoThread
  <2> QED
    BY <1>3, <1>4, <2>1, <2>3, <2>4, <2>5 DEF KInv, FirstRun, Requests
<1>13. ASSUME NEW t \in Slots, ThreadSend(t) \/ ThreadLeave(t) PROVE KInv'
  <2>1. tpc[t] # "none" /\ (tpc' = [tpc EXCEPT ![t] = "leave"] \/ tpc' = [tpc EXCEPT ![t] = "none"])
        /\ UNCHANGED <<serverVars, argument, output, clientVars>>
    BY <1>13 DEF ThreadSend, ThreadLeave
  <2>2. \A n \in Slots : (Adding(n)' => Adding(n)) /\ (Replying(n)' => Replying(n))
    BY <1>2, <2>1 DEF Adding, Replying
  <2>3. ~NoThread
    BY <2>1 DEF NoThread
  <2> QED
    BY <1>3, <1>4, <2>1, <2>2, <2>3 DEF KInv, FirstRun
<1>14. ASSUME NEW t \in Slots, ThreadSendFails(t) PROVE KInv'
  <2>1. ~(starts <= 1)
    BY <1>3, <1>14 DEF ThreadSendFails, FirstRun, Replying
  <2> QED
    BY <1>2, <1>5, <1>14, <2>1 DEF ThreadSendFails
<1>15. CASE ThreadPost
  BY <1>6, <1>15 DEF ThreadPost, Requests
<1>16. ASSUME NEW c \in Clients, ClientSend(c) PROVE KInv'
  <2>1. Requests => Requests'
    BY <1>2, <1>16 DEF ClientSend, Requests
  <2>2. \A d \in Clients : cpc'[d] = "failed" => cpc[d] = "failed"
    BY <1>2, <1>16 DEF ClientSend
  <2> QED
    BY <1>6, <1>16, <2>1, <2>2 DEF ClientSend
<1>17. ASSUME NEW c \in Clients, ClientReceive(c) PROVE KInv'
  <2>1. PICK k \in 1..Len(queue) : queue' = Without(queue, k)
    BY <1>17 DEF ClientReceive, Without
  <2>2. Len(queue') = Len(queue) - 1
        /\ \A n \in 1..Len(queue)-1 : \E j \in 1..Len(queue) : queue'[n] = queue[j]
    BY <1>2, <2>1, WithoutType
  <2>3. Requests => Requests'
    BY <2>2 DEF Requests
  <2>4. \A d \in Clients : cpc'[d] = "failed" => cpc[d] = "failed"
    BY <1>2, <1>17 DEF ClientReceive
  <2> QED
    BY <1>6, <1>17, <2>3, <2>4 DEF ClientReceive
<1>18. ASSUME NEW c \in Clients, ClientKill(c) PROVE KInv'
  BY <1>2, <1>6, <1>18 DEF ClientKill, Requests
<1>19. CASE UNCHANGED vars
  BY <1>6, <1>19 DEF vars, Requests
<1> QED
  BY <1>7, <1>8, <1>9, <1>10, <1>11, <1>12, <1>13, <1>14, <1>15, <1>16, <1>17, <1>18, <1>19
     DEF Next, ServerLoop, Thread, Client

\* A server that was started once never fails a client by removing the queue
\* (server.c:57-62): every reply of its threads has an addressee.
THEOREM FirstServerKeepsQueue == Spec => []QueueKept
<1>1. KInv => QueueKept
  BY DEF KInv, FirstRun, QueueKept
<1>2. Spec => []KInv
  BY InitKept, StepKept, TypesInvariant, PTL DEF Spec
<1> QED
  BY <1>1, <1>2, PTL
=============================================================================
