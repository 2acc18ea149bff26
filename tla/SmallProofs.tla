----------------------------- MODULE SmallProofs -----------------------------
(***************************************************************************)
(* SmallPrograms, for every value of the constants: each of the programs   *)
(* does in the composition what it does by itself, every variable keeps    *)
(* its type, and of the string over signals, the matrix, the ping-pong,    *)
(* the counting threads, the shared file, the chain of processes, the      *)
(* factorial and the search the invariants the runs check hold.            *)
(***************************************************************************)
EXTENDS SmallPrograms, Induction, SequenceTheorems

-----------------------------------------------------------------------------
(* Each step of one program leaves the others alone. *)

LEMMA StepsApart ==
  ASSUME [ProgramsNext]_allVars
  PROVE  /\ [Next]_vars /\ [MatrixNext]_matrixVars /\ [FileNext]_fileVars
         /\ [FactNext]_factVars /\ [PingNext]_pingVars /\ [ChainNext]_chainVars
         /\ [DelayNext]_delayVars /\ [IncNext]_incVars /\ [AssetNext]_assetVars
         /\ [FindNext]_findVars /\ program' = program
<1>1. CASE OnBits /\ (Child \/ Parent)
  BY <1>1 DEF OnBits, Next
<1>2. CASE OnMatrix /\ (Main \/ \E t \in Threads : Serve(t) \/ End(t))
  BY <1>2 DEF OnMatrix, MatrixNext
<1>3. CASE OnFile /\ ((\E w \in Writers : Writer(w)) \/ (\E r \in Readers : Reader(r)))
  BY <1>3 DEF OnFile, FileNext
<1>4. CASE OnFact /\ ((\E c \in Clients : Client(c)) \/ (\E s \in Servers : Server(s)))
  BY <1>4 DEF OnFact, FactNext
<1>5. CASE OnPing /\ (PingChild \/ PingParent)
  BY <1>5 DEF OnPing, PingNext
<1>6. CASE OnChain /\ \E l \in Levels : Level(l)
  BY <1>6 DEF OnChain, ChainNext
<1>7. CASE OnInc /\ (JoinAdder \/ \E t \in Adders : Adder(t))
  BY <1>7 DEF OnInc, IncNext
<1>8. CASE OnDelay /\ (ReadFork \/ \E n \in 1..MaxText+1 : Test(n) \/ Exec(n))
  BY <1>8 DEF OnDelay, DelayNext
<1>9. CASE OnAssets /\ (ForkAll \/ Interrupted \/ WaitOnce \/ \E p \in Procs : ChildEnds(p))
  BY <1>9 DEF OnAssets, AssetNext
<1>10. CASE OnFind /\ FindNext
  BY <1>10 DEF OnFind
<1>11. CASE UNCHANGED allVars
  BY <1>11 DEF allVars
<1> QED
  BY <1>1, <1>2, <1>3, <1>4, <1>5, <1>6, <1>7, <1>8, <1>9, <1>10, <1>11 DEF ProgramsNext

\* A search that is not made is one that could be.
LEMMA IdleSearch == FindIdle => FindInit
<1> SUFFICES ASSUME FindIdle PROVE FindInit
  OBVIOUS
<1>1. listing \in Trees
  BY TreeAssumption, Zenon DEF FindIdle
<1>2. 1 \in DOMAIN listing /\ MaxDepth \in Nat
  BY <1>1, TreeAssumption, Zenon DEF Cwd
<1>3. 0 \in 0..MaxDepth
  BY <1>2
<1> QED
  BY <1>1, <1>2, <1>3, Zenon DEF FindIdle, FindInit

\* The program that runs does what it does by itself, and what does not run starts like
\* it (so that what is proved of a program by itself holds of the composition).
THEOREM RunsAlone ==
  ProgramsSpec => /\ Spec /\ MatrixSpec /\ FileSpec /\ FactSpec /\ PingSpec /\ ChainSpec
                  /\ DelaySpec /\ IncSpec /\ AssetSpec /\ FindSpec
<1>1. ProgramsInit =>
        /\ Init /\ MatrixInit /\ FileInit /\ FactInit /\ PingInit /\ ChainInit
        /\ DelayInit /\ IncInit /\ AssetInit /\ FindInit
  BY IdleSearch DEF ProgramsInit
<1> QED
  BY <1>1, StepsApart, PTL
     DEF ProgramsSpec, Spec, MatrixSpec, FileSpec, FactSpec, PingSpec, ChainSpec,
         DelaySpec, IncSpec, AssetSpec, FindSpec

-----------------------------------------------------------------------------
(* The string over signals.  Nothing is said of strlength, the sum of a set of powers: *)
(* whether the parent goes on listening or has stopped makes no difference here.       *)

\* The child and the parent are at the same bit.
Together == ri = si /\ rj = sj

Listening == rpc \in {"wait", "done"}

Sending == spc = "wait" /\ si <= Len(str_to_send)

(***************************************************************************)
(* Where the two are in the exchange of a bit: the child is about to send  *)
(* it; the signal is on its way; the parent has it; the answer is on its   *)
(* way; or the child has sent everything.                                  *)
(***************************************************************************)
Ready ==
  /\ spc = "kill" /\ toParent = {} /\ toChild = {}
  /\ Listening /\ Together /\ si <= Len(str_to_send)

Asked ==
  /\ Sending /\ toParent = {Signal(Sent(si)[sj])} /\ toChild = {}
  /\ Listening /\ Together

Taken ==
  /\ Sending /\ toParent = {} /\ toChild = {}
  /\ rpc = "kill" /\ Together
  /\ current_char[rj] = Sent(ri)[rj]

Answering ==
  /\ Sending /\ toParent = {} /\ toChild = {USR1}
  /\ Listening
  /\ rj = (sj + 1) % Width
  /\ ri = IF sj = Width - 1 THEN si + 1 ELSE si

Finished ==
  /\ spc = "done" /\ toParent = {} /\ toChild = {}
  /\ Listening /\ Together

Phase == Ready \/ Asked \/ Taken \/ Answering \/ Finished

BitTypes ==
  /\ str_to_send \in Texts
  /\ si \in Nat /\ sj \in Bits /\ ri \in Nat /\ rj \in Bits
  /\ current_char \in Chars /\ recieved_string \in Seq(Chars)

\* The bits of the character so far are those that were sent, and
SoFar == \A j \in Bits : j < rj => current_char[j] = Sent(ri)[j]

\* the characters stored are those whose last bit has been answered.
Stored ==
  /\ ri <= Len(str_to_send) + 1
  /\ Len(recieved_string) = IF ri = 0 THEN 0 ELSE ri - 1
  /\ \A k \in 1..Len(recieved_string) : recieved_string[k] = str_to_send[k]

BitInv == BitTypes /\ Phase /\ SoFar /\ Stored

LEMMA TextType ==
  ASSUME str_to_send \in Texts
  PROVE  str_to_send \in Seq(Chars) /\ Len(str_to_send) \in Nat
  BY BitAssumption

\* What is on the wire is a character.
LEMMA SentChar ==
  ASSUME str_to_send \in Texts, NEW k \in Nat, k <= Len(str_to_send)
  PROVE  Sent(k) \in Chars
<1>1. CASE k = 0
  BY <1>1 DEF Sent, CharOf, Chars
<1>2. CASE k # 0
  BY <1>2, TextType DEF Sent
<1> QED
  BY <1>1, <1>2

\* The bit after j: the arithmetic of the two loops.
LEMMA NextBit ==
  ASSUME NEW j \in Bits
  PROVE  /\ j = Width - 1 => (j + 1) % Width = 0
         /\ j # Width - 1 => (j + 1) % Width = j + 1 /\ j < Width - 1
         /\ (j + 1) % Width \in Bits
  BY BitAssumption DEF Bits

LEMMA BitInit == Init => BitInv
<1> SUFFICES ASSUME Init PROVE BitInv
  OBVIOUS
<1>1. Len(str_to_send) \in Nat
  BY TextType DEF Init
<1>2. 0 \in Bits
  BY BitAssumption DEF Bits
<1>3. BitTypes
  BY <1>2, BitAssumption DEF Init, BitTypes, Zero, Chars
<1>4. Phase
  BY <1>1 DEF Init, Phase, Ready, Listening, Together
<1>5. SoFar /\ Stored
  BY <1>1 DEF Init, SoFar, Stored, Bits
<1> QED
  BY <1>3, <1>4, <1>5 DEF BitInv

LEMMA SendBitInv == BitInv /\ SendBit => BitInv'
<1> SUFFICES ASSUME BitInv, SendBit PROVE BitInv'
  OBVIOUS
<1> USE DEF BitInv, SendBit, parentVars
<1>1. BitTypes' /\ SoFar' /\ Stored'
  BY DEF BitTypes, SoFar, Stored, Sent
<1>2. Ready
  BY DEF Phase, Asked, Taken, Answering, Finished, Sending
<1>3. Asked'
  BY <1>2 DEF Ready, Asked, Sending, Listening, Together, Sent
<1> QED
  BY <1>1, <1>3 DEF Phase

LEMMA SendNextInv == BitInv /\ SendNext => BitInv'
<1> SUFFICES ASSUME BitInv, SendNext PROVE BitInv'
  OBVIOUS
<1> USE DEF BitInv, SendNext, parentVars
<1>1. Answering
  BY DEF Phase, Ready, Asked, Taken, Finished
<1>2. SoFar' /\ Stored'
  BY DEF SoFar, Stored, Sent
<1>3. BitTypes'
  BY NextBit DEF BitTypes
<1>4. toChild' = {}
  BY <1>1 DEF Answering
<1>5. ri' = si' /\ rj' = sj' /\ toParent' = {} /\ Listening'
  BY <1>1 DEF Answering, Listening
<1>6. Len(str_to_send) \in Nat /\ si \in Nat /\ sj \in Bits /\ si <= Len(str_to_send)
  BY <1>1, TextType DEF BitTypes, Answering, Sending
<1>7. Ready' \/ Finished'
  <2>1. CASE sj = Width - 1 /\ si = Len(str_to_send)
    BY <2>1, <1>4, <1>5 DEF Finished, Together, Listening
  <2>2. CASE ~(sj = Width - 1 /\ si = Len(str_to_send))
    <3>1. si' <= Len(str_to_send)
      <4>1. si' = IF sj = Width - 1 THEN si + 1 ELSE si
        OBVIOUS
      <4>2. str_to_send \in Seq(Chars)
        BY TextType DEF BitTypes
      <4> HIDE DEF BitInv, SendNext
      <4> QED
        BY <1>6, <2>2, <4>1, <4>2
    <3> QED
      BY <2>2, <3>1, <1>4, <1>5 DEF Ready, Together, Listening
  <2> QED
    BY <2>1, <2>2
<1> QED
  BY <1>2, <1>3, <1>7 DEF Phase

LEMMA RecvBitInv == BitInv /\ RecvBit => BitInv'
<1> SUFFICES ASSUME BitInv, RecvBit PROVE BitInv'
  OBVIOUS
<1> USE DEF BitInv, RecvBit, childVars
<1>1. Asked
  BY DEF Phase, Ready, Taken, Answering, Finished
<1>2. PICK s \in toParent :
        /\ toParent' = toParent \ {s}
        /\ current_char' = [current_char EXCEPT ![rj] = IF s = USR1 THEN 1 ELSE 0]
  OBVIOUS
<1>3. Sent(si) \in Chars
  BY <1>1, SentChar DEF Asked, Sending, BitTypes
<1>4. s = Signal(Sent(si)[sj]) /\ toParent' = {}
  BY <1>1, <1>2 DEF Asked
<1>5. (IF s = USR1 THEN 1 ELSE 0) = Sent(ri)[rj]
  <2>1. Sent(si)[sj] \in {0, 1}
    BY <1>3 DEF Chars, BitTypes
  <2> QED
    BY <1>1, <1>4, <2>1 DEF Asked, Together, Signal, USR1, USR2
<1>6. BitTypes'
  BY <1>2 DEF BitTypes, Chars
<1>7. Sent(ri)' = Sent(ri)
  BY DEF Sent
<1>8. current_char'[rj] = Sent(ri)[rj]
  BY <1>2, <1>5 DEF BitTypes, Chars
<1>9. Taken'
  BY <1>1, <1>4, <1>7, <1>8 DEF Asked, Taken, Sending, Together
<1>10. SoFar'
  <2> SUFFICES ASSUME NEW j \in Bits, j < rj PROVE current_char'[j] = Sent(ri)[j]
    BY <1>7 DEF SoFar
  <2>1. j # rj
    BY DEF Bits, BitTypes
  <2> QED
    BY <2>1, <1>2 DEF SoFar, BitTypes, Chars
<1>11. Stored'
  BY DEF Stored
<1> QED
  BY <1>6, <1>9, <1>10, <1>11 DEF Phase

LEMMA RecvAnswerInv == BitInv /\ RecvAnswer => BitInv'
<1> SUFFICES ASSUME BitInv, RecvAnswer PROVE BitInv'
  OBVIOUS
<1> USE DEF BitInv
<1>1. Taken
  BY DEF RecvAnswer, Phase, Ready, Asked, Answering, Finished, Listening
<1>2. toParent' = {} /\ toChild' = {USR1} /\ Sending' /\ Listening' /\ str_to_send' = str_to_send
      /\ si' = si /\ sj' = sj
  BY <1>1 DEF RecvAnswer, Taken, Sending, childVars, Listening
<1>3. si = ri /\ sj = rj /\ ri <= Len(str_to_send) /\ Len(str_to_send) \in Nat
      /\ ri \in Nat /\ rj \in Bits /\ rj \in Nat
  BY <1>1, TextType DEF Taken, Together, Sending, BitTypes, Bits
<1>4. CASE rj < Width - 1
  <2>1. rj' = rj + 1 /\ UNCHANGED <<ri, current_char, recieved_string>>
    BY <1>4 DEF RecvAnswer
  <2>2. rj # Width - 1
    BY <1>3, <1>4 DEF Bits
  <2>3. BitTypes'
    BY <2>1, <2>2, <1>2, <1>3, NextBit DEF BitTypes
  <2>4. Answering'
    BY <2>1, <2>2, <1>2, <1>3, NextBit DEF Answering
  <2>5. SoFar'
    <3> SUFFICES ASSUME NEW j \in Bits, j < rj + 1 PROVE current_char[j] = Sent(ri)[j]
      BY <2>1, <1>2 DEF SoFar, Sent
    <3>1. j < rj \/ j = rj
      BY <1>3 DEF Bits
    <3> QED
      BY <3>1, <1>1 DEF SoFar, Taken
  <2>6. Stored'
    BY <2>1, <1>2 DEF Stored
  <2> QED
    BY <2>3, <2>4, <2>5, <2>6 DEF Phase
<1>5. CASE ~(rj < Width - 1)
  <2>1. rj' = 0 /\ ri' = ri + 1 /\ current_char' = Zero
        /\ recieved_string' = IF ri = 0 THEN recieved_string
                              ELSE Append(recieved_string, current_char)
    BY <1>5 DEF RecvAnswer
  <2>2. rj = Width - 1
    BY <1>3, <1>5, BitAssumption DEF Bits
  <2>3. 0 \in Bits
    BY BitAssumption DEF Bits
  <2>4. BitTypes'
    BY <2>1, <2>3, <1>2, <1>3 DEF BitTypes, Zero, Chars
  <2>5. Answering'
    BY <2>1, <2>2, <1>2, <1>3, NextBit DEF Answering
  <2>6. SoFar'
    BY <2>1 DEF SoFar, Bits
  <2>7. current_char = Sent(ri)
    <3>1. Sent(ri) \in Chars
      BY <1>3, SentChar DEF BitTypes
    <3>2. \A j \in Bits : j < rj \/ j = rj
      BY <2>2, BitAssumption DEF Bits
    <3>3. \A j \in Bits : current_char[j] = Sent(ri)[j]
      BY <3>2, <1>1 DEF SoFar, Taken
    <3> QED
      BY <3>1, <3>3 DEF BitTypes, Chars
  <2>8. Stored'
    <3>1. CASE ri = 0
      BY <3>1, <2>1, <1>2, <1>3 DEF Stored
    <3>2. CASE ri # 0
      <4>1. current_char = str_to_send[ri]
        BY <3>2, <2>7 DEF Sent
      <4>2. Len(recieved_string) = ri - 1 /\ recieved_string \in Seq(Chars)
        BY <3>2 DEF Stored, BitTypes
      <4>3. recieved_string' = Append(recieved_string, str_to_send[ri])
        BY <3>2, <2>1, <4>1
      <4>4. Len(recieved_string') = ri
        BY <4>2, <4>3, <1>3
      <4>5. \A k \in 1..ri : recieved_string'[k] = str_to_send[k]
        BY <4>2, <4>3, <1>3 DEF Stored
      <4> QED
        BY <3>2, <2>1, <1>2, <1>3, <4>4, <4>5 DEF Stored
    <3> QED
      BY <3>1, <3>2
  <2> QED
    BY <2>4, <2>5, <2>6, <2>8 DEF Phase
<1> QED
  BY <1>4, <1>5

LEMMA BitStep == BitInv /\ [Next]_vars => BitInv'
<1> SUFFICES ASSUME BitInv, [Next]_vars PROVE BitInv'
  OBVIOUS
<1>1. CASE SendBit
  BY <1>1, SendBitInv
<1>2. CASE SendNext
  BY <1>2, SendNextInv
<1>3. CASE RecvBit
  BY <1>3, RecvBitInv
<1>4. CASE RecvAnswer
  BY <1>4, RecvAnswerInv
<1>5. CASE UNCHANGED vars
  BY <1>5 DEF BitInv, BitTypes, Phase, Ready, Asked, Taken, Answering, Finished, SoFar,
     Stored, Sending, Listening, Together, Sent, vars, childVars, parentVars
<1> QED
  BY <1>1, <1>2, <1>3, <1>4, <1>5 DEF Next, Child, Parent

LEMMA BitInvariance == Spec => []BitInv
  BY BitInit, BitStep, PTL DEF Spec

\* Whatever the text and the number of bits, the parent stores the characters the
\* child was given, in order (bit_data_exchg.c:64-98).
THEOREM PrefixReceived == Spec => []ReceivedPrefix
<1>1. BitInv => ReceivedPrefix
  BY TextType DEF BitInv, BitTypes, Stored, ReceivedPrefix
<1> QED
  BY <1>1, BitInvariance, PTL

\* No signal is sent to a process that has one pending, for which the waits at
\* bit_data_exchg.c:75 and 95 are there.
THEOREM SignalsApart == Spec => []NoMerge
<1>1. BitInv => NoMerge
  BY DEF BitInv, Phase, Ready, Asked, Taken, Answering, Finished, Sending, Listening, NoMerge
<1> QED
  BY <1>1, BitInvariance, PTL

-----------------------------------------------------------------------------
(* The matrix product. *)

\* The elements of thread t are Start(t)..Limit(t)-1.
Limit(t) == IF t = thread_count - 1 THEN Size ELSE Start(t) + elems_to_serve

Served(t, e) == tpc[t] # "none" /\ Start(t) <= e /\ e < elem_to_start[t]

ThreadInv(t) ==
  /\ tpc[t] = "none" <=> mpc = "create" /\ created <= t
  /\ tpc[t] = "none" => loop_counter[t] = 0
  /\ tpc[t] # "none" => /\ elem_to_start[t] = Start(t) + loop_counter[t]
                        /\ elem_to_start[t] <= Limit(t)
  /\ tpc[t] = "ended" => elem_to_start[t] = Limit(t)
  /\ mpc = "join" /\ t < created => tpc[t] = "ended"
  /\ mpc = "printed" => tpc[t] = "ended"

StoreInv == \A e \in Elements :
  output[e] = IF \E t \in Threads : Served(t, e) THEN 1 ELSE 0

\* What holds in every state: how far each thread is, and that an element is stored
\* exactly when the thread it belongs to has passed it.
MatrixInv == MatrixTypeOK /\ (\A t \in Threads : ThreadInv(t)) /\ StoreInv

\* An integer product grows with its factor.
LEMMA ProductGrows ==
  ASSUME NEW m \in Nat, NEW u \in Nat, NEW v \in Nat, u <= v
  PROVE  m * u <= m * v
  BY SMT

LEMMA Sizes ==
  /\ Size \in Nat /\ elems_to_serve \in Nat
  /\ elems_to_serve * thread_count <= Size
  /\ elems_to_serve = 0 \/ elems_to_serve > 0
<1>1. Size \in Nat
  BY MatrixAssumption, SMT DEF Size
<1> QED
  BY <1>1, MatrixAssumption, SMT DEF elems_to_serve

\* The stretches of the threads lie one behind the other, within the matrix.
LEMMA Stretches ==
  ASSUME NEW t \in Threads
  PROVE  /\ Start(t) \in Nat /\ Limit(t) \in Nat
         /\ Start(t) <= Limit(t) /\ Limit(t) <= Size
         /\ \A s \in Threads : s < t => Limit(s) <= Start(t)
<1>1. t \in Nat /\ t < thread_count /\ thread_count \in Nat
  BY MatrixAssumption, SMT DEF Threads
<1>2. Start(t) \in Nat
  BY <1>1, Sizes, SMT DEF Start
<1>3. elems_to_serve * (t + 1) = Start(t) + elems_to_serve
  BY <1>1, Sizes, SMT DEF Start
<1>4. elems_to_serve * (t + 1) <= elems_to_serve * thread_count
  BY <1>1, Sizes, ProductGrows, SMT
<1>5. ASSUME NEW s \in Threads, s < t
      PROVE  Limit(s) <= Start(t)
  <2>1. s \in Nat /\ s + 1 <= t
    BY <1>1, <1>5, SMT DEF Threads
  <2>2. elems_to_serve * (s + 1) <= elems_to_serve * t
    BY <1>1, <2>1, Sizes, ProductGrows, SMT
  <2>3. elems_to_serve * (s + 1) = Start(s) + elems_to_serve
    BY <2>1, Sizes, SMT DEF Start
  <2>4. s # thread_count - 1
    BY <1>1, <2>1, SMT
  <2> QED
    BY <2>2, <2>3, <2>4 DEF Limit, Start
<1>6. Start(t) + elems_to_serve <= Size
  BY <1>1, <1>2, <1>3, <1>4, Sizes, MatrixAssumption, SMT
<1> QED
  BY <1>1, <1>2, <1>5, <1>6, Sizes, SMT DEF Limit

\* Every element belongs to some thread.
LEMMA Cover ==
  ASSUME NEW e \in Elements
  PROVE  \E t \in Threads : Start(t) <= e /\ e < Limit(t)
<1>1. e \in Nat /\ e < Size /\ thread_count \in Nat /\ thread_count > 0
  BY Sizes, MatrixAssumption, SMT DEF Elements
<1>2. CASE Start(thread_count - 1) <= e
  <2>1. thread_count - 1 \in Threads
    BY <1>1, SMT DEF Threads
  <2> QED
    BY <1>1, <1>2, <2>1 DEF Limit
<1>3. CASE ~(Start(thread_count - 1) <= e)
  <2> DEFINE t == e \div elems_to_serve
  <2>1. elems_to_serve > 0
    BY <1>1, <1>3, Sizes, SMT DEF Start
  <2>2. t \in Nat /\ elems_to_serve * t <= e /\ e < elems_to_serve * t + elems_to_serve
    BY <1>1, <2>1, Sizes, SMT
  <2> HIDE DEF t
  <2>3. t < thread_count - 1
    <3> SUFFICES ASSUME t >= thread_count - 1 PROVE FALSE
      BY <1>1, <2>2, SMT
    <3>1. elems_to_serve * (thread_count - 1) <= elems_to_serve * t
      BY <1>1, <2>2, Sizes, ProductGrows, SMT
    <3>2. elems_to_serve * (thread_count - 1) \in Int /\ elems_to_serve * t \in Int
      BY <1>1, <2>2, Sizes, SMT
    <3> QED
      BY <1>1, <1>3, <2>2, <3>1, <3>2, SMT DEF Start
  <2> QED
    BY <1>1, <2>2, <2>3, Sizes, SMT DEF Limit, Start, Threads
<1> QED
  BY <1>2, <1>3

LEMMA MatrixInitially == MatrixInit => MatrixInv
<1> SUFFICES ASSUME MatrixInit PROVE MatrixInv
  OBVIOUS
<1>1. MatrixTypeOK
  BY MatrixAssumption, SMT DEF MatrixInit, MatrixTypeOK
<1>2. \A t \in Threads : ThreadInv(t)
  BY MatrixAssumption, SMT DEF MatrixInit, ThreadInv, Threads
<1>3. StoreInv
  BY SMT DEF MatrixInit, StoreInv, Served, Elements
<1> QED
  BY <1>1, <1>2, <1>3 DEF MatrixInv

\* The thread's coordinates lead back to its element.
LEMMA CellOf ==
  ASSUME MatrixTypeOK, NEW t \in Threads, elem_to_start[t] < Size
  PROVE  current_y(t) * matrix_size + current_x(t) = elem_to_start[t]
<1>1. elem_to_start[t] \in Nat /\ matrix_size \in Nat
  BY MatrixAssumption DEF MatrixTypeOK
<1>2. matrix_size > 0
  BY <1>1, SMT DEF Size
<1>3. current_y(t) \in Int
  BY <1>1, <1>2, SMT DEF current_y
<1>4. current_y(t) * matrix_size \in Int
  BY <1>1, <1>3, SMT
<1> QED
  BY <1>1, <1>4, SMT DEF current_x

\* A thread that may go on has not reached its limit; one that may not has.
LEMMA MoreMeans ==
  ASSUME MatrixInv, NEW t \in Threads, tpc[t] # "none"
  PROVE  /\ More(t) => elem_to_start[t] + 1 <= Limit(t)
         /\ ~More(t) => elem_to_start[t] = Limit(t)
<1>1. /\ elem_to_start[t] \in Nat /\ loop_counter[t] \in Nat
      /\ elem_to_start[t] = Start(t) + loop_counter[t] /\ elem_to_start[t] <= Limit(t)
  BY DEF MatrixInv, MatrixTypeOK, ThreadInv
<1> QED
  BY <1>1, Stretches, Sizes, MatrixAssumption, SMT DEF More, Limit, Threads

\* An element that thread t comes to is not yet stored by any thread.
LEMMA Fresh ==
  ASSUME MatrixInv, NEW t \in Threads, tpc[t] # "none", More(t)
  PROVE  \A s \in Threads : ~Served(s, elem_to_start[t])
<1> SUFFICES ASSUME NEW s \in Threads, Served(s, elem_to_start[t])
             PROVE  FALSE
  OBVIOUS
<1>1. /\ elem_to_start[t] \in Nat /\ loop_counter[t] \in Nat /\ elem_to_start[s] \in Nat
      /\ elem_to_start[t] = Start(t) + loop_counter[t]
      /\ elem_to_start[s] <= Limit(s)
  BY DEF MatrixInv, MatrixTypeOK, ThreadInv, Served
<1>2. elem_to_start[t] + 1 <= Limit(t)
  BY MoreMeans
<1>3. s < t \/ s = t \/ t < s
  BY MatrixAssumption, SMT DEF Threads
<1>4. CASE s < t
  BY <1>1, <1>4, Stretches, SMT DEF Served
<1>5. CASE t < s
  BY <1>1, <1>2, <1>5, Stretches, SMT DEF Served
<1>6. CASE s = t
  BY <1>1, <1>6, SMT DEF Served
<1> QED
  BY <1>3, <1>4, <1>5, <1>6

LEMMA MatrixStep == MatrixInv /\ [MatrixNext]_matrixVars => MatrixInv'
<1> SUFFICES ASSUME MatrixInv, [MatrixNext]_matrixVars PROVE MatrixInv'
  OBVIOUS
<1> USE MatrixAssumption
<1>a. MatrixTypeOK /\ (\A t \in Threads : ThreadInv(t)) /\ StoreInv
  BY DEF MatrixInv
<1>1. CASE Create
  <2>1. created \in Threads /\ Start(created) \in Nat /\ created \in Nat
    BY <1>a, <1>1, Stretches, SMT DEF Create, MatrixTypeOK, Threads
  <2>2. MatrixTypeOK'
    BY <1>a, <1>1, <2>1, SMT DEF Create, MatrixTypeOK
  <2>3. ASSUME NEW t \in Threads PROVE ThreadInv(t)'
    <3>1. t \in Int /\ Start(t) + 0 <= Limit(t)
      BY Stretches, SMT DEF Threads
    <3>2. CASE t = created
      BY <1>a, <1>1, <2>1, <3>1, <3>2, SMT DEF Create, MatrixTypeOK, ThreadInv, Limit,
           Start, Size, elems_to_serve
    <3>3. CASE t # created
      <4>1. tpc'[t] = tpc[t] /\ elem_to_start'[t] = elem_to_start[t]
            /\ loop_counter'[t] = loop_counter[t]
        BY <1>a, <1>1, <3>3 DEF Create, MatrixTypeOK
      <4> QED
        BY <1>a, <1>1, <2>1, <3>1, <3>3, <4>1, SMT DEF Create, MatrixTypeOK, ThreadInv, Limit,
           Start, Size, elems_to_serve
    <3> QED
      BY <3>2, <3>3
  <2>4. StoreInv'
    <3>1. ASSUME NEW e \in Elements, NEW t \in Threads PROVE Served(t, e)' <=> Served(t, e)
      <4>1. CASE t = created
        <5>1. tpc[t] = "none" /\ elem_to_start'[t] = Start(t)
          BY <1>a, <1>1, <2>1, <4>1, SMT DEF Create, MatrixTypeOK, ThreadInv
        <5> QED
          BY <5>1, Stretches, Sizes, SMT DEF Served, Elements, Start, elems_to_serve, Size
      <4>2. CASE t # created
        BY <1>a, <1>1, <4>2 DEF Create, MatrixTypeOK, Served, Start, elems_to_serve, Size
      <4> QED
        BY <4>1, <4>2
    <3> QED
      BY <1>a, <1>1, <3>1 DEF Create, StoreInv
  <2> QED
    BY <2>2, <2>3, <2>4 DEF MatrixInv
<1>2. CASE JoinAll
  BY <1>a, <1>2, SMT DEF JoinAll, MatrixInv, MatrixTypeOK, ThreadInv, StoreInv, Served, Threads,
     Limit, Start, Size, elems_to_serve
<1>3. CASE Join
  BY <1>a, <1>3, SMT DEF Join, MatrixInv, MatrixTypeOK, ThreadInv, StoreInv, Served, Threads, Limit,
     Start, Size, elems_to_serve
<1>4. CASE PrintMatrix
  BY <1>a, <1>4, SMT DEF PrintMatrix, MatrixInv, MatrixTypeOK, ThreadInv, StoreInv, Served, Threads,
     Limit, Start, Size, elems_to_serve
<1>5. ASSUME NEW t \in Threads, Serve(t) PROVE MatrixInv'
  <2>1. /\ tpc[t] = "serve" /\ More(t) /\ elem_to_start[t] < Size
        /\ elem_to_start[t] \in Nat /\ loop_counter[t] \in Nat
    BY <1>a, <1>5 DEF Serve, More, MatrixTypeOK
  <2>2. elem_to_start[t] \in Elements
    BY <2>1, Sizes, SMT DEF Elements
  <2>3. /\ output' = [output EXCEPT ![elem_to_start[t]] = @ + 1]
        /\ elem_to_start' = [elem_to_start EXCEPT ![t] = @ + 1]
        /\ loop_counter' = [loop_counter EXCEPT ![t] = @ + 1]
        /\ UNCHANGED <<mpc, created, tpc>>
    BY <1>a, <1>5, <2>1, CellOf DEF Serve
  <2>4. MatrixTypeOK'
    BY <1>a, <2>1, <2>2, <2>3, SMT DEF MatrixTypeOK
  <2>5. ASSUME NEW s \in Threads PROVE ThreadInv(s)'
    <3>1. Limit(s)' = Limit(s) /\ Start(s)' = Start(s) /\ Start(s) \in Nat
      BY Stretches DEF Limit, Start, Size, elems_to_serve
    <3>2. CASE s = t
      <4>1. elem_to_start[t] + 1 <= Limit(t)
        BY <2>1, MoreMeans
      <4> QED
        BY <1>a, <2>1, <2>3, <3>1, <3>2, <4>1, SMT DEF ThreadInv, MatrixTypeOK
    <3>3. CASE s # t
      BY <1>a, <2>3, <3>1, <3>3 DEF ThreadInv, MatrixTypeOK
    <3> QED
      BY <3>2, <3>3
  <2>6. StoreInv'
    <3> SUFFICES ASSUME NEW e \in Elements
                 PROVE  output'[e] = IF \E s \in Threads : Served(s, e)' THEN 1 ELSE 0
      BY DEF StoreInv
    <3>1. e \in Nat
      BY Sizes, SMT DEF Elements
    <3>2. \A s \in Threads : Start(s)' = Start(s) /\ Start(s) \in Nat
      BY Stretches DEF Start, Size, elems_to_serve
    <3>3. CASE e = elem_to_start[t]
      <4>1. output[e] = 0
        BY <1>a, <2>1, <3>3, Fresh DEF StoreInv
      <4>2. elem_to_start[t] = Start(t) + loop_counter[t]
        BY <1>a, <2>1 DEF ThreadInv
      <4>3. Served(t, e)'
        BY <1>a, <2>1, <2>3, <3>2, <3>3, <4>2, SMT DEF Served, MatrixTypeOK
      <4> QED
        BY <1>a, <2>3, <3>3, <4>1, <4>3, SMT DEF MatrixTypeOK
    <3>4. CASE e # elem_to_start[t]
      <4>1. ASSUME NEW s \in Threads PROVE Served(s, e)' <=> Served(s, e)
        <5>1. CASE s = t
          BY <1>a, <2>1, <2>3, <3>1, <3>2, <3>4, <5>1, SMT DEF Served, MatrixTypeOK
        <5>2. CASE s # t
          BY <1>a, <2>3, <3>2, <5>2 DEF Served, MatrixTypeOK
        <5> QED
          BY <5>1, <5>2
      <4> QED
        BY <1>a, <2>3, <3>4, <4>1 DEF StoreInv, MatrixTypeOK
    <3> QED
      BY <3>3, <3>4
  <2> QED
    BY <2>4, <2>5, <2>6 DEF MatrixInv
<1>6. ASSUME NEW t \in Threads, End(t) PROVE MatrixInv'
  <2>1. tpc[t] = "serve" /\ elem_to_start[t] = Limit(t)
    BY <1>6, MoreMeans DEF End
  <2>2. tpc' = [tpc EXCEPT ![t] = "ended"]
        /\ UNCHANGED <<mpc, created, elem_to_start, loop_counter, output>>
    BY <1>6 DEF End
  <2>3. MatrixTypeOK'
    BY <1>a, <2>2 DEF MatrixTypeOK
  <2>4. ASSUME NEW s \in Threads PROVE ThreadInv(s)'
    <3>1. Limit(s)' = Limit(s) /\ Start(s)' = Start(s)
      BY DEF Limit, Start, Size, elems_to_serve
    <3> QED
      BY <1>a, <2>1, <2>2, <3>1 DEF ThreadInv, MatrixTypeOK
  <2>5. StoreInv'
    <3>1. ASSUME NEW e \in Elements, NEW s \in Threads PROVE Served(s, e)' <=> Served(s, e)
      BY <1>a, <2>1, <2>2 DEF Served, MatrixTypeOK, Start, Size, elems_to_serve
    <3> QED
      BY <1>a, <2>2, <3>1 DEF StoreInv
  <2> QED
    BY <2>3, <2>4, <2>5 DEF MatrixInv
<1>7. CASE UNCHANGED matrixVars
  BY <1>a, <1>7 DEF matrixVars, MatrixInv, MatrixTypeOK, ThreadInv, StoreInv, Served, Limit,
     Start, Size, elems_to_serve
<1> QED
  BY <1>1, <1>2, <1>3, <1>4, <1>5, <1>6, <1>7 DEF MatrixNext, Main

THEOREM MatrixInvariance == MatrixSpec => []MatrixInv
  BY MatrixInitially, MatrixStep, PTL DEF MatrixSpec

\* Every variable keeps its type.
THEOREM MatrixTypeCorrect == MatrixSpec => []MatrixTypeOK
<1>1. MatrixInv => MatrixTypeOK
  BY DEF MatrixInv
<1> QED
  BY <1>1, MatrixInvariance, PTL

\* For every size and number of threads, no element is stored by two threads
\* (hw5_4.c:22-29).
THEOREM NoneStoredTwice == MatrixSpec => []StoredOnce
<1>1. MatrixInv => StoredOnce
  BY SMT DEF MatrixInv, StoreInv, StoredOnce
<1> QED
  BY <1>1, MatrixInvariance, PTL

\* And the matrix main prints is complete (107-119).
THEOREM ProductComplete == MatrixSpec => []Complete
<1>1. MatrixInv => Complete
  <2> SUFFICES ASSUME MatrixInv, mpc = "printed", NEW e \in Elements
               PROVE  output[e] = 1
    BY DEF Complete
  <2>1. PICK t \in Threads : Start(t) <= e /\ e < Limit(t)
    BY Cover
  <2>2. tpc[t] = "ended" /\ elem_to_start[t] = Limit(t)
    BY DEF MatrixInv, ThreadInv
  <2> QED
    BY <2>1, <2>2 DEF MatrixInv, StoreInv, Served
<1> QED
  BY <1>1, MatrixInvariance, PTL

-----------------------------------------------------------------------------
(* The ping-pong. *)

\* There is one token at a time: it is the child's to print, pending for the parent, the
\* parent's to print, pending for the child, or lost.
PingTokens ==
  /\ cpc # "wait" => ~usr1Pending /\ ~usr2Pending /\ ppc \in {"ignore", "wait"} /\ ~lost
  /\ usr2Pending => ~usr1Pending /\ ppc \in {"ignore", "wait"} /\ ~lost
  /\ usr1Pending => ppc = "wait" /\ ~lost
  /\ ppc \in {"print", "kill"} => ~usr1Pending /\ ~usr2Pending /\ ~lost
  /\ ppc = "ignore" => ~answered
  /\ lost => ~answered

\* What the parent has not answered yet.
Unanswered == cpc = "kill" \/ usr2Pending \/ ppc = "print" \/ lost

PingInv == PingTypeOK /\ PingTokens /\ (Unanswered => ahead = 1) /\ (~Unanswered => ahead = 0)

LEMMA PingStep == ASSUME PingInv, [PingNext]_pingVars PROVE PingInv'
<1> USE DEF PingInv
<1>1. CASE ChildIgnore
  BY <1>1 DEF ChildIgnore, PingTypeOK, PingTokens, Unanswered
<1>2. CASE ChildPrint
  <2>1. ~Unanswered /\ Unanswered'
    BY <1>2 DEF ChildPrint, PingTokens, Unanswered
  <2> QED
    BY <1>2, <2>1 DEF ChildPrint, PingTypeOK, PingTokens
<1>3. CASE ChildKill
  BY <1>3 DEF ChildKill, PingTypeOK, PingTokens, Unanswered
<1>4. CASE ChildWait
  BY <1>4 DEF ChildWait, PingTypeOK, PingTokens, Unanswered
<1>5. CASE ParentIgnore
  BY <1>5 DEF ParentIgnore, PingTypeOK, PingTokens, Unanswered
<1>6. CASE ParentWait
  BY <1>6 DEF ParentWait, PingTypeOK, PingTokens, Unanswered
<1>7. CASE ParentPrint
  <2>1. Unanswered /\ ~Unanswered'
    BY <1>7 DEF ParentPrint, PingTokens, Unanswered
  <2> QED
    BY <1>7, <2>1 DEF ParentPrint, PingTypeOK, PingTokens
<1>8. CASE ParentKill
  BY <1>8 DEF ParentKill, PingTypeOK, PingTokens, Unanswered
<1>9. CASE UNCHANGED pingVars
  BY <1>9 DEF pingVars, PingTypeOK, PingTokens, Unanswered
<1> QED
  BY <1>1, <1>2, <1>3, <1>4, <1>5, <1>6, <1>7, <1>8, <1>9 DEF PingNext, PingChild, PingParent

LEMMA PingInvariance == PingSpec => []PingInv
<1>1. PingInit => PingInv
  <2> SUFFICES ASSUME PingInit PROVE PingInv
    OBVIOUS
  <2>1. ~Unanswered /\ PingTokens
    BY Zenon DEF PingInit, Unanswered, PingTokens
  <2>2. PingTypeOK
    <3>1. ahead \in Int
      BY DEF PingInit
    <3> QED
      BY <3>1, Zenon DEF PingInit, PingTypeOK
  <2> QED
    BY <2>1, <2>2 DEF PingInit, PingInv
<1> QED
  BY <1>1, PingStep, PTL DEF PingSpec

\* The two print in turn, and a signal is lost before the first answer only
\* (FUPM_THE_.c:27-43).
THEOREM PrintsInTurn == PingSpec => []InTurn
<1>1. PingInv => InTurn
  BY DEF PingInv, PingTokens, InTurn
<1> QED
  BY <1>1, PingInvariance, PTL

-----------------------------------------------------------------------------
(* The counting threads. *)

\* Only the thread with the mutex reads and writes, and a is what the rounds come to.
IncInv ==
  /\ IncTypeOK
  /\ \A t \in Adders :
       /\ ipc[t] \in {"load", "store"} <=> mutex = t
       /\ ipc[t] = "store" => reg[t] = a /\ i[t] < cycle_duration
       /\ ipc[t] = "ended" => i[t] = cycle_duration
       /\ t < jpc => ipc[t] = "ended"
  /\ a = i[1] + i[2]

LEMMA IncStep == ASSUME IncInv, [IncNext]_incVars PROVE IncInv'
<1> USE IncrementAssumption DEF IncInv, IncTypeOK, Adders
<1>1. CASE JoinAdder
  BY <1>1 DEF JoinAdder
<1>2. ASSUME NEW t \in Adders, Lock(t) PROVE IncInv'
  BY <1>2 DEF Lock
<1>3. ASSUME NEW t \in Adders, Load(t) PROVE IncInv'
  BY <1>3 DEF Load
<1>4. ASSUME NEW t \in Adders, Store(t) PROVE IncInv'
  BY <1>4 DEF Store
<1>5. ASSUME NEW t \in Adders, Unlock(t) PROVE IncInv'
  BY <1>5 DEF Unlock
<1>6. CASE UNCHANGED incVars
  BY <1>6 DEF incVars
<1> QED
  BY <1>1, <1>2, <1>3, <1>4, <1>5, <1>6 DEF IncNext, Adder

LEMMA IncInvariance == IncSpec => []IncInv
<1>1. IncInit => IncInv
  BY IncrementAssumption DEF IncInit, IncInv, IncTypeOK, Adders
<1> QED
  BY <1>1, IncStep, PTL DEF IncSpec

\* For any number of rounds main prints twice that number (increment.c:26-31).
THEOREM NoRoundLost == IncSpec => []Counted
<1>1. IncInv => Counted
  BY IncrementAssumption DEF IncInv, IncTypeOK, Counted, Adders
<1> QED
  BY <1>1, IncInvariance, PTL

-----------------------------------------------------------------------------
(* The shared file. *)

FileTypes ==
  /\ sems \in Nat /\ mems \in Nat /\ sem \in Int /\ sem >= -1
  /\ sem >= 0 => sems > 0
  /\ mem => mems > 0
  /\ semid \in [FileProcs -> 0..sems] /\ shmid \in [FileProcs -> 0..mems]
  /\ DOMAIN shpc = FileProcs
  /\ DOMAIN shown = Readers

\* Who is past its semget and shmget has a semaphore and a memory; a writer that has copied
\* the file has written its memory, and a reader that has not run off has read a text.
FileControl ==
  \A p \in FileProcs :
    /\ shpc[p] # "semget" => semid[p] > 0
    /\ shpc[p] \in {"semget", "shmget"} <=> shmid[p] = 0
    /\ shpc[p] \in {"post", "semrm", "shmrm"} => shmid[p] \in written

\* If semaphores and memories match, the memory of a semaphore that has a token, or is
\* removed, holds the text; so does that of a reader that got behind its semop.
FileTexts ==
  Matched =>
    /\ \A k \in 1..sems : k < sems \/ sem # 0 => k \in written
    /\ \A p \in FileProcs : shpc[p] = "print" => shmid[p] \in written
    /\ \A r \in Readers : shown[r] # "beyond"

FileInv == FileTypes /\ FileControl /\ FileTexts

LEMMA FileStep == ASSUME FileInv, [FileNext]_fileVars PROVE FileInv'
<1> USE DEF FileInv, FileTypes, FileControl, FileTexts, Matched, FileGo, SemThere
<1>1. ASSUME NEW p \in FileProcs, SemGet(p) PROVE FileInv'
  <2>1. Matched' => Matched
    BY <1>1 DEF SemGet
  <2>2. CASE sem >= 0
    <3>1. semid' = [semid EXCEPT ![p] = sems]
      BY <1>1, <2>2 DEF SemGet
    <3> QED
      BY <1>1, <2>1, <2>2, <3>1 DEF SemGet
  <2>3. CASE sem < 0
    BY <1>1, <2>1, <2>3 DEF SemGet
  <2> QED
    BY <2>2, <2>3
<1>2. ASSUME NEW p \in FileProcs, ShmGet(p) PROVE FileInv'
  <2>1. Matched' => Matched
    BY <1>2 DEF ShmGet
  <2>2. CASE mem
    BY <1>2, <2>1, <2>2 DEF ShmGet
  <2>3. CASE ~mem
    BY <1>2, <2>1, <2>3 DEF ShmGet
  <2> QED
    BY <2>2, <2>3
<1>3. ASSUME NEW w \in Writers, Copy(w) PROVE FileInv'
  BY <1>3 DEF Copy, FileProcs
<1>4. ASSUME NEW w \in Writers, Post(w) PROVE FileInv'
  BY <1>4 DEF Post, FileProcs
<1>5. ASSUME NEW r \in Readers, Wait(r) PROVE FileInv'
  BY <1>5 DEF Wait, FileProcs
<1>6. ASSUME NEW r \in Readers, PrintText(r) PROVE FileInv'
  BY <1>6 DEF PrintText, FileProcs
<1>7. ASSUME NEW r \in Readers, SemRemove(r) PROVE FileInv'
  BY <1>7 DEF SemRemove, FileProcs
<1>8. ASSUME NEW r \in Readers, ShmRemove(r) PROVE FileInv'
  BY <1>8 DEF ShmRemove, FileProcs
<1>9. CASE UNCHANGED fileVars
  BY <1>9 DEF fileVars
<1> QED
  BY <1>1, <1>2, <1>3, <1>4, <1>5, <1>6, <1>7, <1>8, <1>9
     DEF FileNext, Writer, Reader, FileProcs

LEMMA FileInvariance == FileSpec => []FileInv
<1>1. FileInit => FileInv
  <2> SUFFICES ASSUME FileInit PROVE FileInv
    OBVIOUS
  <2>1. ~mem
    BY Zenon DEF FileInit
  <2> QED
    BY <2>1 DEF FileInit, FileInv, FileTypes, FileControl, FileTexts
<1> QED
  BY <1>1, FileStep, PTL DEF FileSpec

\* For any number of writers and readers: unless a process got a semaphore of one age and a
\* memory of another, no reader runs off the memory (shared_two.c:68-71).
THEOREM TextIsWhole == FileSpec => []WholeText
<1>1. FileInv => WholeText
  BY DEF FileInv, FileTexts, WholeText
<1> QED
  BY <1>1, FileInvariance, PTL

-----------------------------------------------------------------------------
(* The chain of processes. *)

\* How many have acted; they are the deepest, the next is the only one that may act, and
\* all above it wait or are still to fork.
Acted == Len(order)

ChainInv ==
  /\ commands \in BOOLEAN /\ nodes \in 0..MaxNodes /\ (commands => nodes > 0)
  /\ DOMAIN lpc = Levels /\ order \in Seq(Int)
  /\ Waits =>
       /\ Acted <= Deep + 1
       /\ \A k \in 1..Acted : order[k] = Deep - k + 1
       /\ \A l \in Levels :
            /\ l > Deep => lpc[l] = "none"
            /\ l <= Deep /\ l > Deep - Acted => lpc[l] \in {"command", "done"}
            /\ l <= Deep /\ l > Deep - Acted + 1 => lpc[l] = "done"
            /\ l <= Deep - Acted => lpc[l] \in {"none", "fork", "wait", "act"}
            /\ lpc[l] = "wait" => l < Deep
            /\ lpc[l] = "act" => /\ l = Deep - Acted
                                 /\ Acted > 0 => lpc[l + 1] = "done"
            /\ lpc[l] = "fork" => /\ Acted = 0 /\ l < Deep
                                  /\ \A k \in Levels : k > l => lpc[k] = "none"

LEMMA Depth ==
  ASSUME commands \in BOOLEAN, nodes \in 0..MaxNodes
  PROVE  Deep \in 1..MaxNodes
  BY ChainAssumption DEF Deep

LEMMA ChainStep == ASSUME ChainInv, [ChainNext]_chainVars PROVE ChainInv'
<1>1. Deep \in 1..MaxNodes /\ MaxNodes \in Nat
  BY Depth, ChainAssumption DEF ChainInv
<1>2. CASE UNCHANGED <<commands, nodes>>
  <2>1. Deep' = Deep /\ Waits' = Waits
    BY <1>2 DEF Deep, Waits
  <2> USE <1>1, <1>2, <2>1 DEF ChainInv, Acted, Levels
  <2>2. ASSUME NEW l \in Levels, ChainFork(l) PROVE ChainInv'
    <3>1. CASE ~Waits
      BY <2>2, <3>1 DEF ChainFork
    <3>2. CASE Waits
      <4>1. /\ l < Deep /\ Len(order) = 0 /\ order' = order /\ l + 1 \in Levels
            /\ \A k \in Levels : k > l => lpc[k] = "none"
        BY <2>2, <3>2 DEF ChainFork
      <4>2. \A k \in Levels : lpc'[k] = IF k = l THEN "wait"
                                       ELSE IF k # l + 1 THEN lpc[k]
                                       ELSE IF k < Deep THEN "fork" ELSE "act"
        BY <2>2, <3>2, <4>1 DEF ChainFork
      <4> QED
        BY <2>2, <3>2, <4>1, <4>2 DEF ChainFork
    <3> QED
      BY <3>1, <3>2
  <2>3. ASSUME NEW l \in Levels, ChainWait(l) PROVE ChainInv'
    <3>1. CASE ~Waits
      BY <2>3, <3>1 DEF ChainWait
    <3>2. CASE Waits
      <4>1. /\ l = Deep - Len(order) /\ Len(order) > 0 /\ lpc[l + 1] = "done"
            /\ order' = order
        <5>1. l < Deep /\ l + 1 \in Levels /\ lpc[l] = "wait" /\ lpc[l + 1] = "done"
          BY <2>3, <3>2 DEF ChainWait
        <5>2. l <= Deep - Len(order)
          BY <3>2, <5>1
        <5>3. ~(l + 1 <= Deep - Len(order))
          BY <3>2, <5>1
        <5>4. order' = order
          BY <2>3 DEF ChainWait
        <5>5. l \in Int /\ Deep \in Int /\ Len(order) \in Int
          OBVIOUS
        <5>6. l = Deep - Len(order) /\ Len(order) > 0
          BY <5>1, <5>2, <5>3, <5>5
        <5> QED
          BY <5>1, <5>4, <5>6, Zenon
      <4>2. \A k \in Levels : lpc'[k] = IF k = l THEN "act" ELSE lpc[k]
        BY <2>3 DEF ChainWait
      <4> QED
        BY <2>3, <3>2, <4>1, <4>2 DEF ChainWait
    <3> QED
      BY <3>1, <3>2
  <2>4. ASSUME NEW l \in Levels, ChainAct(l) PROVE ChainInv'
    <3>1. order' = Append(order, l) /\ order' \in Seq(Int) /\ Len(order') = Len(order) + 1
      BY <2>4 DEF ChainAct
    <3>2. \A k \in 1..Len(order') : order'[k] = IF k = Len(order') THEN l ELSE order[k]
      BY <2>4, <3>1 DEF ChainAct
    <3>3. CASE ~Waits
      <4>1. DOMAIN lpc' = Levels /\ commands' = commands /\ nodes' = nodes /\ ~Waits'
        BY <2>4, <3>3 DEF ChainAct
      <4> QED
        BY <3>1, <4>1
    <3>4. CASE Waits
      <4>1. /\ l = Deep - Len(order) /\ (Len(order) > 0 => lpc[l + 1] = "done")
            /\ Deep \in Nat /\ MaxNodes \in Nat /\ Deep <= MaxNodes /\ Len(order) \in Nat
            /\ \A k \in 1..Len(order) : order[k] = Deep - k + 1
        BY <2>4, <3>4 DEF ChainAct
      <4>2. \A k \in Levels : lpc[k] \notin {"fork", "act"} \/ k = l
        BY <2>4, <3>4, <4>1 DEF ChainAct
      <4>3. \A k \in Levels : lpc'[k] = IF k # l THEN lpc[k]
                                       ELSE IF commands THEN "command" ELSE "done"
        BY <2>4 DEF ChainAct
      <4>4. \A k \in Levels :
              /\ k > Deep => lpc[k] = "none"
              /\ k <= Deep /\ k > l => lpc[k] \in {"command", "done"}
              /\ k <= Deep /\ k > l + 1 => lpc[k] = "done"
              /\ k < l => lpc[k] \in {"none", "wait"}
              /\ lpc[k] = "wait" => k < Deep
        BY <3>4, <4>1, <4>2
      <4> HIDE DEF ChainInv, Acted
      <4>5. \A k \in 1..Len(order') : order'[k] = Deep - k + 1
        BY <3>1, <3>2, <4>1
      <4>6. ASSUME NEW k \in Levels, k # l
            PROVE  /\ k > Deep => lpc'[k] = "none"
                   /\ k <= Deep /\ k > l => lpc'[k] = "done"
                   /\ k < l => lpc'[k] \in {"none", "wait"}
                   /\ lpc'[k] = "wait" => k < Deep
                   /\ lpc'[k] \notin {"act", "fork"}
        <5>1. lpc'[k] = lpc[k]
          BY <4>3, <4>6
        <5>2. k > l => k = l + 1 \/ k > l + 1
          BY <4>1, <4>6
        <5>3. k = l + 1 /\ k <= Deep => lpc[k] = "done"
          BY <4>1
        <5> QED
          BY <4>2, <4>4, <4>6, <5>1, <5>2, <5>3
      <4>7. lpc'[l] \in {"command", "done"} /\ l \in 0..Deep /\ l = Deep - Len(order') + 1
        BY <3>1, <4>1, <4>3, <2>4
      <4>8. DOMAIN lpc' = Levels /\ nodes' \in 0..MaxNodes /\ (commands' => nodes' > 0)
        BY <2>4 DEF ChainAct, ChainInv
      <4>9. Len(order') <= Deep + 1
        BY <3>1, <4>1, <4>7
      <4>10. ASSUME NEW k \in Levels
             PROVE  /\ k > Deep => lpc'[k] = "none"
                    /\ k <= Deep /\ k > Deep - Len(order') => lpc'[k] \in {"command", "done"}
                    /\ k <= Deep /\ k > Deep - Len(order') + 1 => lpc'[k] = "done"
                    /\ k <= Deep - Len(order') => lpc'[k] \in {"none", "wait"}
                    /\ lpc'[k] = "wait" => k < Deep
                    /\ lpc'[k] \notin {"act", "fork"}
        <5>1. CASE k = l
          BY <4>1, <4>7, <5>1
        <5>2. CASE k # l
          <6>1. /\ k > Deep => lpc'[k] = "none"
                /\ k <= Deep /\ k > l => lpc'[k] = "done"
                /\ k < l => lpc'[k] \in {"none", "wait"}
                /\ lpc'[k] = "wait" => k < Deep
                /\ lpc'[k] \notin {"act", "fork"}
            BY <4>6, <5>2
          <6>2. k \in Nat /\ l \in Nat /\ Deep \in Nat /\ Deep - Len(order') = l - 1
            BY <3>1, <4>1, <4>7
          <6> QED
            BY <5>2, <6>1, <6>2
        <5> QED
          BY <5>1, <5>2
      <4> QED
        BY <2>4, <3>1, <4>5, <4>8, <4>9, <4>10 DEF ChainInv, Acted, ChainAct
    <3> QED
      BY <3>3, <3>4
  <2>5. ASSUME NEW l \in Levels, ChainEnd(l) PROVE ChainInv'
    BY <2>5 DEF ChainEnd
  <2>6. CASE UNCHANGED chainVars
    BY <2>6 DEF chainVars
  <2> QED
    BY <2>2, <2>3, <2>4, <2>5, <2>6 DEF ChainNext, Level
<1> QED
  BY <1>2 DEF ChainNext, Level, ChainFork, ChainWait, ChainAct, ChainEnd, chainVars

\* For chains of any length: they end from the last to the first, one after the other, and
\* the commands are those of the lines from the first (my_prog1.c:81-87).
THEOREM EndsInOrder == ChainSpec => []DeepestFirst
<1>1. ChainInit => ChainInv
  BY ChainAssumption DEF ChainInit, ChainInv, Acted, Deep, Levels
<1>2. ChainInv => DeepestFirst
  <2> SUFFICES ASSUME ChainInv, Waits, NEW k \in DOMAIN order
               PROVE  /\ order[k] = Deep - k + 1
                      /\ k > 1 => lpc[order[k - 1]] = "done"
                      /\ commands => LineOf(order[k]) = IF nodes = 1 THEN k - 2 ELSE k - 1
    BY DEF DeepestFirst
  <2>1. Deep \in 1..MaxNodes /\ MaxNodes \in Nat /\ Len(order) \in Nat
    BY Depth, ChainAssumption DEF ChainInv
  <2>2. /\ k \in 1..Len(order) /\ Len(order) <= Deep + 1
        /\ \A n \in 1..Len(order) : order[n] = Deep - n + 1
    BY DEF ChainInv, Acted
  <2>3. ASSUME k > 1 PROVE lpc[order[k - 1]] = "done"
    <3>1. order[k - 1] = Deep - k + 2
      <4>1. k - 1 \in 1..Len(order)
        BY <2>1, <2>2, <2>3
      <4>2. order[k - 1] = Deep - (k - 1) + 1
        BY <2>2, <4>1
      <4> QED
        BY <2>1, <2>2, <4>2
    <3>2. Deep - k + 2 \in Levels
      BY <2>1, <2>2, <2>3 DEF Levels
    <3>3. Deep - k + 2 <= Deep /\ Deep - k + 2 > Deep - Len(order) + 1
      BY <2>1, <2>2, <2>3
    <3> QED
      BY <3>1, <3>2, <3>3 DEF ChainInv, Acted
  <2>4. ASSUME commands PROVE LineOf(order[k]) = IF nodes = 1 THEN k - 2 ELSE k - 1
    <3>1. nodes \in Nat
      BY ChainAssumption DEF ChainInv
    <3>2. nodes > 0
      BY <2>4 DEF ChainInv
    <3> QED
      BY <2>2, <2>4, <3>1, <3>2 DEF LineOf, Deep
  <2> QED
    BY <2>2, <2>3, <2>4
<1> QED
  BY <1>1, <1>2, ChainStep, PTL DEF ChainSpec

-----------------------------------------------------------------------------
(* Sums and products of sets: an element after the other, whichever is chosen. *)

AnyOf(s) == CHOOSE x \in s : TRUE

\* What holds of the empty set, and of a set if of those without one element, holds of
\* all subsets of a finite set.
LEMMA SmallerSets ==
  ASSUME NEW D, IsFiniteSet(D)
  PROVE  /\ [s \in SUBSET D |-> Cardinality(s)] \in [SUBSET D -> Nat]
         /\ \A s \in SUBSET D, x \in D :
              x \in s => s \ {x} \in SUBSET D /\ Cardinality(s \ {x}) < Cardinality(s)
<1>1. \A s \in SUBSET D : IsFiniteSet(s) /\ Cardinality(s) \in Nat
  BY FS_Subset, FS_CardinalityType
<1>2. \A s \in SUBSET D, x \in D : x \in s => Cardinality(s \ {x}) = Cardinality(s) - 1
  BY <1>1, FS_RemoveElement
<1> QED
  BY <1>1, <1>2

\* op is applied to the value of an element and to what came of the others.
Iterates(f, D, base, val, op) ==
  \A s \in SUBSET D : f[s] = IF s = {} THEN base ELSE op[<<val[AnyOf(s)], f[s \ {AnyOf(s)}]>>]

LEMMA Iteration ==
  ASSUME NEW D, IsFiniteSet(D), NEW base \in Int, NEW val \in [D -> Int],
         NEW op \in [Int \X Int -> Int]
  PROVE  \E f \in [SUBSET D -> Int] : Iterates(f, D, base, val, op)
<1> DEFINE S == SUBSET D
           rank == [s \in S |-> Cardinality(s)]
           prev == [s \in S |-> s \ {AnyOf(s)}]
           rule == [p \in S \X Int |-> IF p[1] = {} THEN base
                                       ELSE op[<<val[AnyOf(p[1])], p[2]>>]]
<1>1. rank \in [S -> Nat]
  BY SmallerSets, Zenon
<1>2. prev \in [S -> S]
  OBVIOUS
<1>3. \A s \in S : s # {} => AnyOf(s) \in s
  BY Zenon DEF AnyOf
<1>4. \A s \in S : s # {} => rank[prev[s]] < rank[s]
  <2> SUFFICES ASSUME NEW s \in S, s # {} PROVE Cardinality(s \ {AnyOf(s)}) < Cardinality(s)
    OBVIOUS
  <2> QED
    BY <1>3, SmallerSets
<1>5. rule \in [S \X Int -> Int]
  <2> SUFFICES ASSUME NEW s \in S, NEW n \in Int, s # {}
               PROVE  op[<<val[AnyOf(s)], n>>] \in Int
    OBVIOUS
  <2>1. val[AnyOf(s)] \in Int
    BY <1>3
  <2> QED
    BY <2>1
<1>6. \A s \in S : \/ rank[prev[s]] < rank[s]
                   \/ \A m, n \in Int : rule[<<s, m>>] = rule[<<s, n>>]
  <2>1. \A m, n \in Int : rule[<<{}, m>>] = rule[<<{}, n>>]
    OBVIOUS
  <2> QED
    BY <1>4, <2>1
<1>7. Int # {}
  BY SMT
<1> HIDE DEF rank, prev, rule
<1>8. WellRanked(S, Int, rank, prev, rule)
  BY <1>1, <1>2, <1>5, <1>6, <1>7, Zenon DEF WellRanked
<1>9. PICK f \in [S -> Int] : Obeys(f, S, prev, rule)
  BY <1>8, Recursion, Zenon
<1>10. \A s \in S : f[s] = IF s = {} THEN base ELSE op[<<val[AnyOf(s)], f[s \ {AnyOf(s)}]>>]
  <2> SUFFICES ASSUME NEW s \in S
               PROVE  f[s] = IF s = {} THEN base ELSE op[<<val[AnyOf(s)], f[s \ {AnyOf(s)}]>>]
    OBVIOUS
  <2>1. f[s] = rule[<<s, f[prev[s]]>>] /\ prev[s] = s \ {AnyOf(s)}
    BY <1>9 DEF Obeys, prev
  <2>2. f[s \ {AnyOf(s)}] \in Int
    OBVIOUS
  <2> QED
    BY <2>1, <2>2 DEF rule
<1> QED
  BY <1>10 DEF Iterates

\* x * (y * z) = y * (x * z)
LEMMA Exchange ==
  ASSUME NEW x \in Int, NEW y \in Int, NEW z \in Int
  PROVE  x * (y * z) = y * (x * z)
  BY SMT

\* The product of a set of numbers is that of any of them and the product of the others.
Product(g, D) ==
  /\ g \in [SUBSET D -> Int] /\ g[{}] = 1
  /\ \A s \in SUBSET D : \A y \in s : g[s] = y * g[s \ {y}]

LEMMA Products ==
  ASSUME NEW D \in SUBSET Int, IsFiniteSet(D)
  PROVE  \E g : Product(g, D) /\ ProductSet(D) = g[D]
<1> DEFINE S == SUBSET D
           Follows(g) == g = [s \in S |-> IF s = {} THEN 1
                                          ELSE AnyOf(s) * g[s \ {AnyOf(s)}]]
           rank == [s \in S |-> Cardinality(s)]
<1>0. \A s \in S : s # {} => AnyOf(s) \in s
  BY Zenon DEF AnyOf
<1>1. \E g : Follows(g)
  <2> DEFINE val == [x \in D |-> x]
             op == [p \in Int \X Int |-> p[1] * p[2]]
  <2>1. val \in [D -> Int] /\ op \in [Int \X Int -> Int] /\ 1 \in Int
    BY SMT
  <2> HIDE DEF val, op
  <2>2. PICK f \in [S -> Int] : Iterates(f, D, 1, val, op)
    BY <2>1, Iteration
  <2>3. ASSUME NEW s \in S
        PROVE  f[s] = IF s = {} THEN 1 ELSE AnyOf(s) * f[s \ {AnyOf(s)}]
    <3>1. f[s] = IF s = {} THEN 1 ELSE op[<<val[AnyOf(s)], f[s \ {AnyOf(s)}]>>]
      BY <2>2 DEF Iterates
    <3>2. CASE s # {}
      <4>1. val[AnyOf(s)] = AnyOf(s) /\ AnyOf(s) \in Int /\ f[s \ {AnyOf(s)}] \in Int
        BY <1>0, <3>2 DEF val
      <4> QED
        BY <3>1, <3>2, <4>1 DEF op
    <3> QED
      BY <3>1, <3>2
  <2> QED
    BY <2>3
<1>2. ASSUME NEW g, Follows(g)
      PROVE  Product(g, D)
  <2>0. \A s \in S : g[s] = IF s = {} THEN 1 ELSE AnyOf(s) * g[s \ {AnyOf(s)}]
    BY <1>2
  <2>1. rank \in [S -> Nat]
    BY SmallerSets, Zenon
  <2> DEFINE P == {s \in S : g[s] \in Int /\ \A y \in s : g[s] = y * g[s \ {y}]}
  <2>2. ASSUME NEW s \in S, \A t \in S : rank[t] < rank[s] => t \in P
        PROVE  s \in P
    <3>1. CASE s = {}
      <4>1. g[s] = 1
        BY <2>0, <3>1, Zenon
      <4>2. 1 \in Int
        BY SMT
      <4> QED
        BY <3>1, <4>1, <4>2
    <3>2. CASE s # {}
      <4> DEFINE x == AnyOf(s)
      <4>1. x \in s /\ x \in Int
        BY <1>0, <3>2
      <4>2. g[s] = x * g[s \ {x}]
        BY <2>0, <3>2
      <4> HIDE DEF x, P
      <4>3. \A y \in s : s \ {y} \in S /\ s \ {y} \in P
        BY <2>2, SmallerSets
      <4>4. ASSUME NEW y \in s, y # x
            PROVE  g[s] = y * g[s \ {y}]
        <5> DEFINE z == g[(s \ {x}) \ {y}]
        <5>1. g[s \ {x}] = y * z /\ y \in Int
          BY <4>1, <4>3, <4>4 DEF P
        <5>2. (s \ {y}) \ {x} = (s \ {x}) \ {y}
          OBVIOUS
        <5>3. g[s \ {y}] = x * z
          BY <4>1, <4>3, <4>4, <5>2 DEF P
        <5>4. z \in Int
          <6>1. y \in s \ {x}
            BY <4>4
          <6>2. rank[(s \ {x}) \ {y}] < rank[s]
            <7>1. s \ {x} \in S /\ (s \ {x}) \ {y} \in S /\ x \in D /\ y \in D
              BY <4>1
            <7>2. /\ Cardinality(s \ {x}) < Cardinality(s)
                  /\ Cardinality((s \ {x}) \ {y}) < Cardinality(s \ {x})
              <8>1. \A t \in SUBSET D, e \in D : e \in t => Cardinality(t \ {e}) < Cardinality(t)
                BY SmallerSets
              <8> QED
                BY <4>1, <6>1, <7>1, <8>1, Zenon
            <7>3. rank[s] \in Nat /\ rank[s \ {x}] \in Nat /\ rank[(s \ {x}) \ {y}] \in Nat
              BY <2>1, <7>1
            <7>4. rank[s \ {x}] < rank[s] /\ rank[(s \ {x}) \ {y}] < rank[s \ {x}]
              BY <7>1, <7>2
            <7> QED
              BY <7>3, <7>4
          <6> QED
            BY <2>2, <6>2 DEF P
        <5> HIDE DEF z
        <5> QED
          BY <4>1, <4>2, <5>1, <5>3, <5>4, Exchange
      <4>5. g[s] \in Int
        <5>1. g[s \ {x}] \in Int
          BY <4>1, <4>3 DEF P
        <5> QED
          BY <4>1, <4>2, <5>1
      <4> QED
        BY <4>2, <4>4, <4>5 DEF P
    <3> QED
      BY <3>1, <3>2
  <2> HIDE DEF rank, P
  <2>3. P = S
    <3>1. Inductive(S, rank, P)
      BY <2>1, <2>2, Zenon DEF Inductive, P
    <3> QED
      BY <3>1, RankInduction
  <2>4. \A s \in S : g[s] \in Int /\ \A y \in s : g[s] = y * g[s \ {y}]
    BY <2>3 DEF P
  <2>5. g \in [S -> Int]
    BY <1>2, <2>4
  <2> QED
    BY <2>0, <2>4, <2>5 DEF Product
<1>3. ProductSet(D) = (CHOOSE g : Follows(g))[D]
  BY Zenon DEF ProductSet, FoldSet, MapThenFoldSet, AnyOf
<1> QED
  BY <1>1, <1>2, <1>3

-----------------------------------------------------------------------------
(* The factorial. *)

LEMMA FactValues ==
  /\ \A n \in Int : Fact(n) \in Int
  /\ \A n \in Int : Fact(n) = IF n < 1 THEN 1 ELSE n * Fact(n - 1)
<1> DEFINE rank == [k \in Int |-> IF k < 1 THEN 0 ELSE k]
           prev == [k \in Int |-> k - 1]
           rule == [p \in Int \X Int |-> IF p[1] < 1 THEN 1 ELSE p[1] * p[2]]
           Follows(f) == f = [k \in Int |-> IF k < 1 THEN 1 ELSE k * f[k - 1]]
<1>1. rank \in [Int -> Nat] /\ prev \in [Int -> Int] /\ rule \in [Int \X Int -> Int]
  BY SMT
<1>2. \A k \in Int : \/ rank[prev[k]] < rank[k]
                     \/ \A m, n \in Int : rule[<<k, m>>] = rule[<<k, n>>]
  BY SMT
<1>3. \A k, m \in Int : rule[<<k, m>>] = IF k < 1 THEN 1 ELSE k * m
  BY SMT
<1>4. \A k \in Int : prev[k] = k - 1 /\ prev[k] \in Int /\ (k >= 1 => rank[k - 1] < rank[k])
  BY SMT
<1>5. Int # {}
  BY SMT
<1>6. \E f : Follows(f)
  <2> HIDE DEF rank, prev, rule
  <2>1. WellRanked(Int, Int, rank, prev, rule)
    BY <1>1, <1>2, <1>5, Zenon DEF WellRanked
  <2>2. PICK f \in [Int -> Int] : Obeys(f, Int, prev, rule)
    BY <2>1, Recursion, Zenon
  <2>3. \A k \in Int : f[k] = IF k < 1 THEN 1 ELSE k * f[k - 1]
    <3> SUFFICES ASSUME NEW k \in Int PROVE f[k] = IF k < 1 THEN 1 ELSE k * f[k - 1]
      OBVIOUS
    <3>1. f[k] = rule[<<k, f[prev[k]]>>] /\ prev[k] = k - 1 /\ f[prev[k]] \in Int
      BY <1>4, <2>2 DEF Obeys
    <3> QED
      BY <1>3, <3>1
  <2> QED
    BY <2>3
<1>7. ASSUME NEW f, Follows(f)
      PROVE  \A k \in Int : f[k] \in Int /\ f[k] = IF k < 1 THEN 1 ELSE k * f[k - 1]
  <2>1. \A k \in Int : f[k] = IF k < 1 THEN 1 ELSE k * f[k - 1]
    BY <1>7
  <2> DEFINE P == {k \in Int : f[k] \in Int}
  <2>2. ASSUME NEW k \in Int, \A m \in Int : rank[m] < rank[k] => m \in P
        PROVE  k \in P
    <3>1. CASE k < 1
      <4>1. f[k] = 1
        BY <2>1, <3>1, Zenon
      <4> QED
        BY <4>1
    <3>2. CASE ~(k < 1)
      <4>1. k - 1 \in Int /\ rank[k - 1] < rank[k]
        BY <1>4, <3>2
      <4>2. f[k - 1] \in Int
        BY <2>2, <4>1
      <4>3. f[k] = k * f[k - 1]
        BY <2>1, <3>2
      <4> QED
        BY <4>2, <4>3
    <3> QED
      BY <3>1, <3>2
  <2> HIDE DEF rank, P
  <2>3. P = Int
    <3>1. Inductive(Int, rank, P)
      BY <1>1, <2>2, Zenon DEF Inductive, P
    <3> QED
      BY <3>1, RankInduction
  <2> QED
    BY <2>1, <2>3 DEF P
<1> DEFINE F == CHOOSE f : Follows(f)
<1>8. \A n : Fact(n) = F[n]
  BY Zenon DEF Fact
<1>9. Follows(F)
  BY <1>6, Zenon
<1> HIDE DEF F, Follows
<1>10. \A k \in Int : F[k] \in Int /\ F[k] = IF k < 1 THEN 1 ELSE k * F[k - 1]
  BY <1>7, <1>9
<1> QED
  BY <1>8, <1>10

\* What the server computes is the product of the numbers from 1 to the input.
LEMMA FactIsProduct ==
  ASSUME NEW n \in Int
  PROVE  Fact(n) = ProductSet(1..n)
<1> DEFINE D == 1..n
<1>1. D \in SUBSET Int /\ IsFiniteSet(D)
  BY FS_Interval
<1>2. PICK g : Product(g, D) /\ ProductSet(D) = g[D]
  BY <1>1, Products
<1>3. CASE n < 1
  <2>1. D = {}
    BY <1>3
  <2> QED
    BY <1>2, <1>3, <2>1, FactValues DEF Product
<1>4. CASE ~(n < 1)
  <2> DEFINE K == {k \in Nat : k <= n => Fact(k) = g[1..k]}
  <2>1. 0 \in K
    <3>1. 1..0 = {}
      OBVIOUS
    <3>2. Fact(0) = 1
      BY FactValues
    <3> QED
      BY <1>2, <3>1, <3>2 DEF Product
  <2>2. ASSUME NEW k \in K PROVE k + 1 \in K
    <3> SUFFICES ASSUME k + 1 <= n PROVE Fact(k + 1) = g[1..k+1]
      OBVIOUS
    <3>1. Fact(k) = g[1..k]
      OBVIOUS
    <3>2. 1..k+1 \in SUBSET D /\ k + 1 \in 1..k+1 /\ (1..k+1) \ {k + 1} = 1..k
      OBVIOUS
    <3>3. g[1..k+1] = (k + 1) * g[1..k]
      <4> DEFINE I == 1..k+1
      <4>1. I \in SUBSET D /\ k + 1 \in I /\ I \ {k + 1} = 1..k
        BY <3>2
      <4> HIDE DEF I
      <4>2. \A T \in SUBSET D : \A x \in T : g[T] = x * g[T \ {x}]
        BY <1>2, Zenon DEF Product
      <4>3. g[I] = (k + 1) * g[I \ {k + 1}]
        BY <4>1, <4>2, Zenon
      <4> QED
        BY <4>1, <4>3, Zenon DEF I
    <3>4. k + 1 \in Int /\ ~(k + 1 < 1) /\ k + 1 - 1 = k
      OBVIOUS
    <3>5. Fact(k + 1) = (k + 1) * Fact(k)
      BY <3>4, FactValues
    <3> QED
      BY <3>1, <3>3, <3>5
  <2> HIDE DEF K
  <2>3. K = Nat
    <3>1. K \in SUBSET Nat
      BY DEF K
    <3> QED
      BY <2>1, <2>2, <3>1, SetInduction
  <2>4. n \in K
    BY <1>4, <2>3
  <2> QED
    BY <1>2, <2>4 DEF K
<1> QED
  BY <1>3, <1>4

\* What is left of a number in a char.
LEMMA LowBytes ==
  ASSUME NEW n \in Int
  PROVE  LowByte(n) \in -128..127 /\ (LowByte(n) - n) % 256 = 0
<1> DEFINE m == n + 128
           q == m \div 256
           r == m % 256
<1>1. m \in Int
  OBVIOUS
<1> HIDE DEF m
<1>2. q \in Int /\ r \in 0..255
  BY <1>1, SMT
<1>3. m = 256 * q + r
  BY <1>1, SMT
<1>4. LowByte(n) = r - 128
  BY DEF LowByte, m
<1> HIDE DEF q, r
<1>5. LowByte(n) - n = 256 * (0 - q) /\ LowByte(n) \in -128..127
  BY <1>2, <1>3, <1>4, SMT DEF m
<1>6. (256 * (0 - q)) % 256 = 0
  BY <1>2, SMT
<1> QED
  BY <1>5, <1>6

-----------------------------------------------------------------------------
(* The queue. *)

Started == {p \in FactProcs : qpc[p] # "msgget"}

Message == [kind : {"request", "reply"}, val : Value]

\* A queue is created by a process that starts, requests are inputs, and so is what a server
\* computes with, unless it took an answer.
FactTypes ==
  /\ FactTypeOK
  /\ queues <= Cardinality(Started)
  /\ \A k \in DOMAIN queue : queue[k].kind = "request" => queue[k].val \in Inputs
  /\ \A s \in Servers : qpc[s] = "answer" => input[s] \in Inputs \cup {Unknown}
  /\ \A c \in Clients : input[c] # Unknown

Active(c)  == qpc[c] \in {"send", "recv", "remove"}
Waiting(c) == qpc[c] \in {"recv", "remove"}

\* What is on its way is c's number and its factorial.
OwnMessages(c) ==
  /\ \A k \in DOMAIN queue : queue[k] \in {Request(input[c]), Reply(LowByte(Fact(input[c])))}
  /\ \A s \in Servers : qpc[s] = "answer" /\ Has(s) => input[s] = input[c]

Quiet == queue = <<>> /\ \A s \in Servers : ~(qpc[s] = "answer" /\ Has(s))

\* One client at a time, whose queue is not removed by another; without a client that has
\* sent nothing is on its way.
Undisturbed ==
  /\ \A c, d \in Clients : Active(c) /\ Active(d) => c = d
  /\ \A c \in Clients : Active(c) => Has(c)
  /\ Quiet \/ \E c \in Clients : Waiting(c) /\ OwnMessages(c)

PrintedOwn == \A c \in Clients : printed[c] \in {Nothing, input[c], LowByte(Fact(input[c]))}

PrintedLast == \A c \in Clients : printed[c] # Nothing => qpc[c] \in {"remove", "done"}

FactInv ==
  FactTypes /\ PrintedLast /\ (alone /\ ~robbed => Undisturbed /\ PrintedOwn)

LEMMA Values ==
  /\ Inputs \subseteq Value /\ Unknown \in Value /\ Unknown \notin Inputs
  /\ \A n \in Inputs : LowByte(Fact(n)) \in Value
  BY FactAssumption DEF Value, Unknown

LEMMA StartedGrows ==
  ASSUME FactTypeOK, NEW p \in FactProcs, qpc[p] = "msgget", NEW to, to # "msgget",
         qpc' = [qpc EXCEPT ![p] = to]
  PROVE  /\ Cardinality(Started) \in Nat /\ Cardinality(Started') = Cardinality(Started) + 1
         /\ Cardinality(FactProcs) \in Nat
         /\ Cardinality(Started') <= Cardinality(FactProcs)
<1>1. IsFiniteSet(Started) /\ p \notin Started /\ Started' = Started \cup {p}
      /\ Started' \subseteq FactProcs
  <2>1. Started \subseteq FactProcs /\ IsFiniteSet(FactProcs)
    BY FactAssumption DEF Started
  <2> QED
    BY <2>1, FS_Subset DEF Started, FactTypeOK
<1> QED
  BY <1>1, FactAssumption, FS_AddElement, FS_Subset, FS_CardinalityType

LEMMA StartedStays ==
  ASSUME FactTypeOK, NEW p \in FactProcs, qpc[p] # "msgget", NEW to, to # "msgget",
         qpc' = [qpc EXCEPT ![p] = to]
  PROVE  Cardinality(Started') = Cardinality(Started)
<1>1. Started' = Started
  BY DEF Started, FactTypeOK
<1> QED
  BY <1>1

LEMMA FactTypesMsgGet ==
  ASSUME FactTypes, NEW p \in FactProcs, MsgGet(p)
  PROVE  FactTypes'
<1> USE DEF FactTypes
<1>1. /\ qpc' = [qpc EXCEPT ![p] = IF p \in Clients THEN "send" ELSE "recv"]
      /\ msqid' = [msqid EXCEPT ![p] = queues']
      /\ UNCHANGED <<input, printed, robbed>>
  BY DEF MsgGet, FactGo
<1>2. \/ UNCHANGED <<there, queues, queue>>
      \/ there' = TRUE /\ queues' = queues + 1 /\ queue' = <<>>
  BY DEF MsgGet
<1>3. queues \in Nat /\ queues' \in Nat /\ queues <= queues' /\ queues' <= queues + 1
  BY <1>2 DEF FactTypeOK
<1>4. /\ Cardinality(Started) \in Nat /\ Cardinality(Started') = Cardinality(Started) + 1
      /\ Cardinality(FactProcs) \in Nat /\ Cardinality(Started') <= Cardinality(FactProcs)
  BY <1>1, StartedGrows DEF MsgGet
<1>5. queues' <= Cardinality(Started') /\ queues' \in 0..Cardinality(FactProcs)
  BY <1>3, <1>4
<1>6. msqid' \in [FactProcs -> 0..queues']
  <2>1. \A q \in FactProcs : msqid[q] \in 0..queues' /\ queues' \in 0..queues'
    BY <1>3 DEF FactTypeOK
  <2> QED
    BY <1>1, <2>1 DEF FactTypeOK
<1>7. queue' = queue \/ queue' = <<>>
  BY <1>2
<1>8. queue' \in Seq(Message)
  <2>1. queue \in Seq(Message) /\ <<>> \in Seq(Message)
    BY DEF FactTypeOK, Message
  <2> QED
    BY <1>7, <2>1
<1>9. alone' \in BOOLEAN /\ there' \in BOOLEAN
  BY <1>2, Zenon DEF MsgGet, FactTypeOK
<1>10. FactTypeOK'
  BY <1>1, <1>5, <1>6, <1>8, <1>9 DEF FactTypeOK, Message, Value
<1>11. \A k \in DOMAIN queue' : queue'[k].kind = "request" => queue'[k].val \in Inputs
  BY <1>7
<1>12. \A s \in Servers : qpc'[s] = "answer" => input'[s] \in Inputs \cup {Unknown}
  BY <1>1 DEF FactTypeOK, FactProcs
<1> QED
  BY <1>1, <1>5, <1>10, <1>11, <1>12

LEMMA FactTypesSend ==
  ASSUME FactTypes, NEW c \in Clients, Send(c)
  PROVE  FactTypes'
<1> USE DEF FactTypes
<1>1. PICK n \in Inputs : /\ input' = [input EXCEPT ![c] = n]
                          /\ queue' = IF Has(c) THEN Append(queue, Request(n)) ELSE queue
  BY DEF Send
<1>2. /\ qpc' = [qpc EXCEPT ![c] = IF Has(c) THEN "recv" ELSE "done"]
      /\ UNCHANGED <<msqid, queues, there, printed, alone, robbed>>
      /\ qpc[c] = "send"
  BY DEF Send, FactGo
<1>3. c \in FactProcs /\ c \notin Servers
  BY FactAssumption DEF FactProcs
<1>4. Request(n) \in Message /\ Request(n).val \in Inputs /\ queue \in Seq(Message)
  BY Values DEF Request, Message, FactTypeOK
<1>5. queue' \in Seq(Message)
  BY <1>1, <1>4
<1>6. \A k \in DOMAIN queue' : queue'[k].kind = "request" => queue'[k].val \in Inputs
  BY <1>1, <1>4
<1>7. Cardinality(Started') = Cardinality(Started)
  BY <1>2, <1>3, StartedStays
<1>8. FactTypeOK'
  BY <1>1, <1>2, <1>3, <1>5 DEF FactTypeOK, Message, Value
<1>9. \A d \in Clients : input'[d] # Unknown
  BY <1>1, <1>3, Values DEF FactTypeOK, FactProcs
<1> QED
  BY <1>1, <1>2, <1>3, <1>6, <1>7, <1>8, <1>9 DEF FactTypeOK, FactProcs

LEMMA FactTypesTake ==
  ASSUME FactTypes, NEW p \in FactProcs, NEW to \in {"remove", "answer"}, Take(p, to),
         to = "answer" => p \in Servers /\ (Has(p) => input'[p] \in Inputs \cup {Unknown}),
         \A q \in FactProcs \ {p} : input'[q] = input[q],
         p \in Clients => input'[p] = input[p],
         input' \in [FactProcs -> Inputs \cup {0, Unknown}],
         printed' \in [Clients -> Value \cup {Nothing}], robbed' \in BOOLEAN
  PROVE  FactTypes'
<1> USE DEF FactTypes
<1>1. /\ qpc' = [qpc EXCEPT ![p] = IF Has(p) THEN to ELSE "done"]
      /\ UNCHANGED <<msqid, queues, there, alone>>
      /\ qpc[p] = "recv"
  BY DEF Take, FactGo
<1>2. queue \in Seq(Message)
  BY DEF FactTypeOK, Message
<1>3. queue' = queue \/ (queue # <<>> /\ queue' = Tail(queue))
  BY DEF Take
<1>4. /\ queue' \in Seq(Message)
      /\ \A k \in DOMAIN queue' : \E j \in DOMAIN queue : queue'[k] = queue[j]
  <2>1. CASE queue' = queue
    BY <1>2, <2>1
  <2>2. CASE queue # <<>> /\ queue' = Tail(queue)
    <3>1. Len(queue) \in Nat /\ Len(queue) > 0 /\ Tail(queue) \in Seq(Message)
          /\ Len(Tail(queue)) = Len(queue) - 1
      BY <1>2, <2>2
    <3>2. \A k \in 1..Len(Tail(queue)) : Tail(queue)[k] = queue[k + 1] /\ k + 1 \in 1..Len(queue)
      BY <1>2, <3>1
    <3> QED
      BY <1>2, <2>2, <3>1, <3>2
  <2> QED
    BY <1>3, <2>1, <2>2
<1>5. Cardinality(Started') = Cardinality(Started)
  <2>1. (IF Has(p) THEN to ELSE "done") # "msgget"
    OBVIOUS
  <2> QED
    BY <1>1, <2>1, StartedStays
<1>6. FactTypeOK'
  BY <1>1, <1>4 DEF FactTypeOK, Message, Value
<1>7. \A s \in Servers : qpc'[s] = "answer" => input'[s] \in Inputs \cup {Unknown}
  <2> SUFFICES ASSUME NEW s \in Servers, qpc'[s] = "answer"
               PROVE  input'[s] \in Inputs \cup {Unknown}
    OBVIOUS
  <2>1. s \in FactProcs
    BY DEF FactProcs
  <2>2. CASE s = p
    BY <1>1, <2>1, <2>2 DEF FactTypeOK
  <2>3. CASE s # p
    BY <1>1, <2>1, <2>3 DEF FactTypeOK
  <2> QED
    BY <2>2, <2>3
<1>8. \A c \in Clients : input'[c] # Unknown
  BY DEF FactProcs
<1>9. \A k \in DOMAIN queue' : queue'[k].kind = "request" => queue'[k].val \in Inputs
  BY <1>4
<1> QED
  BY <1>1, <1>5, <1>6, <1>7, <1>8, <1>9

LEMMA FactTypesReceive ==
  ASSUME FactTypes, NEW c \in Clients, Receive(c)
  PROVE  FactTypes'
<1>1. c \in FactProcs
  BY DEF FactProcs
<1>2. Has(c) => Head(queue).val \in Value
  <2> SUFFICES ASSUME Has(c) PROVE Head(queue).val \in Value
    OBVIOUS
  <2>1. queue # <<>> /\ queue \in Seq(Message)
    BY DEF Receive, Take, FactTypes, FactTypeOK, Message
  <2>2. Head(queue) \in Message
    BY <2>1
  <2> QED
    BY <2>2 DEF Message
<1>3. printed' \in [Clients -> Value \cup {Nothing}]
  BY <1>2 DEF Receive, FactTypes, FactTypeOK
<1> QED
  BY <1>1, <1>3, FactTypesTake DEF Receive, FactTypes, FactTypeOK

LEMMA FactTypesServerReceive ==
  ASSUME FactTypes, NEW s \in Servers, ServerReceive(s)
  PROVE  FactTypes'
<1>1. s \in FactProcs /\ s \notin Clients
  BY FactAssumption DEF FactProcs
<1>2. Has(s) => Head(queue) = queue[1] /\ 1 \in DOMAIN queue
  BY DEF ServerReceive, Take, FactTypes, FactTypeOK
<1> DEFINE n == IF Head(queue).kind = "request" THEN Head(queue).val ELSE Unknown
<1>3. Has(s) => n \in Inputs \cup {Unknown}
  BY <1>2 DEF FactTypes
<1>4. input' = IF ~Has(s) THEN input ELSE [input EXCEPT ![s] = n]
  BY DEF ServerReceive
<1> HIDE DEF n
<1>5. input' \in [FactProcs -> Inputs \cup {0, Unknown}] /\ robbed' \in BOOLEAN
      /\ (Has(s) => input'[s] \in Inputs \cup {Unknown})
      /\ \A q \in FactProcs \ {s} : input'[q] = input[q]
  <2>1. robbed' \in BOOLEAN
    BY Zenon DEF ServerReceive
  <2> QED
    BY <1>1, <1>3, <1>4, <2>1 DEF FactTypes, FactTypeOK
<1>6. Take(s, "answer") /\ printed' = printed
  BY DEF ServerReceive
<1>7. printed' \in [Clients -> Value \cup {Nothing}]
  BY <1>6 DEF FactTypes, FactTypeOK
<1> QED
  BY <1>1, <1>5, <1>6, <1>7, FactTypesTake

LEMMA FactTypesRemove ==
  ASSUME FactTypes, NEW c \in Clients, Remove(c)
  PROVE  FactTypes'
<1> USE DEF FactTypes
<1>1. /\ qpc' = [qpc EXCEPT ![c] = "done"] /\ qpc[c] = "remove"
      /\ UNCHANGED <<msqid, queues, input, printed, alone, robbed>>
      /\ queue' = queue \/ queue' = <<>>
  BY DEF Remove, FactGo
<1>2. there' \in BOOLEAN
  BY Zenon DEF Remove, FactTypeOK
<1>3. c \in FactProcs
  BY DEF FactProcs
<1>4. Cardinality(Started') = Cardinality(Started)
  BY <1>1, <1>3, StartedStays
<1>5. queue' \in Seq(Message)
  <2>1. queue \in Seq(Message) /\ <<>> \in Seq(Message)
    BY DEF FactTypeOK, Message
  <2> QED
    BY <1>1, <2>1
<1>6. FactTypeOK'
  BY <1>1, <1>2, <1>3, <1>5 DEF FactTypeOK, Message, Value
<1> QED
  BY <1>1, <1>4, <1>6 DEF FactTypeOK, FactProcs

LEMMA FactTypesAnswer ==
  ASSUME FactTypes, NEW s \in Servers, Answer(s)
  PROVE  FactTypes'
<1> USE DEF FactTypes
<1> DEFINE v == IF input[s] = Unknown THEN Unknown ELSE LowByte(Fact(input[s]))
<1>1. /\ qpc' = [qpc EXCEPT ![s] = "done"] /\ qpc[s] = "answer"
      /\ UNCHANGED <<msqid, queues, there, input, printed, alone, robbed>>
      /\ queue' = queue \/ queue' = Append(queue, Reply(v))
  BY DEF Answer, FactGo
<1>2. s \in FactProcs
  BY DEF FactProcs
<1>3. Cardinality(Started') = Cardinality(Started)
  BY <1>1, <1>2, StartedStays
<1>4. v \in Value
  BY <1>1, Values
<1> HIDE DEF v
<1>5. Reply(v) \in Message /\ Reply(v).kind # "request" /\ queue \in Seq(Message)
  BY <1>4 DEF Reply, Message, FactTypeOK
<1>6. /\ queue' \in Seq(Message)
      /\ \A k \in DOMAIN queue' : queue'[k].kind = "request" => queue'[k].val \in Inputs
  <2>1. CASE queue' = queue
    BY <1>5, <2>1
  <2>2. CASE queue' = Append(queue, Reply(v))
    BY <1>5, <2>2
  <2> QED
    BY <1>1, <2>1, <2>2
<1>7. FactTypeOK'
  BY <1>1, <1>2, <1>6 DEF FactTypeOK, Message, Value
<1> QED
  BY <1>1, <1>3, <1>6, <1>7 DEF FactTypeOK, FactProcs

LEMMA FactTypesStep == FactTypes /\ [FactNext]_factVars => FactTypes'
<1> SUFFICES ASSUME FactTypes, [FactNext]_factVars PROVE FactTypes'
  OBVIOUS
<1>1. \A p \in FactProcs : MsgGet(p) => FactTypes'
  BY FactTypesMsgGet
<1>2. \A c \in Clients : Send(c) \/ Receive(c) \/ Remove(c) => FactTypes'
  BY FactTypesSend, FactTypesReceive, FactTypesRemove
<1>3. \A s \in Servers : ServerReceive(s) \/ Answer(s) => FactTypes'
  BY FactTypesServerReceive, FactTypesAnswer
<1>4. CASE UNCHANGED factVars
  <2>1. UNCHANGED <<qpc, msqid, queues, queue, there, input, printed, alone, robbed>>
    BY <1>4 DEF factVars
  <2>2. Started' = Started
    BY <2>1 DEF Started
  <2> QED
    BY <2>1, <2>2 DEF FactTypes, FactTypeOK, Value
<1> QED
  BY <1>1, <1>2, <1>3, <1>4 DEF FactNext, Client, Server, FactProcs

\* What an undisturbed exchange is about: a process that is not p and has a queue that is
\* not created anew keeps it.
LEMMA QuietStays ==
  ASSUME FactTypes, Quiet, queue' = <<>>, queues' \in Nat,
         \/ UNCHANGED <<there, queues>>
         \/ queues' = queues + 1
         \/ ~there',
         \A s \in Servers : qpc'[s] = "answer" => qpc[s] = "answer" /\ msqid'[s] = msqid[s]
  PROVE  Quiet'
<1> SUFFICES ASSUME NEW s \in Servers, qpc'[s] = "answer", there', msqid'[s] = queues'
             PROVE  FALSE
  BY DEF Quiet, Has
<1>1. qpc[s] = "answer" /\ msqid[s] = queues'
  OBVIOUS
<1>2. msqid[s] \in 0..queues /\ queues \in Nat
  BY DEF FactTypes, FactTypeOK, FactProcs
<1>3. CASE UNCHANGED <<there, queues>>
  BY <1>1, <1>3 DEF Quiet, Has
<1>4. CASE queues' = queues + 1
  BY <1>1, <1>2, <1>4
<1> QED
  BY <1>3, <1>4

LEMMA AloneMsgGet ==
  ASSUME FactInv, FactTypes', NEW p \in FactProcs, MsgGet(p), alone', ~robbed'
  PROVE  Undisturbed'
<1>1. /\ qpc' = [qpc EXCEPT ![p] = IF p \in Clients THEN "send" ELSE "recv"]
      /\ msqid' = [msqid EXCEPT ![p] = queues'] /\ qpc[p] = "msgget"
      /\ UNCHANGED <<input, printed, robbed>>
      /\ p \in Clients => \A c \in Clients : qpc[c] \in {"msgget", "done"}
      /\ alone /\ there'
  <2>1. there'
    BY Zenon DEF MsgGet, FactInv, FactTypes, FactTypeOK
  <2>2. alone /\ (p \in Clients => \A c \in Clients : qpc[c] \in {"msgget", "done"})
    BY Zenon DEF MsgGet
  <2> QED
    BY <2>1, <2>2 DEF MsgGet, FactGo
<1>2. IF there THEN UNCHANGED <<there, queues, queue>>
               ELSE queues' = queues + 1 /\ queue' = <<>>
  BY DEF MsgGet
<1>3. Undisturbed
  BY <1>1 DEF FactInv
<1>4. \A q \in FactProcs \ {p} : qpc'[q] = qpc[q] /\ msqid'[q] = msqid[q]
  BY <1>1 DEF FactInv, FactTypes, FactTypeOK
<1>5. msqid'[p] = queues' /\ qpc'[p] \in {"send", "recv"} /\ (p \in Servers => qpc'[p] = "recv")
      /\ (p \in Clients => qpc'[p] = "send")
  BY <1>1, FactAssumption DEF FactInv, FactTypes, FactTypeOK
<1>6. \A c \in Clients : c \in FactProcs /\ (Active(c)' => Active(c) \/ c = p)
  BY <1>4 DEF Active, FactProcs
<1>7. p \in Clients => \A c \in Clients : ~Active(c)
  BY <1>1 DEF Active
<1>8. \A c, d \in Clients : Active(c)' /\ Active(d)' => c = d
  BY <1>3, <1>6, <1>7 DEF Undisturbed
<1>9. ASSUME NEW c \in Clients, Active(c)' PROVE Has(c)'
  <2>1. CASE c = p
    BY <1>1, <1>5, <2>1 DEF Has
  <2>2. CASE c # p
    <3>1. Has(c) /\ c \in FactProcs
      BY <1>3, <1>6, <1>9, <2>2 DEF Undisturbed
    <3> QED
      BY <1>2, <1>4, <2>2, <3>1 DEF Has
  <2> QED
    BY <2>1, <2>2
<1>10. CASE Quiet
  <2>1. queue' = <<>> /\ queues' \in Nat /\ (UNCHANGED <<there, queues>> \/ queues' = queues + 1)
    BY <1>2, <1>10 DEF Quiet, FactTypes, FactTypeOK
  <2>2. \A s \in Servers : qpc'[s] = "answer" => qpc[s] = "answer" /\ msqid'[s] = msqid[s]
    BY <1>4, <1>5 DEF FactProcs
  <2>3. Quiet'
    BY <1>10, <2>1, <2>2, QuietStays DEF FactInv
  <2> QED
    BY <1>8, <1>9, <2>3 DEF Undisturbed
<1>11. CASE \E c \in Clients : Waiting(c) /\ OwnMessages(c)
  <2>1. PICK c \in Clients : Waiting(c) /\ OwnMessages(c)
    BY <1>11
  <2>2. Active(c) /\ Has(c) /\ there /\ c # p
    BY <1>3, <1>7, <2>1 DEF Active, Waiting, Undisturbed, Has
  <2>3. UNCHANGED <<there, queues, queue, input>>
    BY <1>1, <1>2, <2>2
  <2>4. Waiting(c)'
    BY <1>4, <2>1, <2>2 DEF Waiting, FactProcs
  <2>5. \A s \in Servers : (qpc'[s] = "answer" /\ Has(s)') => (qpc[s] = "answer" /\ Has(s))
    BY <1>4, <1>5, <2>3 DEF FactProcs, Has
  <2>6. OwnMessages(c)'
    BY <2>1, <2>3, <2>5 DEF OwnMessages
  <2> QED
    BY <1>8, <1>9, <2>4, <2>6 DEF Undisturbed
<1> QED
  BY <1>3, <1>10, <1>11 DEF Undisturbed

\* A client that has sent nothing finds the queue empty; and one that is there alone is
\* the one whose messages are on their way.
LEMMA Whose ==
  ASSUME Undisturbed, NEW c \in Clients, Active(c)
  PROVE  Has(c) /\ (Quiet \/ (Waiting(c) /\ OwnMessages(c)))
<1>1. \A d \in Clients : Waiting(d) => d = c
  BY DEF Undisturbed, Active, Waiting
<1> QED
  BY <1>1 DEF Undisturbed

LEMMA AloneSend ==
  ASSUME FactInv, FactTypes', NEW c \in Clients, Send(c), alone', ~robbed'
  PROVE  Undisturbed'
<1>1. Undisturbed /\ Active(c) /\ ~Waiting(c)
  BY DEF Send, FactInv, Active, Waiting
<1>2. Has(c) /\ Quiet
  BY <1>1, Whose
<1>3. PICK n \in Inputs : input' = [input EXCEPT ![c] = n] /\ queue' = Append(queue, Request(n))
  BY <1>2 DEF Send
<1>4. /\ qpc' = [qpc EXCEPT ![c] = "recv"]
      /\ UNCHANGED <<msqid, queues, there>>
      /\ qpc[c] = "send"
  BY <1>2 DEF Send, FactGo
<1>5. c \in FactProcs /\ c \notin Servers
  BY FactAssumption DEF FactProcs
<1>6. qpc'[c] = "recv" /\ input'[c] = n /\ \A q \in FactProcs \ {c} : qpc'[q] = qpc[q]
  BY <1>3, <1>4, <1>5 DEF FactInv, FactTypes, FactTypeOK
<1>7. queue' = <<Request(n)>>
  BY <1>2, <1>3 DEF Quiet
<1>8. \A d : Has(d)' <=> Has(d)
  BY <1>4 DEF Has
<1>9. OwnMessages(c)'
  <2>1. \A k \in DOMAIN queue' : queue'[k] = Request(input'[c])
    BY <1>6, <1>7
  <2>2. \A s \in Servers : ~(qpc'[s] = "answer" /\ Has(s)')
    BY <1>2, <1>5, <1>6, <1>8 DEF Quiet, FactProcs
  <2>3. (Request(input[c]))' = Request(input'[c])
    BY DEF Request
  <2> QED
    BY <2>1, <2>2, <2>3 DEF OwnMessages
<1>10. \A d \in Clients : Active(d)' <=> Active(d)
  BY <1>4, <1>6 DEF Active, FactProcs
<1>11. Waiting(c)'
  BY <1>6 DEF Waiting
<1> QED
  BY <1>1, <1>8, <1>9, <1>10, <1>11 DEF Undisturbed

LEMMA AloneReceive ==
  ASSUME FactInv, FactTypes', NEW c \in Clients, Receive(c), alone', ~robbed'
  PROVE  /\ Undisturbed'
         /\ printed' = [printed EXCEPT ![c] = printed'[c]]
         /\ printed'[c] \in {input[c], LowByte(Fact(input[c]))}
<1>1. Undisturbed /\ Active(c) /\ Waiting(c)
  BY DEF Receive, Take, FactInv, Active, Waiting
<1>2. Has(c) /\ (Quiet \/ OwnMessages(c))
  BY <1>1, Whose
<1>3. queue # <<>> /\ queue' = Tail(queue) /\ qpc' = [qpc EXCEPT ![c] = "remove"]
      /\ UNCHANGED <<msqid, queues, there, input>>
      /\ printed' = [printed EXCEPT ![c] = Head(queue).val]
  BY <1>2 DEF Receive, Take, FactGo
<1>4. OwnMessages(c) /\ queue \in Seq(Message)
  BY <1>2, <1>3 DEF Quiet, FactInv, FactTypes, FactTypeOK, Message
<1>5. c \in FactProcs /\ c \notin Servers
  BY FactAssumption DEF FactProcs
<1>6. qpc'[c] = "remove" /\ \A q \in FactProcs \ {c} : qpc'[q] = qpc[q]
  BY <1>3, <1>5 DEF FactInv, FactTypes, FactTypeOK
<1>7. \A d : Has(d)' <=> Has(d)
  BY <1>3 DEF Has
<1>8. \A k \in DOMAIN queue' : \E j \in DOMAIN queue : queue'[k] = queue[j]
  <2>1. Len(queue) \in Nat /\ Len(queue) > 0 /\ Tail(queue) \in Seq(Message)
        /\ Len(Tail(queue)) = Len(queue) - 1
    BY <1>3, <1>4
  <2>2. \A k \in 1..Len(Tail(queue)) : Tail(queue)[k] = queue[k + 1] /\ k + 1 \in 1..Len(queue)
    BY <1>4, <2>1
  <2> QED
    BY <1>3, <1>4, <2>1, <2>2
<1>9. OwnMessages(c)'
  <2>1. \A s \in Servers : (qpc'[s] = "answer" /\ Has(s)') => (qpc[s] = "answer" /\ Has(s))
    BY <1>5, <1>6, <1>7 DEF FactProcs
  <2> QED
    BY <1>3, <1>4, <1>8, <2>1 DEF OwnMessages
<1>10. \A d \in Clients : Active(d)' <=> Active(d)
  BY <1>1, <1>6 DEF Active, FactProcs
<1>11. Undisturbed'
  <2>1. Waiting(c)'
    BY <1>6 DEF Waiting
  <2> QED
    BY <1>1, <1>7, <1>9, <1>10, <2>1 DEF Undisturbed
<1>12. Head(queue).val \in {input[c], LowByte(Fact(input[c]))}
  <2>1. Head(queue) = queue[1] /\ 1 \in DOMAIN queue
    BY <1>3, <1>4
  <2> QED
    BY <1>4, <2>1 DEF OwnMessages, Request, Reply
<1>13. printed'[c] = Head(queue).val
  BY <1>3 DEF FactInv, FactTypes, FactTypeOK
<1> QED
  BY <1>3, <1>11, <1>12, <1>13

LEMMA AloneRemove ==
  ASSUME FactInv, FactTypes', NEW c \in Clients, Remove(c), alone', ~robbed'
  PROVE  Undisturbed'
<1>1. Undisturbed /\ Active(c)
  BY DEF Remove, FactInv, Active
<1>2. Has(c)
  BY <1>1, Whose
<1>3. ~there' /\ queue' = <<>> /\ qpc' = [qpc EXCEPT ![c] = "done"]
  BY <1>2 DEF Remove, FactGo
<1>4. c \in FactProcs
  BY DEF FactProcs
<1>5. \A d \in Clients : ~Active(d)'
  <2> SUFFICES ASSUME NEW d \in Clients, Active(d)' PROVE FALSE
    OBVIOUS
  <2>1. d # c
    BY <1>3, <1>4 DEF Active, FactInv, FactTypes, FactTypeOK
  <2>2. Active(d)
    BY <1>3, <1>4, <2>1 DEF Active, FactInv, FactTypes, FactTypeOK
  <2> QED
    BY <1>1, <2>1, <2>2 DEF Undisturbed
<1>6. Quiet'
  BY <1>3 DEF Quiet, Has
<1> QED
  BY <1>5, <1>6 DEF Undisturbed

LEMMA AloneServerReceive ==
  ASSUME FactInv, FactTypes', NEW s \in Servers, ServerReceive(s), alone', ~robbed'
  PROVE  Undisturbed'
<1>1. UNCHANGED <<msqid, queues, there, alone, printed>> /\ alone
      /\ qpc' = [qpc EXCEPT ![s] = IF Has(s) THEN "answer" ELSE "done"] /\ qpc[s] = "recv"
  BY DEF ServerReceive, Take, FactGo
<1>2. ~robbed /\ ~(Has(s) /\ Head(queue).kind = "reply")
  BY Zenon DEF ServerReceive
<1>3. Undisturbed
  BY <1>1, <1>2 DEF FactInv
<1>4. s \in FactProcs /\ s \notin Clients
  BY FactAssumption DEF FactProcs
<1>5. \A q \in FactProcs \ {s} : qpc'[q] = qpc[q] /\ input'[q] = input[q]
  BY <1>1 DEF ServerReceive, FactInv, FactTypes, FactTypeOK
<1>6. \A d : Has(d)' <=> Has(d)
  BY <1>1 DEF Has
<1>7. \A d \in Clients : /\ (Active(d)' <=> Active(d)) /\ (Waiting(d)' <=> Waiting(d))
                          /\ input'[d] = input[d]
  BY <1>4, <1>5 DEF Active, Waiting, FactProcs
<1>8. CASE ~Has(s)
  <2>1. queue' = queue /\ input' = input
    BY <1>8 DEF ServerReceive, Take
  <2>2. \A q \in Servers : (qpc'[q] = "answer" /\ Has(q)') => (qpc[q] = "answer" /\ Has(q))
    BY <1>1, <1>5, <1>6, <1>8 DEF FactProcs
  <2>3. Quiet => Quiet'
    BY <2>1, <2>2 DEF Quiet
  <2>4. \A c \in Clients : OwnMessages(c) => OwnMessages(c)'
    BY <2>1, <2>2 DEF OwnMessages
  <2> QED
    BY <1>3, <1>6, <1>7, <2>3, <2>4 DEF Undisturbed
<1>9. CASE Has(s)
  <2>1. queue # <<>> /\ queue' = Tail(queue) /\ queue \in Seq(Message)
    BY <1>9 DEF ServerReceive, Take, FactInv, FactTypes, FactTypeOK, Message
  <2>2. PICK c \in Clients : Waiting(c) /\ OwnMessages(c)
    BY <1>3, <2>1 DEF Undisturbed, Quiet
  <2>3. Head(queue) = queue[1] /\ 1 \in DOMAIN queue
    BY <2>1
  <2>4. Head(queue) = Request(input[c])
    <3>1. Head(queue) \in {Request(input[c]), Reply(LowByte(Fact(input[c])))}
      BY <2>2, <2>3 DEF OwnMessages
    <3>2. Head(queue).kind # "reply"
      BY <1>2, <1>9
    <3> QED
      BY <3>1, <3>2 DEF Reply
  <2>5. input'[s] = input[c]
    BY <1>4, <1>9, <2>4 DEF ServerReceive, Request, FactInv, FactTypes, FactTypeOK
  <2>6. \A k \in DOMAIN queue' : \E j \in DOMAIN queue : queue'[k] = queue[j]
    <3>1. Len(queue) \in Nat /\ Len(queue) > 0 /\ Tail(queue) \in Seq(Message)
          /\ Len(Tail(queue)) = Len(queue) - 1
      BY <2>1
    <3>2. \A k \in 1..Len(Tail(queue)) : Tail(queue)[k] = queue[k + 1] /\ k + 1 \in 1..Len(queue)
      BY <2>1, <3>1
    <3> QED
      BY <2>1, <3>1, <3>2
  <2>7. \A q \in Servers : qpc'[q] = "answer" /\ Has(q)' => input'[q] = input'[c]
    <3> SUFFICES ASSUME NEW q \in Servers, qpc'[q] = "answer", Has(q)'
                 PROVE  input'[q] = input[c]
      BY <1>7
    <3>1. CASE q = s
      BY <2>5, <3>1
    <3>2. CASE q # s
      BY <1>5, <1>6, <2>2, <3>2 DEF OwnMessages, FactProcs
    <3> QED
      BY <3>1, <3>2
  <2>8. OwnMessages(c)'
    <3>1. \A k \in DOMAIN queue' :
            queue'[k] \in {Request(input'[c]), Reply(LowByte(Fact(input'[c])))}
      BY <1>7, <2>2, <2>6 DEF OwnMessages
    <3> QED
      BY <2>7, <3>1 DEF OwnMessages, Request, Reply, LowByte, Fact
  <2> QED
    BY <1>3, <1>6, <1>7, <2>2, <2>8 DEF Undisturbed
<1> QED
  BY <1>8, <1>9

LEMMA AloneAnswer ==
  ASSUME FactInv, FactTypes', NEW s \in Servers, Answer(s), alone', ~robbed'
  PROVE  Undisturbed'
<1>1. UNCHANGED <<msqid, queues, there, alone, printed, robbed, input>>
      /\ qpc' = [qpc EXCEPT ![s] = "done"] /\ qpc[s] = "answer"
  BY DEF Answer, FactGo
<1>2. Undisturbed
  BY <1>1 DEF FactInv
<1>3. s \in FactProcs /\ s \notin Clients
  BY FactAssumption DEF FactProcs
<1>4. \A q \in FactProcs \ {s} : qpc'[q] = qpc[q]
  BY <1>1 DEF FactInv, FactTypes, FactTypeOK
<1>5. \A d : Has(d)' <=> Has(d)
  BY <1>1 DEF Has
<1>6. \A d \in Clients : (Active(d)' <=> Active(d)) /\ (Waiting(d)' <=> Waiting(d))
  BY <1>3, <1>4 DEF Active, Waiting, FactProcs
<1>7. \A q \in Servers : (qpc'[q] = "answer" /\ Has(q)') => (qpc[q] = "answer" /\ Has(q))
  BY <1>1, <1>4, <1>5 DEF FactProcs
<1>8. CASE ~Has(s)
  <2>1. queue' = queue
    BY <1>8 DEF Answer
  <2>2. Quiet => Quiet'
    BY <2>1, <1>7 DEF Quiet
  <2>3. \A c \in Clients : OwnMessages(c) => OwnMessages(c)'
    BY <1>1, <1>7, <2>1 DEF OwnMessages
  <2> QED
    BY <1>2, <1>5, <1>6, <2>2, <2>3 DEF Undisturbed
<1>9. CASE Has(s)
  <2>1. PICK c \in Clients : Waiting(c) /\ OwnMessages(c)
    BY <1>1, <1>2, <1>9 DEF Undisturbed, Quiet
  <2>2. input[s] = input[c] /\ input[c] # Unknown
    BY <1>1, <1>9, <2>1 DEF OwnMessages, FactInv, FactTypes
  <2> DEFINE m == Reply(LowByte(Fact(input[c])))
  <2>3. queue' = Append(queue, m)
    BY <1>9, <2>2 DEF Answer
  <2> HIDE DEF m
  <2>4. \A k \in DOMAIN queue' : queue'[k] = m \/ (k \in DOMAIN queue /\ queue'[k] = queue[k])
    <3>1. queue \in Seq(Message)
      BY DEF FactInv, FactTypes, FactTypeOK, Message
    <3>2. input[c] \in Inputs
      BY <1>1, <2>2 DEF FactInv, FactTypes
    <3>3. m \in Message
      BY <3>2, Values DEF m, Reply, Message
    <3>4. /\ DOMAIN queue = 1..Len(queue) /\ DOMAIN Append(queue, m) = 1..Len(queue) + 1
          /\ Len(queue) \in Nat /\ Append(queue, m)[Len(queue) + 1] = m
          /\ \A k \in 1..Len(queue) : Append(queue, m)[k] = queue[k]
      BY <3>1, <3>3
    <3> QED
      BY <2>3, <3>4
  <2>5. OwnMessages(c)'
    BY <1>1, <1>7, <2>1, <2>4 DEF OwnMessages, m
  <2> QED
    BY <1>2, <1>5, <1>6, <2>1, <2>5 DEF Undisturbed
<1> QED
  BY <1>8, <1>9

LEMMA PrintedStays ==
  ASSUME FactInv, alone, ~robbed, printed' = printed,
         \A c \in Clients : printed[c] # Nothing => input'[c] = input[c]
  PROVE  PrintedOwn'
<1> SUFFICES ASSUME NEW c \in Clients, printed[c] # Nothing
             PROVE  printed[c] \in {input'[c], LowByte(Fact(input'[c]))}
  BY DEF PrintedOwn, LowByte, Fact
<1>1. input'[c] = input[c]
  OBVIOUS
<1>2. printed[c] \in {input[c], LowByte(Fact(input[c]))}
  BY DEF FactInv, PrintedOwn
<1> QED
  BY <1>1, <1>2

LEMMA FactInvClient ==
  ASSUME FactInv, FactTypes', NEW c \in Clients, MsgGet(c) \/ Send(c) \/ Receive(c) \/ Remove(c)
  PROVE  FactInv'
<1>1. c \in FactProcs /\ c \notin Servers
  BY FactAssumption DEF FactProcs
<1>2. alone' /\ ~robbed' => alone /\ ~robbed
  BY Zenon DEF MsgGet, Send, Receive, Remove, Take
<1>3. alone' /\ ~robbed' => Undisturbed'
  BY <1>1, AloneMsgGet, AloneSend, AloneReceive, AloneRemove
<1>4. \A q \in FactProcs \ {c} : qpc'[q] = qpc[q] /\ input'[q] = input[q]
  BY DEF MsgGet, Send, Receive, Remove, Take, FactGo, FactInv, FactTypes, FactTypeOK
<1>5. CASE MsgGet(c) \/ Send(c) \/ Remove(c)
  <2>1. /\ printed' = printed
        /\ qpc[c] \in {"msgget", "send"} \/ (input' = input /\ qpc'[c] = "done")
    BY <1>1, <1>5 DEF MsgGet, Send, Remove, FactGo, FactInv, FactTypes, FactTypeOK
  <2>2. PrintedLast'
    BY <1>1, <1>4, <2>1 DEF PrintedLast, FactInv, FactProcs
  <2>3. \A d \in Clients : printed[d] # Nothing => input'[d] = input[d]
    BY <1>1, <1>4, <2>1 DEF PrintedLast, FactInv, FactProcs
  <2> QED
    BY <1>2, <1>3, <2>1, <2>2, <2>3, PrintedStays DEF FactInv
<1>6. CASE Receive(c)
  <2>1. input' = input /\ \A d \in Clients \ {c} : printed'[d] = printed[d]
    BY <1>6 DEF Receive, FactInv, FactTypes, FactTypeOK
  <2>2. qpc'[c] \in {"remove", "done"}
    BY <1>1, <1>6 DEF Receive, Take, FactGo, FactInv, FactTypes, FactTypeOK
  <2>3. PrintedLast'
    BY <1>1, <1>4, <2>1, <2>2 DEF PrintedLast, FactInv, FactProcs
  <2>4. ASSUME alone', ~robbed' PROVE PrintedOwn'
    <3>1. printed'[c] \in {input[c], LowByte(Fact(input[c]))}
      BY <1>6, <2>4, AloneReceive
    <3>2. \A d \in Clients \ {c} : printed'[d] \in {Nothing, input[d], LowByte(Fact(input[d]))}
      BY <1>2, <2>1, <2>4 DEF FactInv, PrintedOwn
    <3> QED
      BY <2>1, <3>1, <3>2 DEF PrintedOwn
  <2> QED
    BY <1>3, <2>3, <2>4 DEF FactInv
<1> QED
  BY <1>5, <1>6

LEMMA FactInvServer ==
  ASSUME FactInv, FactTypes', NEW s \in Servers, MsgGet(s) \/ ServerReceive(s) \/ Answer(s)
  PROVE  FactInv'
<1>1. s \in FactProcs /\ s \notin Clients
  BY FactAssumption DEF FactProcs
<1>2. alone' /\ ~robbed' => alone /\ ~robbed
  BY Zenon DEF MsgGet, ServerReceive, Answer, Take
<1>3. alone' /\ ~robbed' => Undisturbed'
  BY <1>1, AloneMsgGet, AloneServerReceive, AloneAnswer
<1>4. printed' = printed
      /\ \A q \in FactProcs \ {s} : qpc'[q] = qpc[q] /\ input'[q] = input[q]
  BY DEF MsgGet, ServerReceive, Answer, Take, FactGo, FactInv, FactTypes, FactTypeOK
<1>5. \A c \in Clients : qpc'[c] = qpc[c] /\ input'[c] = input[c]
  BY <1>1, <1>4 DEF FactProcs
<1>6. PrintedLast'
  BY <1>4, <1>5 DEF PrintedLast, FactInv
<1> QED
  BY <1>2, <1>3, <1>4, <1>5, <1>6, PrintedStays DEF FactInv

LEMMA FactInitially == FactInit => FactInv
<1> SUFFICES ASSUME FactInit PROVE FactInv
  OBVIOUS
<1>1. Cardinality(FactProcs) \in Nat /\ Cardinality(Started) \in Nat
  <2>1. Started \subseteq FactProcs
    BY DEF Started
  <2> QED
    BY <2>1, FactAssumption, FS_Subset, FS_CardinalityType
<1>2. FactTypeOK
  <2>1. there \in BOOLEAN /\ alone \in BOOLEAN /\ robbed \in BOOLEAN
    BY Zenon DEF FactInit
  <2> QED
    BY <1>1, <2>1 DEF FactInit, FactTypeOK
<1>3. FactTypes
  BY <1>1, <1>2 DEF FactInit, FactTypes, FactProcs, Unknown
<1>4. Undisturbed
  BY DEF FactInit, Undisturbed, Active, Quiet, FactProcs
<1> QED
  BY <1>3, <1>4 DEF FactInit, FactInv, PrintedLast, PrintedOwn

LEMMA FactStep == FactInv /\ [FactNext]_factVars => FactInv'
<1> SUFFICES ASSUME FactInv, [FactNext]_factVars PROVE FactInv'
  OBVIOUS
<1>1. FactTypes'
  BY FactTypesStep DEF FactInv
<1>2. CASE FactNext
  BY <1>1, <1>2, FactInvClient, FactInvServer DEF FactNext, Client, Server
<1>3. CASE UNCHANGED factVars
  <2>1. UNCHANGED <<qpc, msqid, queues, queue, there, input, printed, alone, robbed>>
    BY <1>3 DEF factVars
  <2> QED
    BY <1>1, <2>1 DEF FactInv, PrintedLast, PrintedOwn, Undisturbed, Active, Waiting, Quiet,
       OwnMessages, Has, Request, Reply, LowByte, Fact
<1> QED
  BY <1>2, <1>3

LEMMA FactInvariance == FactSpec => []FactInv
  BY FactInitially, FactStep, PTL DEF FactSpec

\* For any number of clients and servers: a client that meets no other prints its own
\* number or the char that is its factorial modulo 256, if no server took the answer for
\* a request (facktorial2.c:55, facktorial1.c:61).
THEOREM AnswersOwn == FactSpec => []OwnAnswer
<1>1. FactInv => OwnAnswer
  <2> SUFFICES ASSUME FactInv, alone, ~robbed, NEW c \in Clients,
                      printed[c] \notin {Nothing, input[c]}
               PROVE  /\ printed[c] \in -128..127
                      /\ (printed[c] - ProductSet(1..input[c])) % 256 = 0
    BY DEF OwnAnswer
  <2>1. printed[c] = LowByte(Fact(input[c]))
    BY DEF FactInv, PrintedOwn
  <2>2. input[c] \in Int
    <3>1. input[c] \in Inputs \cup {0, Unknown}
      BY DEF FactInv, FactTypes, FactTypeOK, FactProcs
    <3>2. 0 \in Int /\ Unknown \in Int /\ \A n \in Inputs : n \in Int
      BY FactAssumption DEF Unknown
    <3> QED
      BY <3>1, <3>2, Zenon
  <2>3. Fact(input[c]) \in Int /\ Fact(input[c]) = ProductSet(1..input[c])
    BY <2>2, FactValues, FactIsProduct
  <2> QED
    BY <2>1, <2>3, LowBytes
<1> QED
  BY <1>1, FactInvariance, PTL

-----------------------------------------------------------------------------
(* The search for a file. *)

CallRecord == [dir : DOMAIN listing, next : Nat, buf : BOOLEAN, depth : 0..MaxDepth]

FindTypes ==
  /\ FindTypeOK
  /\ calls \in Seq(CallRecord) /\ (fpc \in {"open", "search"} => calls # <<>>)

\* What the file system is, of the listing of directory d.
LEMMA TreeFacts ==
  ASSUME listing \in Trees
  PROVE  /\ MaxDepth \in Nat /\ Wanted # Self
         /\ Cwd \in DOMAIN listing /\ NoDir \notin DOMAIN listing
         /\ \A d \in DOMAIN listing :
              /\ Len(listing[d]) \in Nat /\ DOMAIN listing[d] = 1..Len(listing[d])
              /\ \A k \in 1..Len(listing[d]) :
                   /\ listing[d][k].is = NoDir \/ listing[d][k].is \in DOMAIN listing
                   /\ listing[d][k].name = Self => listing[d][k].is = d
                   /\ listing[d][k].is = Cwd => listing[d][k].name = Self
                   /\ \A n \in 1..Len(listing[d]) : listing[d][k].name = listing[d][n].name => k = n
<1> DEFINE Entries == [name : STRING, is : {NoDir} \cup DOMAIN listing]
<1>1. /\ MaxDepth \in Nat /\ Wanted # Self /\ Cwd \in DOMAIN listing /\ NoDir \notin DOMAIN listing
      /\ \A d \in DOMAIN listing :
           /\ listing[d] \in Seq(Entries)
           /\ \A k, n \in DOMAIN listing[d] : listing[d][k].name = listing[d][n].name => k = n
           /\ \A k \in DOMAIN listing[d] : listing[d][k].name = Self => listing[d][k].is = d
           /\ \A k \in DOMAIN listing[d] : listing[d][k].is = Cwd => listing[d][k].name = Self
  BY TreeAssumption, Zenon
<1>2. ASSUME NEW d \in DOMAIN listing
      PROVE  /\ Len(listing[d]) \in Nat /\ DOMAIN listing[d] = 1..Len(listing[d])
             /\ \A k \in 1..Len(listing[d]) : listing[d][k] \in Entries
  <2>1. listing[d] \in Seq(Entries)
    BY <1>1
  <2> HIDE DEF Entries
  <2> QED
    BY <2>1
<1> QED
  BY <1>1, <1>2

\* The innermost call.
LEMMA TopFacts ==
  ASSUME FindTypes, calls # <<>>
  PROVE  /\ Len(calls) \in Nat \ {0} /\ DOMAIN calls = 1..Len(calls) /\ Top = calls[Len(calls)]
         /\ Top \in CallRecord /\ Top.dir \in DOMAIN listing
         /\ Top.next \in 1..Len(listing[Top.dir])+1 /\ Top.depth \in 0..MaxDepth
<1>1. calls \in Seq(CallRecord)
  BY DEF FindTypes
<1>2. Len(calls) \in Nat \ {0} /\ DOMAIN calls = 1..Len(calls) /\ Len(calls) \in DOMAIN calls
  BY <1>1
<1>3. Top \in CallRecord
  BY <1>1, <1>2 DEF Top
<1> QED
  BY <1>2, <1>3 DEF Top, FindTypes, FindTypeOK

LEMMA StatBoolean ==
  ASSUME FindTypes, calls # <<>>
  PROVE  Stat \in BOOLEAN
<1>1. Top.buf \in BOOLEAN
  BY TopFacts DEF CallRecord
<1> QED
  BY <1>1, Zenon DEF Stat

\* Another entry of the innermost call is passed.
LEMMA Advancing ==
  ASSUME FindTypes, Reading
  PROVE  /\ Advanced \in Seq(CallRecord) /\ Len(Advanced) = Len(calls)
         /\ \A k \in 1..Len(calls) :
              /\ k # Len(calls) => Advanced[k] = calls[k]
              /\ Advanced[k].dir = calls[k].dir /\ Advanced[k].depth = calls[k].depth
              /\ Advanced[k].buf \in BOOLEAN
              /\ Advanced[k].next \in 1..Len(listing[Advanced[k].dir])+1
         /\ Advanced[Len(calls)].next = Top.next + 1
<1> DEFINE n == Len(calls)
           r == [Top EXCEPT !.next = @ + 1, !.buf = Stat]
<1>1. calls \in Seq(CallRecord) /\ calls # <<>>
  BY DEF FindTypes, Reading
<1>2. /\ n \in Nat \ {0} /\ DOMAIN calls = 1..n /\ Top = calls[n] /\ Top \in CallRecord
      /\ Top.dir \in DOMAIN listing /\ Top.next \in 1..Len(listing[Top.dir])+1
  BY <1>1, TopFacts
<1>3. Stat \in BOOLEAN
  BY <1>1, StatBoolean
<1>4. Len(listing[Top.dir]) \in Nat /\ Top.next <= Len(listing[Top.dir])
  BY <1>2, TreeFacts DEF Reading, FindTypes, FindTypeOK
<1>5. /\ r \in CallRecord /\ r.dir = Top.dir /\ r.depth = Top.depth /\ r.buf \in BOOLEAN
      /\ r.next = Top.next + 1 /\ r.next \in 1..Len(listing[Top.dir])+1
  <2> HIDE DEF Stat
  <2> SUFFICES ASSUME NEW b \in BOOLEAN, b = Stat
               PROVE  LET q == [Top EXCEPT !.next = @ + 1, !.buf = b]
                      IN  /\ q \in CallRecord /\ q.dir = Top.dir /\ q.depth = Top.depth
                          /\ q.buf \in BOOLEAN /\ q.next = Top.next + 1
                          /\ q.next \in 1..Len(listing[Top.dir])+1
    BY <1>3, Zenon
  <2> DEFINE q == [Top EXCEPT !.next = @ + 1, !.buf = b]
  <2>1. q.dir = Top.dir /\ q.depth = Top.depth /\ q.buf = b /\ q.next = Top.next + 1
    BY <1>2 DEF CallRecord
  <2>2. Top.next \in Nat /\ Top.next + 1 \in 1..Len(listing[Top.dir])+1 /\ Top.next + 1 \in Nat
    BY <1>2, <1>4
  <2>3. q \in CallRecord
    BY <1>2, <2>2 DEF CallRecord
  <2> HIDE DEF q
  <2>4. /\ q \in CallRecord /\ q.dir = Top.dir /\ q.depth = Top.depth
        /\ q.buf \in BOOLEAN /\ q.next = Top.next + 1
        /\ q.next \in 1..Len(listing[Top.dir])+1
    BY <2>1, <2>2, <2>3
  <2> QED
    BY <2>4 DEF q
<1>6. Advanced = [calls EXCEPT ![n] = r]
  BY <1>2, Zenon DEF Advanced
<1> HIDE DEF r
<1>7. /\ Advanced \in Seq(CallRecord) /\ Len(Advanced) = n
      /\ \A k \in 1..n : Advanced[k] = IF k = n THEN r ELSE calls[k]
  BY <1>1, <1>2, <1>5, <1>6
<1>8. \A k \in 1..n : calls[k].buf \in BOOLEAN /\ calls[k].next \in 1..Len(listing[calls[k].dir])+1
  BY <1>2 DEF FindTypes, FindTypeOK
<1>9. ASSUME NEW k \in 1..n
      PROVE  /\ k # n => Advanced[k] = calls[k]
             /\ Advanced[k].dir = calls[k].dir /\ Advanced[k].depth = calls[k].depth
             /\ Advanced[k].buf \in BOOLEAN
             /\ Advanced[k].next \in 1..Len(listing[Advanced[k].dir])+1
  <2>1. CASE k = n
    <3>1. Advanced[k] = r /\ calls[k] = Top
      BY <1>2, <1>7, <2>1
    <3> QED
      BY <1>5, <2>1, <3>1
  <2>2. CASE k # n
    <3>1. Advanced[k] = calls[k]
      BY <1>7, <2>2
    <3> QED
      BY <1>8, <2>2, <3>1
  <2> QED
    BY <2>1, <2>2
<1>10. Advanced[n].next = Top.next + 1
  <2>1. n \in 1..n
    BY <1>2
  <2>2. Advanced[n] = r
    BY <1>7, <2>1, Zenon
  <2> QED
    BY <1>5, <2>2
<1> QED
  BY <1>7, <1>9, <1>10

LEMMA WithOneMore ==
  ASSUME NEW S, NEW s \in Seq(S), NEW e \in S
  PROVE  /\ Append(s, e) \in Seq(S) /\ Len(Append(s, e)) = Len(s) + 1
         /\ \A k \in 1..Len(s) : Append(s, e)[k] = s[k]
         /\ Append(s, e)[Len(s) + 1] = e
  OBVIOUS

LEMMA WithoutLast ==
  ASSUME NEW S, NEW s \in Seq(S), s # <<>>
  PROVE  /\ SubSeq(s, 1, Len(s) - 1) \in Seq(S) /\ Len(SubSeq(s, 1, Len(s) - 1)) = Len(s) - 1
         /\ \A k \in 1..Len(s)-1 : SubSeq(s, 1, Len(s) - 1)[k] = s[k]
<1> DEFINE n == Len(s) - 1
<1>1. n \in Nat /\ n \in Int /\ 1 \in Int /\ \A k \in 1..n : s[k] \in S
  OBVIOUS
<1> HIDE DEF n
<1>2. /\ SubSeq(s, 1, n) \in Seq(S)
      /\ Len(SubSeq(s, 1, n)) = IF 1 <= n THEN n - 1 + 1 ELSE 0
      /\ \A k \in 1..n-1+1 : SubSeq(s, 1, n)[k] = s[1 + k - 1]
  BY <1>1, SubSeqProperties, SMT
<1>3. Len(SubSeq(s, 1, n)) = n /\ \A k \in 1..n : SubSeq(s, 1, n)[k] = s[k]
  BY <1>1, <1>2
<1> QED
  BY <1>2, <1>3 DEF n

LEMMA FindTypesStep == FindTypes /\ [FindNext]_findVars => FindTypes'
<1> SUFFICES ASSUME FindTypes, [FindNext]_findVars PROVE FindTypes'
  OBVIOUS
<1>1. ASSUME UNCHANGED <<listing, name_to_open, depth_of_search>>, calls' \in Seq(CallRecord),
             \A k \in DOMAIN calls' : /\ calls'[k].next \in 1..Len(listing[calls'[k].dir])+1
                                     /\ calls'[k].buf \in BOOLEAN,
             found' \subseteq DOMAIN listing,
             fpc' \in {"open", "search", "done", "killed", "refused"},
             fpc' \in {"open", "search"} => calls' # <<>>
      PROVE  FindTypes'
  <2>1. \A k \in DOMAIN calls' : calls'[k] \in CallRecord
    BY <1>1
  <2>2. \A k \in DOMAIN calls' : calls'[k].dir \in DOMAIN listing /\ calls'[k].depth \in 0..MaxDepth
    BY <2>1 DEF CallRecord
  <2>3. CallRecord' = CallRecord
    BY <1>1 DEF CallRecord
  <2> QED
    BY <1>1, <2>2, <2>3 DEF FindTypes, FindTypeOK
<1>2. ASSUME Reading
      PROVE  /\ calls # <<>> /\ fpc = "search"
             /\ Len(calls) \in Nat \ {0} /\ Top = calls[Len(calls)] /\ Top \in CallRecord
             /\ Top.dir \in DOMAIN listing /\ Top.depth \in 0..MaxDepth /\ MaxDepth \in Nat
             /\ Top.next \in 1..Len(listing[Top.dir])
             /\ Len(listing[Top.dir]) \in Nat
  <2>1. calls # <<>> /\ fpc = "search"
    BY <1>2 DEF Reading, FindTypes
  <2>2. Top.dir \in DOMAIN listing /\ Top.next \in 1..Len(listing[Top.dir])+1
    BY <2>1, TopFacts
  <2>3. Len(listing[Top.dir]) \in Nat /\ MaxDepth \in Nat
    BY <2>2, TreeFacts DEF FindTypes, FindTypeOK
  <2> QED
    BY <1>2, <2>1, <2>2, <2>3, TopFacts DEF Reading
<1>3. CASE Descend
  <2>1. Reading /\ Top.depth # 0 /\ Entry.is # NoDir
    BY <1>3 DEF Descend, TakenForDirectory
  <2>2. Entry.is \in DOMAIN listing
    BY <1>2, <2>1, TreeFacts DEF Entry, FindTypes, FindTypeOK
  <2> DEFINE c == Call(Entry.is, Top.depth - 1)
  <2>3. c \in CallRecord /\ c.next = 1 /\ c.buf \in BOOLEAN /\ c.dir = Entry.is
    BY <1>2, <2>1, <2>2 DEF Call, CallRecord
  <2>4. 1 \in 1..Len(listing[Entry.is])+1
    BY <2>2, TreeFacts DEF FindTypes, FindTypeOK
  <2>5. /\ calls' = Append(Advanced, c)
        /\ UNCHANGED <<listing, name_to_open, depth_of_search, found, fpc>>
    BY <1>3 DEF Descend
  <2> HIDE DEF c
  <2>6. /\ Advanced \in Seq(CallRecord) /\ Len(Advanced) = Len(calls)
        /\ \A k \in 1..Len(calls) :
             /\ Advanced[k].buf \in BOOLEAN
             /\ Advanced[k].next \in 1..Len(listing[Advanced[k].dir])+1
    BY <2>1, Advancing
  <2>7. /\ calls' \in Seq(CallRecord) /\ DOMAIN calls' = 1..Len(calls)+1
        /\ \A k \in DOMAIN calls' : calls'[k] = IF k = Len(calls) + 1 THEN c ELSE Advanced[k]
        /\ calls' # <<>>
    BY <1>2, <2>1, <2>3, <2>5, <2>6
  <2>8. ASSUME NEW k \in DOMAIN calls'
        PROVE  /\ calls'[k].next \in 1..Len(listing[calls'[k].dir])+1
               /\ calls'[k].buf \in BOOLEAN
    <3>1. CASE k = Len(calls) + 1
      BY <2>3, <2>4, <2>7, <3>1
    <3>2. CASE k # Len(calls) + 1
      <4>1. k \in 1..Len(calls) /\ calls'[k] = Advanced[k]
        BY <1>2, <2>1, <2>7, <3>2
      <4> QED
        BY <2>6, <4>1
    <3> QED
      BY <3>1, <3>2
  <2> QED
    BY <1>1, <2>5, <2>7, <2>8 DEF FindTypes, FindTypeOK
<1>4. CASE OpenFirst \/ Refuse \/ OpenFails
  BY <1>1, <1>4 DEF OpenFirst, Refuse, OpenFails, FindTypes, FindTypeOK
<1>5. CASE Compare
  <2>1. Reading /\ calls' = Advanced /\ UNCHANGED <<listing, name_to_open, depth_of_search, fpc>>
        /\ (found' = found \/ found' = found \cup {Top.dir})
    BY <1>5 DEF Compare
  <2>2. /\ Advanced \in Seq(CallRecord) /\ Len(Advanced) = Len(calls)
        /\ \A k \in 1..Len(calls) :
             /\ Advanced[k].buf \in BOOLEAN
             /\ Advanced[k].next \in 1..Len(listing[Advanced[k].dir])+1
    BY <2>1, Advancing
  <2>3. calls' # <<>> /\ DOMAIN calls' = 1..Len(calls)
    BY <1>2, <2>1, <2>2
  <2> QED
    BY <1>1, <1>2, <2>1, <2>2, <2>3 DEF FindTypes, FindTypeOK
<1>6. CASE Close
  <2>1. calls # <<>> /\ calls \in Seq(CallRecord)
    BY <1>6 DEF Close, FindTypes
  <2>2. /\ calls' = SubSeq(calls, 1, Len(calls) - 1)
        /\ fpc' = IF Len(calls) = 1 THEN "done" ELSE "search"
        /\ UNCHANGED <<listing, name_to_open, depth_of_search, found>>
    BY <1>6 DEF Close
  <2>3. Len(calls) \in Nat \ {0}
    BY <2>1
  <2>4. /\ calls' \in Seq(CallRecord) /\ Len(calls') = Len(calls) - 1
        /\ DOMAIN calls' = 1..Len(calls)-1
        /\ \A k \in DOMAIN calls' : calls'[k] = calls[k] /\ k \in DOMAIN calls
    <3>1. /\ SubSeq(calls, 1, Len(calls) - 1) \in Seq(CallRecord)
          /\ Len(SubSeq(calls, 1, Len(calls) - 1)) = Len(calls) - 1
          /\ \A k \in 1..Len(calls)-1 : SubSeq(calls, 1, Len(calls) - 1)[k] = calls[k]
      BY <2>1, WithoutLast
    <3> QED
      BY <2>1, <2>2, <2>3, <3>1
  <2>5. fpc' \in {"open", "search"} => calls' # <<>>
    <3>1. fpc' \in {"open", "search"} => Len(calls') > 0
      BY <2>2, <2>3, <2>4
    <3> QED
      BY <2>4, <3>1
  <2> QED
    BY <1>1, <2>2, <2>4, <2>5 DEF FindTypes, FindTypeOK
<1>7. CASE UNCHANGED findVars
  BY <1>7 DEF findVars, FindTypes, FindTypeOK, CallRecord
<1> QED
  BY <1>3, <1>4, <1>5, <1>6, <1>7 DEF FindNext

\* One of the first n entries of directory d is to be found,
Hit(d, k) == /\ listing[d][k].name = Wanted
             /\ d = Cwd /\ depth_of_search = 1 => listing[d][k].is = NoDir

Hits(d, n) == \E k \in 1..n : Hit(d, k)

\* entry k of the working directory is the directory d, which is searched,
Below(k, d) == depth_of_search = 1 /\ listing[Cwd][k].is = d /\ d # Cwd

\* and d is found by the first n entries of the working directory.
FoundUpTo(d, n) ==
  (d = Cwd /\ Hits(Cwd, n)) \/ \E k \in 1..n : Below(k, d) /\ Hits(d, Len(listing[d]))

Outer == calls[1].dir = Cwd /\ calls[1].depth = depth_of_search

(***************************************************************************)
(* Where a search near by is: at or in the working directory, in a         *)
(* directory below it, which is the entry that was read last, or at its    *)
(* end.                                                                    *)
(***************************************************************************)
InCwd ==
  /\ fpc \in {"open", "search"} /\ Len(calls) = 1 /\ Outer
  /\ \A d \in DOMAIN listing : d \in found <=> FoundUpTo(d, calls[1].next - 1)

InBelow ==
  /\ fpc = "search" /\ Len(calls) = 2 /\ Outer /\ calls[1].next > 1
  /\ Below(calls[1].next - 1, calls[2].dir) /\ calls[2].depth = 0
  /\ \A d \in DOMAIN listing :
       d \in found <=> \/ FoundUpTo(d, calls[1].next - 2)
                       \/ d = calls[2].dir /\ Hits(d, calls[2].next - 1)

Over ==
  /\ fpc = "done" /\ calls = <<>>
  /\ \A d \in DOMAIN listing : d \in found <=> FoundUpTo(d, Len(listing[Cwd]))

FindInv == FindTypes /\ (Near => InCwd \/ InBelow \/ Over \/ fpc = "refused")

LEMMA OneEntryMore ==
  ASSUME NEW n \in Nat, NEW d
  PROVE  /\ ~Hits(d, 0) /\ (Hits(d, n + 1) <=> Hits(d, n) \/ Hit(d, n + 1))
         /\ ~FoundUpTo(d, 0)
         /\ FoundUpTo(d, n + 1) <=> \/ FoundUpTo(d, n) \/ (d = Cwd /\ Hit(d, n + 1))
                                \/ (Below(n + 1, d) /\ Hits(d, Len(listing[d])))
<1>1. 1..0 = {} /\ \A k : k \in 1..n+1 <=> k \in 1..n \/ k = n + 1
  OBVIOUS
<1>2. ~Hits(d, 0) /\ (Hits(d, n + 1) <=> Hits(d, n) \/ Hit(d, n + 1))
  BY <1>1 DEF Hits
<1>3. ~Hits(Cwd, 0) /\ (Hits(Cwd, n + 1) <=> Hits(Cwd, n) \/ Hit(Cwd, n + 1))
  BY <1>1 DEF Hits
<1> QED
  BY <1>1, <1>2, <1>3 DEF FoundUpTo

\* Of an entry of the working directory stat says the truth.
LEMMA StatRight ==
  ASSUME FindTypes, Reading, Top.dir = Cwd
  PROVE  Stat <=> Entry.is # NoDir
<1> DEFINE named == {k \in DOMAIN listing[Cwd] : listing[Cwd][k].name = Entry.name}
<1>1. calls # <<>> /\ Cwd \in DOMAIN listing
  BY TreeFacts DEF Reading, FindTypes, FindTypeOK
<1>2. DOMAIN listing[Cwd] = 1..Len(listing[Cwd]) /\ Len(listing[Cwd]) \in Nat
  BY <1>1, TreeFacts DEF FindTypes, FindTypeOK
<1>3. Top.next \in DOMAIN listing[Cwd]
  BY <1>1, <1>2, TopFacts DEF Reading
<1>4. \A k, n \in DOMAIN listing[Cwd] : listing[Cwd][k].name = listing[Cwd][n].name => k = n
  BY <1>1, <1>2, TreeFacts DEF FindTypes, FindTypeOK
<1>5. named = {Top.next}
  BY <1>3, <1>4 DEF Entry
<1>6. Stat <=> \E k \in named : listing[Cwd][k].is # NoDir
  BY <1>5, Zenon DEF Stat
<1> QED
  BY <1>5, <1>6 DEF Entry

LEMMA FindInitially == FindInit => FindInv
<1> SUFFICES ASSUME FindInit PROVE FindInv
  OBVIOUS
<1> DEFINE c == Call(name_to_open, depth_of_search)
<1>1. /\ calls = <<c>> /\ found = {} /\ fpc = "open" /\ listing \in Trees
      /\ name_to_open \in DOMAIN listing /\ depth_of_search \in 0..MaxDepth
  BY DEF FindInit
<1>2. Len(listing[name_to_open]) \in Nat
  BY <1>1, TreeFacts
<1>3. c \in CallRecord /\ c.next = 1 /\ c.dir = name_to_open /\ c.depth = depth_of_search
      /\ c.buf \in BOOLEAN
  BY <1>1 DEF Call, CallRecord
<1> HIDE DEF c
<1>4. calls \in Seq(CallRecord) /\ Len(calls) = 1 /\ calls[1] = c /\ calls # <<>>
  BY <1>1, <1>3
<1>5. FindTypes
  BY <1>1, <1>2, <1>3, <1>4 DEF FindTypes, FindTypeOK
<1>6. ASSUME Near PROVE InCwd
  <2>1. \A d \in DOMAIN listing : ~FoundUpTo(d, calls[1].next - 1)
    BY <1>3, <1>4, OneEntryMore
  <2> QED
    BY <1>1, <1>3, <1>4, <1>6, <2>1 DEF InCwd, Outer, Near
<1> QED
  BY <1>5, <1>6 DEF FindInv

LEMMA NearDescend ==
  ASSUME FindInv, Near, Descend
  PROVE  InBelow'
<1> DEFINE c == Call(Entry.is, Top.depth - 1)
<1>1. /\ Reading /\ Stat /\ Top.depth # 0 /\ Entry.name # Self /\ Entry.is # NoDir
      /\ calls' = Append(Advanced, c)
      /\ UNCHANGED <<listing, name_to_open, depth_of_search, found, fpc>>
  BY Zenon DEF Descend, TakenForDirectory
<1>2. fpc = "search" /\ calls # <<>>
  BY <1>1 DEF Reading, FindInv, FindTypes
<1>3. /\ Len(calls) \in Nat \ {0} /\ Top = calls[Len(calls)] /\ Top.depth \in 0..MaxDepth
      /\ Top.dir \in DOMAIN listing /\ Top.next \in 1..Len(listing[Top.dir])+1
  BY <1>2, TopFacts DEF FindInv
<1>4. InCwd
  BY <1>1, <1>2, <1>3 DEF FindInv, InBelow, Over
<1>5. Top = calls[1] /\ Top.dir = Cwd /\ Top.depth = depth_of_search /\ Len(calls) = 1
  BY <1>3, <1>4 DEF InCwd, Outer
<1>6. depth_of_search = 1
  <2>1. depth_of_search \in 0..MaxDepth /\ MaxDepth \in Nat
    BY TreeFacts DEF FindInv, FindTypes, FindTypeOK
  <2> QED
    BY <1>1, <1>5, <2>1 DEF Near
<1>7. /\ Top.next \in 1..Len(listing[Cwd]) /\ Len(listing[Cwd]) \in Nat
      /\ Entry = listing[Cwd][Top.next]
  <2>1. Len(listing[Cwd]) \in Nat
    BY <1>3, <1>5, TreeFacts DEF FindInv, FindTypes, FindTypeOK
  <2> QED
    BY <1>1, <1>3, <1>5, <2>1 DEF Reading, Entry
<1>8. Entry.is \in DOMAIN listing /\ Entry.is # Cwd
  BY <1>1, <1>3, <1>5, <1>7, TreeFacts DEF FindInv, FindTypes, FindTypeOK
<1>9. /\ Advanced \in Seq(CallRecord) /\ Len(Advanced) = 1 /\ Advanced[1].dir = Cwd
      /\ Advanced[1].depth = depth_of_search /\ Advanced[1].next = Top.next + 1
  <2>1. /\ Advanced \in Seq(CallRecord) /\ Len(Advanced) = Len(calls)
        /\ \A k \in 1..Len(calls) :
             Advanced[k].dir = calls[k].dir /\ Advanced[k].depth = calls[k].depth
        /\ Advanced[Len(calls)].next = Top.next + 1
    BY <1>1, Advancing DEF FindInv
  <2>2. 1 \in 1..Len(calls)
    BY <1>5
  <2> QED
    BY <1>5, <2>1, <2>2
<1>10. c \in CallRecord /\ c.dir = Entry.is /\ c.depth = 0 /\ c.next = 1
  <2>1. Top.depth - 1 = 0 /\ Top.depth - 1 \in 0..MaxDepth
    BY <1>3, <1>5, <1>6, TreeAssumption
  <2> QED
    BY <1>8, <2>1 DEF Call, CallRecord
<1> HIDE DEF c
<1>11. Len(calls') = 2 /\ calls'[1] = Advanced[1] /\ calls'[2] = c
  <2>1. Len(Append(Advanced, c)) = 2 /\ Append(Advanced, c)[1] = Advanced[1]
        /\ Append(Advanced, c)[2] = c
    <3>1. /\ Len(Append(Advanced, c)) = Len(Advanced) + 1
          /\ \A k \in 1..Len(Advanced) : Append(Advanced, c)[k] = Advanced[k]
          /\ Append(Advanced, c)[Len(Advanced) + 1] = c
      <4>1. Advanced \in Seq(CallRecord) /\ c \in CallRecord
        BY <1>9, <1>10
      <4> QED
        BY <4>1, WithOneMore
    <3> QED
      BY <1>9, <3>1
  <2> QED
    BY <1>1, <2>1
<1>12. /\ Outer' /\ calls'[1].next - 1 = Top.next /\ calls'[1].next - 2 = Top.next - 1
       /\ calls'[1].next > 1 /\ calls'[2].next - 1 = 0
  BY <1>1, <1>7, <1>9, <1>10, <1>11 DEF Outer
<1>13. Below(calls[1].next, calls'[2].dir)
  BY <1>5, <1>6, <1>7, <1>8, <1>10, <1>11 DEF Below
<1>14. \A d : ~Hits(d, 0)
  BY OneEntryMore
<1>15. \A d, n : /\ (Hits(d, n)' <=> Hits(d, n)) /\ (FoundUpTo(d, n)' <=> FoundUpTo(d, n))
                 /\ (Below(n, d)' <=> Below(n, d))
  BY <1>1 DEF Hits, Hit, FoundUpTo, Below
<1>16. \A d \in DOMAIN listing : d \in found <=> FoundUpTo(d, Top.next - 1)
  BY <1>4, <1>5 DEF InCwd
<1> QED
  BY <1>1, <1>2, <1>5, <1>10, <1>11, <1>12, <1>13, <1>14, <1>15, <1>16 DEF InBelow

\* The entry that is read.
LEMMA Inside ==
  ASSUME FindInv, Near, fpc = "search"
  PROVE  /\ \/ /\ InCwd /\ Len(calls) = 1 /\ Top = calls[1] /\ Top.dir = Cwd
               /\ Top.depth = depth_of_search
            \/ /\ InBelow /\ Len(calls) = 2 /\ Top = calls[2] /\ Top.depth = 0 /\ Top.dir # Cwd
         /\ calls # <<>> /\ depth_of_search \in {0, 1}
         /\ Top.dir \in DOMAIN listing /\ Len(listing[Top.dir]) \in Nat /\ Top.next \in Nat \ {0}
         /\ Top.next <= Len(listing[Top.dir]) + 1
<1>1. calls # <<>>
  BY DEF FindInv, FindTypes
<1>2. Top = calls[Len(calls)] /\ Top.dir \in DOMAIN listing
      /\ Top.next \in 1..Len(listing[Top.dir])+1
  BY <1>1, TopFacts DEF FindInv
<1>3. Len(listing[Top.dir]) \in Nat
  BY <1>2, TreeFacts DEF FindInv, FindTypes, FindTypeOK
<1>4. InCwd \/ InBelow
  BY DEF FindInv, Over
<1>5. depth_of_search \in {0, 1}
  <2>1. depth_of_search \in 0..MaxDepth /\ MaxDepth \in Nat
    BY TreeFacts DEF FindInv, FindTypes, FindTypeOK
  <2> QED
    BY <2>1 DEF Near
<1>6. Top.next \in Nat \ {0} /\ Top.next <= Len(listing[Top.dir]) + 1
  BY <1>2, <1>3
<1>7. CASE InCwd
  <2>1. Len(calls) = 1 /\ Outer
    BY <1>7 DEF InCwd
  <2>2. Top = calls[1] /\ Top.dir = Cwd /\ Top.depth = depth_of_search
    BY <1>2, <2>1 DEF Outer
  <2> QED
    BY <1>1, <1>2, <1>3, <1>5, <1>6, <1>7, <2>1, <2>2
<1>8. CASE InBelow
  <2>1. Len(calls) = 2 /\ Below(calls[1].next - 1, calls[2].dir) /\ calls[2].depth = 0
    BY <1>8 DEF InBelow
  <2>2. Top = calls[2] /\ Top.depth = 0 /\ Top.dir # Cwd
    BY <1>2, <2>1 DEF Below
  <2> QED
    BY <1>1, <1>2, <1>3, <1>5, <1>6, <1>8, <2>1, <2>2
<1> QED
  BY <1>4, <1>7, <1>8

LEMMA NearOpenFails ==
  ASSUME FindInv, Near, OpenFails
  PROVE  FALSE
<1>1. Reading /\ Stat /\ Top.depth # 0 /\ Entry.is = NoDir /\ fpc = "search"
  BY Zenon DEF OpenFails, TakenForDirectory, Reading
<1>2. Top.dir = Cwd
  BY <1>1, Inside
<1> QED
  BY <1>1, <1>2, StatRight DEF FindInv

LEMMA NearCompare ==
  ASSUME FindInv, Near, Compare
  PROVE  InCwd' \/ InBelow'
<1> DEFINE n == Top.next
<1>1. /\ Reading /\ ~TakenForDirectory /\ calls' = Advanced /\ fpc = "search"
      /\ UNCHANGED <<listing, name_to_open, depth_of_search, fpc>>
      /\ found' = IF Entry.name = Wanted THEN found \cup {Top.dir} ELSE found
  BY DEF Compare, Reading
<1>2. /\ n \in Nat \ {0} /\ n <= Len(listing[Top.dir]) /\ Len(listing[Top.dir]) \in Nat
      /\ Entry = listing[Top.dir][n] /\ Top.dir \in DOMAIN listing
  BY <1>1, Inside DEF Reading, Entry
<1>3. /\ Advanced \in Seq(CallRecord) /\ Len(Advanced) = Len(calls)
      /\ \A k \in 1..Len(calls) :
           /\ k # Len(calls) => Advanced[k] = calls[k]
           /\ Advanced[k].dir = calls[k].dir /\ Advanced[k].depth = calls[k].depth
      /\ Advanced[Len(calls)].next = n + 1
  BY <1>1, Advancing DEF FindInv
<1>4. \A d, m : /\ (Hits(d, m)' <=> Hits(d, m)) /\ (FoundUpTo(d, m)' <=> FoundUpTo(d, m))
                /\ (Below(m, d)' <=> Below(m, d))
  BY <1>1 DEF Hits, Hit, FoundUpTo, Below
<1> HIDE DEF n
<1>5. n - 1 \in Nat /\ n - 1 + 1 = n /\ n + 1 - 1 = n
  BY <1>2
<1>6. \A d \in DOMAIN listing : d \in found' <=> d \in found \/ (d = Top.dir /\ Entry.name = Wanted)
  BY <1>1
<1>7. CASE /\ InCwd /\ Len(calls) = 1 /\ Top = calls[1] /\ Top.dir = Cwd
           /\ Top.depth = depth_of_search
  <2>1. Advanced[1].dir = Cwd /\ Advanced[1].depth = depth_of_search /\ Advanced[1].next = n + 1
    <3>1. 1 \in 1..Len(calls)
      BY <1>7
    <3> QED
      BY <1>3, <1>7, <3>1
  <2>2. ~Stat \/ depth_of_search = 0 \/ Entry.name = Self
    BY <1>1, <1>7, Zenon DEF TakenForDirectory
  <2>3. depth_of_search = 0 \/ Entry.is = NoDir \/ Entry.name = Self
    BY <1>1, <1>7, <2>2, StatRight DEF FindInv
  <2>4. Entry.name = Self => Entry.is = Cwd /\ Wanted # Self
    BY <1>2, <1>7, TreeFacts DEF FindInv, FindTypes, FindTypeOK
  <2>5. ASSUME NEW d \in DOMAIN listing
        PROVE  /\ ~Below(n, d)
               /\ d = Cwd => (Hit(d, n) <=> Entry.name = Wanted)
    <3>1. d # NoDir
      BY TreeFacts DEF FindInv, FindTypes, FindTypeOK
    <3>2. ~Below(n, d)
      BY <1>2, <1>7, <2>3, <2>4, <3>1 DEF Below
    <3>3. d = Cwd => (Hit(d, n) <=> Entry.name = Wanted)
      BY <1>2, <1>7, <2>3, <2>4 DEF Hit
    <3> QED
      BY <3>2, <3>3
  <2>6. ASSUME NEW d \in DOMAIN listing
        PROVE  d \in found' <=> FoundUpTo(d, n)
    <3>1. d \in found <=> FoundUpTo(d, n - 1)
      BY <1>7 DEF InCwd, n
    <3>2. FoundUpTo(d, n - 1 + 1) <=> \/ FoundUpTo(d, n - 1) \/ (d = Cwd /\ Hit(d, n - 1 + 1))
                                  \/ (Below(n - 1 + 1, d) /\ Hits(d, Len(listing[d])))
      BY <1>5, OneEntryMore
    <3>3. FoundUpTo(d, n) <=> FoundUpTo(d, n - 1) \/ (d = Cwd /\ Entry.name = Wanted)
      BY <1>5, <2>5, <3>2
    <3> QED
      BY <1>6, <1>7, <3>1, <3>3
  <2>7. fpc' = "search" /\ Len(calls') = 1 /\ Outer' /\ calls'[1].next - 1 = n
    BY <1>1, <1>3, <1>5, <1>7, <2>1 DEF Outer
  <2>8. \A d \in DOMAIN listing' : d \in found' <=> FoundUpTo(d, calls[1].next - 1)'
    BY <1>1, <1>4, <2>6, <2>7
  <2> QED
    BY <2>7, <2>8 DEF InCwd
<1>8. CASE InBelow /\ Len(calls) = 2 /\ Top = calls[2] /\ Top.depth = 0 /\ Top.dir # Cwd
  <2>1. /\ Advanced[1] = calls[1] /\ Advanced[2].dir = Top.dir /\ Advanced[2].depth = 0
        /\ Advanced[2].next = n + 1
    <3>1. 1 \in 1..Len(calls) /\ 2 \in 1..Len(calls) /\ 1 # Len(calls)
      BY <1>8
    <3> QED
      BY <1>3, <1>8, <3>1
  <2>2. /\ Outer /\ calls[1].next > 1 /\ Below(calls[1].next - 1, Top.dir)
        /\ \A d \in DOMAIN listing :
             d \in found <=> FoundUpTo(d, calls[1].next - 2) \/ (d = Top.dir /\ Hits(d, n - 1))
    BY <1>8 DEF InBelow, n
  <2>3. ASSUME NEW d \in DOMAIN listing
        PROVE  d \in found' <=> FoundUpTo(d, calls[1].next - 2) \/ (d = Top.dir /\ Hits(d, n))
    <3>1. d = Top.dir => (Hit(d, n) <=> Entry.name = Wanted)
      BY <1>2, <1>8 DEF Hit
    <3>2. Hits(d, n - 1 + 1) <=> Hits(d, n - 1) \/ Hit(d, n - 1 + 1)
      BY <1>5, OneEntryMore
    <3> QED
      BY <1>5, <1>6, <2>2, <3>1, <3>2
  <2>4. /\ fpc' = "search" /\ Len(calls') = 2 /\ calls'[1] = calls[1]
        /\ calls'[2].dir = Top.dir /\ calls'[2].depth = 0 /\ calls'[2].next - 1 = n
    BY <1>1, <1>3, <1>5, <1>8, <2>1
  <2>5. Outer' /\ calls'[1].next > 1
    BY <1>1, <2>2, <2>4 DEF Outer
  <2>6. Below(calls'[1].next - 1, calls'[2].dir)
    BY <2>2, <2>4
  <2>7. \A d \in DOMAIN listing :
          d \in found' <=> FoundUpTo(d, calls'[1].next - 2)
                           \/ (d = calls'[2].dir /\ Hits(d, calls'[2].next - 1))
    BY <2>3, <2>4
  <2> QED
    BY <1>1, <1>4, <2>4, <2>5, <2>6, <2>7 DEF InBelow
<1> QED
  BY <1>1, <1>7, <1>8, Inside

LEMMA NearClose ==
  ASSUME FindInv, Near, Close
  PROVE  Over' \/ InCwd'
<1>1. /\ fpc = "search" /\ Top.next > Len(listing[Top.dir])
      /\ calls' = SubSeq(calls, 1, Len(calls) - 1)
      /\ fpc' = IF Len(calls) = 1 THEN "done" ELSE "search"
      /\ UNCHANGED <<listing, name_to_open, depth_of_search, found>>
  BY DEF Close
<1>2. /\ calls # <<>> /\ depth_of_search \in {0, 1} /\ Top.dir \in DOMAIN listing
      /\ Len(listing[Top.dir]) \in Nat /\ Top.next = Len(listing[Top.dir]) + 1
  BY <1>1, Inside
<1>3. calls' \in Seq(CallRecord) /\ Len(calls') = Len(calls) - 1
      /\ \A k \in 1..Len(calls)-1 : calls'[k] = calls[k]
  <2>1. calls \in Seq(CallRecord)
    BY DEF FindInv, FindTypes
  <2> QED
    BY <1>1, <1>2, <2>1, WithoutLast
<1>4. \A d, m : /\ (Hits(d, m)' <=> Hits(d, m)) /\ (FoundUpTo(d, m)' <=> FoundUpTo(d, m))
                /\ (Below(m, d)' <=> Below(m, d))
  BY <1>1 DEF Hits, Hit, FoundUpTo, Below
<1>5. CASE InCwd /\ Len(calls) = 1 /\ Top = calls[1] /\ Top.dir = Cwd
  <2>1. calls' = <<>> /\ fpc' = "done"
    BY <1>1, <1>3, <1>5
  <2>2. calls[1].next - 1 = Len(listing[Cwd])
    <3>1. calls[1].next = Len(listing[Cwd]) + 1 /\ Len(listing[Cwd]) \in Nat
      BY <1>2, <1>5
    <3> QED
      BY <3>1
  <2>3. \A d \in DOMAIN listing : d \in found <=> FoundUpTo(d, Len(listing[Cwd]))
    BY <1>5, <2>2 DEF InCwd
  <2> QED
    BY <1>1, <1>4, <2>1, <2>3 DEF Over
<1>6. CASE InBelow /\ Len(calls) = 2 /\ Top = calls[2] /\ Top.dir # Cwd
  <2> DEFINE n == calls[1].next - 1
  <2>1. Len(calls') = 1 /\ fpc' = "search" /\ calls'[1] = calls[1]
    <3>1. 1 \in 1..Len(calls)-1
      BY <1>6
    <3> QED
      BY <1>1, <1>3, <1>6, <3>1
  <2>2. /\ Outer /\ calls[1].next > 1 /\ Below(n, Top.dir)
        /\ \A d \in DOMAIN listing :
             d \in found <=> \/ FoundUpTo(d, calls[1].next - 2)
                             \/ d = Top.dir /\ Hits(d, calls[2].next - 1)
    BY <1>6 DEF InBelow
  <2>3. calls[2].next - 1 = Len(listing[Top.dir])
    BY <1>2, <1>6
  <2>4. calls[1].next \in Nat
    <3>1. calls \in Seq(CallRecord)
      BY DEF FindInv, FindTypes
    <3>2. calls[1] \in CallRecord
      BY <1>6, <3>1
    <3> QED
      BY <3>2 DEF CallRecord
  <2>5. n - 1 \in Nat /\ n - 1 + 1 = n /\ calls[1].next - 2 = n - 1
    BY <2>2, <2>4
  <2> HIDE DEF n
  <2>6. ASSUME NEW d \in DOMAIN listing
        PROVE  d \in found <=> FoundUpTo(d, n)
    <3>1. FoundUpTo(d, n - 1 + 1) <=> \/ FoundUpTo(d, n - 1) \/ (d = Cwd /\ Hit(d, n - 1 + 1))
                                  \/ (Below(n - 1 + 1, d) /\ Hits(d, Len(listing[d])))
      BY <2>5, OneEntryMore
    <3>2. Below(n, d) <=> d = Top.dir
      BY <2>2 DEF Below
    <3>3. ~(d = Cwd /\ Hit(d, n))
      <4>1. NoDir # Top.dir
        BY <1>2, TreeFacts DEF FindInv, FindTypes, FindTypeOK
      <4> QED
        BY <2>2, <4>1 DEF Hit, Below
    <3> QED
      BY <2>2, <2>3, <2>5, <3>1, <3>2, <3>3
  <2>7. Outer' /\ calls'[1].next - 1 = n
    BY <1>1, <2>1, <2>2 DEF Outer, n
  <2>8. \A d \in DOMAIN listing : d \in found <=> FoundUpTo(d, calls'[1].next - 1)
    BY <2>6, <2>7
  <2> QED
    BY <1>1, <1>4, <2>1, <2>7, <2>8 DEF InCwd
<1> QED
  BY <1>1, <1>5, <1>6, Inside

LEMMA FindStep == FindInv /\ [FindNext]_findVars => FindInv'
<1> SUFFICES ASSUME FindInv, [FindNext]_findVars PROVE FindInv'
  OBVIOUS
<1>1. FindTypes'
  BY FindTypesStep DEF FindInv
<1>2. Near' <=> Near
  BY DEF Near, FindNext, OpenFirst, Refuse, Descend, OpenFails, Compare, Close, findVars
<1>5. CASE OpenFirst
  BY <1>1, <1>2, <1>5
     DEF OpenFirst, FindInv, InCwd, InBelow, Over, Outer, FoundUpTo, Hits, Hit, Below
<1>6. CASE Refuse
  BY <1>1, <1>6 DEF Refuse, FindInv
<1>3. CASE FindNext
  BY <1>1, <1>2, <1>3, <1>5, <1>6, NearDescend, NearOpenFails, NearCompare, NearClose
  DEF FindInv, FindNext
<1>4. CASE UNCHANGED findVars
  BY <1>1, <1>2, <1>4
     DEF findVars, FindInv, InCwd, InBelow, Over, Outer, FoundUpTo, Hits, Hit, Below
<1> QED
  BY <1>3, <1>4

LEMMA FindInvariance == FindSpec => []FindInv
  BY FindInitially, FindStep, PTL DEF FindSpec

\* For all trees: a search that asks about the entries of the working directory only is
\* killed only if opendir refuses a directory; at its end it has found the name wherever
\* it is no directory that is searched itself (find_me.c:49-50, 61-89).
THEOREM AllFound == FindSpec => []FoundAll
<1>1. FindInv => FoundAll
  <2> SUFFICES ASSUME FindInv, Near PROVE FoundAll
    BY DEF FoundAll
  <2>1. fpc # "killed"
    BY DEF FindInv, InCwd, InBelow, Over
  <2>2. ASSUME fpc = "done"
        PROVE  LET Under == IF depth_of_search = 0 THEN {}
                            ELSE {listing[Cwd][k].is : k \in DOMAIN listing[Cwd]} \ {NoDir, Cwd}
               IN  found = {d \in {Cwd} \cup Under :
                              \E k \in DOMAIN listing[d] :
                                /\ listing[d][k].name = Wanted
                                /\ d = Cwd /\ depth_of_search = 1 => listing[d][k].is = NoDir}
    <3> DEFINE Under == IF depth_of_search = 0 THEN {}
                        ELSE {listing[Cwd][k].is : k \in DOMAIN listing[Cwd]} \ {NoDir, Cwd}
               There(d) == \E k \in DOMAIN listing[d] : Hit(d, k)
    <3>1. \A d \in DOMAIN listing : d \in found <=> FoundUpTo(d, Len(listing[Cwd]))
      BY <2>2 DEF FindInv, InCwd, InBelow, Over
    <3>2. /\ found \subseteq DOMAIN listing /\ Cwd \in DOMAIN listing /\ NoDir \notin DOMAIN listing
          /\ \A d \in DOMAIN listing : DOMAIN listing[d] = 1..Len(listing[d])
      BY TreeFacts DEF FindInv, FindTypes, FindTypeOK
    <3>3. depth_of_search \in {0, 1}
      <4>1. depth_of_search \in 0..MaxDepth /\ MaxDepth \in Nat
        BY TreeFacts DEF FindInv, FindTypes, FindTypeOK
      <4> QED
        BY <4>1 DEF Near
    <3>4. Under \subseteq DOMAIN listing
      BY <3>2, TreeFacts DEF FindInv, FindTypes, FindTypeOK
    <3>5. \A d \in DOMAIN listing : d \in Under <=> \E k \in 1..Len(listing[Cwd]) : Below(k, d)
      BY <3>2, <3>3 DEF Below
    <3>6. \A d \in DOMAIN listing : There(d) <=> Hits(d, Len(listing[d]))
      BY <3>2 DEF Hits
    <3> HIDE DEF Under, There
    <3>7. \A d \in DOMAIN listing : d \in found <=> d \in {Cwd} \cup Under /\ There(d)
      BY <3>1, <3>2, <3>5, <3>6 DEF FoundUpTo
    <3>8. found = {d \in {Cwd} \cup Under : There(d)}
      BY <3>2, <3>4, <3>7
    <3> QED
      BY <3>8 DEF Under, There, Hit
  <2> QED
    BY <2>1, <2>2, Zenon DEF FoundAll
<1> QED
  BY <1>1, FindInvariance, PTL

-----------------------------------------------------------------------------
(* The types of all programs. *)

\* The sum of a set of powers is an integer, whichever element is added first.
LEMMA IntOfInteger ==
  ASSUME NEW c \in Chars
  PROVE  IntOf(c) \in Int
<1> DEFINE S == SUBSET Bits
           Power(j) == c[j] * (IF j = Width - 1 THEN -(2^j) ELSE 2^j)
           Follows(f) == f = [s \in S |-> IF s = {} THEN 0
                                          ELSE Power(AnyOf(s)) + f[s \ {AnyOf(s)}]]
           rank == [s \in S |-> Cardinality(s)]
<1>1. IsFiniteSet(Bits)
  BY BitAssumption, FS_Interval DEF Bits
<1>2. \A j \in Bits : Power(j) \in Int
  <2> SUFFICES ASSUME NEW j \in Bits PROVE Power(j) \in Int
    OBVIOUS
  <2>1. j \in Nat /\ Width \in Nat /\ c[j] \in Int
    BY BitAssumption DEF Bits, Chars
  <2>2. 2^j \in Int
    BY <2>1
  <2> QED
    BY <2>1, <2>2
<1>3. \A s \in S : s # {} => AnyOf(s) \in s
  BY Zenon DEF AnyOf
<1>4. \E f : Follows(f)
  <2> DEFINE val == [j \in Bits |-> Power(j)]
             op == [p \in Int \X Int |-> p[1] + p[2]]
  <2>1. op \in [Int \X Int -> Int] /\ 0 \in Int
    BY SMT
  <2>2. val \in [Bits -> Int]
    BY <1>2
  <2> HIDE DEF val, op, Power
  <2>3. PICK f \in [S -> Int] : Iterates(f, Bits, 0, val, op)
    BY <1>1, <2>1, <2>2, Iteration
  <2>4. ASSUME NEW s \in S
        PROVE  f[s] = IF s = {} THEN 0 ELSE Power(AnyOf(s)) + f[s \ {AnyOf(s)}]
    <3>1. f[s] = IF s = {} THEN 0 ELSE op[<<val[AnyOf(s)], f[s \ {AnyOf(s)}]>>]
      BY <2>3 DEF Iterates
    <3>2. CASE s # {}
      <4>1. /\ val[AnyOf(s)] = Power(AnyOf(s)) /\ Power(AnyOf(s)) \in Int
            /\ f[s \ {AnyOf(s)}] \in Int
        BY <1>2, <1>3, <3>2 DEF val
      <4> QED
        BY <3>1, <3>2, <4>1 DEF op
    <3> QED
      BY <3>1, <3>2
  <2> QED
    BY <2>4
<1>5. ASSUME NEW f, Follows(f) PROVE f[Bits] \in Int
  <2>1. \A s \in S : f[s] = IF s = {} THEN 0 ELSE Power(AnyOf(s)) + f[s \ {AnyOf(s)}]
    BY <1>5
  <2>2. rank \in [S -> Nat]
    BY <1>1, SmallerSets, Zenon
  <2> DEFINE P == {s \in S : f[s] \in Int}
  <2> HIDE DEF Power
  <2>3. ASSUME NEW s \in S, \A t \in S : rank[t] < rank[s] => t \in P
        PROVE  s \in P
    <3>1. CASE s = {}
      <4>1. f[s] = 0
        BY <2>1, <3>1, Zenon
      <4> QED
        BY <4>1
    <3>2. CASE s # {}
      <4> DEFINE x == AnyOf(s)
      <4>1. x \in s /\ x \in Bits /\ s \ {x} \in S
        BY <1>3, <3>2
      <4>2. f[s] = Power(x) + f[s \ {x}]
        BY <2>1, <3>2
      <4> HIDE DEF x, P
      <4>3. s \ {x} \in P
        BY <1>1, <2>3, <4>1, SmallerSets
      <4> QED
        BY <1>2, <4>1, <4>2, <4>3 DEF P
    <3> QED
      BY <3>1, <3>2
  <2> HIDE DEF rank, P
  <2>4. P = S
    <3>1. Inductive(S, rank, P)
      BY <2>2, <2>3, Zenon DEF Inductive, P
    <3> QED
      BY <3>1, RankInduction
  <2> QED
    BY <2>4 DEF P
<1>6. IntOf(c) = (CHOOSE f : Follows(f))[Bits]
  BY Zenon DEF IntOf, MapThenSumSet, MapThenFoldSet, AnyOf
<1> QED
  BY <1>4, <1>5, <1>6

\* The length the parent has read is an integer, for what it has read is a character.
LEMMA BitsTyped == Spec => []TypeOK
<1>1. Init => strlength \in Int
  BY DEF Init
<1>2. BitInv /\ strlength \in Int /\ [Next]_vars => (strlength \in Int)'
  <2> SUFFICES ASSUME BitInv, strlength \in Int, [Next]_vars PROVE strlength' \in Int
    OBVIOUS
  <2>1. IntOf(current_char) \in Int
    BY IntOfInteger DEF BitInv, BitTypes
  <2> QED
    BY <2>1 DEF Next, Child, Parent, SendBit, SendNext, RecvBit, RecvAnswer, vars, parentVars
<1>3. BitInv /\ strlength \in Int => TypeOK
  <2> SUFFICES ASSUME BitInv, strlength \in Int PROVE TypeOK
    OBVIOUS
  <2>1. str_to_send \in Texts /\ Len(str_to_send) \in Nat /\ si \in Nat /\ ri \in Nat
    BY TextType DEF BitInv, BitTypes
  <2>2. si <= Len(str_to_send) + 1
    BY <2>1 DEF BitInv, Phase, Ready, Asked, Taken, Answering, Finished, Sending, Together,
                Stored
  <2>3. /\ spc \in {"kill", "wait", "done"} /\ rpc \in {"wait", "kill", "done"}
        /\ toParent \subseteq {USR1, USR2} /\ toChild \subseteq {USR1, USR2}
    BY DEF BitInv, Phase, Ready, Asked, Taken, Answering, Finished, Sending, Listening, Signal
  <2> QED
    BY <2>1, <2>2, <2>3 DEF BitInv, BitTypes, TypeOK
<1> QED
  BY <1>1, <1>2, <1>3, BitInvariance, PTL DEF Spec

LEMMA ChainTyped == ChainSpec => []ChainTypeOK
<1>1. ChainInit => ChainTypeOK
  BY ChainAssumption DEF ChainInit, ChainTypeOK
<1>2. ChainTypeOK /\ [ChainNext]_chainVars => ChainTypeOK'
  <2> SUFFICES ASSUME ChainTypeOK, [ChainNext]_chainVars PROVE ChainTypeOK'
    OBVIOUS
  <2> USE DEF ChainTypeOK
  <2>1. ASSUME NEW l \in Levels, ChainFork(l) PROVE ChainTypeOK'
    BY <2>1 DEF ChainFork
  <2>2. ASSUME NEW l \in Levels, ChainWait(l) PROVE ChainTypeOK'
    BY <2>2 DEF ChainWait
  <2>3. ASSUME NEW l \in Levels, ChainAct(l) PROVE ChainTypeOK'
    BY <2>3 DEF ChainAct
  <2>4. ASSUME NEW l \in Levels, ChainEnd(l) PROVE ChainTypeOK'
    BY <2>4 DEF ChainEnd
  <2>5. CASE UNCHANGED chainVars
    BY <2>5 DEF chainVars
  <2> QED
    BY <2>1, <2>2, <2>3, <2>4, <2>5 DEF ChainNext, Level
<1> QED
  BY <1>1, <1>2, PTL DEF ChainSpec

\* There is a line for every child that is still to be forked.
DelayInv == DelayTypeOK /\ (dpc = "read" => reads < Len(ReadLines))

LEMMA DelayTyped == DelaySpec => []DelayTypeOK
<1> DEFINE Kinds == {"runs", "bad", "empty"}
<1>1. ASSUME DelayTypeOK
      PROVE  Len(ReadLines) \in 1..MaxText+1 /\ MaxText \in Nat
  <2>1. text \in Seq(Kinds) /\ Len(text) \in 1..MaxText /\ MaxText \in Nat
    BY <1>1, DelayAssumption DEF DelayTypeOK
  <2>2. Len(Append(text, "empty")) = Len(text) + 1
    BY <2>1
  <2> QED
    BY <2>1, <2>2 DEF ReadLines
<1>2. DelayInit => DelayInv
  <2> SUFFICES ASSUME DelayInit PROVE DelayInv
    OBVIOUS
  <2>1. PICK n \in 1..MaxText : text \in [1..n -> Kinds]
    BY DEF DelayInit
  <2>2. text \in Seq(Kinds) /\ Len(text) = n
    BY <2>1, DelayAssumption
  <2>3. DelayTypeOK
    BY <2>2, DelayAssumption DEF DelayInit, DelayTypeOK
  <2> QED
    BY <2>3, <1>1 DEF DelayInv, DelayInit
<1>3. DelayInv /\ [DelayNext]_delayVars => DelayInv'
  <2> SUFFICES ASSUME DelayInv, [DelayNext]_delayVars PROVE DelayInv'
    OBVIOUS
  <2>1. Len(ReadLines) \in 1..MaxText+1 /\ MaxText \in Nat /\ DelayTypeOK
    BY <1>1 DEF DelayInv
  <2>2. CASE ReadFork
    <3>1. /\ reads' = reads + 1 /\ reads < Len(ReadLines) /\ reads \in Nat
          /\ ReadLines' = ReadLines /\ text' = text /\ terminated' = terminated
          /\ dpc' = IF reads' = Len(ReadLines) THEN "done" ELSE "read"
          /\ kpc' = [kpc EXCEPT ![reads'] = "test"]
      BY <2>1, <2>2 DEF ReadFork, DelayInv, DelayTypeOK, ReadLines, IsEOF
    <3>2. reads' \in 0..MaxText+1 /\ (dpc' = "read" => reads' < Len(ReadLines))
      <4> DEFINE lines == Len(ReadLines)
      <4>1. lines \in Nat /\ lines <= MaxText + 1 /\ MaxText \in Nat
        BY <2>1
      <4>2. /\ reads' = reads + 1 /\ reads < lines /\ reads \in Nat
            /\ dpc' = IF reads' = lines THEN "done" ELSE "read"
        BY <3>1
      <4> HIDE DEF lines
      <4>3. reads' \in 0..MaxText+1
        BY <4>1, <4>2
      <4>4. dpc' = "read" => reads' < lines
        BY <4>1, <4>2
      <4> QED
        BY <4>3, <4>4 DEF lines
    <3> QED
      BY <2>1, <3>1, <3>2 DEF DelayInv, DelayTypeOK
  <2>3. ASSUME NEW n \in 1..MaxText+1, Test(n) \/ Exec(n) PROVE DelayInv'
    <3>1. /\ UNCHANGED <<text, terminated, dpc, reads>> /\ ReadLines' = ReadLines
          /\ kpc' \in [1..MaxText+1 -> {"none", "test", "sleep", "command", "done"}]
      BY <2>1, <2>3 DEF Test, Exec, DelayTypeOK, ReadLines
    <3> QED
      BY <2>1, <3>1 DEF DelayInv, DelayTypeOK
  <2>4. CASE UNCHANGED delayVars
    BY <2>4 DEF delayVars, DelayInv, DelayTypeOK, ReadLines
  <2> QED
    BY <2>2, <2>3, <2>4 DEF DelayNext
<1>4. DelayInv => DelayTypeOK
  BY DEF DelayInv
<1> QED
  BY <1>2, <1>3, <1>4, PTL DEF DelaySpec

\* There is a record for every child that is still to be forked.
AssetInv == AssetTypeOK /\ (apc = "fork" => forked < Records)

LEMMA AssetsTyped == AssetSpec => []AssetTypeOK
<1> USE AssetsAssumption DEF AssetInv, AssetTypeOK, Procs
<1>1. AssetInit => AssetInv
  BY DEF AssetInit
<1>2. AssetInv /\ [AssetNext]_assetVars => AssetInv'
  <2> SUFFICES ASSUME AssetInv, [AssetNext]_assetVars PROVE AssetInv'
    OBVIOUS
  <2>1. CASE Fork
    BY <2>1 DEF Fork
  <2>2. CASE ForkFails
    BY <2>2 DEF ForkFails
  <2>3. CASE Sigset \/ Interrupted
    BY <2>3 DEF Sigset, Interrupted
  <2>4. CASE WaitOnce
    BY <2>4 DEF WaitOnce
  <2>5. ASSUME NEW p \in Procs, ChildEnds(p) PROVE AssetInv'
    BY <2>5 DEF ChildEnds
  <2>6. CASE UNCHANGED assetVars
    BY <2>6 DEF assetVars
  <2> QED
    BY <2>1, <2>2, <2>3, <2>4, <2>5, <2>6 DEF AssetNext, ForkAll
<1>3. AssetInv => AssetTypeOK
  OBVIOUS
<1> QED
  BY <1>1, <1>2, <1>3, PTL DEF AssetSpec

\* Who has asked for a semaphore, who has a memory as well, which writers have ended.
Asking   == {p \in FileProcs : shpc[p] # "semget"}
Attached == {p \in FileProcs : shpc[p] \notin {"semget", "shmget"}}
Posted   == {w \in Writers : shpc[w] = "done"}

\* No process creates more than one semaphore and one memory, no writer raises the
\* semaphore twice.
FileCounts ==
  /\ shpc \in [FileProcs -> {"semget", "shmget", "write", "post", "wait", "print", "semrm",
                       "shmrm", "done"}]
  /\ sems <= Cardinality(Asking) /\ mems <= Cardinality(Attached) /\ sem <= Cardinality(Posted)
  /\ mem \in BOOLEAN /\ written \subseteq 1..mems
  /\ shown \in [Readers -> {"nothing", "text", "beyond"}]

LEMMA FileSizes ==
  /\ \A P \in SUBSET FileProcs : IsFiniteSet(P) /\ Cardinality(P) \in Nat
                                 /\ Cardinality(P) <= Cardinality(FileProcs)
  /\ \A P \in SUBSET FileProcs, p \in FileProcs :
       Cardinality(P \cup {p}) = IF p \in P THEN Cardinality(P) ELSE Cardinality(P) + 1
<1>1. IsFiniteSet(FileProcs)
  BY FileAssumption
<1>2. \A P \in SUBSET FileProcs : IsFiniteSet(P) /\ Cardinality(P) \in Nat
                                  /\ Cardinality(P) <= Cardinality(FileProcs)
  BY <1>1, FS_Subset, FS_CardinalityType
<1> QED
  BY <1>2, FS_AddElement

LEMMA FileCountStep ==
  ASSUME FileInv, FileCounts, [FileNext]_fileVars
  PROVE  FileCounts'
<1>1. /\ Asking \in SUBSET FileProcs /\ Attached \in SUBSET FileProcs
      /\ Posted \in SUBSET FileProcs /\ Posted \in SUBSET Writers
  BY DEF Asking, Attached, Posted, FileProcs
<1>2. /\ Cardinality(Asking) \in Nat /\ Cardinality(Attached) \in Nat
      /\ Cardinality(Posted) \in Nat
  BY <1>1, FileSizes
<1>3. /\ sems \in Nat /\ mems \in Nat /\ sem \in Int /\ DOMAIN shpc = FileProcs
      /\ sems <= Cardinality(Asking) /\ mems <= Cardinality(Attached)
      /\ sem <= Cardinality(Posted) /\ written \subseteq 1..mems /\ mem \in BOOLEAN
  BY DEF FileInv, FileTypes, FileCounts
\* Where a process goes says how the sets change.
<1>4. ASSUME NEW p \in FileProcs, NEW to \in {"shmget", "write", "post", "wait", "print", "semrm",
                                              "shmrm", "done"},
             FileGo(p, to), shpc[p] # "done"
      PROVE  /\ Asking' = Asking \cup {p}
             /\ (to = "shmget" \/ shpc[p] # "semget") =>
                  Attached' = IF to = "shmget" THEN Attached \ {p} ELSE Attached \cup {p}
             /\ Posted' = IF to = "done" /\ p \in Writers THEN Posted \cup {p} ELSE Posted
             /\ shpc' \in [FileProcs -> {"semget", "shmget", "write", "post", "wait", "print",
                                         "semrm", "shmrm", "done"}]
  <2>1. \A q \in FileProcs : shpc'[q] = IF q = p THEN to ELSE shpc[q]
    BY <1>3, <1>4 DEF FileGo
  <2>2. Writers \subseteq FileProcs
    BY DEF FileProcs
  <2> QED
    BY <1>3, <1>4, <2>1, <2>2 DEF Asking, Attached, Posted, FileCounts, FileGo
<1>5. ASSUME NEW p \in FileProcs
      PROVE  /\ Cardinality(Asking \cup {p}) =
                  IF shpc[p] # "semget" THEN Cardinality(Asking) ELSE Cardinality(Asking) + 1
             /\ Cardinality(Attached \cup {p}) =
                  IF shpc[p] \notin {"semget", "shmget"} THEN Cardinality(Attached)
                                                         ELSE Cardinality(Attached) + 1
             /\ Cardinality(Posted \cup {p}) =
                  IF p \in Writers /\ shpc[p] = "done" THEN Cardinality(Posted)
                                                       ELSE Cardinality(Posted) + 1
  BY <1>1, FileSizes, Zenon DEF Asking, Attached, Posted
<1>6. ASSUME NEW p \in FileProcs, SemGet(p) PROVE FileCounts'
  <2>1. /\ shpc[p] = "semget" /\ FileGo(p, "shmget") /\ sems' \in {sems, sems + 1}
        /\ (sem' = sem \/ sem' = 0) /\ UNCHANGED <<shmid, mems, mem, written, shown>>
    BY <1>6 DEF SemGet
  <2>2. Asking' = Asking \cup {p} /\ Attached' = Attached /\ Posted' = Posted
    <3>1. Attached \ {p} = Attached
      BY <2>1 DEF Attached
    <3> QED
      BY <1>4, <2>1, <3>1
  <2>3. sems' <= Cardinality(Asking') /\ sem' <= Cardinality(Posted')
    <3>1. Cardinality(Asking \cup {p}) = Cardinality(Asking) + 1
      BY <1>5, <2>1
    <3>2. Cardinality(Asking') = Cardinality(Asking) + 1
          /\ Cardinality(Posted') = Cardinality(Posted)
      BY <2>2, <3>1
    <3> QED
      BY <1>2, <1>3, <2>1, <3>2
  <2> QED
    BY <1>3, <1>4, <2>1, <2>2, <2>3 DEF FileCounts
<1>7. ASSUME NEW p \in FileProcs, ShmGet(p) PROVE FileCounts'
  <2> DEFINE to == IF p \in Writers THEN "write" ELSE "wait"
  <2>1. /\ shpc[p] = "shmget" /\ FileGo(p, to) /\ mems' \in {mems, mems + 1}
        /\ mem' \in BOOLEAN /\ UNCHANGED <<semid, sems, sem, written, shown>>
    BY <1>3, <1>7 DEF ShmGet
  <2>2. Asking' = Asking \cup {p} /\ Attached' = Attached \cup {p} /\ Posted' = Posted
    BY <1>4, <2>1
  <2>3. mems' <= Cardinality(Attached') /\ sems <= Cardinality(Asking')
    <3>1. /\ Cardinality(Asking \cup {p}) = Cardinality(Asking)
          /\ Cardinality(Attached \cup {p}) = Cardinality(Attached) + 1
      BY <1>5, <2>1
    <3>2. /\ Cardinality(Asking') = Cardinality(Asking)
          /\ Cardinality(Attached') = Cardinality(Attached) + 1
      BY <2>2, <3>1
    <3> QED
      BY <1>2, <1>3, <2>1, <3>2
  <2>4. written \subseteq 1..mems'
    BY <1>3, <2>1
  <2> QED
    BY <1>3, <1>4, <2>1, <2>2, <2>3, <2>4 DEF FileCounts
\* Nobody else creates anything, and only a writer raises the semaphore.
<1>8. ASSUME NEW p \in FileProcs,
             NEW to \in {"post", "print", "semrm", "shmrm", "done"}, FileGo(p, to),
             shpc[p] \notin {"semget", "shmget", "done"},
             sems' = sems, mems' = mems, mem' \in BOOLEAN, written' \subseteq 1..mems,
             shown' \in [Readers -> {"nothing", "text", "beyond"}],
             sem' \in {sem, sem - 1, -1} \/ (sem' = sem + 1 /\ p \in Writers /\ to = "done")
      PROVE  FileCounts'
  <2>1. Asking' = Asking \cup {p} /\ Attached' = Attached \cup {p}
    BY <1>4, <1>8
  <2>2. Posted' = IF to = "done" /\ p \in Writers THEN Posted \cup {p} ELSE Posted
    BY <1>4, <1>8
  <2>3. Cardinality(Asking') = Cardinality(Asking) /\ Cardinality(Attached') = Cardinality(Attached)
    BY <1>5, <1>8, <2>1
  <2>4. Cardinality(Posted') = IF to = "done" /\ p \in Writers THEN Cardinality(Posted) + 1
                                                             ELSE Cardinality(Posted)
    BY <1>5, <1>8, <2>2
  <2>5. sem' <= Cardinality(Posted')
    BY <1>2, <1>3, <1>8, <2>4
  <2>6. sems' <= Cardinality(Asking') /\ mems' <= Cardinality(Attached')
    BY <1>3, <1>8, <2>3
  <2>7. shpc' \in [FileProcs -> {"semget", "shmget", "write", "post", "wait", "print",
                                 "semrm", "shmrm", "done"}]
    BY <1>4, <1>8
  <2> QED
    BY <1>8, <2>5, <2>6, <2>7 DEF FileCounts
<1>9. /\ Writers \subseteq FileProcs /\ Readers \subseteq FileProcs
      /\ shown \in [Readers -> {"nothing", "text", "beyond"}]
      /\ \A p \in FileProcs : shpc[p] \notin {"semget", "shmget"} => shmid[p] \in 1..mems
  BY DEF FileCounts, FileProcs, FileInv, FileTypes, FileControl
<1>10. ASSUME NEW w \in Writers, Copy(w) PROVE FileCounts'
  <2>1. written' \subseteq 1..mems
    BY <1>3, <1>9, <1>10 DEF Copy
  <2> QED
    BY <1>3, <1>8, <1>9, <1>10, <2>1 DEF Copy
<1>11. ASSUME NEW w \in Writers, Post(w) PROVE FileCounts'
  BY <1>3, <1>8, <1>9, <1>11 DEF Post
<1>12. ASSUME NEW r \in Readers, Wait(r) PROVE FileCounts'
  BY <1>3, <1>8, <1>9, <1>12 DEF Wait
<1>13. ASSUME NEW r \in Readers, PrintText(r) PROVE FileCounts'
  <2>1. shown' \in [Readers -> {"nothing", "text", "beyond"}]
    BY <1>9, <1>13 DEF PrintText
  <2> QED
    BY <1>3, <1>8, <1>9, <1>13, <2>1 DEF PrintText
<1>14. ASSUME NEW r \in Readers, SemRemove(r) PROVE FileCounts'
  BY <1>3, <1>8, <1>9, <1>14 DEF SemRemove
<1>15. ASSUME NEW r \in Readers, ShmRemove(r) PROVE FileCounts'
  <2>1. mem' \in BOOLEAN
    BY <1>15 DEF ShmRemove
  <2> QED
    BY <1>3, <1>8, <1>9, <1>15, <2>1 DEF ShmRemove
<1>16. CASE UNCHANGED fileVars
  BY <1>16 DEF fileVars, FileCounts, Asking, Attached, Posted
<1> QED
  BY <1>6, <1>7, <1>9, <1>10, <1>11, <1>12, <1>13, <1>14, <1>15, <1>16
     DEF FileNext, Writer, Reader

LEMMA FileTyped == FileSpec => []FileTypeOK
<1>1. FileInit => FileCounts
  <2> SUFFICES ASSUME FileInit PROVE FileCounts
    OBVIOUS
  <2>1. mem = FALSE /\ mem \in BOOLEAN
    BY Zenon DEF FileInit
  <2>2. /\ shpc = [p \in FileProcs |-> "semget"] /\ sems = 0 /\ mems = 0 /\ sem = -1
        /\ written = {} /\ shown = [r \in Readers |-> "nothing"]
    BY DEF FileInit
  <2>3. /\ Asking \in SUBSET FileProcs /\ Attached \in SUBSET FileProcs
        /\ Posted \in SUBSET FileProcs
    BY DEF Asking, Attached, Posted, FileProcs
  <2>4. /\ Cardinality(Asking) \in Nat /\ Cardinality(Attached) \in Nat
        /\ Cardinality(Posted) \in Nat
    BY <2>3, FileSizes
  <2>5. sems <= Cardinality(Asking) /\ mems <= Cardinality(Attached) /\ sem <= Cardinality(Posted)
    BY <2>2, <2>4
  <2> QED
    BY <2>1, <2>2, <2>5 DEF FileCounts
<1>2. FileInv /\ FileCounts /\ [FileNext]_fileVars => FileCounts'
  BY FileCountStep
<1>3. FileInv /\ FileCounts => FileTypeOK
  <2> SUFFICES ASSUME FileInv, FileCounts PROVE FileTypeOK
    OBVIOUS
  <2>1. /\ Asking \in SUBSET FileProcs /\ Attached \in SUBSET FileProcs
        /\ Writers \in SUBSET FileProcs /\ Posted \in SUBSET Writers
    BY DEF Asking, Attached, Posted, FileProcs
  <2>2. IsFiniteSet(Writers) /\ Cardinality(Writers) \in Nat
    BY <2>1, FileSizes
  <2>3. Cardinality(Posted) \in Nat /\ Cardinality(Posted) <= Cardinality(Writers)
    BY <2>1, <2>2, FS_Subset, FS_CardinalityType
  <2>4. /\ Cardinality(Asking) \in Nat /\ Cardinality(Attached) \in Nat
        /\ Cardinality(FileProcs) \in Nat
        /\ Cardinality(Asking) <= Cardinality(FileProcs)
        /\ Cardinality(Attached) <= Cardinality(FileProcs)
    BY <2>1, FileSizes
  <2>5. /\ sems \in 0..Cardinality(FileProcs) /\ mems \in 0..Cardinality(FileProcs)
        /\ sem \in -1..Cardinality(Writers)
    BY <2>2, <2>3, <2>4 DEF FileInv, FileTypes, FileCounts
  <2> QED
    BY <2>5 DEF FileInv, FileTypes, FileCounts, FileTypeOK
<1> QED
  BY <1>1, <1>2, <1>3, FileInvariance, PTL DEF FileSpec

\* Every variable of every program has its type, whichever program runs.
THEOREM EverythingTyped == ProgramsSpec => []AllTyped
<1>1. PingInv => PingTypeOK
  BY DEF PingInv
<1>2. IncInv => IncTypeOK
  BY DEF IncInv
<1>3. FactInv => FactTypeOK
  BY DEF FactInv, FactTypes
<1>4. FindInv => FindTypeOK
  BY DEF FindInv, FindTypes
<1>5. ProgramsSpec => [](program \in Programs)
  <2>1. ProgramsInit => program \in Programs
    BY DEF ProgramsInit
  <2>2. program \in Programs /\ [ProgramsNext]_allVars => (program \in Programs)'
    BY StepsApart
  <2> QED
    BY <2>1, <2>2, PTL DEF ProgramsSpec
<1>6. ASSUME program \in Programs, TypeOK, MatrixTypeOK, FileTypeOK, FactTypeOK, PingTypeOK,
             ChainTypeOK, DelayTypeOK, IncTypeOK, AssetTypeOK, FindTypeOK
      PROVE  AllTyped
  BY <1>6, Zenon DEF AllTyped
<1> QED
  BY <1>1, <1>2, <1>3, <1>4, <1>5, <1>6, RunsAlone, BitsTyped, MatrixTypeCorrect, FileTyped,
     FactInvariance, PingInvariance, ChainTyped, DelayTyped, IncInvariance, AssetsTyped,
     FindInvariance, PTL
=============================================================================
