------------------------------ MODULE TCPProofs ------------------------------
(***************************************************************************)
(* TCPChat, for any number of rooms, kills and starts and whatever is      *)
(* typed: every room is paid for, no process strays to the semaphore of    *)
(* the server unless a client or the server was killed, and what a user    *)
(* hears of the other is what the other typed, in order.                   *)
(***************************************************************************)
EXTENDS TCPChat, FiniteSetTheorems, TLAPS

\* What is received was typed, and nothing is typed behind an end.
Typists ==
  \A u \in Users : /\ taken[u] <= Len(typed[u])
                   /\ \A k \in DOMAIN typed[u] : k < Len(typed[u]) => typed[u][k] > 0

Payers == {u \in Users : KillRead(u)}

PayInv == TypeOK /\ Typists /\ RoomsPaid

-----------------------------------------------------------------------------
LEMMA UserFacts ==
  /\ IsFiniteSet(Users)
  /\ \A p \in Procs : UserOf(p) \in Users
  /\ \A u \in Users : Peer(u) \in Users /\ Peer(u) # u
<1>1. IsFiniteSet(1..Rooms) /\ IsFiniteSet(0..1)
  <2>1. Rooms \in Int /\ 0 \in Int /\ 1 \in Int
    BY ChatAssumption
  <2>2. IsFiniteSet(1..Rooms)
    BY <2>1, FS_Interval, Zenon
  <2>3. IsFiniteSet(0..1)
    BY <2>1, FS_Interval, Zenon
  <2> QED
    BY <2>2, <2>3
<1>2. IsFiniteSet(Users)
  BY <1>1, FS_Product DEF Users
<1>3. \A p \in Procs : UserOf(p) \in Users
  BY DEF Users, Procs, UserOf
<1>4. \A u \in Users : Peer(u) \in Users /\ Peer(u) # u
  BY DEF Users, Peer
<1> QED
  BY <1>2, <1>3, <1>4

\* Delivering leaves everybody a sequence of messages.
LEMMA Delivering ==
  ASSUME NEW M, NEW s \in [Users -> Seq(M)], NEW u \in Users, NEW msg \in M
  PROVE  Delivered(s, u, msg) \in [Users -> Seq(M)]
  BY DEF Delivered

Messages ==
  [kind : {"exit", "goodbye", "joined", "said"}, nick : Nat, text : Nat]

LEMMA MessageTypes ==
  /\ Exit \in Messages /\ Goodbye \in Messages
  /\ \A t \in Nat : Joined(t) \in Messages
  /\ \A n, t \in Nat : Said(n, t) \in Messages
  BY DEF Messages, Exit, Goodbye, Joined, Said

LEMMA PayerCount == IsFiniteSet(Payers) /\ Cardinality(Payers) \in Nat
<1>1. Payers \subseteq Users
  BY DEF Payers
<1> QED
  BY <1>1, UserFacts, FS_Subset, FS_CardinalityType

LEMMA Paid == RoomsPaid <=> room + sem <= starts + Cardinality(Payers)
  BY DEF RoomsPaid, Payers

LEMMA PayInit == ASSUME Init PROVE PayInv
<1>1. Payers = {}
  BY DEF Init, Payers, KillRead
<1>2. Cardinality(Payers) = 0
  BY <1>1, FS_EmptySet
<1>3. room = 1 /\ sem = 0 /\ starts = 1
  BY DEF Init
<1>4. RoomsPaid
  BY <1>2, <1>3, Paid
<1>5. named \in [Procs -> BOOLEAN] /\ heard \in [Users -> BOOLEAN]
  BY Zenon DEF Init
<1>6. TypeOK
  BY <1>5, ChatAssumption DEF Init, TypeOK, Users
<1>7. Typists
  BY DEF Init, Typists
<1> QED
  BY <1>4, <1>6, <1>7 DEF PayInv

-----------------------------------------------------------------------------
\* As long as nobody's reading changes, neither do the payers.
LEMMA PayersKept == ASSUME UNCHANGED <<typed, taken>> PROVE Payers' = Payers
  BY DEF Payers, KillRead

\* A user can type more while what has been received stays.
LEMMA PayersOfTyping ==
  ASSUME PayInv, NEW u \in Users, Type(u) PROVE Payers' = Payers /\ Typists'
<1>1. PICK t \in {Len(typed[u]) + 1, EXIT_SEQ, KILL_ALL} :
        typed' = [typed EXCEPT ![u] = Append(@, t)]
  BY DEF Type
<1>2. taken' = taken
  BY DEF Type
<1>3. \A v \in Users : typed[v] \in Seq((Nat \ {0}) \cup {EXIT_SEQ, KILL_ALL})
  BY DEF PayInv, TypeOK
<1>4. \A v \in Users : taken[v] \in Nat /\ taken[v] <= Len(typed[v])
  BY DEF PayInv, TypeOK, Typists
<1>5. typed \in [Users -> Seq((Nat \ {0}) \cup {EXIT_SEQ, KILL_ALL})]
  BY DEF PayInv, TypeOK
<1>6. typed'[u] = Append(typed[u], t) /\ \A v \in Users \ {u} : typed'[v] = typed[v]
  BY <1>1, <1>5
<1>7. /\ Len(typed'[u]) = Len(typed[u]) + 1
      /\ \A k \in 1..Len(typed[u]) : typed'[u][k] = typed[u][k]
      /\ DOMAIN typed'[u] = 1..(Len(typed[u]) + 1)
  BY <1>3, <1>6
<1>8. \A v \in Users : KillRead(v)' <=> KillRead(v)
  <2> TAKE v \in Users
  <2>1. CASE v = u
    <3>1. \A k \in 1..taken[u] : typed'[u][k] = typed[u][k]
      BY <1>3, <1>4, <1>7
    <3> QED
      BY <2>1, <3>1, <1>2 DEF KillRead
  <2>2. CASE v # u
    BY <2>2, <1>2, <1>6 DEF KillRead
  <2> QED
    BY <2>1, <2>2
<1>9. Payers' = Payers
  BY <1>8 DEF Payers
<1>10. ASSUME NEW v \in Users
       PROVE  /\ taken'[v] <= Len(typed'[v])
              /\ \A k \in DOMAIN typed'[v] : k < Len(typed'[v]) => typed'[v][k] > 0
  <2>1. CASE v = u
    <3>1. \A k \in DOMAIN typed[u] : typed[u][k] > 0
      BY DEF Type, Typing
    <3>2. \A k \in 1..Len(typed[u]) : typed'[u][k] > 0
      BY <3>1, <1>3, <1>7
    <3>3. Len(typed[u]) \in Nat
      BY <1>3
    <3>4. taken'[u] <= Len(typed'[u])
      BY <1>2, <1>4, <1>7, <3>3
    <3>5. \A k \in DOMAIN typed'[u] : k < Len(typed'[u]) => typed'[u][k] > 0
      BY <1>7, <3>2, <3>3
    <3> QED
      BY <2>1, <3>4, <3>5
  <2>2. CASE v # u
    BY <2>2, <1>2, <1>6 DEF PayInv, Typists
  <2> QED
    BY <2>1, <2>2
<1>11. Typists'
  BY <1>10 DEF Typists
<1> QED
  BY <1>9, <1>11

\* What is received makes its user a payer if it is KILL_THIS, and it is the first then.
LEMMA PayersOfReceiving ==
  ASSUME PayInv, NEW p \in Procs, Receive(p)
  PROVE  /\ Typists'
         /\ Received(p) # KILL_ALL => Payers' = Payers
         /\ Received(p) = KILL_ALL => /\ UserOf(p) \notin Payers
                                      /\ Payers' = Payers \cup {UserOf(p)}
<1> DEFINE u == UserOf(p)
<1>1. u \in Users
  BY UserFacts
<1> HIDE DEF u
<1>2. /\ taken[u] < Len(typed[u]) /\ taken' = [taken EXCEPT ![u] = @ + 1]
      /\ typed' = typed
  BY DEF Receive, u
<1>3. /\ \A v \in Users : typed[v] \in Seq((Nat \ {0}) \cup {EXIT_SEQ, KILL_ALL})
      /\ \A v \in Users : taken[v] \in Nat
  BY DEF PayInv, TypeOK
<1>4. \A v \in Users : taken[v] \in Nat /\ Len(typed[v]) \in Nat
  BY <1>3
<1>5. \A v \in Users : taken'[v] = IF v = u THEN taken[u] + 1 ELSE taken[v]
  <2>1. DOMAIN taken = Users
    BY DEF PayInv, TypeOK
  <2> QED
    BY <2>1, <1>2
<1>6. Typists'
  BY <1>2, <1>4, <1>5 DEF PayInv, Typists
<1>7. \A k \in 1..taken[u] : typed[u][k] > 0
  <2>1. \A k \in 1..taken[u] : k \in DOMAIN typed[u] /\ k < Len(typed[u])
    BY <1>1, <1>2, <1>3, <1>4
  <2> QED
    BY <1>1, <2>1 DEF PayInv, Typists
<1>8. ~KillRead(u)
  BY <1>7 DEF KillRead, KILL_ALL
<1>9. KillRead(u)' <=> typed[u][taken[u] + 1] = KILL_ALL
  <2>1. 1..taken'[u] = 1..taken[u] \cup {taken[u] + 1}
    BY <1>1, <1>4, <1>5
  <2>2. KillRead(u)' <=> \E k \in 1..taken'[u] : typed[u][k] = KILL_ALL
    BY <1>2 DEF KillRead
  <2> QED
    BY <2>1, <2>2, <1>8 DEF KillRead
<1>10. \A v \in Users \ {u} : KillRead(v)' <=> KillRead(v)
  BY <1>2, <1>5 DEF KillRead
<1>11. Received(p) = typed[u][taken[u] + 1]
  BY DEF Received, u
<1>12. Received(p) # KILL_ALL => Payers' = Payers
  BY <1>8, <1>9, <1>10, <1>11 DEF Payers
<1>13. Received(p) = KILL_ALL => u \notin Payers /\ Payers' = Payers \cup {u}
  BY <1>1, <1>8, <1>9, <1>10, <1>11 DEF Payers
<1> QED
  BY <1>6, <1>12, <1>13 DEF u

LEMMA StillPaid ==
  ASSUME PayInv, Payers' = Payers, room' \in Int, sem' \in Int, starts' \in Int,
         room' + sem' + starts <= room + sem + starts'
  PROVE  RoomsPaid'
<1>1. RoomsPaid' <=> room' + sem' <= starts' + Cardinality(Payers)'
  BY DEF RoomsPaid, Payers
<1>2. room \in Int /\ sem \in Int /\ starts \in Int
  BY ChatAssumption DEF PayInv, TypeOK
<1>3. PICK n \in Int : n = Cardinality(Payers)
  BY PayerCount
<1>4. room + sem <= starts + n
  BY <1>3, Paid DEF PayInv
<1>5. Cardinality(Payers)' = n
  BY <1>3
<1>6. room' + sem' <= starts' + n
  <2> DEFINE r == room
             s == sem
             b == starts
             rr == room'
             ss == sem'
             bb == starts'
  <2>1. /\ r \in Int /\ s \in Int /\ b \in Int /\ rr \in Int /\ ss \in Int /\ bb \in Int
        /\ rr + ss + b <= r + s + bb /\ r + s <= b + n
    BY <1>2, <1>4
  <2> HIDE DEF r, s, b, rr, ss, bb
  <2>2. rr + ss <= bb + n
    BY <2>1
  <2> QED
    BY <2>2 DEF rr, ss, bb
<1> QED
  BY <1>1, <1>5, <1>6

-----------------------------------------------------------------------------
\* Everything that neither types nor receives: the payers are those of before.
LEMMA PayQuiet ==
  ASSUME PayInv, TypeOK', UNCHANGED <<typed, taken>>,
         room' + sem' + starts <= room + sem + starts'
  PROVE  PayInv'
<1>1. room' \in Int /\ sem' \in Int /\ starts' \in Int
  BY ChatAssumption DEF TypeOK
<1>2. RoomsPaid'
  BY <1>1, PayersKept, StillPaid
<1>3. Typists'
  BY DEF PayInv, Typists
<1> QED
  BY <1>2, <1>3 DEF PayInv

LEMMA PayServer == ASSUME PayInv, Server PROVE PayInv'
<1>0. room \in Int /\ sem \in Int /\ starts \in Int /\ Rooms \in Int
  BY ChatAssumption DEF PayInv, TypeOK
<1>1. ASSUME NEW i \in 0..1, Accept(i) PROVE PayInv'
  <2>1. TypeOK'
    BY <1>1 DEF PayInv, TypeOK, Accept, procVars
  <2> QED
    BY <1>0, <1>1, <2>1, PayQuiet DEF Accept
<1>2. ASSUME NEW i \in 0..1, Fork(i) PROVE PayInv'
  <2>1. TypeOK'
    BY <1>2 DEF PayInv, TypeOK, Fork, lineVars
  <2> QED
    BY <1>0, <1>2, <2>1, PayQuiet DEF Fork, lineVars
<1>3. ASSUME NextPair PROVE PayInv'
  <2>1. TypeOK'
    BY <1>0, <1>3 DEF PayInv, TypeOK, NextPair, lineVars, procVars
  <2> QED
    BY <1>0, <1>3, <2>1, PayQuiet DEF NextPair, lineVars
<1> QED
  BY <1>1, <1>2, <1>3 DEF Server

LEMMA PayRestart == ASSUME PayInv, Restart PROVE PayInv'
<1>0. room \in Int /\ sem \in Int /\ starts \in Int /\ Rooms \in Int /\ Starts \in Int
  BY ChatAssumption DEF PayInv, TypeOK
<1>1. room' = room + 1 /\ starts' = starts + 1 /\ sem' = sem /\ UNCHANGED <<typed, taken>>
  BY DEF Restart
<1>2. TypeOK'
  BY <1>0 DEF PayInv, TypeOK, Restart
<1> QED
  BY <1>0, <1>1, <1>2, PayQuiet

-----------------------------------------------------------------------------
\* What receiving changes besides the payers.
LEMMA ReceiveTypes ==
  ASSUME PayInv, NEW p \in Procs, Receive(p)
  PROVE  /\ taken' \in [Users -> Nat] /\ UserOf(p) \in Users /\ Peer(UserOf(p)) \in Users
         /\ Received(p) \in (Nat \ {0}) \cup {EXIT_SEQ, KILL_ALL}
<1>1. UserOf(p) \in Users /\ Peer(UserOf(p)) \in Users
  BY UserFacts
<1>2. /\ taken \in [Users -> Nat] /\ taken[UserOf(p)] < Len(typed[UserOf(p)])
      /\ taken' = [taken EXCEPT ![UserOf(p)] = @ + 1]
      /\ typed[UserOf(p)] \in Seq((Nat \ {0}) \cup {EXIT_SEQ, KILL_ALL})
  BY <1>1 DEF PayInv, TypeOK, Receive
<1>3. taken[UserOf(p)] \in Nat
  BY <1>1, <1>2
<1>4. taken' \in [Users -> Nat]
  <2>1. taken' = [taken EXCEPT ![UserOf(p)] = taken[UserOf(p)] + 1]
    BY <1>2
  <2>2. taken[UserOf(p)] + 1 \in Nat
    BY <1>3
  <2> QED
    BY <1>1, <1>2, <2>1, <2>2
<1>5. taken[UserOf(p)] + 1 \in 1..Len(typed[UserOf(p)])
  BY <1>2, <1>3
<1>6. Received(p) \in (Nat \ {0}) \cup {EXIT_SEQ, KILL_ALL}
  BY <1>2, <1>5 DEF Received
<1> QED
  BY <1>1, <1>4, <1>6

\* A process that receives anything else leaves the account as it is.
LEMMA PayReceived ==
  ASSUME PayInv, TypeOK', NEW p \in Procs, Receive(p), Received(p) # KILL_ALL, sem' = sem
  PROVE  PayInv'
<1>1. Payers' = Payers /\ Typists'
  BY PayersOfReceiving
<1>2. room' = room /\ starts' = starts
  BY DEF Receive
<1>3. room \in Int /\ sem \in Int /\ starts \in Int
  BY ChatAssumption DEF PayInv, TypeOK
<1>4. RoomsPaid'
  BY <1>1, <1>2, <1>3, StillPaid
<1> QED
  BY <1>1, <1>4 DEF PayInv

LEMMA PayLeave == ASSUME PayInv, NEW p \in Procs, Leave(p) PROVE PayInv'
<1>1. Receive(p) /\ Received(p) = EXIT_SEQ /\ sem' = sem
  BY DEF Leave
<1>2. sent' \in [Users -> Seq(Messages)]
  <2>1. sent \in [Users -> Seq(Messages)]
    BY DEF PayInv, TypeOK, Messages
  <2>2. sent' = Delivered(sent, UserOf(p), Exit)
    BY DEF Leave
  <2> QED
    BY <1>1, <2>1, <2>2, ReceiveTypes, MessageTypes, Delivering
<1>3. TypeOK'
  BY <1>1, <1>2, ReceiveTypes DEF PayInv, TypeOK, Leave, Receive, Messages
<1> QED
  BY <1>1, <1>3, PayReceived DEF EXIT_SEQ, KILL_ALL

LEMMA PayRelay == ASSUME PayInv, NEW p \in Procs, Relay(p) PROVE PayInv'
<1> DEFINE t == Received(p)
           msg == IF named[p] THEN Said(nick[p], t) ELSE Joined(t)
<1>1. Receive(p) /\ t > 0 /\ sem' = sem /\ sent' = Delivered(sent, Peer(UserOf(p)), msg)
  BY DEF Relay
<1>2. t \in Nat /\ t # KILL_ALL
  BY <1>1, ReceiveTypes DEF EXIT_SEQ, KILL_ALL
<1>3. nick \in [Procs -> Nat] /\ named \in [Procs -> BOOLEAN]
  BY DEF PayInv, TypeOK
<1>4. msg \in Messages
  <2>1. Said(nick[p], t) \in Messages /\ Joined(t) \in Messages
    BY <1>2, <1>3, MessageTypes
  <2> QED
    BY <2>1
<1> HIDE DEF msg
<1>5. sent' \in [Users -> Seq(Messages)]
  <2>1. sent \in [Users -> Seq(Messages)]
    BY DEF PayInv, TypeOK, Messages
  <2> QED
    BY <1>1, <1>4, <2>1, ReceiveTypes, Delivering
<1>6. nick' \in [Procs -> Nat]
  BY <1>2, <1>3 DEF Relay
<1>7. named' \in [Procs -> BOOLEAN]
  BY <1>3 DEF Relay
<1>8. ppc' \in [Procs -> {"none", "recv", "semop", "gone"}]
  BY DEF PayInv, TypeOK, Relay, Killed
<1>9. UNCHANGED <<spc, room, sem, starts, conn, typed, heard, killed>>
  BY <1>1 DEF Receive
<1>10. taken' \in [Users -> Nat]
  BY <1>1, ReceiveTypes
<1>11. TypeOK'
  BY <1>5, <1>6, <1>7, <1>8, <1>9, <1>10 DEF PayInv, TypeOK, Messages
<1> QED
  BY <1>1, <1>2, <1>11, PayReceived

\* KILL_THIS pays for the token it puts on the semaphore.
LEMMA PayKillAll == ASSUME PayInv, NEW p \in Procs, KillAll(p) PROVE PayInv'
<1> DEFINE told == Delivered(sent, UserOf(p), Exit)
           both == Delivered(told, Peer(UserOf(p)), Goodbye)
<1>1. Receive(p) /\ Received(p) = KILL_ALL
  BY DEF KillAll
<1>2. UserOf(p) \in Users /\ Peer(UserOf(p)) \in Users /\ taken' \in [Users -> Nat]
  BY <1>1, ReceiveTypes
<1>3. sent \in [Users -> Seq(Messages)]
  BY DEF PayInv, TypeOK, Messages
<1>4. told \in [Users -> Seq(Messages)]
  BY <1>2, <1>3, MessageTypes, Delivering
<1>5. both \in [Users -> Seq(Messages)]
  <2> HIDE DEF told
  <2> QED
    BY <1>2, <1>4, MessageTypes, Delivering
<1>6. /\ sent' \in {sent, told, both} /\ sem' \in {sem, sem + 1}
      /\ ppc' = [ppc EXCEPT ![p] = "gone"] /\ UNCHANGED <<named, nick>>
  BY DEF KillAll, Killed
<1> HIDE DEF told, both
<1>7. sent' \in [Users -> Seq(Messages)]
  BY <1>3, <1>4, <1>5, <1>6
<1>8. UNCHANGED <<spc, room, starts, conn, typed, heard, killed>>
  BY <1>1 DEF Receive
<1>9. room \in Int /\ sem \in Nat /\ starts \in Int
  BY ChatAssumption DEF PayInv, TypeOK
<1>10. TypeOK'
  <2>1. ppc' \in [Procs -> {"none", "recv", "semop", "gone"}]
    BY <1>6 DEF PayInv, TypeOK
  <2>2. sem' \in Nat
    BY <1>6, <1>9
  <2>3. sent' \in [Users -> Seq([kind : {"exit", "goodbye", "joined", "said"},
                                nick : Nat, text : Nat])]
    BY <1>7 DEF Messages
  <2>4. named' = named /\ nick' = nick
    BY <1>6
  <2> QED
    BY <1>2, <1>8, <2>1, <2>2, <2>3, <2>4 DEF PayInv, TypeOK
<1>11. /\ Payers' = Payers \cup {UserOf(p)} /\ UserOf(p) \notin Payers /\ Typists'
  BY <1>1, PayersOfReceiving
<1>12. Cardinality(Payers') = Cardinality(Payers) + 1
  BY <1>11, PayerCount, FS_AddElement
<1>13. RoomsPaid'
  <2>1. RoomsPaid' <=> room' + sem' <= starts' + Cardinality(Payers')
    BY DEF RoomsPaid, Payers
  <2>2. room + sem <= starts + Cardinality(Payers)
    BY Paid DEF PayInv
  <2> QED
    BY <1>6, <1>8, <1>9, <1>12, <2>1, <2>2, PayerCount
<1> QED
  BY <1>10, <1>11, <1>13 DEF PayInv

LEMMA PayRoom == ASSUME PayInv, NEW p \in Procs, Room(p) PROVE PayInv'
<1>0. room \in Int /\ sem \in Int /\ starts \in Int
  BY ChatAssumption DEF PayInv, TypeOK
<1>1. CASE Break(p)
  <2>1. named' \in [Procs -> BOOLEAN]
    BY <1>1 DEF PayInv, TypeOK, Break
  <2>2. TypeOK'
    BY <1>1, <2>1 DEF PayInv, TypeOK, Break, lineVars
  <2> QED
    BY <1>0, <1>1, <2>2, PayQuiet DEF Break, lineVars
<1>2. CASE Stray(p)
  <2>1. TypeOK'
    BY <1>0, <1>2 DEF PayInv, TypeOK, Stray, lineVars
  <2> QED
    BY <1>0, <1>2, <2>1, PayQuiet DEF Stray, lineVars
<1> QED
  BY <1>1, <1>2, PayKillAll, PayLeave, PayRelay DEF Room

LEMMA PayClient == ASSUME PayInv, NEW u \in Users, Client(u) PROVE PayInv'
<1>0. room \in Int /\ sem \in Int /\ starts \in Int
  BY ChatAssumption DEF PayInv, TypeOK
<1>1. CASE Type(u)
  <2>1. typed' \in [Users -> Seq((Nat \ {0}) \cup {EXIT_SEQ, KILL_ALL})]
    BY <1>1 DEF PayInv, TypeOK, Type
  <2>2. UNCHANGED <<spc, room, sem, starts, ppc, named, nick, conn, taken, sent, heard, killed>>
    BY <1>1 DEF Type, procVars
  <2>3. TypeOK'
    BY <2>1, <2>2 DEF PayInv, TypeOK
  <2>4. RoomsPaid'
    BY <1>0, <1>1, <2>2, PayersOfTyping, StillPaid
  <2> QED
    BY <1>1, <2>3, <2>4, PayersOfTyping DEF PayInv
<1>2. CASE Hear(u)
  <2>1. TypeOK'
    <3>1. conn' \in [Users -> {"none", "up", "down"}] /\ heard' \in [Users -> BOOLEAN]
      BY <1>2 DEF PayInv, TypeOK, Hear
    <3> QED
      BY <1>2, <3>1 DEF PayInv, TypeOK, Hear, procVars
  <2> QED
    BY <1>0, <1>2, <2>1, PayQuiet DEF Hear
<1>3. CASE Disconnect(u)
  <2>1. TypeOK'
    BY <1>3, ChatAssumption DEF PayInv, TypeOK, Disconnect, procVars
  <2> QED
    BY <1>0, <1>3, <2>1, PayQuiet DEF Disconnect
<1> QED
  BY <1>1, <1>2, <1>3 DEF Client

LEMMA PayNext == ASSUME PayInv, [Next]_vars PROVE PayInv'
<1>1. CASE UNCHANGED vars
  BY <1>1 DEF vars, procVars, lineVars, PayInv, TypeOK, Typists, RoomsPaid, KillRead
<1> QED
  BY <1>1, PayServer, PayRoom, PayClient, PayRestart DEF Next

-----------------------------------------------------------------------------
\* "exit" is among what was sent to u.
Told(s, u) == \E k \in DOMAIN s[u] : s[u][k] = Exit

Unharmed == killed = 0 /\ starts = 1

\* The seats of rooms not served yet have no process, nor has the one not forked yet.
Unforked ==
  \A u \in Users :
    \/ u[1] > room
    \/ u[1] = room /\ spc \in {"accept0", "accept1", "fork0"}
    \/ u = <<room, 1>> /\ spc = "fork1"
    => ppc[u] = "none"

\* While nobody was killed a process is never where its server is, no third one is forked,
\* and whoever was told to end, or has ended, has no process any more.
AtHome ==
  /\ \A p \in Procs : ppc[p] # "semop"
  /\ \A r \in 1..Rooms : ppc[<<r, 2>>] = "none"
  /\ \A u \in Users : Told(sent, u) \/ conn[u] = "down" => ppc[u] = "gone"

StrayInv == Unforked /\ (Unharmed => AtHome)

LEMMA StrayInit == ASSUME Init PROVE StrayInv
<1>1. /\ \A p \in Procs : ppc[p] = "none"
      /\ \A u \in Users : conn[u] = "none" /\ ~Told(sent, u)
  BY DEF Init, Told
<1>2. /\ \A u \in Users : u \in Procs
      /\ \A r \in 1..Rooms : <<r, 2>> \in Procs
  BY DEF Users, Procs
<1> QED
  BY <1>1, <1>2 DEF StrayInv, Unforked, AtHome

\* Only who is sent "exit" is told.
LEMMA TellingOne ==
  ASSUME NEW s \in [Users -> Seq(Messages)], NEW u \in Users, NEW msg \in Messages,
         NEW v \in Users, Told(Delivered(s, u, msg), v)
  PROVE  Told(s, v) \/ (v = u /\ msg = Exit)
<1>1. CASE conn[u] = "up" /\ v = u
  <2>1. Delivered(s, u, msg)[u] = Append(s[u], msg)
    BY <1>1 DEF Delivered
  <2>2. s[u] \in Seq(Messages)
    OBVIOUS
  <2>3. PICK k \in DOMAIN Append(s[u], msg) : Append(s[u], msg)[k] = Exit
    BY <1>1, <2>1 DEF Told
  <2>4. CASE k = Len(s[u]) + 1
    BY <1>1, <2>2, <2>3, <2>4
  <2>5. CASE k # Len(s[u]) + 1
    BY <1>1, <2>2, <2>3, <2>5 DEF Told
  <2> QED
    BY <2>4, <2>5
<1>2. CASE ~(conn[u] = "up" /\ v = u)
  <2>1. Delivered(s, u, msg)[v] = s[v]
    BY <1>2 DEF Delivered
  <2> QED
    BY <2>1 DEF Told
<1> QED
  BY <1>1, <1>2

\* A process that takes a message is its user's own, and he has not been told to end.
LEMMA OwnProcess ==
  ASSUME PayInv, AtHome, NEW p \in Procs, ppc[p] = "recv"
  PROVE  p = UserOf(p) /\ p \in Users /\ ~Told(sent, p) /\ conn[p] # "down"
<1>1. p = <<p[1], p[2]>> /\ p[1] \in 1..Rooms /\ p[2] \in 0..2
  BY DEF Procs
<1>2. p[2] # 2
  BY <1>1 DEF AtHome
<1>3. p[2] \in 0..1
  BY <1>1, <1>2
<1>4. p = UserOf(p)
  BY <1>1, <1>3 DEF UserOf
<1>5. p \in Users
  BY <1>1, <1>3 DEF Users
<1> QED
  BY <1>4, <1>5 DEF AtHome

LEMMA SeatFacts ==
  /\ \A u \in Users : u \in Procs /\ u[1] \in 1..Rooms /\ u[2] \in 0..1 /\ u = <<u[1], u[2]>>
  /\ \A r \in 1..Rooms : \A i \in 0..1 : <<r, i>> \in Users /\ <<r, i>> \in Procs
  /\ \A r \in 1..Rooms : <<r, 2>> \in Procs
  /\ Rooms \in Nat
  BY ChatAssumption DEF Users, Procs

LEMMA StrayServer == ASSUME PayInv, StrayInv, Server PROVE StrayInv'
<1>0. /\ room \in 1..Rooms /\ ppc \in [Procs -> {"none", "recv", "semop", "gone"}]
      /\ conn \in [Users -> {"none", "up", "down"}]
  BY DEF PayInv, TypeOK
<1>1. ASSUME NEW i \in 0..1, Accept(i) PROVE StrayInv'
  <2>1. /\ UNCHANGED <<ppc, sent, room, killed, starts>>
        /\ conn' = [conn EXCEPT ![<<room, i>>] = "up"]
        /\ spc \in {"accept0", "accept1"} /\ spc' \in {"accept1", "fork0"}
    BY <1>1 DEF Accept, procVars
  <2>2. Unforked'
    BY <2>1 DEF StrayInv, Unforked
  <2>3. \A u \in Users : conn'[u] = "down" => conn[u] = "down"
    BY <1>0, <2>1
  <2>4. AtHome => AtHome'
    BY <2>1, <2>3 DEF AtHome, Told
  <2> QED
    BY <2>1, <2>2, <2>4 DEF StrayInv, Unharmed
<1>2. ASSUME NEW i \in 0..1, Fork(i) PROVE StrayInv'
  <2> DEFINE new == <<room, i>>
  <2>1. /\ UNCHANGED <<conn, sent, room, killed, starts>>
        /\ ppc' = [ppc EXCEPT ![new] = "recv"]
        /\ spc = (IF i = 0 THEN "fork0" ELSE "fork1")
        /\ spc' = (IF i = 0 THEN "fork1" ELSE "semop")
    BY <1>2 DEF Fork, lineVars
  <2>2. new \in Users /\ new \in Procs /\ new[1] = room /\ new[2] = i
    BY <1>0, SeatFacts
  <2>3. ppc[new] = "none"
    <3>1. i = 0 \/ new = <<room, 1>>
      OBVIOUS
    <3> QED
      BY <2>1, <2>2, <3>1 DEF StrayInv, Unforked
  <2>4. \A p \in Procs : ppc'[p] = IF p = new THEN "recv" ELSE ppc[p]
    BY <1>0, <2>1
  <2>5. Unforked'
    <3> SUFFICES ASSUME NEW u \in Users,
                        \/ u[1] > room
                        \/ u[1] = room /\ spc' \in {"accept0", "accept1", "fork0"}
                        \/ u = <<room, 1>> /\ spc' = "fork1"
                 PROVE  ppc'[u] = "none"
      BY <2>1 DEF Unforked
    <3>1. CASE u[1] > room
      <4>1. u # new
        BY <1>0, <2>2, <3>1, SeatFacts
      <4> QED
        BY <2>4, <3>1, <4>1, SeatFacts DEF StrayInv, Unforked
    <3>2. CASE u = <<room, 1>> /\ spc' = "fork1"
      <4>1. i = 0 /\ spc = "fork0"
        BY <2>1, <3>2
      <4>2. u # new /\ u[1] = room
        BY <3>2, <4>1
      <4> QED
        BY <2>4, <4>1, <4>2, SeatFacts DEF StrayInv, Unforked
    <3> QED
      BY <2>1, <3>1, <3>2
  <2>6. AtHome => AtHome'
    <3> SUFFICES ASSUME AtHome PROVE AtHome'
      OBVIOUS
    <3>1. ~Told(sent, new) /\ conn[new] # "down"
      BY <2>2, <2>3 DEF AtHome
    <3>2. \A r \in 1..Rooms : <<r, 2>> # new
      OBVIOUS
    <3>3. \A r \in 1..Rooms : ppc'[<<r, 2>>] = "none"
      BY <2>4, <3>2, SeatFacts DEF AtHome
    <3>4. \A p \in Procs : ppc'[p] # "semop"
      BY <2>4 DEF AtHome
    <3>5. \A u \in Users : Told(sent', u) \/ conn'[u] = "down" => ppc'[u] = "gone"
      BY <2>1, <2>4, <3>1, SeatFacts DEF AtHome
    <3> QED
      BY <3>3, <3>4, <3>5 DEF AtHome
  <2> QED
    BY <2>1, <2>5, <2>6 DEF StrayInv, Unharmed
<1>3. ASSUME NextPair PROVE StrayInv'
  <2>1. UNCHANGED <<conn, sent, ppc, killed, starts>> /\ room' = room + 1 /\ spc' = "accept0"
    BY <1>3 DEF NextPair, lineVars, procVars
  <2>2. \A u \in Users : u[1] > room' \/ u[1] = room' \/ u = <<room', 1>> => u[1] > room
    BY <1>0, <2>1, SeatFacts
  <2>3. Unforked'
    BY <2>1, <2>2 DEF StrayInv, Unforked
  <2> QED
    BY <2>1, <2>3 DEF StrayInv, Unharmed, AtHome, Told
<1> QED
  BY <1>1, <1>2, <1>3 DEF Server

\* A process that ends, or goes on, leaves the others' places alone.
LEMMA UnforkedKept ==
  ASSUME PayInv, Unforked, UNCHANGED <<room, spc>>,
         \A u \in Users : ppc[u] = "none" => ppc'[u] = "none"
  PROVE  Unforked'
  BY DEF Unforked

\* A message for p ends it or leaves it there, and only p's user is told to end, if it ends.
LEMMA StrayReceived ==
  ASSUME PayInv, StrayInv, NEW p \in Procs, Receive(p),
         ppc' = [ppc EXCEPT ![p] = "gone"] \/ ppc' = ppc,
         \A u \in Users : Told(sent', u) => Told(sent, u) \/ (u = UserOf(p) /\ ppc'[p] = "gone")
  PROVE  StrayInv'
<1>0. ppc[p] = "recv" /\ UNCHANGED <<room, spc, conn, starts, killed>>
  BY DEF Receive
<1>1. ppc \in [Procs -> {"none", "recv", "semop", "gone"}]
  BY DEF PayInv, TypeOK
<1>2. \A q \in Procs : q # p => ppc'[q] = ppc[q]
  BY <1>1
<1>3. ppc'[p] \in {"recv", "gone"}
  BY <1>0, <1>1
<1>4. Unforked'
  <2>1. \A u \in Users : ppc[u] = "none" => ppc'[u] = "none"
    BY <1>0, <1>2, SeatFacts
  <2> QED
    BY <1>0, <2>1, UnforkedKept DEF StrayInv
<1>5. ASSUME AtHome PROVE AtHome'
  <2>1. p = UserOf(p) /\ p \in Users /\ ~Told(sent, p) /\ conn[p] # "down"
    BY <1>0, <1>5, OwnProcess
  <2>2. \A r \in 1..Rooms : ppc'[<<r, 2>>] = "none"
    BY <1>0, <1>2, <1>5, SeatFacts DEF AtHome
  <2>3. \A q \in Procs : ppc'[q] # "semop"
    BY <1>2, <1>3, <1>5 DEF AtHome
  <2>4. ASSUME NEW u \in Users, Told(sent', u) \/ conn'[u] = "down" PROVE ppc'[u] = "gone"
    <3>1. CASE u = p
      BY <1>0, <2>1, <2>4, <3>1
    <3>2. CASE u # p
      BY <1>0, <1>2, <1>5, <2>1, <2>4, <3>2, SeatFacts DEF AtHome
    <3> QED
      BY <3>1, <3>2
  <2> QED
    BY <2>2, <2>3, <2>4 DEF AtHome
<1> QED
  BY <1>0, <1>4, <1>5 DEF StrayInv, Unharmed

LEMMA Kinds ==
  /\ Goodbye # Exit
  /\ \A n : Joined(n) # Exit
  /\ \A n, m : Said(n, m) # Exit
  BY DEF Exit, Goodbye, Joined, Said

LEMMA StrayKillAll == ASSUME PayInv, StrayInv, NEW p \in Procs, KillAll(p) PROVE StrayInv'
<1> DEFINE u    == UserOf(p)
           told == Delivered(sent, u, Exit)
           both == Delivered(told, Peer(u), Goodbye)
<1>1. Receive(p) /\ ppc' = [ppc EXCEPT ![p] = "gone"] /\ sent' \in {sent, told, both}
  BY DEF KillAll, Killed
<1>2. ppc'[p] = "gone"
  BY <1>1 DEF PayInv, TypeOK
<1>3. u \in Users /\ Peer(u) \in Users /\ sent \in [Users -> Seq(Messages)]
  BY UserFacts DEF PayInv, TypeOK, Messages
<1> HIDE DEF u
<1>4. told \in [Users -> Seq(Messages)]
  BY <1>3, MessageTypes, Delivering
<1>5. \A v \in Users : Told(told, v) => Told(sent, v) \/ v = u
  BY <1>3, MessageTypes, TellingOne
<1> HIDE DEF told
<1>6. \A v \in Users : Told(both, v) => Told(told, v)
  BY <1>3, <1>4, MessageTypes, TellingOne, Kinds
<1> HIDE DEF both
<1>7. \A v \in Users : Told(sent', v) => Told(sent, v) \/ v = u
  BY <1>1, <1>5, <1>6
<1> QED
  BY <1>1, <1>2, <1>7, StrayReceived DEF u

LEMMA StrayLeave == ASSUME PayInv, StrayInv, NEW p \in Procs, Leave(p) PROVE StrayInv'
<1>1. /\ Receive(p) /\ ppc' = [ppc EXCEPT ![p] = "gone"]
      /\ sent' = Delivered(sent, UserOf(p), Exit)
  BY DEF Leave
<1>2. ppc'[p] = "gone"
  BY <1>1 DEF PayInv, TypeOK
<1>3. UserOf(p) \in Users /\ sent \in [Users -> Seq(Messages)]
  BY UserFacts DEF PayInv, TypeOK, Messages
<1>4. \A v \in Users : Told(sent', v) => Told(sent, v) \/ v = UserOf(p)
  BY <1>1, <1>3, MessageTypes, TellingOne
<1> QED
  BY <1>1, <1>2, <1>4, StrayReceived

LEMMA StrayRelay == ASSUME PayInv, StrayInv, NEW p \in Procs, Relay(p) PROVE StrayInv'
<1> DEFINE t   == Received(p)
           u   == Peer(UserOf(p))
           msg == IF named[p] THEN Said(nick[p], t) ELSE Joined(t)
<1>1. /\ Receive(p) /\ t > 0 /\ sent' = Delivered(sent, u, msg)
      /\ ppc' = [ppc EXCEPT ![p] = "gone"] \/ ppc' = ppc
  BY DEF Relay, Killed
<1>2. t \in Nat
  BY <1>1, ReceiveTypes DEF EXIT_SEQ, KILL_ALL
<1>3. msg \in Messages /\ msg # Exit
  <2>1. Said(nick[p], t) \in Messages /\ Joined(t) \in Messages
    BY <1>2, MessageTypes DEF PayInv, TypeOK
  <2> QED
    BY <2>1, Kinds
<1>4. u \in Users /\ sent \in [Users -> Seq(Messages)]
  BY UserFacts DEF PayInv, TypeOK, Messages
<1> HIDE DEF u, msg
<1>5. \A v \in Users : Told(sent', v) => Told(sent, v)
  BY <1>1, <1>3, <1>4, TellingOne
<1> QED
  BY <1>1, <1>5, StrayReceived

\* Neither a break nor a stray process is possible while nobody was killed.
LEMMA StrayRoom == ASSUME PayInv, StrayInv, NEW p \in Procs, Room(p) PROVE StrayInv'
<1>0. ppc \in [Procs -> {"none", "recv", "semop", "gone"}]
  BY DEF PayInv, TypeOK
<1>1. CASE Break(p)
  <2>1. ~AtHome
    BY <1>1, OwnProcess DEF Break
  <2>2. UNCHANGED <<room, spc, killed, starts>> /\ ppc[p] = "recv"
    BY <1>1 DEF Break
  <2>3. \A u \in Users : ppc[u] = "none" => ppc'[u] = "none"
    <3>1. ppc' \in {[ppc EXCEPT ![p] = "semop", ![<<p[1], 2>>] = "recv"],
                    [ppc EXCEPT ![p] = "semop"]}
      BY <1>1 DEF Break
    <3>2. \A u \in Users : u # <<p[1], 2>> /\ u \in Procs
      BY SeatFacts
    <3> QED
      BY <1>0, <2>2, <3>1, <3>2
  <2> QED
    BY <2>1, <2>2, <2>3, UnforkedKept DEF StrayInv, Unharmed
<1>2. CASE Stray(p)
  <2>1. UNCHANGED <<room, spc, killed, starts>> /\ ppc[p] = "semop"
    BY <1>2 DEF Stray
  <2>2. ~AtHome
    BY <2>1 DEF AtHome
  <2>3. \A u \in Users : ppc[u] = "none" => ppc'[u] = "none"
    BY <1>0, <1>2, <2>1, SeatFacts DEF Stray
  <2> QED
    BY <2>1, <2>2, <2>3, UnforkedKept DEF StrayInv, Unharmed
<1> QED
  BY <1>1, <1>2, StrayKillAll, StrayLeave, StrayRelay DEF Room

LEMMA StrayClient == ASSUME PayInv, StrayInv, NEW u \in Users, Client(u) PROVE StrayInv'
<1>0. conn \in [Users -> {"none", "up", "down"}]
  BY DEF PayInv, TypeOK
<1>1. CASE Type(u)
  BY <1>1 DEF Type, procVars, StrayInv, Unforked, Unharmed, AtHome, Told
<1>2. CASE Hear(u)
  <2>1. UNCHANGED <<room, spc, ppc, sent, killed, starts>>
    BY <1>2 DEF Hear, procVars
  <2>2. AtHome => AtHome'
    <3>1. \A v \in Users : conn'[v] = "down" => conn[v] = "down" \/ Told(sent, v)
      <4>1. CASE sent[u][1] = Exit
        <5>1. sent[u] \in Seq(Messages) /\ sent[u] # <<>>
          BY <1>2 DEF Hear, PayInv, TypeOK, Messages
        <5>2. 1 \in DOMAIN sent[u]
          BY <5>1
        <5>3. Told(sent, u)
          BY <4>1, <5>2 DEF Told
        <5>4. \A v \in Users : v # u => conn'[v] = conn[v]
          BY <1>0, <1>2 DEF Hear
        <5> QED
          BY <5>3, <5>4
      <4>2. CASE sent[u][1] # Exit
        BY <1>2, <4>2 DEF Hear
      <4> QED
        BY <4>1, <4>2
    <3> QED
      BY <2>1, <3>1 DEF AtHome, Told
  <2> QED
    BY <2>1, <2>2 DEF StrayInv, Unforked, Unharmed
<1>3. CASE Disconnect(u)
  <2>1. killed' = killed + 1 /\ killed \in Nat
    BY <1>3, ChatAssumption DEF Disconnect, PayInv, TypeOK
  <2>2. ~Unharmed'
    BY <2>1 DEF Unharmed
  <2> QED
    BY <1>3, <2>2 DEF Disconnect, procVars, StrayInv, Unforked
<1> QED
  BY <1>1, <1>2, <1>3 DEF Client

LEMMA StrayRestart == ASSUME PayInv, StrayInv, Restart PROVE StrayInv'
<1>0. /\ room \in 1..Rooms /\ starts \in Nat /\ starts >= 1
      /\ ppc \in [Procs -> {"none", "recv", "semop", "gone"}]
  BY ChatAssumption DEF PayInv, TypeOK
<1>1. /\ room' = room + 1 /\ spc' = "accept0" /\ starts' = starts + 1
      /\ ppc' = [p \in Procs |-> IF ppc[p] = "none" THEN "none" ELSE "gone"]
  BY DEF Restart
<1>2. ~Unharmed'
  BY <1>0, <1>1 DEF Unharmed
<1>3. \A u \in Users : u[1] > room' \/ u[1] = room' \/ u = <<room', 1>> => u[1] > room
  BY <1>0, <1>1, SeatFacts
<1>4. Unforked'
  BY <1>1, <1>3, SeatFacts DEF StrayInv, Unforked
<1> QED
  BY <1>2, <1>4 DEF StrayInv

LEMMA StrayNext == ASSUME PayInv, StrayInv, [Next]_vars PROVE StrayInv'
<1>1. CASE UNCHANGED vars
  BY <1>1 DEF vars, procVars, lineVars, StrayInv, Unforked, Unharmed, AtHome, Told
<1> QED
  BY <1>1, StrayServer, StrayRoom, StrayClient, StrayRestart DEF Next

-----------------------------------------------------------------------------
\* A seat that is not taken yet has no client.
Unseated ==
  \A u \in Users :
    \/ u[1] > room
    \/ u[1] = room /\ spc = "accept0"
    \/ u = <<room, 1>> /\ spc = "accept1"
    => conn[u] = "none"

\* A text is named by its place.
Numbered == \A u \in Users : \A k \in DOMAIN typed[u] : typed[u][k] \in {k, EXIT_SEQ, KILL_ALL}

\* What a client that is not gone was sent is what the process of the other one received
\* until now: no third process takes a part of it.
Line(u) ==
  conn[u] # "down" =>
    /\ u[2] = 0 => ppc[<<u[1], 2>>] = "none"
    /\ ppc[Peer(u)] = "none" => taken[Peer(u)] = 0 /\ ~named[Peer(u)] /\ Relayed(u) = {}
    /\ ppc[Peer(u)] = "recv" /\ conn[u] = "up" =>
         /\ Cardinality(Relayed(u)) = taken[Peer(u)]
         /\ named[Peer(u)] <=> taken[Peer(u)] > 0
         /\ named[Peer(u)] => nick[Peer(u)] = 1

Lines == \A u \in Users : Line(u)

OrderInv == Unseated /\ Numbered /\ Lines /\ InOrder

\* Relayed and InOrder of one sequence of messages.
RelaysIn(s) == {k \in DOMAIN s : s[k].kind \in {"joined", "said"}}

Ordered(s) ==
  \A k \in RelaysIn(s) :
    LET n == Cardinality({j \in RelaysIn(s) : j <= k})
    IN  s[k] = IF n = 1 THEN Joined(1) ELSE Said(1, n)

LEMMA OrderOfEach ==
  /\ \A u : Relayed(u) = RelaysIn(sent[u])
  /\ InOrder <=> \A u \in Users : Ordered(sent[u])
<1>1. \A u : Relayed(u) = RelaysIn(sent[u])
  BY DEF Relayed, RelaysIn
<1>2. ASSUME NEW u PROVE Ordered(sent[u]) <=>
        \A k \in Relayed(u) : LET n == Cardinality({j \in Relayed(u) : j <= k})
                              IN  sent[u][k] = IF n = 1 THEN Joined(1) ELSE Said(1, n)
  BY <1>1, Zenon DEF Ordered
<1> QED
  BY <1>1, <1>2, Zenon DEF InOrder

\* One message more: the relayed ones are those of before, and it if it is one.
LEMMA OneMore ==
  ASSUME NEW s \in Seq(Messages), NEW m \in Messages, Ordered(s)
  PROVE  /\ m.kind \notin {"joined", "said"} =>
              RelaysIn(Append(s, m)) = RelaysIn(s) /\ Ordered(Append(s, m))
         /\ m = (LET n == Cardinality(RelaysIn(s)) + 1
                 IN  IF n = 1 THEN Joined(1) ELSE Said(1, n)) =>
              /\ Cardinality(RelaysIn(Append(s, m))) = Cardinality(RelaysIn(s)) + 1
              /\ Ordered(Append(s, m))
<1> DEFINE t == Append(s, m)
           l == Len(s)
<1>1. /\ l \in Nat /\ DOMAIN s = 1..l /\ DOMAIN t = 1..(l + 1) /\ t[l + 1] = m
      /\ \A k \in 1..l : t[k] = s[k]
  OBVIOUS
<1> HIDE DEF t, l
<1>2. RelaysIn(s) \subseteq 1..l /\ l + 1 \notin RelaysIn(s)
  BY <1>1 DEF RelaysIn
<1>3. RelaysIn(t) = RelaysIn(s) \cup (IF m.kind \in {"joined", "said"} THEN {l + 1} ELSE {})
  BY <1>1 DEF RelaysIn
<1>4. IsFiniteSet(RelaysIn(s)) /\ Cardinality(RelaysIn(s)) \in Nat
  <2>1. IsFiniteSet(1..l)
    BY <1>1, FS_Interval
  <2> QED
    BY <1>2, <2>1, FS_Subset, FS_CardinalityType
<1>5. ASSUME NEW k \in RelaysIn(s)
      PROVE  {j \in RelaysIn(t) : j <= k} = {j \in RelaysIn(s) : j <= k} /\ t[k] = s[k]
  BY <1>1, <1>2, <1>3
<1>6. ASSUME m.kind \notin {"joined", "said"} PROVE RelaysIn(t) = RelaysIn(s) /\ Ordered(t)
  <2>1. RelaysIn(t) = RelaysIn(s)
    BY <1>3, <1>6
  <2> QED
    BY <1>1, <1>2, <2>1 DEF Ordered
<1>7. ASSUME m = (LET n == Cardinality(RelaysIn(s)) + 1
                  IN  IF n = 1 THEN Joined(1) ELSE Said(1, n))
      PROVE  Cardinality(RelaysIn(t)) = Cardinality(RelaysIn(s)) + 1 /\ Ordered(t)
  <2>1. m.kind \in {"joined", "said"}
    BY <1>7 DEF Joined, Said
  <2>2. RelaysIn(t) = RelaysIn(s) \cup {l + 1}
    BY <1>3, <2>1
  <2>3. Cardinality(RelaysIn(t)) = Cardinality(RelaysIn(s)) + 1
    BY <1>2, <1>4, <2>2, FS_AddElement
  <2>4. {j \in RelaysIn(t) : j <= l + 1} = RelaysIn(t)
    BY <1>1, <1>2, <2>2
  <2>5. ASSUME NEW k \in RelaysIn(t)
        PROVE  LET n == Cardinality({j \in RelaysIn(t) : j <= k})
               IN  t[k] = IF n = 1 THEN Joined(1) ELSE Said(1, n)
    <3>1. CASE k = l + 1
      BY <1>1, <1>7, <2>3, <2>4, <3>1
    <3>2. CASE k \in RelaysIn(s)
      BY <1>5, <3>2 DEF Ordered
    <3> QED
      BY <2>2, <3>1, <3>2
  <2> QED
    BY <2>3, <2>5 DEF Ordered
<1> QED
  BY <1>6, <1>7 DEF t

\* What is sent of the server's own is no relay.
LEMMA DeliveringOrder ==
  ASSUME NEW s \in [Users -> Seq(Messages)], NEW u \in Users, NEW m \in {Exit, Goodbye},
         \A v \in Users : Ordered(s[v])
  PROVE  \A v \in Users : /\ Ordered(Delivered(s, u, m)[v])
                          /\ RelaysIn(Delivered(s, u, m)[v]) = RelaysIn(s[v])
<1> SUFFICES ASSUME NEW v \in Users
             PROVE  /\ Ordered(Delivered(s, u, m)[v])
                    /\ RelaysIn(Delivered(s, u, m)[v]) = RelaysIn(s[v])
  OBVIOUS
<1>1. m \in Messages /\ m.kind \notin {"joined", "said"}
  BY MessageTypes DEF Exit, Goodbye
<1>2. CASE conn[u] = "up" /\ v = u
  <2>1. Delivered(s, u, m)[v] = Append(s[v], m)
    BY <1>2 DEF Delivered
  <2> QED
    BY <1>1, <2>1, OneMore
<1>3. CASE ~(conn[u] = "up" /\ v = u)
  <2>1. Delivered(s, u, m)[v] = s[v]
    BY <1>3 DEF Delivered
  <2> QED
    BY <2>1
<1> QED
  BY <1>2, <1>3

\* A line stays as it is if its client goes, or nothing of it changes but the end of the
\* process that feeds it.
LEMMA LineKept ==
  ASSUME NEW u \in Users, Line(u),
         \/ conn'[u] = "down"
         \/ /\ conn'[u] = conn[u] /\ Relayed(u)' = Relayed(u)
            /\ ppc'[<<u[1], 2>>] = ppc[<<u[1], 2>>] \/ u[2] # 0
            /\ \/ ppc'[Peer(u)] \notin {"none", "recv"}
               \/ /\ ppc'[Peer(u)] = ppc[Peer(u)] /\ taken'[Peer(u)] = taken[Peer(u)]
                  /\ named'[Peer(u)] = named[Peer(u)] /\ nick'[Peer(u)] = nick[Peer(u)]
  PROVE  Line(u)'
<1>1. Peer(u)' = Peer(u)
  BY DEF Peer
<1> QED
  BY <1>1 DEF Line

LEMMA OrderInit == ASSUME Init PROVE OrderInv
<1>1. \A u \in Users : Peer(u) \in Users /\ u \in Procs /\ <<u[1], 2>> \in Procs
  BY UserFacts, SeatFacts
<1>2. \A u \in Users : Relayed(u) = {}
  BY DEF Init, Relayed
<1>3. \A u \in Users : Line(u)
  BY <1>1, <1>2, SeatFacts DEF Init, Line
<1>4. Unseated /\ Numbered
  BY DEF Init, Unseated, Numbered
<1> QED
  BY <1>2, <1>3, <1>4 DEF OrderInv, Lines, InOrder

\* Nothing is sent, typed or received: what is ordered stays so.
LEMMA SameSent ==
  ASSUME OrderInv, sent' = sent
  PROVE  InOrder' /\ \A u : Relayed(u)' = Relayed(u)
<1>1. \A u : Relayed(u)' = Relayed(u)
  BY DEF Relayed
<1> QED
  BY <1>1 DEF OrderInv, InOrder, Relayed, Joined, Said

LEMMA OrderServer == ASSUME PayInv, StrayInv, OrderInv, Server PROVE OrderInv'
<1>0. /\ room \in 1..Rooms /\ ppc \in [Procs -> {"none", "recv", "semop", "gone"}]
      /\ conn \in [Users -> {"none", "up", "down"}]
  BY DEF PayInv, TypeOK
<1>1. ASSUME NEW i \in 0..1, Accept(i) PROVE OrderInv'
  <2> DEFINE new == <<room, i>>
  <2>1. /\ UNCHANGED <<ppc, named, nick, sent, typed, taken, room>>
        /\ conn' = [conn EXCEPT ![new] = "up"]
        /\ spc = (IF i = 0 THEN "accept0" ELSE "accept1")
        /\ spc' = (IF i = 0 THEN "accept1" ELSE "fork0")
    BY <1>1 DEF Accept, procVars
  <2>2. new \in Users /\ new[1] = room /\ new[2] = i /\ Peer(new) \in Users
    BY <1>0, SeatFacts, UserFacts
  <2>3. conn[new] = "none"
    <3>1. i = 0 \/ new = <<room, 1>>
      OBVIOUS
    <3> QED
      BY <2>1, <2>2, <3>1 DEF OrderInv, Unseated
  <2>4. ppc[Peer(new)] = "none"
    BY <2>1, <2>2 DEF StrayInv, Unforked, Peer
  <2>5. \A u \in Users : conn'[u] = IF u = new THEN "up" ELSE conn[u]
    BY <1>0, <2>1
  <2>6. \A u : Relayed(u)' = Relayed(u) /\ Peer(u)' = Peer(u)
    BY <2>1, SameSent DEF Peer
  <2>7. Line(new)'
    BY <2>1, <2>2, <2>3, <2>4, <2>6 DEF OrderInv, Lines, Line
  <2>8. ASSUME NEW u \in Users, u # new PROVE Line(u)'
    BY <2>1, <2>5, <2>6, <2>8, LineKept DEF OrderInv, Lines
  <2>9. Unseated'
    <3> SUFFICES ASSUME NEW u \in Users,
                        \/ u[1] > room
                        \/ u = <<room, 1>> /\ spc' = "accept1"
                 PROVE  conn'[u] = "none"
      BY <2>1 DEF Unseated
    <3>1. u # new
      BY <1>0, <2>1, <2>2, SeatFacts
    <3>2. conn[u] = "none"
      BY <2>1, SeatFacts DEF OrderInv, Unseated
    <3> QED
      BY <2>5, <3>1, <3>2
  <2> QED
    BY <2>1, <2>7, <2>8, <2>9, SameSent DEF OrderInv, Lines, Numbered
<1>2. ASSUME NEW i \in 0..1, Fork(i) PROVE OrderInv'
  <2> DEFINE new == <<room, i>>
  <2>1. /\ UNCHANGED <<conn, named, nick, sent, typed, taken, room>>
        /\ ppc' = [ppc EXCEPT ![new] = "recv"]
        /\ spc = (IF i = 0 THEN "fork0" ELSE "fork1")
        /\ spc' = (IF i = 0 THEN "fork1" ELSE "semop")
    BY <1>2 DEF Fork, lineVars
  <2>2. new \in Users /\ new \in Procs /\ new[1] = room /\ new[2] = i
    BY <1>0, SeatFacts
  <2>3. ppc[new] = "none"
    <3>1. i = 0 \/ new = <<room, 1>>
      OBVIOUS
    <3> QED
      BY <2>1, <2>2, <3>1 DEF StrayInv, Unforked
  <2>4. \A p \in Procs : ppc'[p] = IF p = new THEN "recv" ELSE ppc[p]
    BY <1>0, <2>1
  <2>5. \A u : Relayed(u)' = Relayed(u) /\ Peer(u)' = Peer(u)
    BY <2>1, SameSent DEF Peer
  <2>6. \A u \in Users : Peer(u) \in Users /\ Peer(u) \in Procs /\ <<u[1], 2>> \in Procs
                         /\ <<u[1], 2>> # new
    BY UserFacts, SeatFacts
  <2>7. ASSUME NEW u \in Users PROVE Line(u)'
    <3>1. CASE Peer(u) = new
      <4>1. Line(u) /\ ppc'[new] = "recv" /\ ppc'[<<u[1], 2>>] = ppc[<<u[1], 2>>]
        BY <2>2, <2>4, <2>6 DEF OrderInv, Lines
      <4> HIDE DEF new
      <4>2. conn[u] # "down" => taken[new] = 0 /\ ~named[new] /\ Relayed(u) = {}
        BY <2>3, <3>1, <4>1 DEF Line
      <4>3. Cardinality({}) = 0
        BY FS_EmptySet
      <4> QED
        BY <2>1, <2>5, <3>1, <4>1, <4>2, <4>3 DEF Line
    <3>2. CASE Peer(u) # new
      <4>1. ppc'[Peer(u)] = ppc[Peer(u)] /\ ppc'[<<u[1], 2>>] = ppc[<<u[1], 2>>]
        BY <2>4, <2>6, <3>2
      <4> QED
        BY <2>1, <2>5, <4>1, LineKept DEF OrderInv, Lines
    <3> QED
      BY <3>1, <3>2
  <2>8. Unseated'
    BY <2>1 DEF OrderInv, Unseated
  <2> QED
    BY <2>1, <2>7, <2>8, SameSent DEF OrderInv, Lines, Numbered
<1>3. ASSUME NextPair PROVE OrderInv'
  <2>1. /\ UNCHANGED <<conn, ppc, named, nick, sent, typed, taken>>
        /\ room' = room + 1 /\ spc' = "accept0"
    BY <1>3 DEF NextPair, lineVars, procVars
  <2>2. \A u \in Users : u[1] > room' \/ u[1] = room' \/ u = <<room', 1>> => u[1] > room
    BY <1>0, <2>1, SeatFacts
  <2>3. Unseated'
    BY <2>1, <2>2 DEF OrderInv, Unseated
  <2>4. \A u \in Users : Line(u)'
    BY <2>1, SameSent, LineKept DEF OrderInv, Lines
  <2> QED
    BY <2>1, <2>3, <2>4, SameSent DEF OrderInv, Lines, Numbered
<1> QED
  BY <1>1, <1>2, <1>3 DEF Server

\* A message taken: a line changes only where the process of the other client took it.
LEMMA OrderReceived ==
  ASSUME PayInv, OrderInv, NEW p \in Procs, Receive(p), InOrder',
         \A q \in Procs : q # p => /\ ppc'[q] = ppc[q] /\ named'[q] = named[q]
                                   /\ nick'[q] = nick[q],
         \A u \in Users : u # Peer(UserOf(p)) => Relayed(u)' = Relayed(u),
         LET u == Peer(UserOf(p))
         IN  conn[u] # "down" /\ p = UserOf(p) /\ Line(u) =>
               \/ ppc'[p] \notin {"none", "recv"} /\ Relayed(u)' = Relayed(u)
               \/ conn[u] = "none" /\ ppc'[p] = "recv"
               \/ /\ Cardinality(Relayed(u))' = taken'[p]
                  /\ named'[p] <=> taken'[p] > 0
                  /\ named'[p] => nick'[p] = 1
                  /\ ppc'[p] = "recv"
  PROVE  OrderInv'
<1> DEFINE v == UserOf(p)
<1>0. /\ ppc[p] = "recv" /\ UNCHANGED <<room, spc, conn, typed>>
      /\ taken' = [taken EXCEPT ![v] = @ + 1] /\ taken \in [Users -> Nat]
  BY DEF Receive, PayInv, TypeOK
<1>1. v \in Users /\ Peer(v) \in Users /\ Peer(v) # v /\ Peer(Peer(v)) = v
  BY UserFacts, SeatFacts DEF Peer
<1>2. p = v \/ (p = <<v[1], 2>> /\ v[2] = 1)
  BY DEF Procs, UserOf
<1>3. \A u \in Users : /\ u \in Procs /\ Peer(u) \in Users /\ Peer(u) \in Procs
                       /\ <<u[1], 2>> \in Procs /\ <<u[1], 2>> \notin Users
  BY UserFacts, SeatFacts
<1>4. \A u \in Users : u # v => taken'[u] = taken[u]
  BY <1>0
<1>5. \A u \in Users : Peer(u) = v => u = Peer(v)
  BY <1>1, SeatFacts DEF Peer
<1>6. Peer(v)[1] = v[1] /\ Peer(v)[2] = 1 - v[2]
  BY DEF Peer
<1>7. \A u \in Users : Peer(u)' = Peer(u)
  BY DEF Peer
<1> HIDE DEF v
<1>8. ASSUME NEW u \in Users, u = Peer(v) PROVE Line(u)'
  <2>1. Line(u)
    BY DEF OrderInv, Lines
  <2>2. CASE conn[u] = "down"
    BY <1>0, <2>1, <2>2, LineKept
  <2>3. CASE conn[u] # "down" /\ p # v
    <3>1. p = <<u[1], 2>> /\ u[2] = 0
      BY <1>2, <1>6, <1>8, <2>3
    <3> QED
      BY <1>0, <2>1, <2>3, <3>1 DEF Line
  <2>4. CASE conn[u] # "down" /\ p = v
    <3>1. <<u[1], 2>> \in Procs /\ <<u[1], 2>> # p
      BY <1>1, <1>3, <1>8, <2>4
    <3>2. ppc'[<<u[1], 2>>] = ppc[<<u[1], 2>>]
      BY <3>1
    <3>3. \/ ppc'[p] \notin {"none", "recv"} /\ Relayed(u)' = Relayed(u)
          \/ conn[u] = "none" /\ ppc'[p] = "recv"
          \/ /\ Cardinality(Relayed(u))' = taken'[p]
             /\ named'[p] <=> taken'[p] > 0
             /\ named'[p] => nick'[p] = 1
             /\ ppc'[p] = "recv"
      BY <1>8, <2>1, <2>4 DEF v
    <3>4. Peer(u) = p /\ Peer(u)' = p
      BY <1>1, <1>7, <1>8, <2>4
    <3>5. CASE ppc'[p] \notin {"none", "recv"} /\ Relayed(u)' = Relayed(u)
      BY <1>0, <2>1, <3>2, <3>4, <3>5, LineKept
    <3>6. CASE ppc'[p] = "recv"
      BY <1>0, <2>1, <2>4, <3>2, <3>3, <3>4, <3>6 DEF Line
    <3> QED
      BY <3>3, <3>5, <3>6
  <2> QED
    BY <2>2, <2>3, <2>4
<1>9. ASSUME NEW u \in Users, u # Peer(v) PROVE Line(u)'
  <2>1. Peer(u) # v
    BY <1>5, <1>9
  <2>2. Peer(u) # p
    <3>1. Peer(u)[2] \in 0..1
      BY <1>3, SeatFacts
    <3> QED
      BY <1>2, <2>1, <3>1
  <2>3. /\ ppc'[Peer(u)] = ppc[Peer(u)] /\ taken'[Peer(u)] = taken[Peer(u)]
        /\ named'[Peer(u)] = named[Peer(u)] /\ nick'[Peer(u)] = nick[Peer(u)]
    BY <1>3, <1>4, <2>1, <2>2
  <2>4. ppc'[<<u[1], 2>>] = ppc[<<u[1], 2>>] \/ u[2] # 0 \/ conn[u] = "down"
    <3>1. CASE p = <<u[1], 2>> /\ u[2] = 0
      BY <1>0, <1>9, <3>1 DEF OrderInv, Lines, Line
    <3>2. CASE p # <<u[1], 2>>
      BY <1>3, <3>2
    <3> QED
      BY <3>1, <3>2
  <2>5. Relayed(u)' = Relayed(u) /\ Line(u)
    BY <1>9 DEF v, OrderInv, Lines
  <2> QED
    BY <1>0, <2>3, <2>4, <2>5, LineKept
<1>10. Unseated' /\ Numbered'
  BY <1>0 DEF OrderInv, Unseated, Numbered
<1> QED
  BY <1>8, <1>9, <1>10 DEF OrderInv, Lines

LEMMA OrderKillAll ==
  ASSUME PayInv, OrderInv, NEW p \in Procs, KillAll(p) PROVE OrderInv'
<1> DEFINE u    == UserOf(p)
           told == Delivered(sent, u, Exit)
           both == Delivered(told, Peer(u), Goodbye)
<1>1. /\ Receive(p) /\ ppc' = [ppc EXCEPT ![p] = "gone"] /\ sent' \in {sent, told, both}
      /\ UNCHANGED <<named, nick>>
  BY DEF KillAll, Killed
<1>2. ppc'[p] = "gone" /\ \A q \in Procs : q # p => ppc'[q] = ppc[q]
  BY <1>1 DEF PayInv, TypeOK
<1>3. u \in Users /\ Peer(u) \in Users /\ sent \in [Users -> Seq(Messages)]
  BY UserFacts DEF PayInv, TypeOK, Messages
<1> HIDE DEF u
<1>4. told \in [Users -> Seq(Messages)]
  BY <1>3, MessageTypes, Delivering
<1>5. \A v \in Users : Ordered(sent[v])
  BY OrderOfEach DEF OrderInv
<1>6. \A v \in Users : Ordered(told[v]) /\ RelaysIn(told[v]) = RelaysIn(sent[v])
  BY <1>3, <1>5, DeliveringOrder
<1> HIDE DEF told
<1>7. \A v \in Users : Ordered(both[v]) /\ RelaysIn(both[v]) = RelaysIn(told[v])
  BY <1>3, <1>4, <1>6, DeliveringOrder
<1> HIDE DEF both
<1>8. \A v \in Users : Ordered(sent'[v]) /\ RelaysIn(sent'[v]) = RelaysIn(sent[v])
  BY <1>1, <1>5, <1>6, <1>7
<1>9. InOrder' /\ \A v \in Users : Relayed(v)' = Relayed(v)
  BY <1>8, OrderOfEach DEF InOrder, Ordered, Relayed, RelaysIn, Joined, Said
<1> QED
  BY <1>1, <1>2, <1>3, <1>9, OrderReceived DEF u

LEMMA OrderLeave == ASSUME PayInv, OrderInv, NEW p \in Procs, Leave(p) PROVE OrderInv'
<1>1. /\ Receive(p) /\ ppc' = [ppc EXCEPT ![p] = "gone"] /\ UNCHANGED <<named, nick>>
      /\ sent' = Delivered(sent, UserOf(p), Exit)
  BY DEF Leave
<1>2. ppc'[p] = "gone" /\ \A q \in Procs : q # p => ppc'[q] = ppc[q]
  BY <1>1 DEF PayInv, TypeOK
<1>3. /\ UserOf(p) \in Users /\ Peer(UserOf(p)) \in Users
      /\ sent \in [Users -> Seq(Messages)]
  BY UserFacts DEF PayInv, TypeOK, Messages
<1>4. \A v \in Users : Ordered(sent[v])
  BY OrderOfEach DEF OrderInv
<1>5. \A v \in Users : Ordered(sent'[v]) /\ RelaysIn(sent'[v]) = RelaysIn(sent[v])
  BY <1>1, <1>3, <1>4, DeliveringOrder
<1>6. InOrder' /\ \A v \in Users : Relayed(v)' = Relayed(v)
  BY <1>5, OrderOfEach DEF InOrder, Ordered, Relayed, RelaysIn, Joined, Said
<1> QED
  BY <1>1, <1>2, <1>3, <1>6, OrderReceived

\* A text goes on to the other user under its number.
LEMMA OrderRelay == ASSUME PayInv, OrderInv, NEW p \in Procs, Relay(p) PROVE OrderInv'
<1> DEFINE v   == UserOf(p)
           u   == Peer(v)
           t   == Received(p)
           msg == IF named[p] THEN Said(nick[p], t) ELSE Joined(t)
<1>1. /\ Receive(p) /\ t > 0 /\ sent' = Delivered(sent, u, msg)
      /\ named' = [named EXCEPT ![p] = TRUE]
      /\ nick' = IF named[p] THEN nick ELSE [nick EXCEPT ![p] = t]
      /\ \/ conn[u] = "down" /\ ppc' = [ppc EXCEPT ![p] = "gone"]
         \/ ppc' = ppc
  BY DEF Relay, Killed
<1>2. t \in Nat
  BY <1>1, ReceiveTypes DEF EXIT_SEQ, KILL_ALL
<1>3. /\ ppc[p] = "recv" /\ v \in Users /\ u \in Users /\ v # u /\ Peer(u) = v
      /\ taken' = [taken EXCEPT ![v] = @ + 1] /\ taken \in [Users -> Nat]
      /\ named \in [Procs -> BOOLEAN] /\ nick \in [Procs -> Nat]
      /\ sent \in [Users -> Seq(Messages)]
      /\ ppc \in [Procs -> {"none", "recv", "semop", "gone"}]
  <2>1. v \in Users /\ u \in Users /\ v # u
    BY UserFacts
  <2>2. Peer(u) = v
    <3>1. v = <<v[1], v[2]>> /\ v[2] \in 0..1
      BY <2>1, SeatFacts
    <3> QED
      BY <3>1 DEF Peer
  <2>3. ppc[p] = "recv" /\ taken' = [taken EXCEPT ![v] = @ + 1]
    BY <1>1 DEF Receive
  <2> QED
    BY <2>1, <2>2, <2>3 DEF PayInv, TypeOK, Messages
<1>4. t = taken[v] + 1
  <2>1. typed[v] \in Seq((Nat \ {0}) \cup {EXIT_SEQ, KILL_ALL})
    BY <1>3 DEF PayInv, TypeOK
  <2>2. taken[v] + 1 \in DOMAIN typed[v]
    BY <1>1, <1>3, <2>1 DEF Receive
  <2>3. t \in {taken[v] + 1, EXIT_SEQ, KILL_ALL}
    BY <1>3, <2>2 DEF OrderInv, Numbered, Received
  <2> QED
    BY <1>1, <2>3 DEF EXIT_SEQ, KILL_ALL
<1>5. msg \in Messages
  <2>1. Said(nick[p], t) \in Messages /\ Joined(t) \in Messages
    BY <1>2, <1>3, MessageTypes
  <2> QED
    BY <2>1
<1> HIDE DEF v, u, t
<1>6. \A q \in Users : q # u => sent'[q] = sent[q]
  BY <1>1, <1>3 DEF Delivered
<1>7. \A q \in Users : Ordered(sent[q])
  BY OrderOfEach DEF OrderInv
<1>8. \A q \in Procs : q # p => /\ ppc'[q] = ppc[q] /\ named'[q] = named[q]
                                /\ nick'[q] = nick[q]
  <2>1. \A q \in Procs : q # p => ppc'[q] = ppc[q]
    BY <1>1, <1>3
  <2>2. \A q \in Procs : q # p => named'[q] = named[q]
    BY <1>1, <1>3
  <2>3. \A q \in Procs : q # p => nick'[q] = nick[q]
    BY <1>1, <1>3
  <2> QED
    BY <2>1, <2>2, <2>3
<1>9. CASE conn[u] # "up"
  <2>1. sent' = sent
    BY <1>1, <1>9 DEF Delivered
  <2>2. ppc'[p] = "recv" \/ conn[u] = "down"
    BY <1>1, <1>3
  <2>3. conn[u] \in {"none", "down"}
    BY <1>3, <1>9 DEF PayInv, TypeOK
  <2> QED
    BY <1>1, <1>8, <2>1, <2>2, <2>3, SameSent, OrderReceived DEF u, v
<1>10. CASE conn[u] = "up"
  <2>1. ppc' = ppc
    BY <1>1, <1>10
  <2>2. sent'[u] = Append(sent[u], msg)
    BY <1>1, <1>3, <1>10 DEF Delivered
  <2>3. ASSUME p = v, Line(u)
        PROVE  msg = (LET n == Cardinality(RelaysIn(sent[u])) + 1
                      IN  IF n = 1 THEN Joined(1) ELSE Said(1, n))
    <3>1. /\ Cardinality(RelaysIn(sent[u])) = taken[v]
          /\ named[v] <=> taken[v] > 0
          /\ named[v] => nick[v] = 1
      BY <1>3, <1>10, <2>3, OrderOfEach DEF Line
    <3> QED
      BY <1>3, <1>4, <2>3, <3>1
  <2>4. p = v
    <3>1. p = v \/ (p = <<u[1], 2>> /\ u[2] = 0)
      BY DEF Procs, UserOf, Peer, u, v
    <3> QED
      BY <1>3, <1>10, <3>1 DEF OrderInv, Lines, Line
  <2>5. Line(u) /\ Ordered(sent[u]) /\ sent[u] \in Seq(Messages)
    BY <1>3, <1>7 DEF OrderInv, Lines
  <2> HIDE DEF msg
  <2>6. /\ Ordered(sent'[u])
        /\ Cardinality(RelaysIn(sent'[u])) = Cardinality(RelaysIn(sent[u])) + 1
    BY <1>5, <2>2, <2>3, <2>4, <2>5, OneMore
  <2>7. Cardinality(RelaysIn(sent'[u])) = taken'[p]
    BY <1>3, <1>10, <2>4, <2>5, <2>6, OrderOfEach DEF Line
  <2>8. \A q \in Users : Ordered(sent'[q])
    BY <1>6, <1>7, <2>6
  <2>9. InOrder'
    BY <2>8 DEF InOrder, Ordered, Relayed, RelaysIn, Joined, Said
  <2>10. \A q \in Users : q # u => Relayed(q)' = Relayed(q)
    BY <1>6 DEF Relayed
  <2>11. Cardinality(Relayed(u))' = taken'[p]
    BY <2>7 DEF Relayed, RelaysIn
  <2>12. named'[p] /\ taken'[p] > 0 /\ ppc'[p] = "recv"
    <3>1. named'[p]
      BY <1>1, <1>3
    <3> QED
      BY <1>3, <2>1, <2>4, <3>1
  <2>13. nick'[p] = 1
    <3>1. named[v] => nick[v] = 1
      BY <1>3, <1>10, <2>4, <2>5 DEF Line
    <3>2. named[v] <=> taken[v] > 0
      BY <1>3, <1>10, <2>4, <2>5 DEF Line
    <3>3. CASE named[p]
      BY <1>1, <2>4, <3>1, <3>3
    <3>4. CASE ~named[p]
      BY <1>1, <1>3, <1>4, <2>4, <3>2, <3>4
    <3> QED
      BY <3>3, <3>4
  <2> QED
    BY <1>1, <1>8, <2>9, <2>10, <2>11, <2>12, <2>13, OrderReceived DEF u, v
<1> QED
  BY <1>9, <1>10

\* Only when its own client is gone does a third process begin.
LEMMA OrderRoom == ASSUME PayInv, OrderInv, NEW p \in Procs, Room(p) PROVE OrderInv'
<1>0. /\ ppc \in [Procs -> {"none", "recv", "semop", "gone"}]
      /\ named \in [Procs -> BOOLEAN]
  BY DEF PayInv, TypeOK
<1>1. \A u \in Users : /\ Peer(u) \in Users /\ Peer(u) \in Procs
                       /\ <<u[1], 2>> \in Procs /\ <<u[1], 2>> \notin Users
  BY UserFacts, SeatFacts
<1>2. CASE Break(p)
  <2>1. /\ UNCHANGED <<spc, room, nick, conn, sent, typed, taken>>
        /\ ppc[p] = "recv" /\ conn[UserOf(p)] = "down"
    BY <1>2 DEF Break, lineVars
  <2>2. /\ ppc' = IF p[2] = 0 THEN [ppc EXCEPT ![p] = "semop", ![<<p[1], 2>>] = "recv"]
                              ELSE [ppc EXCEPT ![p] = "semop"]
        /\ named' = IF p[2] = 0 THEN [named EXCEPT ![<<p[1], 2>>] = named[p]] ELSE named
    BY <1>2 DEF Break
  <2>3. ASSUME NEW q \in Procs
        PROVE  /\ q # p /\ ~(p[2] = 0 /\ q = <<p[1], 2>>) => ppc'[q] = ppc[q]
               /\ q = p /\ ~(p[2] = 0 /\ q = <<p[1], 2>>) => ppc'[q] = "semop"
               /\ ~(p[2] = 0 /\ q = <<p[1], 2>>) => named'[q] = named[q]
    BY <1>0, <2>2
  <2>4. ASSUME NEW u \in Users PROVE Line(u)'
    <3>1. Peer(u) # <<p[1], 2>>
      BY SeatFacts DEF Peer
    <3>2. \/ ppc'[Peer(u)] \notin {"none", "recv"}
          \/ /\ ppc'[Peer(u)] = ppc[Peer(u)] /\ taken'[Peer(u)] = taken[Peer(u)]
             /\ named'[Peer(u)] = named[Peer(u)] /\ nick'[Peer(u)] = nick[Peer(u)]
      BY <1>1, <2>1, <2>3, <3>1
    <3>3. CASE p[2] = 0 /\ <<u[1], 2>> = <<p[1], 2>> /\ u[2] = 0
      <4>1. UserOf(p) = u
        BY <3>3, SeatFacts DEF UserOf
      <4> QED
        BY <2>1, <2>4, <4>1, LineKept DEF OrderInv, Lines
    <3>4. CASE <<u[1], 2>> # <<p[1], 2>> /\ <<u[1], 2>> # p
      <4>1. ppc'[<<u[1], 2>>] = ppc[<<u[1], 2>>]
        BY <1>1, <2>3, <3>4
      <4> QED
        BY <2>1, <2>4, <3>2, <4>1, SameSent, LineKept DEF OrderInv, Lines
    <3>5. CASE u[2] # 0
      BY <2>1, <2>4, <3>2, <3>5, SameSent, LineKept DEF OrderInv, Lines
    <3>6. CASE u[2] = 0 /\ p = <<u[1], 2>>
      BY <2>1, <2>4, <3>6, LineKept DEF OrderInv, Lines, Line
    <3>7. CASE u[2] = 0 /\ u[1] = p[1] /\ p[2] = 1
      <4>1. <<u[1], 2>> # p /\ ppc'[<<u[1], 2>>] = ppc[<<u[1], 2>>]
        BY <1>1, <2>3, <3>7
      <4> QED
        BY <2>1, <2>4, <3>2, <4>1, SameSent, LineKept DEF OrderInv, Lines
    <3>8. p[2] \in 0..2 /\ p = <<p[1], p[2]>>
      BY DEF Procs
    <3> QED
      BY <3>3, <3>4, <3>5, <3>6, <3>7, <3>8
  <2>5. Unseated' /\ Numbered'
    BY <2>1 DEF OrderInv, Unseated, Numbered
  <2> QED
    BY <2>1, <2>4, <2>5, SameSent DEF OrderInv, Lines
<1>3. CASE Stray(p)
  <2>1. /\ UNCHANGED <<spc, room, nick, named, conn, sent, typed, taken>>
        /\ ppc[p] = "semop" /\ ppc' = [ppc EXCEPT ![p] = "gone"]
    BY <1>3 DEF Stray, lineVars
  <2>2. \A q \in Procs : ppc'[q] = IF q = p THEN "gone" ELSE ppc[q]
    BY <1>0, <2>1
  <2>3. ASSUME NEW u \in Users PROVE Line(u)'
    <3>1. ppc'[Peer(u)] \notin {"none", "recv"} \/ ppc'[Peer(u)] = ppc[Peer(u)]
      BY <1>1, <2>2
    <3>2. CASE p # <<u[1], 2>>
      <4>1. ppc'[<<u[1], 2>>] = ppc[<<u[1], 2>>]
        BY <1>1, <2>2, <3>2
      <4> QED
        BY <2>1, <2>3, <3>1, <4>1, SameSent, LineKept DEF OrderInv, Lines
    <3>3. CASE p = <<u[1], 2>> /\ u[2] = 0
      BY <2>1, <2>3, <3>3, LineKept DEF OrderInv, Lines, Line
    <3>4. CASE u[2] # 0
      BY <2>1, <2>3, <3>1, <3>4, SameSent, LineKept DEF OrderInv, Lines
    <3> QED
      BY <3>2, <3>3, <3>4
  <2>4. Unseated' /\ Numbered'
    BY <2>1 DEF OrderInv, Unseated, Numbered
  <2> QED
    BY <2>1, <2>3, <2>4, SameSent DEF OrderInv, Lines
<1> QED
  BY <1>2, <1>3, OrderKillAll, OrderLeave, OrderRelay DEF Room

LEMMA OrderClient == ASSUME PayInv, OrderInv, NEW u \in Users, Client(u) PROVE OrderInv'
<1>0. conn \in [Users -> {"none", "up", "down"}]
  BY DEF PayInv, TypeOK
<1>1. CASE Type(u)
  <2>1. PICK t \in {Len(typed[u]) + 1, EXIT_SEQ, KILL_ALL} :
          typed' = [typed EXCEPT ![u] = Append(@, t)]
    BY <1>1 DEF Type
  <2>2. UNCHANGED <<room, spc, ppc, named, nick, conn, taken, sent>>
    BY <1>1 DEF Type, procVars
  <2>3. typed \in [Users -> Seq((Nat \ {0}) \cup {EXIT_SEQ, KILL_ALL})]
    BY DEF PayInv, TypeOK
  <2>4. typed[u] \in Seq((Nat \ {0}) \cup {EXIT_SEQ, KILL_ALL})
    BY <2>3
  <2>5. ASSUME NEW v \in Users, NEW k \in DOMAIN typed'[v]
        PROVE  typed'[v][k] \in {k, EXIT_SEQ, KILL_ALL}
    <3>1. CASE v = u
      <4>1. typed'[u] = Append(typed[u], t)
        BY <2>1, <2>3
      <4>2. k \in 1..(Len(typed[u]) + 1)
        BY <2>4, <2>5, <3>1, <4>1
      <4>3. CASE k = Len(typed[u]) + 1
        BY <2>4, <3>1, <4>1, <4>3
      <4>4. CASE k \in 1..Len(typed[u])
        <5>1. typed'[v][k] = typed[u][k] /\ k \in DOMAIN typed[u]
          BY <2>4, <3>1, <4>1, <4>4
        <5> QED
          BY <5>1 DEF OrderInv, Numbered
      <4> QED
        BY <2>4, <4>2, <4>3, <4>4
    <3>2. CASE v # u
      <4>1. typed'[v] = typed[v]
        BY <2>1, <2>3, <3>2
      <4> QED
        BY <2>5, <4>1 DEF OrderInv, Numbered
    <3> QED
      BY <3>1, <3>2
  <2>6. Numbered'
    BY <2>5 DEF Numbered, EXIT_SEQ, KILL_ALL
  <2>7. \A v \in Users : Line(v)'
    BY <2>2, SameSent, LineKept DEF OrderInv, Lines
  <2>8. Unseated'
    BY <2>2 DEF OrderInv, Unseated
  <2> QED
    BY <2>2, <2>6, <2>7, <2>8, SameSent DEF OrderInv, Lines
<1>2. CASE Hear(u) \/ Disconnect(u)
  <2>1. UNCHANGED <<room, spc, ppc, named, nick, typed, taken, sent>>
    BY <1>2 DEF Hear, Disconnect, procVars
  <2>2. conn[u] = "up" /\ conn' \in {conn, [conn EXCEPT ![u] = "down"]}
    BY <1>2 DEF Hear, Disconnect
  <2>3. \A v \in Users : conn'[v] = conn[v] \/ (v = u /\ conn'[v] = "down")
    BY <1>0, <2>2
  <2>4. \A v \in Users : Line(v)'
    BY <2>1, <2>3, SameSent, LineKept DEF OrderInv, Lines
  <2>5. Unseated'
    BY <2>1, <2>2, <2>3 DEF OrderInv, Unseated
  <2> QED
    BY <2>1, <2>4, <2>5, SameSent DEF OrderInv, Lines, Numbered
<1> QED
  BY <1>1, <1>2 DEF Client

LEMMA OrderRestart == ASSUME PayInv, OrderInv, Restart PROVE OrderInv'
<1>0. /\ room \in 1..Rooms /\ conn \in [Users -> {"none", "up", "down"}]
      /\ ppc \in [Procs -> {"none", "recv", "semop", "gone"}]
  BY DEF PayInv, TypeOK
<1>1. /\ room' = room + 1 /\ spc' = "accept0" /\ UNCHANGED <<named, nick, typed, taken, sent>>
      /\ ppc' = [p \in Procs |-> IF ppc[p] = "none" THEN "none" ELSE "gone"]
      /\ conn' = [u \in Users |-> IF conn[u] = "none" THEN "none" ELSE "down"]
  BY DEF Restart
<1>2. \A u \in Users : u[1] > room' \/ u[1] = room' \/ u = <<room', 1>> => u[1] > room
  BY <1>0, <1>1, SeatFacts
<1>3. Unseated'
  BY <1>1, <1>2 DEF OrderInv, Unseated
<1>4. ASSUME NEW u \in Users PROVE Line(u)'
  <2>1. Peer(u) \in Procs /\ <<u[1], 2>> \in Procs
    BY UserFacts, SeatFacts
  <2>2. CASE conn[u] = "none"
    <3>1. /\ u[2] = 0 => ppc'[<<u[1], 2>>] = ppc[<<u[1], 2>>]
          /\ conn'[u] = conn[u]
      BY <1>1, <2>1, <2>2 DEF OrderInv, Lines, Line
    <3>2. ppc'[Peer(u)] = "gone" \/ ppc'[Peer(u)] = ppc[Peer(u)]
      BY <1>1, <2>1
    <3> QED
      BY <1>1, <1>4, <3>1, <3>2, SameSent, LineKept DEF OrderInv, Lines
  <2>3. CASE conn[u] # "none"
    BY <1>1, <1>4, <2>3, LineKept DEF OrderInv, Lines
  <2> QED
    BY <2>2, <2>3
<1> QED
  BY <1>1, <1>3, <1>4, SameSent DEF OrderInv, Lines, Numbered

LEMMA OrderNext == ASSUME PayInv, StrayInv, OrderInv, [Next]_vars PROVE OrderInv'
<1>1. CASE UNCHANGED vars
  <2>1. UNCHANGED <<spc, room, ppc, named, nick, conn, typed, taken, sent>>
    BY <1>1 DEF vars, procVars, lineVars
  <2>2. \A u \in Users : Line(u)'
    BY <2>1, SameSent, LineKept DEF OrderInv, Lines
  <2> QED
    BY <2>1, <2>2, SameSent DEF OrderInv, Lines, Unseated, Numbered
<1> QED
  BY <1>1, OrderServer, OrderRoom, OrderClient, OrderRestart DEF Next

-----------------------------------------------------------------------------
\* TCPChat keeps its invariant (TCP_server.c:69-154).
THEOREM Invariance == Spec => [](PayInv /\ StrayInv /\ OrderInv)
<1>1. Init => PayInv /\ StrayInv /\ OrderInv
  BY PayInit, StrayInit, OrderInit
<1>2. PayInv /\ StrayInv /\ OrderInv /\ [Next]_vars => (PayInv /\ StrayInv /\ OrderInv)'
  BY PayNext, StrayNext, OrderNext
<1> QED
  BY <1>1, <1>2, PTL DEF Spec

\* Every variable has its type.
THEOREM TypeCorrect == Spec => []TypeOK
<1>1. PayInv => TypeOK
  BY DEF PayInv
<1> QED
  BY <1>1, Invariance, PTL

\* However many rooms there are and whatever their users type, each beyond the first and
\* each token was paid for by a KILL_THIS (TCP_server.c:116-121, 151).
THEOREM EveryRoomPaid == Spec => []RoomsPaid
<1>1. PayInv => RoomsPaid
  BY DEF PayInv
<1> QED
  BY <1>1, Invariance, PTL

\* Without a kill no process strays to the semaphore of the server (TCP_server.c:111).
THEOREM NobodyStrays == Spec => []NoStray
<1>1. PayInv /\ StrayInv => NoStray
  <2>1. PayInv => killed \in Nat /\ starts \in Nat /\ starts >= 1
    BY ChatAssumption DEF PayInv, TypeOK
  <2> QED
    BY <2>1 DEF StrayInv, Unharmed, AtHome, NoStray
<1> QED
  BY <1>1, Invariance, PTL

\* What a user is sent of the other's messages are these, the first as his name and the
\* others under it, in order, none twice and none left out (TCP_server.c:97-109, 131-150).
THEOREM MessagesInOrder == Spec => []InOrder
<1>1. OrderInv => InOrder
  BY DEF OrderInv
<1> QED
  BY <1>1, Invariance, PTL

=============================================================================
