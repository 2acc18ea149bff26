------------------------------ MODULE UDPProofs ------------------------------
(***************************************************************************)
(* UDPChat, for any clients, size of the array, numbers of lines and       *)
(* starts: memory is written over only under a crowd or for a line taken   *)
(* for a name, a user that nothing happened to has his own name, and the   *)
(* server implements a chat room.                                          *)
(***************************************************************************)
EXTENDS UDPChat, FiniteSetTheorems, TLAPS

Users == {clients_arr[k].client_addr : k \in DOMAIN clients_arr}

\* Until memory is written over, who sent to the server has a place, and there are as many
\* users as places.
Places ==
  /\ server # "undetermined" => Users = arrived
  /\ IsFiniteSet(arrived) /\ Cardinality(Users) = Len(clients_arr)

\* What is under way was sent, and if nothing happened to a client that the server has not
\* heard of, its nickname is under way.
Underway ==
  /\ \A m \in net : m.text < sent[m.from]
  /\ \A c \in Clients : c \notin disturbed \cup arrived /\ sent[c] > 0 => Datagram(c, 0) \in net

\* There is something to send only while the server is about to send it.
Sending ==
  /\ server = "sendto" => /\ i \in 1..Len(clients_arr) /\ j \in 1..Len(clients_arr)
                          /\ msg_send \in Room!Message
  /\ server \in {"recvfrom", "undetermined"} => j = 0

IInv == TypeOK /\ OnePlaceEach /\ Places /\ Underway /\ Sending /\ OverrunByCrowd /\ OwnName

-----------------------------------------------------------------------------
LEMMA InSequence ==
  ASSUME NEW S, NEW s \in Seq(S), NEW k \in DOMAIN s
  PROVE  s[k] \in S
  OBVIOUS

\* What is in the array.
LEMMA UserTypes ==
  ASSUME TypeOK, NEW k \in DOMAIN clients_arr
  PROVE  clients_arr[k].client_addr \in Clients /\ clients_arr[k].nickname \in Texts
<1>1. clients_arr \in Seq([client_addr : Clients, nickname : Texts])
  BY DEF TypeOK
<1>2. clients_arr[k] \in [client_addr : Clients, nickname : Texts]
  BY <1>1, InSequence
<1> QED
  BY <1>2

\* The search finds the users with the address and the port of the sender.
LEMMA Matching ==
  ASSUME TypeOK, NEW c \in Clients
  PROVE  Matches(c) = {k \in DOMAIN clients_arr : clients_arr[k].client_addr = c}
<1>1. ASSUME NEW k \in DOMAIN clients_arr
      PROVE  clients_arr[k].client_addr \in Clients
  BY UserTypes
<1>2. ASSUME NEW a \in Clients, a[1] = c[1], a[2] = c[2] PROVE a = c
  BY <1>2, ChatAssumption
<1> QED
  BY <1>1, <1>2 DEF Matches

\* A datagram that is received changes little.
LEMMA Received ==
  ASSUME IInv, NEW m \in net, Receive(m)
  PROVE  /\ m \in [from : Clients, text : Texts] /\ m.from \in Clients /\ m.text \in Texts
         /\ net' \subseteq [from : Clients, text : Texts]
         /\ arrived' \subseteq Clients /\ disturbed' \subseteq Clients
         /\ IsFiniteSet(arrived') /\ heard' = heard
         /\ starts' \in 1..Starts /\ sent' \in [Clients -> 0..Lines+1]
         /\ Underway'
<1>1. m \in [from : Clients, text : Texts] /\ m.from \in Clients /\ m.text \in Texts
  BY DEF IInv, TypeOK
<1>2. disturbed \subseteq disturbed' /\ disturbed' \subseteq Clients
  BY <1>1 DEF Receive, IInv, TypeOK
<1>3. IsFiniteSet(arrived')
  BY FS_AddElement DEF Receive, IInv, Places
<1>4. Underway'
  <2>1. \A o \in net' : o.text < sent'[o.from]
    BY DEF Receive, IInv, Underway
  <2>2. ASSUME NEW c \in Clients, c \notin disturbed' \cup arrived', sent'[c] > 0
        PROVE  Datagram(c, 0) \in net'
    <3>1. Datagram(c, 0) \in net /\ c # m.from
      BY <1>2, <2>2 DEF Receive, IInv, Underway
    <3>2. Datagram(c, 0) # m
      BY <3>1 DEF Datagram
    <3> QED
      BY <3>1, <3>2 DEF Receive
  <2> QED
    BY <2>1, <2>2 DEF Underway
<1> QED
  BY <1>1, <1>2, <1>3, <1>4 DEF Receive, IInv, TypeOK

\* What is received from somebody unknown is his nickname, unless something happened to his
\* datagrams.
LEMMA FirstIsName ==
  ASSUME IInv, NEW m \in net, Receive(m), Matches(m.from) = {}
  PROVE  m.from \notin Users /\ (m.from \notin disturbed' => m.text = 0)
<1>1. m.from \in Clients /\ m.text \in Nat
  BY Received, ChatAssumption DEF Texts
<1>2. m.from \notin Users
  BY <1>1, Matching DEF IInv, Users
<1>3. ASSUME m.from \notin disturbed' PROVE m.text = 0
  <2>1. m.from \notin disturbed /\ m.from \notin arrived
    BY <1>2, <1>3 DEF Receive, IInv, Places
  <2>2. sent[m.from] > 0
    <3>1. m.text < sent[m.from] /\ sent[m.from] \in Nat
      BY <1>1, ChatAssumption DEF IInv, Underway, TypeOK
    <3> QED
      BY <1>1, <3>1
  <2>3. Datagram(m.from, 0) \in net
    BY <1>1, <2>1, <2>2 DEF IInv, Underway
  <2>4. Datagram(m.from, 0).from = m.from /\ Datagram(m.from, 0).text = 0
    BY DEF Datagram
  <2>5. ~(\E o \in net : o.from = m.from /\ o.text < m.text)
    BY <1>3 DEF Receive
  <2> QED
    BY <1>1, <2>3, <2>4, <2>5
<1> QED
  BY <1>2, <1>3

-----------------------------------------------------------------------------
(* The actions, one after the other. *)

LEMMA RegisterInv == ASSUME IInv, NEW m \in net, Register(m) PROVE IInv'
<1> DEFINE n == Len(clients_arr) + 1
           user == [client_addr |-> m.from, nickname |-> m.text]
<1>1. /\ Receive(m) /\ Matches(m.from) = {} /\ Len(clients_arr) < MAX
      /\ clients_arr' = Append(clients_arr, user)
  BY DEF Register
<1>2. /\ m.from \in Clients /\ m.text \in Texts /\ Underway' /\ IsFiniteSet(arrived')
      /\ net' \subseteq [from : Clients, text : Texts] /\ heard' = heard
      /\ arrived' \subseteq Clients /\ disturbed' \subseteq Clients
      /\ starts' \in 1..Starts /\ sent' \in [Clients -> 0..Lines+1]
  BY <1>1, Received
<1>3. /\ user \in [client_addr : Clients, nickname : Texts]
      /\ clients_arr' \in Seq([client_addr : Clients, nickname : Texts])
      /\ DOMAIN clients_arr = 1..Len(clients_arr) /\ Len(clients_arr) \in Nat
      /\ DOMAIN clients_arr' = 1..n /\ Len(clients_arr') = n
      /\ \A k \in 1..n : clients_arr'[k] = IF k = n THEN user ELSE clients_arr[k]
  BY <1>1, <1>2 DEF IInv, TypeOK
<1>4. m.from \notin Users /\ (m.from \notin disturbed' => m.text = 0)
  BY <1>1, FirstIsName
<1>5. Users' = Users \cup {m.from}
  BY <1>3 DEF Users
<1>6. /\ server = "recvfrom" /\ server' = "sendto" /\ arrived' = arrived \cup {m.from}
      /\ i' = n /\ j' = 1 /\ msg_send' = Room!Joined(m.text)
  BY <1>3 DEF Register, Receive, SendAll
<1>7. IsFiniteSet(Users)
  BY <1>6 DEF IInv, Places
<1>8. Places'
  <2>1. Cardinality(Users') = Cardinality(Users) + 1
    BY <1>4, <1>5, <1>7, FS_AddElement
  <2> QED
    BY <1>2, <1>3, <1>5, <1>6, <2>1 DEF IInv, Places
<1>9. OnePlaceEach'
  BY <1>3, <1>4, <1>6 DEF IInv, OnePlaceEach, Users
<1>10. OwnName'
  <2> SUFFICES ASSUME NEW k \in 1..n, clients_arr'[k].client_addr \notin disturbed'
               PROVE  clients_arr'[k].nickname = 0
    BY <1>3 DEF OwnName
  <2>1. CASE k # n
    BY <1>1, <1>3, <2>1 DEF IInv, OwnName, Receive
  <2>2. CASE k = n
    BY <1>3, <1>4, <2>2
  <2> QED
    BY <2>1, <2>2
<1>11. TypeOK' /\ Sending'
  <2>1. msg_send' \in Room!Message
    BY <1>2, <1>6 DEF Room!Joined, Room!Message
  <2>2. n \in 1..n /\ 1 \in 1..n /\ n \in 0..n /\ 1 \in 0..n /\ n <= MAX
    BY <1>1, <1>3, ChatAssumption
  <2> QED
    BY <1>2, <1>3, <1>6, <2>1, <2>2 DEF IInv, TypeOK, Sending
<1>12. OverrunByCrowd'
  BY <1>6 DEF OverrunByCrowd
<1> QED
  BY <1>2, <1>8, <1>9, <1>10, <1>11, <1>12 DEF IInv

LEMMA OverrunInv == ASSUME IInv, NEW m \in net, Overrun(m) PROVE IInv'
<1>1. /\ Receive(m) /\ Matches(m.from) = {} /\ UNCHANGED <<clients_arr, i, j, msg_send>>
      /\ Len(clients_arr) = MAX \/ m \in LongLines
  BY DEF Overrun, sendVars
<1>2. /\ m.from \in Clients /\ m.text \in Texts /\ Underway' /\ IsFiniteSet(arrived')
      /\ net' \subseteq [from : Clients, text : Texts] /\ heard' = heard
      /\ arrived' \subseteq Clients /\ disturbed' \subseteq Clients
      /\ starts' \in 1..Starts /\ sent' \in [Clients -> 0..Lines+1]
  BY <1>1, Received
<1>3. server' = "undetermined"
  BY DEF Overrun
<1>4. m.from \notin Users /\ (m.from \notin disturbed' => m.text = 0)
  BY <1>1, FirstIsName
<1>5. /\ server = "recvfrom" /\ arrived' = arrived \cup {m.from}
      /\ disturbed \subseteq disturbed'
  BY <1>1 DEF Receive
<1>6. OverrunByCrowd'
  <2>1. Users = arrived /\ IsFiniteSet(arrived) /\ Cardinality(arrived) = Len(clients_arr)
    BY <1>5 DEF IInv, Places
  <2>2. CASE Len(clients_arr) = MAX
    <3>1. Cardinality(arrived') = MAX + 1
      BY <1>4, <1>5, <2>1, <2>2, FS_AddElement
    <3> QED
      BY <3>1, ChatAssumption DEF OverrunByCrowd
  <2>3. CASE m \in LongLines
    <3>1. m.from \in disturbed' /\ m.from \in arrived'
      BY <1>4, <1>5, <2>3, ChatAssumption
    <3>2. \A k \in DOMAIN clients_arr' : clients_arr'[k].client_addr # m.from
      BY <1>1, <1>4 DEF Users
    <3> QED
      BY <3>1, <3>2 DEF OverrunByCrowd
  <2> QED
    BY <1>1, <2>2, <2>3
<1>7. Users' = Users
  BY <1>1 DEF Users
<1>8. Places' /\ OnePlaceEach' /\ OwnName' /\ Sending'
  BY <1>1, <1>2, <1>3, <1>5, <1>7 DEF IInv, Places, OnePlaceEach, OwnName, Sending
<1> QED
  BY <1>1, <1>2, <1>3, <1>6, <1>8 DEF IInv, TypeOK

LEMMA RelayInv == ASSUME IInv, NEW m \in net, Relay(m) PROVE IInv'
<1>1. Receive(m) /\ clients_arr' = clients_arr /\ server = "recvfrom"
  BY DEF Relay, Receive
<1>2. /\ m.from \in Clients /\ m.text \in Texts /\ Underway' /\ IsFiniteSet(arrived')
      /\ net' \subseteq [from : Clients, text : Texts] /\ heard' = heard
      /\ arrived' \subseteq Clients /\ disturbed' \subseteq Clients
      /\ starts' \in 1..Starts /\ sent' \in [Clients -> 0..Lines+1]
  BY <1>1, Received
<1>3. PICK k \in DOMAIN clients_arr :
        /\ clients_arr[k].client_addr = m.from
        /\ SendAll(k, Room!Said(clients_arr[k].nickname, m.text))
  BY <1>2, Matching DEF Relay, IInv
<1>4. arrived' = arrived /\ disturbed \subseteq disturbed' /\ Users' = Users
  BY <1>1, <1>3 DEF Receive, IInv, Places, Users
<1>5. /\ server' = "sendto" /\ i' = k /\ j' = 1
      /\ msg_send' = Room!Said(clients_arr[k].nickname, m.text)
  BY <1>3 DEF SendAll
<1>6. TypeOK' /\ Sending'
  <2>1. msg_send' \in Room!Message
    BY <1>2, <1>5, UserTypes DEF Room!Said, Room!Message, IInv
  <2>2. k \in 1..Len(clients_arr) /\ 1 \in 1..Len(clients_arr)
    BY <1>3 DEF IInv, TypeOK
  <2>3. k \in 0..Len(clients_arr) /\ 1 \in 0..Len(clients_arr)
    BY <2>2
  <2> QED
    BY <1>1, <1>2, <1>5, <2>1, <2>2, <2>3 DEF IInv, TypeOK, Sending
<1>7. Places' /\ OnePlaceEach' /\ OwnName' /\ OverrunByCrowd'
  BY <1>1, <1>2, <1>4, <1>5 DEF IInv, Places, OnePlaceEach, OwnName, OverrunByCrowd
<1> QED
  BY <1>2, <1>6, <1>7 DEF IInv

\* Where the sending goes on.
LEMMA Advancing ==
  ASSUME IInv, server = "sendto", Advance, clients_arr' = clients_arr
  PROVE  /\ i' \in 0..Len(clients_arr) /\ j' \in 0..Len(clients_arr)
         /\ msg_send' \in Room!Message \cup {Silence}
         /\ server' \in {"recvfrom", "sendto"} /\ Sending'
<1>1. /\ i \in 1..Len(clients_arr) /\ j \in 1..Len(clients_arr) /\ msg_send \in Room!Message
      /\ Len(clients_arr) \in Nat
  BY DEF IInv, Sending, TypeOK
<1>2. CASE j < Len(clients_arr)
  BY <1>1, <1>2 DEF Advance, Sending
<1>3. CASE ~(j < Len(clients_arr))
  BY <1>1, <1>3 DEF Advance, Sending
<1> QED
  BY <1>2, <1>3

LEMMA SendToInv == ASSUME IInv, SendTo PROVE IInv'
<1>1. /\ server = "sendto" /\ Advance
      /\ clients_arr' = clients_arr /\ starts' = starts /\ sent' = sent /\ net' = net
      /\ arrived' = arrived /\ disturbed' = disturbed
  BY DEF SendTo
<1>2. /\ i' \in 0..Len(clients_arr) /\ j' \in 0..Len(clients_arr)
      /\ msg_send' \in Room!Message \cup {Silence}
      /\ server' \in {"recvfrom", "sendto"} /\ Sending'
  BY <1>1, Advancing
<1>3. heard' \in [Clients -> Seq(Room!Message)]
  <2>1. msg_send \in Room!Message /\ heard \in [Clients -> Seq(Room!Message)]
    BY <1>1 DEF IInv, Sending, TypeOK
  <2>2. CASE j = i
    BY <2>1, <2>2 DEF SendTo
  <2>3. CASE j # i
    <3> DEFINE c == clients_arr[j].client_addr
               told == Append(heard[c], msg_send)
    <3>1. heard' = [heard EXCEPT ![c] = told]
      BY <2>3 DEF SendTo
    <3>2. c \in Clients
      BY <1>1, UserTypes DEF IInv, Sending, TypeOK
    <3>3. told \in Seq(Room!Message)
      BY <2>1, <3>2
    <3> HIDE DEF c, told
    <3> QED
      BY <2>1, <3>1, <3>3
  <2> QED
    BY <2>2, <2>3
<1>4. TypeOK'
  BY <1>1, <1>2, <1>3 DEF IInv, TypeOK
<1>5. Places' /\ Underway' /\ OnePlaceEach' /\ OwnName' /\ OverrunByCrowd'
  BY <1>1, <1>2 DEF IInv, Places, Users, Underway, OnePlaceEach, OwnName, OverrunByCrowd
<1> QED
  BY <1>2, <1>4, <1>5 DEF IInv

LEMMA FailsInv == ASSUME IInv, SendToFails \/ ReceiveFails PROVE IInv'
<1>1. server' = "exited" /\ server # "undetermined"
  BY DEF SendToFails, ReceiveFails
<1>2. /\ clients_arr' = clients_arr /\ i' = i /\ j' = j /\ msg_send' = msg_send
      /\ starts' = starts /\ sent' = sent /\ net' = net /\ heard' = heard
      /\ arrived' = arrived /\ disturbed' = disturbed
  BY DEF SendToFails, ReceiveFails, sendVars
<1>3. TypeOK' /\ Sending'
  BY <1>1, <1>2 DEF IInv, TypeOK, Sending
<1> QED
  BY <1>1, <1>2, <1>3
     DEF IInv, Places, Users, Underway, OnePlaceEach, OwnName, OverrunByCrowd

LEMMA OthersInv ==
  ASSUME IInv, (\E c \in Clients : ClientSend(c)) \/ (\E m \in net : Lose(m)) \/ Restart
               \/ UNCHANGED vars
  PROVE  IInv'
<1> USE ChatAssumption
<1>1. ASSUME NEW c \in Clients, ClientSend(c) PROVE IInv'
  <2>1. /\ sent[c] \in 0..Lines + 1 /\ sent[c] <= Lines /\ sent[c] \in Texts
        /\ sent' = [sent EXCEPT ![c] = sent[c] + 1] /\ sent' \in [Clients -> 0..Lines + 1]
    <3>1. sent \in [Clients -> 0..Lines + 1]
      BY DEF IInv, TypeOK
    <3>2. sent[c] <= Lines /\ sent' = [sent EXCEPT ![c] = sent[c] + 1]
      BY <1>1 DEF ClientSend
    <3> QED
      BY <3>1, <3>2 DEF Texts
  <2>2. /\ net' = net \cup {Datagram(c, sent[c])}
        /\ clients_arr' = clients_arr /\ server' = server /\ starts' = starts
        /\ i' = i /\ j' = j /\ msg_send' = msg_send
        /\ heard' = heard /\ arrived' = arrived /\ disturbed' = disturbed
    BY <1>1 DEF ClientSend, serverVars, sendVars
  <2>3. net' \subseteq [from : Clients, text : Texts]
    BY <2>1, <2>2 DEF Datagram, IInv, TypeOK
  <2>4. TypeOK'
    BY <2>1, <2>2, <2>3 DEF IInv, TypeOK
  <2>5. \A d \in Clients : sent[d] <= sent'[d] /\ (d # c => sent'[d] = sent[d])
    BY <2>1 DEF IInv, TypeOK
  <2>6. ASSUME NEW m \in net' PROVE m.text < sent'[m.from]
    <3>1. CASE m \in net
      <4>1. m.text < sent[m.from] /\ m.text \in Int /\ m.from \in Clients
        BY <3>1 DEF IInv, Underway, TypeOK, Texts
      <4>2. sent[m.from] \in Int /\ sent'[m.from] \in Int /\ sent[m.from] <= sent'[m.from]
        <5>1. sent \in [Clients -> 0..Lines + 1] /\ sent' \in [Clients -> 0..Lines + 1]
          BY <2>1 DEF IInv, TypeOK
        <5> QED
          BY <2>5, <4>1, <5>1
      <4> QED
        BY <4>1, <4>2
    <3>2. CASE m = Datagram(c, sent[c])
      BY <2>1, <3>2 DEF Datagram, IInv, TypeOK
    <3> QED
      BY <2>2, <2>6, <3>1, <3>2
  <2>7. ASSUME NEW d \in Clients, d \notin disturbed \cup arrived, sent'[d] > 0
        PROVE  Datagram(d, 0) \in net'
    <3>1. CASE d = c /\ sent[c] = 0
      BY <2>2, <3>1
    <3>2. CASE ~(d = c /\ sent[c] = 0)
      <4>1. sent[d] > 0
        BY <2>1, <2>5, <2>7, <3>2
      <4> QED
        BY <2>2, <2>7, <4>1 DEF IInv, Underway
    <3> QED
      BY <3>1, <3>2
  <2>8. Underway'
    BY <2>2, <2>6, <2>7 DEF Underway
  <2>9. OnePlaceEach' /\ Places' /\ Sending' /\ OverrunByCrowd' /\ OwnName'
    BY <2>2 DEF IInv, OnePlaceEach, Places, Users, Sending, OverrunByCrowd, OwnName
  <2> QED
    BY <2>4, <2>8, <2>9 DEF IInv
<1>2. ASSUME NEW m \in net, Lose(m) PROVE IInv'
  <2>1. m.from \in Clients
    BY DEF IInv, TypeOK
  <2>2. Underway'
    BY <1>2, <2>1 DEF Lose, IInv, TypeOK, Underway, Datagram
  <2>3. TypeOK'
    BY <1>2, <2>1 DEF Lose, serverVars, sendVars, IInv, TypeOK
  <2> QED
    BY <1>2, <2>2, <2>3 DEF Lose, serverVars, sendVars, IInv, OnePlaceEach, Places, Users,
       Sending, OverrunByCrowd, OwnName
<1>3. CASE Restart
  <2>1. /\ Users' = {} /\ arrived' = {} /\ server' = "recvfrom" /\ j' = 0
        /\ clients_arr' = <<>>
    BY <1>3 DEF Restart, Users
  <2>2. Places' /\ Sending' /\ OverrunByCrowd' /\ OnePlaceEach' /\ OwnName'
    BY <2>1, FS_EmptySet DEF Places, Sending, OverrunByCrowd, OnePlaceEach, OwnName
  <2>3. Underway' /\ TypeOK'
    BY <1>3 DEF Restart, IInv, Underway, TypeOK
  <2> QED
    BY <2>2, <2>3 DEF IInv
<1>4. CASE UNCHANGED vars
  <2>1. /\ TypeOK' /\ Users' = Users /\ OnePlaceEach' /\ OverrunByCrowd' /\ OwnName'
    BY <1>4 DEF vars, serverVars, sendVars, IInv, TypeOK, Users, OnePlaceEach, OverrunByCrowd,
       OwnName
  <2>2. Places' /\ Underway' /\ Sending'
    BY <1>4, <2>1 DEF vars, serverVars, sendVars, IInv, Places, Underway, Sending
  <2> QED
    BY <2>1, <2>2 DEF IInv
<1> QED
  BY <1>1, <1>2, <1>3, <1>4

LEMMA InitInv == ASSUME Init PROVE IInv
<1>1. server = "recvfrom" /\ j = 0 /\ Users = {} /\ arrived = {} /\ clients_arr = <<>>
  BY DEF Init, Users
<1>2. Places /\ Sending /\ OverrunByCrowd /\ OnePlaceEach /\ OwnName
  BY <1>1, FS_EmptySet DEF Places, Sending, OverrunByCrowd, OnePlaceEach, OwnName
<1>3. Underway /\ TypeOK
  BY ChatAssumption DEF Init, Underway, TypeOK
<1> QED
  BY <1>2, <1>3 DEF IInv

LEMMA StepInv == ASSUME IInv, [Next]_vars PROVE IInv'
  BY RegisterInv, OverrunInv, RelayInv, SendToInv, FailsInv, OthersInv DEF Next

THEOREM Invariance == Spec => []IInv
  BY InitInv, StepInv, PTL DEF Spec

\* Every variable keeps its type.
THEOREM TypeCorrect == Spec => []TypeOK
<1>1. IInv => TypeOK
  BY DEF IInv
<1> QED
  BY <1>1, Invariance, PTL

\* Memory is written over only if more than MAX clients have sent to the server since it was
\* started, or for a line that was taken for a nickname (UDP_server.c:69-86).
THEOREM OverrunNeedsCrowd == Spec => []OverrunByCrowd
<1>1. IInv => OverrunByCrowd
  BY DEF IInv
<1> QED
  BY <1>1, Invariance, PTL

\* A user whose datagrams were neither lost nor overtaken has the name he chose.
THEOREM NamesKept == Spec => []OwnName
<1>1. IInv => OwnName
  BY DEF IInv
<1> QED
  BY <1>1, Invariance, PTL

-----------------------------------------------------------------------------
(* The server implements the chat room. *)

\* The name of a user, as the refinement maps it.
NameIn(arr, c) == arr[CHOOSE k \in DOMAIN arr : arr[k].client_addr = c].nickname

names == [c \in Users |-> NameIn(clients_arr, c)]

untold == {[to |-> clients_arr[k].client_addr, msg |-> msg_send] : k \in Untold}

\* It is the nickname at his only place.
LEMMA NameAt ==
  ASSUME NEW arr, NEW k \in DOMAIN arr,
         \A l, n \in DOMAIN arr : arr[l].client_addr = arr[n].client_addr => l = n
  PROVE  NameIn(arr, arr[k].client_addr) = arr[k].nickname
  BY Zenon DEF NameIn

LEMMA RoomInit == ASSUME Init PROVE Room!Init
  BY DEF Init, Room!Init, Untold

\* While the server receives, all have been told.
LEMMA AllTold == ASSUME j = 0 PROVE Untold = {} /\ untold = {}
  BY DEF Untold, untold

LEMMA RegisterEnters ==
  ASSUME IInv, IInv', NEW m \in net, Register(m)
  PROVE  Room!Enter(m.from, m.text)
<1> DEFINE n == Len(clients_arr) + 1
           user == [client_addr |-> m.from, nickname |-> m.text]
<1>1. /\ m.from \in Clients /\ clients_arr' = Append(clients_arr, user)
      /\ Receive(m) /\ Matches(m.from) = {} /\ heard' = heard /\ server = "recvfrom"
  BY DEF IInv, TypeOK, Register, Receive
<1>2. /\ DOMAIN clients_arr = 1..Len(clients_arr) /\ Len(clients_arr) \in Nat
      /\ DOMAIN clients_arr' = 1..n /\ Len(clients_arr') = n
      /\ \A k \in 1..n : clients_arr'[k] = IF k = n THEN user ELSE clients_arr[k]
  BY <1>1 DEF IInv, TypeOK
<1>3. m.from \notin Users /\ Users' = Users \cup {m.from}
  <2>1. m.from \notin Users
    BY <1>1, FirstIsName
  <2>2. Users' = Users \cup {m.from}
    BY <1>2 DEF Users
  <2> QED
    BY <2>1, <2>2
<1>4. untold' = Room!For(Users, Room!Joined(m.text))
  <2>1. i' = n /\ j' = 1 /\ msg_send' = Room!Joined(m.text)
    BY <1>2 DEF Register, SendAll
  <2>2. Untold' = DOMAIN clients_arr
    BY <1>2, <2>1 DEF Untold
  <2>3. \A k \in DOMAIN clients_arr : clients_arr'[k] = clients_arr[k]
    BY <1>2
  <2> QED
    BY <2>1, <2>2, <2>3 DEF untold, Users, Room!For
<1>5. \A c \in Users' :
        NameIn(clients_arr', c) = IF c = m.from THEN m.text ELSE NameIn(clients_arr, c)
  <2> SUFFICES ASSUME NEW k \in 1..n
               PROVE  NameIn(clients_arr', clients_arr'[k].client_addr) =
                        IF clients_arr'[k].client_addr = m.from THEN m.text
                        ELSE NameIn(clients_arr, clients_arr'[k].client_addr)
    BY <1>2 DEF Users
  <2>1. NameIn(clients_arr', clients_arr'[k].client_addr) = clients_arr'[k].nickname
    BY <1>2, NameAt DEF IInv, OnePlaceEach
  <2>2. CASE k = n
    BY <1>2, <2>1, <2>2
  <2>3. CASE k # n
    <3>1. k \in DOMAIN clients_arr /\ clients_arr'[k] = clients_arr[k]
      BY <1>2, <2>3
    <3>2. NameIn(clients_arr, clients_arr[k].client_addr) = clients_arr[k].nickname
      BY <3>1, NameAt DEF IInv, OnePlaceEach
    <3>3. clients_arr[k].client_addr # m.from
      BY <1>3, <3>1 DEF Users
    <3> QED
      BY <2>1, <3>1, <3>2, <3>3
  <2> QED
    BY <2>2, <2>3
<1>6. names' = [c \in DOMAIN names \cup {m.from} |-> IF c = m.from THEN m.text ELSE names[c]]
  BY <1>3, <1>5 DEF names
<1>7. m.from \notin DOMAIN names /\ untold' = Room!For(DOMAIN names, Room!Joined(m.text))
  BY <1>3, <1>4 DEF names
<1>8. untold = {}
  BY <1>1, AllTold DEF IInv, Sending
<1> QED
  BY <1>1, <1>6, <1>7, <1>8, Zenon DEF Room!Enter, names, untold, Users, NameIn

LEMMA RelaySays ==
  ASSUME IInv, NEW m \in net, Relay(m)
  PROVE  Room!Say(m.from, m.text)
<1>1. /\ m.from \in Clients /\ clients_arr' = clients_arr /\ heard' = heard
      /\ server = "recvfrom"
  BY DEF IInv, TypeOK, Relay, Receive
<1>2. PICK k \in DOMAIN clients_arr :
        /\ clients_arr[k].client_addr = m.from
        /\ SendAll(k, Room!Said(clients_arr[k].nickname, m.text))
  BY <1>1, Matching DEF Relay, IInv
<1>3. m.from \in Users /\ DOMAIN names = Users
  BY <1>2 DEF Users, names
<1>4. names[m.from] = clients_arr[k].nickname
  BY <1>2, <1>3, NameAt DEF IInv, OnePlaceEach, names
<1>5. untold' = Room!For(DOMAIN names \ {m.from}, Room!Said(names[m.from], m.text))
  <2>1. i' = k /\ j' = 1 /\ msg_send' = Room!Said(names[m.from], m.text)
    BY <1>2, <1>4 DEF SendAll
  <2>2. Untold' = DOMAIN clients_arr \ {k}
    BY <1>1, <2>1 DEF Untold, IInv, TypeOK
  <2>3. Users \ {m.from} = {clients_arr[l].client_addr : l \in DOMAIN clients_arr \ {k}}
    BY <1>2 DEF IInv, OnePlaceEach, Users
  <2> QED
    BY <1>1, <1>3, <2>1, <2>2, <2>3 DEF untold, Room!For
<1>6. names' = names
  BY <1>1 DEF names, Users, NameIn
<1>7. untold = {}
  BY <1>1, AllTold DEF IInv, Sending
<1> QED
  BY <1>1, <1>3, <1>5, <1>6, <1>7, Zenon DEF Room!Say, names, untold, Users, NameIn

\* Behind user j the others remain to be told.
LEMMA OneLess ==
  ASSUME IInv, SendTo
  PROVE  /\ j \in DOMAIN clients_arr /\ Untold' = Untold \ {j}
         /\ Untold' # {} => msg_send' = msg_send
<1>1. /\ i \in 1..Len(clients_arr) /\ j \in 1..Len(clients_arr) /\ Len(clients_arr) \in Nat
      /\ DOMAIN clients_arr = 1..Len(clients_arr) /\ clients_arr' = clients_arr /\ Advance
  BY DEF SendTo, IInv, Sending, TypeOK
<1>2. CASE j < Len(clients_arr)
  <2>1. j' = j + 1 /\ i' = i /\ msg_send' = msg_send
    BY <1>1, <1>2 DEF Advance
  <2> QED
    BY <1>1, <2>1 DEF Untold
<1>3. CASE ~(j < Len(clients_arr))
  <2>1. j' = 0
    BY <1>1, <1>3 DEF Advance
  <2> QED
    BY <1>1, <1>3, <2>1 DEF Untold
<1> QED
  BY <1>1, <1>2, <1>3

LEMMA SendToTells ==
  ASSUME IInv, SendTo
  PROVE  (\E u \in untold : Room!Tell(u)) \/ UNCHANGED <<names, heard, untold>>
<1>1. /\ j \in DOMAIN clients_arr /\ Untold \subseteq DOMAIN clients_arr
      /\ Untold' = Untold \ {j} /\ (Untold' # {} => msg_send' = msg_send)
  BY OneLess DEF Untold
<1>2. clients_arr' = clients_arr /\ names' = names
  BY DEF SendTo, names, Users, NameIn
<1>3. untold' = {[to |-> clients_arr[k].client_addr, msg |-> msg_send] : k \in Untold \ {j}}
  BY <1>1, <1>2 DEF untold
<1>4. CASE j = i
  <2>1. Untold \ {j} = Untold
    BY <1>4 DEF Untold
  <2> QED
    BY <1>2, <1>3, <1>4, <2>1 DEF SendTo, untold
<1>5. CASE j # i
  <2> DEFINE u == [to |-> clients_arr[j].client_addr, msg |-> msg_send]
  <2>1. j \in Untold
    <3>1. j \in 1..Len(clients_arr)
      BY DEF SendTo, IInv, Sending
    <3> QED
      BY <1>1, <1>5, <3>1 DEF Untold
  <2>2. u \in untold /\ u.to = clients_arr[j].client_addr /\ u.msg = msg_send
    BY <2>1 DEF untold
  <2>3. untold' = untold \ {u}
    <3>1. \A k \in Untold : clients_arr[k].client_addr = clients_arr[j].client_addr => k = j
      BY <1>1 DEF IInv, OnePlaceEach
    <3> QED
      BY <1>3, <3>1 DEF untold
  <2>4. heard' = [heard EXCEPT ![u.to] = Append(heard[u.to], u.msg)]
    BY <1>5, <2>2 DEF SendTo
  <2> HIDE DEF u
  <2> QED
    BY <1>2, <2>2, <2>3, <2>4, Zenon DEF Room!Tell, names, untold, Users, NameIn
<1> QED
  BY <1>4, <1>5

LEMMA RestartClears == ASSUME Restart PROVE Room!Clear
<1>1. names' = [c \in {} |-> 0] /\ heard' = heard /\ untold' = {}
  BY AllTold DEF Restart, names, Users, untold, Untold
<1> QED
  BY <1>1, Zenon DEF Room!Clear, names, untold, Users, NameIn

LEMMA RoomStep ==
  ASSUME IInv, IInv', [Next]_vars
  PROVE  [Room!Next]_<<names, heard, untold>>
<1>1. ASSUME NEW m \in net PROVE m.from \in Clients /\ m.text \in Texts
  BY DEF IInv, TypeOK
<1>2. ASSUME NEW m \in net, Register(m) PROVE Room!Next
  BY <1>1, <1>2, RegisterEnters DEF Room!Next
<1>3. ASSUME NEW m \in net, Relay(m) PROVE Room!Next
  BY <1>1, <1>3, RelaySays DEF Room!Next
<1>4. ASSUME SendTo PROVE Room!Next \/ UNCHANGED <<names, heard, untold>>
  BY <1>4, SendToTells DEF Room!Next, untold
<1>5. CASE Restart
  BY <1>5, RestartClears DEF Room!Next
<1>6. ASSUME UNCHANGED <<clients_arr, i, j, msg_send, heard>>
      PROVE  UNCHANGED <<names, heard, untold>>
  BY <1>6 DEF names, Users, NameIn, untold, Untold
<1> QED
  BY <1>2, <1>3, <1>4, <1>5, <1>6
     DEF Next, ClientSend, Lose, Receive, Overrun, SendToFails, ReceiveFails, vars, serverVars,
         sendVars

\* For any clients, array and network, wherever a sendto fails or the server is stopped: what
\* the users hear of each other is what the members of a chat room are told one after another
\* (UDP_server.c:55-121).
THEOREM ServerIsRoom == Spec => ImplementsRoom
<1>1. ASSUME IInv, IInv', [Next]_vars PROVE [Room!Next]_<<names, heard, untold>>
  BY <1>1, RoomStep
<1>2. ASSUME Init PROVE Room!Init
  BY <1>2, RoomInit
<1>3. Room!Spec <=> Room!Init /\ [][Room!Next]_<<names, heard, untold>>
  BY DEF Room!Spec, names, untold, Users, NameIn
<1> QED
  BY <1>1, <1>2, <1>3, Invariance, PTL DEF Spec, ImplementsRoom
=============================================================================
