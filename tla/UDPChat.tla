------------------------------- MODULE UDPChat -------------------------------
(***************************************************************************)
(* UDP_chat: one server, which knows its users by the address and port     *)
(* they send from.  The first datagram from an address makes its sender a  *)
(* user and is his nickname; all others are relayed, to one user after     *)
(* another.  The network loses and reorders datagrams.                     *)
(*                                                                         *)
(* A datagram is its number: a client sends its nickname as number 0 and   *)
(* then its lines.  A client does not end by itself: its lines keep their  *)
(* newline, and ":quit" has none (UDP_clent.c:75-77).                      *)
(***************************************************************************)
EXTENDS Integers, Sequences, FiniteSets

CONSTANTS
  Clients,   \* pairs of an address and a port
  MAX,       \* the size of clients_arr
  Lines,     \* bound: how many lines a client sends
  LongLines, \* datagrams with lines that nickname[MAX_NICK_LEN] has no room for
  Starts     \* bound: how often the server is started

\* A nickname has room: a client reads no more than 99 characters of it, and drops the last
\* (UDP_clent.c:61-62).
ASSUME ChatAssumption ==
  /\ \A c \in Clients : c = <<c[1], c[2]>>
  /\ MAX \in Nat \ {0} /\ Lines \in Nat /\ LongLines \subseteq [from : Clients, text : 1..Lines]
  /\ Starts \in Nat \ {0}

VARIABLES
  clients_arr, \* the users, as far as usercount goes
  server,      \* "recvfrom", "sendto", "exited", or "undetermined" behind an overrun
  i,           \* the user msg_send comes from
  j,           \* the user it is sent to next, 0 if there is nothing to send
  msg_send,
  starts,      \* how often the server was started
  sent,        \* how many datagrams each client sent
  net,         \* the datagrams under way to the server, with their sender
  heard,       \* what the server sent to each client
  arrived,     \* history: who sent to this server
  disturbed    \* history: whose datagrams were lost, overtaken, or known to an earlier server

sendVars   == <<i, j, msg_send>>
serverVars == <<clients_arr, server, sendVars, starts>>
vars == <<serverVars, sent, net, heard, arrived, disturbed>>

Texts == 0..Lines

Silence == [kind |-> "none", name |-> 0, text |-> 0]

Init ==
  /\ clients_arr = <<>> /\ server = "recvfrom" /\ starts = 1
  /\ i = 0 /\ j = 0 /\ msg_send = Silence
  /\ sent = [c \in Clients |-> 0] /\ net = {}
  /\ heard = [c \in Clients |-> <<>>]
  /\ arrived = {} /\ disturbed = {}

Datagram(c, n) == [from |-> c, text |-> n]
-----------------------------------------------------------------------------
\* Mutant: the client begins with its first line.
ClientSendLate(c) ==
  /\ sent[c] <= Lines
  /\ net' = net \cup {Datagram(c, (sent[c] + 1) % (Lines + 1))}
  /\ sent' = [sent EXCEPT ![c] = @ + 1]
  /\ UNCHANGED <<serverVars, heard, arrived, disturbed>>

\* A client sends its nickname, then line after line.
ClientSend(c) ==
  /\ sent[c] <= Lines
  /\ net' = net \cup {Datagram(c, sent[c])}
  /\ sent' = [sent EXCEPT ![c] = @ + 1]
  /\ UNCHANGED <<serverVars, heard, arrived, disturbed>>

\* The network loses a datagram.
Lose(m) ==
  /\ net' = net \ {m}
  /\ disturbed' = disturbed \cup {m.from}
  /\ UNCHANGED <<serverVars, sent, heard, arrived>>
-----------------------------------------------------------------------------
\* recvfrom takes any datagram there is.
Receive(m) ==
  /\ server = "recvfrom"
  /\ net' = net \ {m}
  /\ arrived' = arrived \cup {m.from}
  /\ disturbed' = IF \E o \in net : o.from = m.from /\ o.text < m.text
                  THEN disturbed \cup {m.from} ELSE disturbed
  /\ UNCHANGED <<starts, sent, heard>>

\* Mutant: the search begins with the second user.
MatchesFromOne(c) ==
  {k \in DOMAIN clients_arr : clients_arr[k].client_addr = c /\ k > 1}

\* The users with the port and the address of the sender: the search ends at the first.
Matches(c) ==
  {k \in DOMAIN clients_arr : /\ clients_arr[k].client_addr[2] = c[2]
                              /\ clients_arr[k].client_addr[1] = c[1]}

\* The users that msg_send still has to be sent to.
Untold == {k \in DOMAIN clients_arr : 0 < j /\ j <= k /\ k # i}

Room == INSTANCE ChatRoom WITH
  names  <- [c \in {clients_arr[k].client_addr : k \in DOMAIN clients_arr} |->
               clients_arr[CHOOSE k \in DOMAIN clients_arr :
                             clients_arr[k].client_addr = c].nickname],
  untold <- {[to |-> clients_arr[k].client_addr, msg |-> msg_send] : k \in Untold}

\* The message of user k goes to all from the first.
SendAll(k, msg) == server' = "sendto" /\ i' = k /\ j' = 1 /\ msg_send' = msg

\* A datagram of somebody unknown registers him.
Register(m) ==
  /\ Receive(m) /\ Matches(m.from) = {} /\ Len(clients_arr) < MAX /\ m \notin LongLines
  /\ clients_arr' = Append(clients_arr, [client_addr |-> m.from, nickname |-> m.text])
  /\ SendAll(Len(clients_arr'), Room!Joined(m.text))

\* Nothing compares usercount with MAX, nor the text with the length of a nickname: what is
\* behind the array or the nickname is written over, and what the server does from then on
\* is not determined.
Overrun(m) ==
  /\ Receive(m) /\ Matches(m.from) = {} /\ (Len(clients_arr) = MAX \/ m \in LongLines)
  /\ server' = "undetermined"
  /\ UNCHANGED <<clients_arr, sendVars>>

\* Any other datagram is relayed under the nickname.
Relay(m) ==
  /\ Receive(m)
  /\ \E k \in Matches(m.from) :
       /\ \A l \in Matches(m.from) : k <= l
       /\ SendAll(k, Room!Said(clients_arr[k].nickname, m.text))
  /\ UNCHANGED clients_arr

\* On to the next user, or back to recvfrom.
Advance ==
  IF j < Len(clients_arr) THEN j' = j + 1 /\ UNCHANGED <<server, i, msg_send>>
  ELSE server' = "recvfrom" /\ i' = 0 /\ j' = 0 /\ msg_send' = Silence

\* sendto user j, unless the message is his.
SendTo ==
  /\ server = "sendto"
  /\ heard' = IF j = i THEN heard
              ELSE [heard EXCEPT ![clients_arr[j].client_addr] = Append(@, msg_send)]
  /\ Advance
  /\ UNCHANGED <<clients_arr, starts, sent, net, arrived, disturbed>>

\* Mutant: a sendto that fails is passed over.
SendToPasses ==
  /\ server = "sendto" /\ j # i
  /\ Advance
  /\ UNCHANGED <<clients_arr, starts, sent, net, heard, arrived, disturbed>>

\* A sendto that fails ends the server: those behind are not told.
SendToFails ==
  /\ server = "sendto" /\ j # i
  /\ server' = "exited"
  /\ UNCHANGED <<clients_arr, sendVars, starts, sent, net, heard, arrived, disturbed>>

\* So does a recvfrom.
ReceiveFails ==
  /\ server = "recvfrom"
  /\ server' = "exited"
  /\ UNCHANGED <<clients_arr, sendVars, starts, sent, net, heard, arrived, disturbed>>

\* The server is stopped, between any two steps, and started again; it has forgotten its
\* users, who go on.
Restart ==
  /\ starts < Starts
  /\ clients_arr' = <<>> /\ server' = "recvfrom" /\ starts' = starts + 1
  /\ i' = 0 /\ j' = 0 /\ msg_send' = Silence
  /\ arrived' = {} /\ disturbed' = Clients
  /\ UNCHANGED <<sent, net, heard>>

Next ==
  \/ \E c \in Clients : ClientSend(c)
  \/ \E m \in net : Lose(m) \/ Register(m) \/ Overrun(m) \/ Relay(m)
  \/ SendTo \/ SendToFails \/ ReceiveFails
  \/ Restart

Spec == Init /\ [][Next]_vars
-----------------------------------------------------------------------------
\* Every variable has its type.
TypeOK ==
  /\ clients_arr \in Seq([client_addr : Clients, nickname : Texts])
  /\ Len(clients_arr) <= MAX
  /\ server \in {"recvfrom", "sendto", "exited", "undetermined"} /\ starts \in 1..Starts
  /\ i \in 0..Len(clients_arr) /\ j \in 0..Len(clients_arr)
  /\ msg_send \in Room!Message \cup {Silence}
  /\ sent \in [Clients -> 0..Lines+1]
  /\ net \subseteq [from : Clients, text : Texts]
  /\ heard \in [Clients -> Seq(Room!Message)]
  /\ arrived \subseteq Clients /\ disturbed \subseteq Clients

\* No client has two places (UDP_server.c:69-76), and one that has a place has sent to
\* this server.
OnePlaceEach ==
  /\ \A k, l \in DOMAIN clients_arr :
       clients_arr[k].client_addr = clients_arr[l].client_addr => k = l
  /\ \A k \in DOMAIN clients_arr : clients_arr[k].client_addr \in arrived

\* Memory is written over only if more than MAX clients sent to one start of the server
\* (UDP_server.c:85), or a line was taken for a nickname (80) because something happened to
\* its sender's datagrams: nobody takes a second place, however his datagrams come, and no
\* nickname that was chosen is too long.
OverrunByCrowd ==
  server = "undetermined" =>
    \/ Cardinality(arrived) > MAX
    \/ \E c \in arrived \cap disturbed :
         \A k \in DOMAIN clients_arr : clients_arr[k].client_addr # c

\* A user is known by the name he chose (UDP_clent.c:61-64), unless his datagrams were
\* lost or overtaken or went to an earlier server: then a line is his name.
OwnName ==
  \A k \in DOMAIN clients_arr :
    clients_arr[k].client_addr \notin disturbed => clients_arr[k].nickname = 0

\* The server is a chat room, also where it exits (UDP_server.c:113-118) or is killed between
\* two users: all hear the same in the same order, except that the last message before a new
\* start may have reached some users only.
ImplementsRoom == Room!Spec
=============================================================================
