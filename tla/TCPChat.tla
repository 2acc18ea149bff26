------------------------------- MODULE TCPChat -------------------------------
(***************************************************************************)
(* TCP_chat: the server accepts two users, forks a process for each that   *)
(* relays what its user says to the other, and waits on a semaphore before *)
(* it accepts the next two.  A client is two processes on one connection,  *)
(* one that types and one that receives.                                   *)
(*                                                                         *)
(* A user is a seat <<room, i>>, i the index in the array users; what he   *)
(* types is EXIT_SEQ, KILL_ALL or a text, which is named by its place.     *)
(* Names and texts are taken to be longer than two characters, so that all *)
(* the server sends except "exit" is longer than "exit".                   *)
(***************************************************************************)
EXTENDS Integers, Sequences, FiniteSets

CONSTANTS
  Rooms,     \* bound: how many rooms are opened
  MaxTyped,  \* bound: how much a user of each room types
  MaxKilled, \* bound: how often a client is killed
  Starts     \* bound: how often the server is started

ASSUME ChatAssumption ==
  /\ Rooms \in Nat \ {0} /\ MaxTyped \in [1..Rooms -> Nat]
  /\ MaxKilled \in Nat /\ Starts \in Nat \ {0}

EXIT_SEQ == -1
KILL_ALL == -2

Users == (1..Rooms) \X (0..1)

\* The processes of a room: the server's two children, and the one that child 0 forks
\* when it falls out of its loop.
Procs == (1..Rooms) \X (0..2)

UserOf(p) == <<p[1], IF p[2] = 0 THEN 0 ELSE 1>>
Peer(u)   == <<u[1], 1 - u[2]>>

VARIABLES
  spc,     \* where the server is
  room,    \* the room it serves
  sem,     \* the semaphore; it outlives the server
  starts,  \* how often the server was started
  ppc,     \* where each process of a room is
  named,   \* its msg_counter is not 0
  nick,    \* its copy of its user's nickname, 0 if empty
  conn,    \* each client's end of its connection
  typed,   \* all a user typed, which is sent at once
  taken,   \* how much of it a process received
  sent,    \* all that was sent to a user
  heard,   \* something came that was not "exit" alone: the buffer never shows "exit" again
  killed   \* how many clients were killed

procVars == <<ppc, named, nick>>
lineVars == <<conn, typed, taken, sent, heard>>
vars == <<spc, room, sem, starts, procVars, lineVars, killed>>

Init ==
  /\ spc = "accept0" /\ room = 1 /\ sem = 0 /\ starts = 1
  /\ ppc = [p \in Procs |-> "none"]
  /\ named = [p \in Procs |-> FALSE] /\ nick = [p \in Procs |-> 0]
  /\ conn = [u \in Users |-> "none"]
  /\ typed = [u \in Users |-> <<>>] /\ taken = [u \in Users |-> 0]
  /\ sent = [u \in Users |-> <<>>] /\ heard = [u \in Users |-> FALSE]
  /\ killed = 0

Exit       == [kind |-> "exit",    nick |-> 0, text |-> 0]
Goodbye    == [kind |-> "goodbye", nick |-> 0, text |-> 0]
Joined(t)  == [kind |-> "joined",  nick |-> t, text |-> 0]
Said(n, t) == [kind |-> "said",    nick |-> n, text |-> t]

\* What the server sent so far, with one more message to a user whose client is there.
Delivered(s, u, msg) == IF conn[u] = "up" THEN [s EXCEPT ![u] = Append(@, msg)] ELSE s
-----------------------------------------------------------------------------
\* A client connects, and the server accepts it in the next seat.
Accept(i) ==
  /\ spc = IF i = 0 THEN "accept0" ELSE "accept1"
  /\ conn' = [conn EXCEPT ![<<room, i>>] = "up"]
  /\ spc' = IF i = 0 THEN "accept1" ELSE "fork0"
  /\ UNCHANGED <<room, sem, starts, procVars, typed, taken, sent, heard, killed>>

\* The server forks the process for a user.
Fork(i) ==
  /\ spc = IF i = 0 THEN "fork0" ELSE "fork1"
  /\ ppc' = [ppc EXCEPT ![<<room, i>>] = "recv"]
  /\ spc' = IF i = 0 THEN "fork1" ELSE "semop"
  /\ UNCHANGED <<room, sem, starts, named, nick, lineVars, killed>>

\* semop(-1): the next room.
NextPair ==
  /\ spc = "semop" /\ sem > 0 /\ room < Rooms
  /\ sem' = sem - 1
  /\ room' = room + 1
  /\ spc' = "accept0"
  /\ UNCHANGED <<starts, procVars, lineVars, killed>>
-----------------------------------------------------------------------------
\* What process p receives next from its user.
Received(p) == typed[UserOf(p)][taken[UserOf(p)] + 1]

\* recv: the process takes the next message.
Receive(p) ==
  /\ ppc[p] = "recv"
  /\ taken[UserOf(p)] < Len(typed[UserOf(p)])
  /\ taken' = [taken EXCEPT ![UserOf(p)] = @ + 1]
  /\ UNCHANGED <<spc, room, starts, conn, typed, heard, killed>>

\* send to a client that is gone raises SIGPIPE, unless nobody has told the server yet.
Killed(p, u) ==
  /\ conn[u] = "down"
  /\ ppc' = [ppc EXCEPT ![p] = "gone"]

\* Mutant: the semaphore is forgotten.
KillAllUnposted(p) ==
  /\ Receive(p) /\ Received(p) = KILL_ALL
  /\ sent' = Delivered(Delivered(sent, UserOf(p), Exit), Peer(UserOf(p)), Goodbye)
  /\ ppc' = [ppc EXCEPT ![p] = "gone"]
  /\ UNCHANGED <<sem, named, nick>>

\* KILL_ALL: both users are told, and the semaphore lets the server go on.
KillAll(p) ==
  LET told == Delivered(sent, UserOf(p), Exit) IN
  /\ Receive(p) /\ Received(p) = KILL_ALL
  /\ \/ /\ Killed(p, UserOf(p))
        /\ UNCHANGED <<sent, sem>>
     \/ /\ Killed(p, Peer(UserOf(p)))
        /\ sent' = told
        /\ UNCHANGED sem
     \/ /\ sent' = Delivered(told, Peer(UserOf(p)), Goodbye)
        /\ sem' = sem + 1
        /\ ppc' = [ppc EXCEPT ![p] = "gone"]
  /\ UNCHANGED <<named, nick>>

\* Mutant: it posts the semaphore as well.
LeavePosting(p) ==
  /\ Receive(p) /\ Received(p) = EXIT_SEQ
  /\ sent' = Delivered(sent, UserOf(p), Exit)
  /\ sem' = sem + 1
  /\ ppc' = [ppc EXCEPT ![p] = "gone"]
  /\ UNCHANGED <<named, nick>>

\* Mutant: the process stays.
LeaveStaying(p) ==
  /\ Receive(p) /\ Received(p) = EXIT_SEQ
  /\ sent' = Delivered(sent, UserOf(p), Exit)
  /\ UNCHANGED <<sem, procVars>>

\* EXIT_SEQ: only the user himself is told; the process is gone in any case.
Leave(p) ==
  /\ Receive(p) /\ Received(p) = EXIT_SEQ
  /\ sent' = Delivered(sent, UserOf(p), Exit)
  /\ ppc' = [ppc EXCEPT ![p] = "gone"]
  /\ UNCHANGED <<sem, named, nick>>

\* Mutant: msg_counter is not increased.
RelayUncounted(p) ==
  LET t == Received(p) IN
  /\ Receive(p) /\ t > 0
  /\ sent' = Delivered(sent, Peer(UserOf(p)), IF named[p] THEN Said(nick[p], t) ELSE Joined(t))
  /\ nick' = IF named[p] THEN nick ELSE [nick EXCEPT ![p] = t]
  /\ Killed(p, Peer(UserOf(p))) \/ UNCHANGED ppc
  /\ UNCHANGED <<sem, named>>

\* The first message is the nickname, the others are relayed under it.
Relay(p) ==
  LET t == Received(p) IN
  /\ Receive(p) /\ t > 0
  /\ sent' = Delivered(sent, Peer(UserOf(p)), IF named[p] THEN Said(nick[p], t) ELSE Joined(t))
  /\ named' = [named EXCEPT ![p] = TRUE]
  /\ nick' = IF named[p] THEN nick ELSE [nick EXCEPT ![p] = t]
  /\ Killed(p, Peer(UserOf(p))) \/ UNCHANGED ppc
  /\ UNCHANGED sem

\* recv returns 0: break leaves the inner loop and the process goes on in the for loop
\* of its parent.  Child 0 forks there, for user 1, and both go to the semaphore.
Break(p) ==
  /\ ppc[p] = "recv" /\ conn[UserOf(p)] = "down"
  /\ taken[UserOf(p)] = Len(typed[UserOf(p)])
  /\ IF p[2] = 0
     THEN /\ ppc' = [ppc EXCEPT ![p] = "semop", ![<<p[1], 2>>] = "recv"]
          /\ named' = [named EXCEPT ![<<p[1], 2>>] = named[p]]
     ELSE ppc' = [ppc EXCEPT ![p] = "semop"] /\ UNCHANGED named
  /\ UNCHANGED <<spc, room, sem, starts, nick, lineVars, killed>>

\* semop(-1), then accept on the listener it closed: exit(3).
Stray(p) ==
  /\ ppc[p] = "semop" /\ sem > 0
  /\ sem' = sem - 1
  /\ ppc' = [ppc EXCEPT ![p] = "gone"]
  /\ UNCHANGED <<spc, room, starts, named, nick, lineVars, killed>>
-----------------------------------------------------------------------------
\* The client's typing process still reads the keyboard.
Typing(u) == conn[u] = "up" /\ \A k \in DOMAIN typed[u] : typed[u][k] > 0

Type(u) ==
  /\ Typing(u) /\ Len(typed[u]) < MaxTyped[u[1]]
  /\ \E t \in {Len(typed[u]) + 1, EXIT_SEQ, KILL_ALL} :
       typed' = [typed EXCEPT ![u] = Append(@, t)]
  /\ UNCHANGED <<spc, room, sem, starts, procVars, conn, taken, sent, heard, killed>>

\* The receiving process takes what has come, one or several messages.  It compares
\* before it cuts the buffer at the length received, so that "exit" is only seen if
\* it comes alone and nothing longer came before.
Hear(u) ==
  /\ conn[u] = "up" /\ sent[u] # <<>> /\ ~heard[u]
  /\ \/ /\ sent[u][1] = Exit
        /\ conn' = [conn EXCEPT ![u] = "down"] /\ UNCHANGED heard
     \/ /\ sent[u] # <<Exit>>
        /\ heard' = [heard EXCEPT ![u] = TRUE] /\ UNCHANGED conn
  /\ UNCHANGED <<spc, room, sem, starts, procVars, typed, taken, sent, killed>>

\* Both processes of a client are killed.
Disconnect(u) ==
  /\ conn[u] = "up" /\ killed < MaxKilled
  /\ conn' = [conn EXCEPT ![u] = "down"]
  /\ killed' = killed + 1
  /\ UNCHANGED <<spc, room, sem, starts, procVars, typed, taken, sent, heard>>

\* The server and its children are interrupted, and the server is started again.
Restart ==
  /\ starts < Starts /\ room < Rooms
  /\ starts' = starts + 1
  /\ spc' = "accept0" /\ room' = room + 1
  /\ ppc' = [p \in Procs |-> IF ppc[p] = "none" THEN "none" ELSE "gone"]
  /\ conn' = [u \in Users |-> IF conn[u] = "none" THEN "none" ELSE "down"]
  /\ UNCHANGED <<sem, named, nick, typed, taken, sent, heard, killed>>
-----------------------------------------------------------------------------
Server  == (\E i \in 0..1 : Accept(i) \/ Fork(i)) \/ NextPair
Room(p) == KillAll(p) \/ Leave(p) \/ Relay(p) \/ Break(p) \/ Stray(p)
Client(u) == Type(u) \/ Hear(u) \/ Disconnect(u)

Next == Server \/ (\E p \in Procs : Room(p)) \/ (\E u \in Users : Client(u)) \/ Restart

\* The processes run; users need not come nor type, clients that are there receive.
Fairness ==
  /\ WF_vars((\E i \in 0..1 : Fork(i)) \/ NextPair)
  /\ \A p \in Procs : WF_vars(Room(p))
  /\ \A u \in Users : WF_vars(Hear(u))

Spec     == Init /\ [][Next]_vars
FairSpec == Spec /\ Fairness
-----------------------------------------------------------------------------
\* Every variable has its type.
TypeOK ==
  /\ spc \in {"accept0", "accept1", "fork0", "fork1", "semop"}
  /\ room \in 1..Rooms /\ sem \in Nat /\ starts \in 1..Starts
  /\ ppc \in [Procs -> {"none", "recv", "semop", "gone"}]
  /\ named \in [Procs -> BOOLEAN] /\ nick \in [Procs -> Nat]
  /\ conn \in [Users -> {"none", "up", "down"}]
  /\ typed \in [Users -> Seq((Nat \ {0}) \cup {EXIT_SEQ, KILL_ALL})]
  /\ sent \in [Users -> Seq([kind : {"exit", "goodbye", "joined", "said"},
                             nick : Nat, text : Nat])]
  /\ taken \in [Users -> Nat] /\ heard \in [Users -> BOOLEAN] /\ killed \in 0..MaxKilled

KillRead(u) == \E k \in 1..taken[u] : typed[u][k] = KILL_ALL

\* Every room beyond the first of a start, and every token on the semaphore, is paid for
\* by a user whose KILL_THIS was received (TCP_server.c:116-121, 151).
RoomsPaid == room + sem <= starts + Cardinality({u \in Users : KillRead(u)})

\* Where what was sent to a user is of the other's messages.
Relayed(u) == {k \in DOMAIN sent[u] : sent[u][k].kind \in {"joined", "said"}}

\* What a user is sent of the other's messages are these messages, in order, none twice
\* and none left out, the first as a name and the rest under it: the process that reads
\* a second time (97-109) never gets through to anybody.
InOrder ==
  \A u \in Users : \A k \in Relayed(u) :
    LET n == Cardinality({j \in Relayed(u) : j <= k})
    IN  sent[u][k] = IF n = 1 THEN Joined(1) ELSE Said(1, n)

\* A process waits for the semaphore in the server's place only after a client or the
\* server was killed (TCP_server.c:111): a client that ends by itself was told to by its
\* process, which is gone (128-130).
NoStray == (\E p \in Procs : ppc[p] = "semop") => killed > 0 \/ starts > 1

\* Once a user of a full room has typed KILL_THIS the next room is opened, if no client or
\* server was killed and nobody left with exit, whose client is gone when he is told (119).
NextRoom ==
  \A r \in 1..Rooms-1 :
    LET Typed(t) == \E i \in 0..1 : \E k \in DOMAIN typed[<<r, i>>] : typed[<<r, i>>][k] = t
    IN  Typed(KILL_ALL) /\ conn[<<r, 1>>] # "none"
          ~> room > r \/ killed > 0 \/ starts > 1 \/ Typed(EXIT_SEQ)
=============================================================================
