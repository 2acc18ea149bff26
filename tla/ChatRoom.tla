------------------------------ MODULE ChatRoom ------------------------------
(***************************************************************************)
(* What a chat server promises: members, each under a name, and what one   *)
(* says is told to all the others, one after another, before anybody says  *)
(* something else.  If the server fails in between, those who were told    *)
(* last were told the same, and the room is silent until it is emptied.    *)
(* There are no datagrams, addresses or arrays here.                       *)
(***************************************************************************)
EXTENDS Sequences

CONSTANTS
  Clients,
  Texts    \* what can be said, and what can be a name

VARIABLES
  names,   \* the name of each member
  heard,   \* what each client was told so far
  untold   \* what was said last, with each member that has not been told

Message == [kind : {"joined", "said"}, name : Texts, text : Texts]

Joined(n)  == [kind |-> "joined", name |-> n, text |-> n]
Said(n, t) == [kind |-> "said",   name |-> n, text |-> t]

For(members, msg) == {[to |-> c, msg |-> msg] : c \in members}

Init == names = [c \in {} |-> 0] /\ heard = [c \in Clients |-> <<>>] /\ untold = {}

Enter(c, n) ==
  /\ untold = {} /\ c \notin DOMAIN names
  /\ names' = [d \in DOMAIN names \cup {c} |-> IF d = c THEN n ELSE names[d]]
  /\ untold' = For(DOMAIN names, Joined(n))
  /\ UNCHANGED heard

Say(c, t) ==
  /\ untold = {} /\ c \in DOMAIN names
  /\ untold' = For(DOMAIN names \ {c}, Said(names[c], t))
  /\ UNCHANGED <<names, heard>>

\* One member is told.
Tell(u) ==
  /\ heard' = [heard EXCEPT ![u.to] = Append(@, u.msg)]
  /\ untold' = untold \ {u}
  /\ UNCHANGED names

\* The room is emptied, whoever has been told.
Clear == names' = [c \in {} |-> 0] /\ untold' = {} /\ UNCHANGED heard

Next == \/ \E c \in Clients, t \in Texts : Enter(c, t) \/ Say(c, t)
        \/ \E u \in untold : Tell(u)
        \/ Clear

Spec == Init /\ [][Next]_<<names, heard, untold>>
=============================================================================
