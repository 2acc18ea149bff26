----------------------------- MODULE BitExchange -----------------------------
(***************************************************************************)
(* bit_data_exchg.c: a child sends a string to its parent bit by bit, a    *)
(* SIGUSR1 for a 1 and a SIGUSR2 for a 0, and waits for a SIGUSR1 after    *)
(* each.  The length goes first, as one character.  Both signals are       *)
(* blocked before the fork; a second one of a kind merges with the first   *)
(* while that is pending.                                                  *)
(*                                                                         *)
(* A character is the function from its bits' numbers to 0 and 1.          *)
(***************************************************************************)
EXTENDS Integers, Sequences, FiniteSetsExt

CONSTANTS
  Width, \* the bits of a character: 8
  Texts  \* the strings that may be typed

Bits  == 0..Width-1
Chars == [Bits -> {0, 1}]

ASSUME BitAssumption == Width \in Nat \ {0} /\ Texts \subseteq Seq(Chars)

USR1 == "SIGUSR1"
USR2 == "SIGUSR2"

\* (unsigned char)strlength: the low bits of the length.
CharOf(n) == [j \in Bits |-> IF (n \div 2^j) % 2 = 1 THEN 1 ELSE 0]

\* A char read as an int: the top bit is the sign.
IntOf(c) == MapThenSumSet(LAMBDA j : c[j] * (IF j = Width - 1 THEN -(2^j) ELSE 2^j), Bits)

VARIABLES
  str_to_send,     \* what was typed
  spc, si, sj,     \* the child: where it is, which character and bit it sends
  rpc, ri, rj,     \* the parent: where it is, which character and bit it waits for
  current_char,    \* the character the parent puts together
  strlength,       \* the length the parent has read
  recieved_string, \* the characters it has stored
  toParent,        \* the signals pending for the parent
  toChild          \* and for the child

childVars  == <<str_to_send, spc, si, sj>>
parentVars == <<rpc, ri, rj, current_char, strlength, recieved_string>>
vars == <<childVars, parentVars, toParent, toChild>>

Zero == [j \in Bits |-> 0]

\* The characters on the wire: number 0 is the length.
Sent(k) == IF k = 0 THEN CharOf(Len(str_to_send)) ELSE str_to_send[k]

Init ==
  /\ str_to_send \in Texts
  /\ spc = "kill" /\ si = 0 /\ sj = 0
  /\ rpc = "wait" /\ ri = 0 /\ rj = 0
  /\ current_char = Zero /\ strlength = 0 /\ recieved_string = <<>>
  /\ toParent = {} /\ toChild = {}

Signal(bit) == IF bit = 1 THEN USR1 ELSE USR2

\* Mutant: the answer is not waited for.
SendBitNoWait ==
  /\ spc = "kill"
  /\ toParent' = toParent \cup {Signal(Sent(si)[sj])}
  /\ sj' = (sj + 1) % Width
  /\ si' = IF sj = Width - 1 THEN si + 1 ELSE si
  /\ spc' = IF sj = Width - 1 /\ si = Len(str_to_send) THEN "done" ELSE "kill"
  /\ UNCHANGED <<str_to_send, parentVars, toChild>>

\* send_the_char: send a bit
SendBit ==
  /\ spc = "kill"
  /\ toParent' = toParent \cup {Signal(Sent(si)[sj])}
  /\ spc' = "wait"
  /\ UNCHANGED <<str_to_send, si, sj, parentVars, toChild>>

\* and wait for the answer; main goes on to the next character, or ends.
SendNext ==
  /\ spc = "wait" /\ toChild # {}
  /\ \E s \in toChild : toChild' = toChild \ {s}
  /\ sj' = (sj + 1) % Width
  /\ si' = IF sj = Width - 1 THEN si + 1 ELSE si
  /\ spc' = IF sj = Width - 1 /\ si = Len(str_to_send) THEN "done" ELSE "kill"
  /\ UNCHANGED <<str_to_send, parentVars, toParent>>

\* recieve_the_char: wait for a bit and store it
RecvBit ==
  /\ rpc = "wait"
  /\ \E s \in toParent :
       /\ toParent' = toParent \ {s}
       /\ current_char' = [current_char EXCEPT ![rj] = IF s = USR1 THEN 1 ELSE 0]
  /\ rpc' = "kill"
  /\ UNCHANGED <<childVars, ri, rj, strlength, recieved_string, toChild>>

\* Mutant: the answer goes out before the last bit of a character is counted.
RecvAnswerEarly ==
  /\ rpc = "kill"
  /\ toChild' = toChild \cup {USR1}
  /\ IF rj < Width - 2
     THEN rj' = rj + 1 /\ rpc' = "wait" /\ UNCHANGED <<ri, current_char, strlength,
                                                       recieved_string>>
     ELSE /\ rj' = 0 /\ ri' = ri + 1 /\ current_char' = Zero
          /\ strlength' = IF ri = 0 THEN IntOf(current_char) ELSE strlength
          /\ recieved_string' = IF ri = 0 THEN recieved_string
                                ELSE Append(recieved_string, current_char)
          /\ rpc' = IF ri < strlength' THEN "wait" ELSE "done"
  /\ UNCHANGED <<childVars, toParent>>

\* Mutant: the bits are not counted from the first again.
RecvAnswerNoReset ==
  /\ rpc = "kill"
  /\ toChild' = toChild \cup {USR1}
  /\ rj' = rj + 1
  /\ IF rj < Width - 1
     THEN rpc' = "wait" /\ UNCHANGED <<ri, current_char, strlength, recieved_string>>
     ELSE /\ ri' = ri + 1 /\ current_char' = Zero
          /\ strlength' = IF ri = 0 THEN IntOf(current_char) ELSE strlength
          /\ recieved_string' = IF ri = 0 THEN recieved_string
                                ELSE Append(recieved_string, current_char)
          /\ rpc' = IF ri < strlength' THEN "wait" ELSE "done"
  /\ UNCHANGED <<childVars, toParent>>

\* then answer; with the last bit the character is complete.  A length is the
\* bound of main's loop, any other character is stored.
RecvAnswer ==
  /\ rpc = "kill"
  /\ toChild' = toChild \cup {USR1}
  /\ IF rj < Width - 1
     THEN rj' = rj + 1 /\ rpc' = "wait" /\ UNCHANGED <<ri, current_char, strlength,
                                                       recieved_string>>
     ELSE /\ rj' = 0 /\ ri' = ri + 1 /\ current_char' = Zero
          /\ strlength' = IF ri = 0 THEN IntOf(current_char) ELSE strlength
          /\ recieved_string' = IF ri = 0 THEN recieved_string
                                ELSE Append(recieved_string, current_char)
          /\ rpc' = IF ri < strlength' THEN "wait" ELSE "done"
  /\ UNCHANGED <<childVars, toParent>>

Child  == SendBit \/ SendNext
Parent == RecvBit \/ RecvAnswer

Next == Child \/ Parent

Spec     == Init /\ [][Next]_vars
FairSpec == Spec /\ WF_vars(Child) /\ WF_vars(Parent)
-----------------------------------------------------------------------------
\* Every variable has its type.
TypeOK ==
  /\ str_to_send \in Texts
  /\ spc \in {"kill", "wait", "done"} /\ si \in 0..Len(str_to_send)+1 /\ sj \in Bits
  /\ rpc \in {"wait", "kill", "done"} /\ ri \in Nat /\ rj \in Bits
  /\ current_char \in Chars /\ strlength \in Int
  /\ recieved_string \in Seq(Chars)
  /\ toParent \subseteq {USR1, USR2} /\ toChild \subseteq {USR1, USR2}

\* The parent stores the very characters the child was given, in order: no bit
\* is lost, doubled or taken for another (bit_data_exchg.c:64-98).
ReceivedPrefix ==
  /\ Len(recieved_string) <= Len(str_to_send)
  /\ \A k \in 1..Len(recieved_string) : recieved_string[k] = str_to_send[k]

\* No signal is sent while another is pending for the same process, where it
\* would merge with it or overtake it: the answers (75, 95) make sure of that.
NoMerge ==
  /\ spc = "kill" => toParent = {}
  /\ rpc = "kill" => toChild = {}

\* The string arrives, and both processes end.
Delivered == <>(spc = "done" /\ rpc = "done" /\ recieved_string = str_to_send)
=============================================================================
