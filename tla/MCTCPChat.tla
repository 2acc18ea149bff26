------------------------------ MODULE MCTCPChat ------------------------------
(* TCPChat for TLC: talk in the first room, an end of the second. *)
EXTENDS TCPChat

Talk == <<3, 0>>
=============================================================================
