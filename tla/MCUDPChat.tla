------------------------------ MODULE MCUDPChat ------------------------------
(* UDPChat for TLC: two hosts and two ports, and one line that is too long for a name. *)
EXTENDS UDPChat

CONSTANTS here, there

Addresses == {here, there} \X {1, 2}

LongLine == {Datagram(<<here, 1>>, 1)}
=============================================================================
