---------------------------- MODULE MCBitExchange ----------------------------
(* BitExchange for TLC: characters of Width bits; all strings whose length the *)
(* char that is received can hold, and a string of each greater length up to   *)
(* the length that is prompted for, the greatest one an unsigned char can hold *)
(* (Width = 8: 255).                                                           *)
EXTENDS BitExchange

NonZero == Chars \ {[j \in Bits |-> 0]}

ShortTexts == UNION {[1..n -> NonZero] : n \in 0..2^(Width-1)-1}

LongTexts == {[k \in 1..n |-> [j \in Bits |-> 1]] : n \in 2^(Width-1)..2^Width-1}

AllTexts == ShortTexts \cup LongTexts
=============================================================================
