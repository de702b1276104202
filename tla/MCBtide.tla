------------------------------ MODULE MCBtide ------------------------------
(* Values for TLC.                                                         *)
EXTENDS Btide

\* A port of more than 16 bits, and one that atoi finds negative.
GivenNumbers == {13, -2}
=============================================================================
