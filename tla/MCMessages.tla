----------------------------- MODULE MCMessages -----------------------------
(* A small instance of Messages for TLC. *)
EXTENDS Messages

CONSTANTS k1, m1, m2, x, y

OneKey == {k1}
TwoMechanisms == {m1, m2}
OneMechanism == {m1}
TwoBytes == {x, y}
=============================================================================
