------------------------------ MODULE MCScp03 ------------------------------
(* Small instances of Scp03 for TLC. *)
EXTENDS Scp03, TLC

CONSTANTS p, q, a, b, right, wrong

TwoHosts == {p, q}
BothPins == {right, wrong}
TwoChunks == {a, b}
OneKey == {1}
AllFaults == {"none", "lost", "unanswered", "short", "resent"}
Symmetric == Permutations(TwoHosts) \cup Permutations(TwoChunks)
=============================================================================
