----------------------------- MODULE MCCryptoki -----------------------------
(* Small instances of Cryptoki for TLC. *)
EXTENDS Cryptoki, TLC

CONSTANTS t1, t2, r1, r2, old, new, new2, right, wrong

OneThread == {t1}
TwoThreads == {t1, t2}
OneReader == {r1}
TwoReaders == {r1, r2}
OneGen2 == {new}
TwoGen2 == {new, new2}
BothGens == {old, new}
BothPins == {right, wrong}
OneSession == {1}
TwoSessions == {1, 2}
AllFaults == FaultPoints
NoFaults == {"none"}
LostReplies == {"none", "reply"}
SomeFaults == {"none", "channel", "reply"}
SignOnly == {"sign"}
SignAndDecrypt == {"sign", "decrypt"}

\* Pins and the two Gen2 cards are interchangeable.
CardsAndPins == Permutations(TwoGen2) \cup Permutations(BothPins)
=============================================================================
