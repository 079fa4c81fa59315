------------------------------- MODULE MCGen1 -------------------------------
(* Small instances of Gen1 for TLC. *)
EXTENDS Gen1, TLC

CONSTANTS a, b

TwoHosts == {a, b}

\* Two C_* calls or two API calls; one of each.
OneMutex == {[h \in TwoHosts |-> "GLOBAL"]}
TwoMutexes == {[h \in TwoHosts |-> IF h = a THEN "GLOBAL" ELSE "CARD_LOCK"]}
EitherWay == OneMutex \cup TwoMutexes

AllFaults == {"none", "lost", "reply", "odd"}
NoFaults == {"none"}
=============================================================================
