------------------------------ MODULE MCRustApi ------------------------------
(* A small instance of KeyUse for TLC: one of five worlds, chosen at the   *)
(* start, each with two of what it is about and one of the rest.            *)
(*   threads   two threads share a reader, its card and a session           *)
(*   sessions  two threads and two sessions; the API is not called          *)
(*   cards     two Gen2 cards, with different PINs, take turns in a reader  *)
(*   readers   a Gen1 and a Gen2 card in a reader each                      *)
(*   slots     the same, with two threads and two sessions; the API is not  *)
(*             called, and no wrong PIN is typed                            *)
EXTENDS KeyUse, TLC

CONSTANTS t1, t2, r1, r2, old, new, new2, right, wrong

TwoThreads == {t1, t2}
TwoReaders == {r1, r2}
AllCards == {old, new, new2}
TwoGen2 == {new, new2}
BothPins == {right, wrong}
TwoSessions == {1, 2}
SomeFaults == {"none", "reply"}
SignOnly == {"sign"}

VARIABLE world

Worlds == {"threads", "sessions", "cards", "readers", "slots"}

CardsIn(w, r) ==
    CASE w = "cards"               -> IF r = r1 THEN TwoGen2 ELSE {}
      [] w \in {"readers", "slots"}  -> IF r = r1 THEN {old} ELSE {new}
      [] w \in {"threads", "sessions"} -> IF r = r1 THEN {new} ELSE {}

\* Cards are taken out in two worlds, and in two thread t2 makes calls that
\* depend on thread-local state.
InWorld ==
    /\ \A r \in Readers : inserted'[r] \in CardsIn(world, r) \cup {NoCard}
    /\ world \in {"threads", "readers", "slots"} =>
          \A r \in Readers : inserted[r] # NoCard => inserted'[r] = inserted[r]
    /\ world \in {"cards", "readers"} =>
          tls'[t2] = FreshThread /\ (api'.stage = "idle" \/ api'.thread = t1)
    /\ world \in {"sessions", "slots"} => api'.stage = "idle"
    /\ world = "readers" =>
          api'.pin # wrong /\ \A r \in Readers : slot[r].listed => slot'[r].listed
    /\ world = "slots" =>
          /\ \A c \in Cards : card'[c].retries = MaxRetries
          /\ \A r \in Readers : slot[r].listed => slot'[r].listed
    /\ world \notin {"sessions", "slots"} => ~sessions'[2].inUse
    /\ world \notin {"readers", "slots"} => ~slot'[r2].listed

MCInit ==
    /\ KeyUseInit /\ world \in Worlds
    /\ card = [c \in Cards |->
        [pin |-> IF c = new2 THEN wrong ELSE right, retries |-> MaxRetries, verified |-> FALSE]]

MCNext == ApiNext /\ Recorded /\ InWorld /\ UNCHANGED world

MCSpec == MCInit /\ [][MCNext]_<<keyUseVars, world>>
=============================================================================
