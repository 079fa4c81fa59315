----------------------------- MODULE PinCustody -----------------------------
(***************************************************************************)
(* What the module promises about the PIN of a Gen2 card, without slots,   *)
(* sessions, profiles or channels: a thread may hold the PIN of one card.  *)
(* It comes to hold it when that card accepts what the user typed, presents *)
(* it again to that card only, and a try is lost only by typing a PIN,     *)
(* never by presenting the held one.                                       *)
(***************************************************************************)
EXTENDS Naturals

CONSTANTS
    Threads,     \* threads that may hold a PIN
    Cards,       \* all cards
    Gen2Cards,   \* the cards whose PIN is held between calls
    None,        \* no PIN held
    MaxRetries   \* tries between two correct PINs

VARIABLES
    holder,   \* the card whose PIN the thread holds
    retries   \* tries left on the card

vars == <<holder, retries>>

TypeOK ==
    /\ holder \in [Threads -> Gen2Cards \cup {None}]
    /\ retries \in [Cards -> 0 .. MaxRetries]

Init ==
    /\ holder = [t \in Threads |-> None]
    /\ retries = [c \in Cards |-> MaxRetries]

\* The card accepts the PIN typed on t; its answer may not come back.
TypeRight(t, c) ==
    /\ retries[c] > 0
    /\ retries' = [retries EXCEPT ![c] = MaxRetries]
    /\ \/ c \in Gen2Cards /\ holder' = [holder EXCEPT ![t] = c]
       \/ c \in Gen2Cards /\ holder' = [holder EXCEPT ![t] = None]
       \/ c \notin Gen2Cards /\ UNCHANGED holder

\* The card refuses it, and the thread holds nothing afterwards.
TypeWrong(t, c) ==
    /\ retries[c] > 0
    /\ retries' = [retries EXCEPT ![c] = @ - 1]
    /\ IF c \in Gen2Cards THEN holder' = [holder EXCEPT ![t] = None]
                          ELSE UNCHANGED holder

\* A held PIN is presented to its own card, which accepts it.
Present(t, c) ==
    /\ holder[t] = c
    /\ retries[c] > 0
    /\ retries' = [retries EXCEPT ![c] = MaxRetries]
    /\ UNCHANGED holder

Forget(t) ==
    /\ holder' = [holder EXCEPT ![t] = None]
    /\ UNCHANGED retries

Next ==
    \E t \in Threads :
        \/ Forget(t)
        \/ \E c \in Cards : TypeRight(t, c) \/ TypeWrong(t, c) \/ Present(t, c)

Spec == Init /\ [][Next]_vars

=============================================================================
