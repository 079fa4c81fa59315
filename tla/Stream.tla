------------------------------- MODULE Stream -------------------------------
(***************************************************************************)
(* What a multi-part operation of PKCS#11 promises: it is begun with a     *)
(* setup (key and mechanism), takes in a message part by part, and yields  *)
(* at most one result, which covers exactly the message since it was begun *)
(* or, when the data comes with the last call, that data after what was    *)
(* taken in (Joins) or instead of it.                                      *)
(***************************************************************************)
EXTENDS Sequences

CONSTANTS
    Setups,   \* what an operation is begun with
    Parts,    \* what a message is extended by
    Joins,    \* TRUE when the last call's data is added to the parts
    None      \* no setup, no result

VARIABLES
    setup,    \* the setup of the operation that is under way
    message,  \* what it has taken in
    result    \* the last result, until the next begin: its setup, its data, and
              \* whether the call that ended the operation came without data

vars == <<setup, message, result>>

Init == setup = None /\ message = <<>> /\ result = None

Begin == setup' \in Setups /\ message' = <<>> /\ result' = None

Absorb ==
    /\ setup # None
    /\ \E p \in Parts : message' = message \o p
    /\ UNCHANGED <<setup, result>>

End == setup # None /\ setup' = None /\ message' = <<>>

Finish(data, final) ==
    End /\ result' = [setup |-> setup, data |-> data, final |-> final]

Abandon == End /\ UNCHANGED result

Next ==
    \/ Begin \/ Absorb \/ Abandon
    \/ Finish(message, TRUE)
    \/ \E p \in Parts : Finish(IF Joins THEN message \o p ELSE p, FALSE)

Spec == Init /\ [][Next]_vars

=============================================================================
