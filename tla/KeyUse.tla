------------------------------- MODULE KeyUse -------------------------------
(***************************************************************************)
(* Which login a private-key operation rests on.  A Gen1 card keeps its    *)
(* security status for whoever sends the next command, and a thread keeps  *)
(* its Gen2 PIN for every session it works in: neither says which session  *)
(* was logged in.  Only the module's tables stand between a session that   *)
(* was never logged in and the key, and only the rule that a slot in use   *)
(* is not bound again stands between a login and the key of another card.  *)
(*                                                                         *)
(* The core and the API beside it, with a history of the logins that no    *)
(* step depends on.                                                        *)
(***************************************************************************)
EXTENDS RustApi

VARIABLE loginCard   \* history: the card whose login each open session had last

keyUseVars == <<apiVars, loginCard>>

\* Session h becomes logged in in this step.
LogsIn(h) == sessions[h].inUse /\ ~sessions[h].loggedIn /\ sessions'[h].loggedIn

\* A session that is closed, or opened in this step, has had no login.
Recorded ==
    loginCard' = [h \in Handles |->
        CASE LogsIn(h) -> slot[sessions[h].slot].card
          [] ~LogsIn(h) /\ sessions[h].inUse /\ sessions'[h].inUse -> loginCard[h]
          [] OTHER -> NoCard]

KeyUseInit == ApiInit /\ loginCard = [h \in Handles |-> NoCard]

KeyUseSpec == KeyUseInit /\ [][ApiNext /\ Recorded]_keyUseVars

\* Session h may use a private key now or with its next C_*Init.
MayUseKey(h) ==
    /\ sessions[h].inUse
    /\ \/ sessions[h].loggedIn
       \/ sessions[h].signActive \/ sessions[h].decryptActive \/ sessions[h].decryptPlain

\* A session that may use a private key, or holds a plaintext, was logged in
\* itself since it was opened, and the card behind its slot is still the one
\* that accepted that login: whatever is opened, closed, finalized or bound on
\* other slots and threads, whatever earlier holder the handle had, however
\* cards come and go in the reader, and whether or not it was logged out since.
KeyUseNeedsOwnLogin ==
    \A h \in Handles : MayUseKey(h) =>
        /\ loginCard[h] \in Cards
        /\ loginCard[h] = slot[sessions[h].slot].card

=============================================================================
