------------------------------ MODULE Objects ------------------------------
(***************************************************************************)
(* The search for token objects: C_FindObjectsInit, C_FindObjects and      *)
(* C_FindObjectsFinal (pkcs11/module.rs) in several sessions on one token, *)
(* with the per-session login that decides what a search may list.  The    *)
(* objects themselves do not change while a session is open on the token   *)
(* (SessionsUsable in Cryptoki: it stays bound).                           *)
(***************************************************************************)
EXTENDS Naturals, Sequences

CONSTANTS
    Sessions,   \* sessions open on the token at one time or another
    Token,      \* Token.objs: the objects in the order of their handles
    Templates,  \* what callers search for: attributes and their values
    MaxObjs     \* MAX_OBJS

\* Of a record of attributes, the ones attr_match looks at.
Attributes == {"class", "id", "label", "sign", "decrypt"}

Object == [class : {"PrivKey", "PubKey", "Cert", "Data"}, id : STRING, label : STRING,
           sign : BOOLEAN, decrypt : BOOLEAN, private : BOOLEAN]

ASSUME TokenAssumption == Token \in Seq(Object) /\ MaxObjs \in Nat
ASSUME TemplatesAssumption == \A t \in Templates : DOMAIN t \subseteq Attributes

VARIABLES
    session,    \* open, loggedIn, find_active, find_handles, find_pos
    delivered,  \* the handles the caller got since C_FindObjectsInit
    lost,       \* since then it asked for handles without a place for them
    wasIn       \* the session has been logged in since it was opened

vars == <<session, delivered, lost, wasIn>>

Handles == DOMAIN Token

Session == [open : BOOLEAN, loggedIn : BOOLEAN, finding : BOOLEAN,
            handles : Seq(Handles), pos : Nat]

Fresh == [open |-> TRUE, loggedIn |-> FALSE, finding |-> FALSE, handles |-> <<>>, pos |-> 0]

Private(h) == Token[h].private \/ Token[h].class = "PrivKey"

Init ==
    /\ session = [s \in Sessions |-> [Fresh EXCEPT !.open = FALSE]]
    /\ delivered = [s \in Sessions |-> <<>>]
    /\ lost = [s \in Sessions |-> FALSE]
    /\ wasIn = [s \in Sessions |-> FALSE]

-----------------------------------------------------------------------------
\* C_OpenSession
Open(s) ==
    /\ ~session[s].open
    /\ session' = [session EXCEPT ![s] = Fresh]
    /\ delivered' = [delivered EXCEPT ![s] = <<>>]
    /\ lost' = [lost EXCEPT ![s] = FALSE]
    /\ wasIn' = [wasIn EXCEPT ![s] = FALSE]

\* C_CloseSession
Close(s) ==
    /\ session[s].open
    /\ session' = [session EXCEPT ![s].open = FALSE]
    /\ UNCHANGED <<delivered, lost, wasIn>>

\* C_Login with the right PIN
Login(s) ==
    /\ session[s].open /\ ~session[s].loggedIn
    /\ session' = [session EXCEPT ![s].loggedIn = TRUE]
    /\ wasIn' = [wasIn EXCEPT ![s] = TRUE]
    /\ UNCHANGED <<delivered, lost>>

\* C_Logout leaves a search that is under way.
Logout(s) ==
    /\ session[s].open /\ session[s].loggedIn
    /\ session' = [session EXCEPT ![s].loggedIn = FALSE]
    /\ UNCHANGED <<delivered, lost, wasIn>>

\* attr_match: a template that asks for CKA_SIGN or CKA_DECRYPT FALSE asks for
\* nothing.
Matches(h, t) ==
    \A a \in DOMAIN t :
        IF a \in {"sign", "decrypt"} THEN t[a] => Token[h][a] ELSE Token[h][a] = t[a]

\* Faulty variant: one login opens the private objects to every session.
VisibleToAll(s, h) == Private(h) => \E q \in Sessions : session[q].loggedIn

Visible(s, h) == Private(h) => session[s].loggedIn

\* Up to MAX_OBJS handles, in their order.
Lists == {l \in UNION {[1 .. n -> Handles] : n \in 0 .. MaxObjs} :
              \A i, j \in DOMAIN l : i < j => l[i] < l[j]}

\* found lists what the session may see of what the template asks for; what is
\* missing is behind MAX_OBJS others.
Found(s, t, found) ==
    LET Wanted(h) == Visible(s, h) /\ Matches(h, t)
    IN /\ \A i \in DOMAIN found : Wanted(found[i])
       /\ \A h \in Handles : Wanted(h) =>
             \/ \E i \in DOMAIN found : found[i] = h
             \/ Len(found) = MaxObjs /\ \A i \in DOMAIN found : found[i] < h

\* Faulty variant: the search goes on where the last one stopped.
StartedAtOldPlace(o, found) == [o EXCEPT !.finding = TRUE, !.handles = found]

\* A search may be started over at any time.
Started(o, found) == [o EXCEPT !.finding = TRUE, !.handles = found, !.pos = 0]

FindObjectsInit(s, t) ==
    /\ session[s].open
    /\ \E found \in Lists : /\ Found(s, t, found)
                           /\ session' = [session EXCEPT ![s] = Started(@, found)]
    /\ delivered' = [delivered EXCEPT ![s] = <<>>]
    /\ lost' = [lost EXCEPT ![s] = FALSE]
    /\ UNCHANGED wasIn

\* The number of handles a call that asks for at most n takes off the list.
Taken(o, n) == IF n < Len(o.handles) - o.pos THEN n ELSE Len(o.handles) - o.pos

FindObjects(s, n) ==
    LET o == session[s]
    IN /\ o.open /\ o.finding
       /\ session' = [session EXCEPT ![s].pos = @ + Taken(o, n)]
       /\ delivered' = [delivered EXCEPT ![s] =
                          @ \o SubSeq(o.handles, o.pos + 1, o.pos + Taken(o, n))]
       /\ UNCHANGED <<lost, wasIn>>

\* Without an array the handles are counted and gone.
CountObjects(s, n) ==
    LET o == session[s]
    IN /\ o.open /\ o.finding
       /\ session' = [session EXCEPT ![s].pos = @ + Taken(o, n)]
       /\ lost' = [lost EXCEPT ![s] = @ \/ Taken(o, n) > 0]
       /\ UNCHANGED <<delivered, wasIn>>

FindObjectsFinal(s) ==
    /\ session[s].open
    /\ session' = [session EXCEPT ![s].finding = FALSE]
    /\ UNCHANGED <<delivered, lost, wasIn>>

Next ==
    \E s \in Sessions :
        \/ Open(s) \/ Close(s) \/ Login(s) \/ Logout(s) \/ FindObjectsFinal(s)
        \/ \E t \in Templates : FindObjectsInit(s, t)
        \/ \E n \in 0 .. Len(Token) : FindObjects(s, n) \/ CountObjects(s, n)

Spec == Init /\ [][Next]_vars

-----------------------------------------------------------------------------
\* The state keeps its shape, the list its limit and the position stays on it.
TypeOK ==
    /\ session \in [Sessions -> Session]
    /\ delivered \in [Sessions -> Seq(Handles)]
    /\ lost \in [Sessions -> BOOLEAN] /\ wasIn \in [Sessions -> BOOLEAN]
    /\ \A s \in Sessions : 
         /\ session[s].pos <= Len(session[s].handles)
         /\ Len(session[s].handles) <= MaxObjs

\* The state keeps its shape.  However a caller splits its calls, and with searches broken off and begun
\* anew in between, it gets the objects found by the current search in their
\* order, each once; what is missing is still to come.
DeliveredInOrder ==
    /\ TypeOK
    /\ \A s \in Sessions : session[s].finding /\ ~lost[s] =>
          delivered[s] = SubSeq(session[s].handles, 1, session[s].pos)

\* A session that was never logged in gets no private object, whatever other
\* sessions on the token, or earlier ones with its handle, were allowed.
OthersLoginShowsNothing ==
    \A s \in Sessions : session[s].open /\ ~wasIn[s] =>
        \A i \in DOMAIN delivered[s] : ~Private(delivered[s][i])

=============================================================================
