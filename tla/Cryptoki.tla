------------------------------ MODULE Cryptoki ------------------------------
(***************************************************************************)
(* The PKCS#11 core of the module: the slot and session tables behind the  *)
(* process-wide GLOBAL mutex (pkcs11/module.rs), the thread-local profile  *)
(* and credential caches the APDU layer keeps beside them (apdu/mod.rs,    *)
(* apdu/gen2.rs), and the cards with their PIN retry counters.             *)
(*                                                                         *)
(* Every C_* call runs under GLOBAL from its first check to its return, so *)
(* it is one action, with every APDU exchange it makes; the calling thread *)
(* is a parameter because half of the state is per thread.  Calls that are *)
(* refused before they change anything are stuttering steps and have no    *)
(* disjunct.                                                               *)
(***************************************************************************)
EXTENDS Naturals, FiniteSets

CONSTANTS
    Threads,     \* threads of the process that call into the module
    Readers,     \* PC/SC readers, each of which may become a slot
    Cards,       \* the cards that may be put into a reader
    Gen2Cards,   \* those with the GPPKI applet (SCP03); the others are Gen1
    Handles,     \* session handles, 1 .. MAX_SESSIONS in the code
    Pins,        \* PIN values of an acceptable length
    NoCard,      \* no card in a reader, no card connected, no keys cached
    NoPin,       \* no PIN cached
    MaxSlots,    \* MAX_SLOTS
    MaxRetries,  \* PIN tries a card grants between two correct PINs
    Operations,  \* the private-key operations callers use
    Faults,      \* where an APDU exchange may break off, "none" included
    PinChanges   \* TRUE when other software may change a card's PIN

FaultPoints == {"none", "keys", "channel", "lost", "reply", "op"}

ASSUME CardsAssumption ==
    Gen2Cards \subseteq Cards /\ NoCard \notin Cards /\ NoPin \notin Pins
ASSUME ReadersAssumption == Readers # {} /\ Pins # {}
ASSUME HandlesAssumption == Handles \subseteq Nat \ {0}
ASSUME RetriesAssumption == MaxRetries \in Nat \ {0} /\ MaxSlots \in Nat
ASSUME OperationsAssumption == Operations \subseteq {"sign", "decrypt"}
ASSUME FaultsAssumption ==
    Faults \subseteq FaultPoints /\ "none" \in Faults /\ PinChanges \in BOOLEAN

VARIABLES
    initialized,  \* State.initialized
    slot,         \* State.slots, by reader
    sessions,     \* State.sessions, by handle
    tls,          \* the thread-local cells, by thread
    inserted,     \* the card in each reader
    card          \* the cards: PIN, retry counter, security status

vars == <<initialized, slot, sessions, tls, inserted, card>>

Gen(c) == IF c \in Gen2Cards THEN "Gen2" ELSE "Gen1"

\* A slot exists (listed) from C_Initialize to C_Finalize; card is what its
\* PC/SC handle was opened on, live is lost for good when that card leaves the
\* reader, bound is Token.bound.
SlotRecord ==
    [listed : BOOLEAN, card : Cards \cup {NoCard}, live : BOOLEAN, bound : BOOLEAN]

SessionRecord ==
    [inUse : BOOLEAN, slot : Readers, loggedIn : BOOLEAN,
     signActive : BOOLEAN, decryptActive : BOOLEAN, decryptPlain : BOOLEAN]

\* keys and scp name the card whose static keys and channel they are.  pinOf
\* is history and no cell of the code: the card that accepted the cached PIN.
\* No step depends on it.
ThreadRecord ==
    [profile : {"Gen1", "Gen2"}, claLocked : BOOLEAN, pin : Pins \cup {NoPin},
     pinOf : Cards \cup {NoCard}, keys : Cards \cup {NoCard}, scp : Cards \cup {NoCard}]

CardRecord == [pin : Pins, retries : 0 .. MaxRetries, verified : BOOLEAN]

UnlistedSlot == [listed |-> FALSE, card |-> NoCard, live |-> FALSE, bound |-> FALSE]

FreshThread ==
    [profile |-> "Gen1", claLocked |-> FALSE, pin |-> NoPin, pinOf |-> NoCard,
     keys |-> NoCard, scp |-> NoCard]

NewSession(r) ==
    [inUse |-> TRUE, slot |-> r, loggedIn |-> FALSE,
     signActive |-> FALSE, decryptActive |-> FALSE, decryptPlain |-> FALSE]

-----------------------------------------------------------------------------
(* Thread-local state of the APDU layer. *)

ResetCla(tl) == [tl EXCEPT !.profile = "Gen1", !.claLocked = FALSE]

SetProfile(tl, g) == [tl EXCEPT !.profile = g, !.claLocked = TRUE]

\* gen2::clear_auth_state
DropCredentials(tl) ==
    [tl EXCEPT !.pin = NoPin, !.pinOf = NoCard, !.keys = NoCard, !.scp = NoCard]

\* apdu::clear_auth_state
ClearAuthState(tl) == IF tl.profile = "Gen2" THEN DropCredentials(tl) ELSE tl

-----------------------------------------------------------------------------
(* The card, as the answers the code distinguishes describe it: 9000, 63Cx, *)
(* 6983.                                                                    *)

CardVerify(k, p) ==
    IF k.retries = 0 THEN [rv |-> "Locked", card |-> k]
    ELSE IF p = k.pin
         THEN [rv |-> "Ok", card |-> [k EXCEPT !.retries = MaxRetries, !.verified = TRUE]]
         ELSE [rv |-> "Incorrect",
               card |-> [k EXCEPT !.retries = @ - 1, !.verified = FALSE]]

\* A VERIFY exchange under a fault: the command never arrives, or its answer
\* does not come back although the card has processed it.
VerifyExchange(k, p, f) ==
    IF f = "lost" THEN [rv |-> "Error", card |-> k]
    ELSE LET v == CardVerify(k, p)
         IN IF f = "reply" THEN [v EXCEPT !.rv = "Error"] ELSE v

-----------------------------------------------------------------------------
(* Gen1: select_key_ef, verify_pin, rsa_private.  direct says whether the   *)
(* first SELECT of EF.0810 succeeds from wherever the card happens to be.   *)
(* A Gen2 card refuses the gen1 VERIFY and the plain EA command.  The        *)
(* detect_and_select that follows a failed SELECT is taken to succeed on a  *)
(* live handle; a broken one would leave the profile as it was.             *)

SelectKeyEf(tl, s, direct) ==
    IF ~s.live \/ direct \/ tl.claLocked THEN tl ELSE SetProfile(tl, Gen(s.card))

Gen1VerifyPin(tl, s, p, f, direct) ==
    LET tl1 == SelectKeyEf(tl, s, direct)
        k   == card[s.card]
        v   == VerifyExchange(k, p, f)
    IN IF s.live /\ Gen(s.card) = "Gen1"
       THEN [rv |-> v.rv, tl |-> tl1, card |-> v.card]
       ELSE [rv |-> "Error", tl |-> tl1, card |-> k]

\* rsa_private checks nothing itself: verified is the access condition of the
\* card, which answers 6982 without it.
Gen1RsaPrivate(tl, s, f, direct) ==
    [rv   |-> IF /\ s.live /\ Gen(s.card) = "Gen1"
                 /\ card[s.card].verified /\ f = "none"
              THEN "Ok" ELSE "Error",
     tl   |-> SelectKeyEf(tl, s, direct),
     card |-> card[s.card]]

-----------------------------------------------------------------------------
(* Gen2: diverse_static_keys, open_scp03, sm_verify, verify_pin,            *)
(* prepare_for_private_op, rsa_private.                                     *)

\* Faulty variant: keys are derived anew although the PIN stays cached.
DiverseKeysUncached(tl, s, f) ==
    IF ~s.live \/ Gen(s.card) = "Gen1" \/ f = "keys" THEN tl ELSE [tl EXCEPT !.keys = s.card]

\* diverse_static_keys: cached keys are used whatever card they came from.
DiverseKeys(tl, s, f) ==
    IF tl.keys # NoCard \/ ~s.live \/ Gen(s.card) = "Gen1" \/ f = "keys"
    THEN tl ELSE [tl EXCEPT !.keys = s.card]

\* open_scp03 succeeds when the card cryptogram matches the keys.
ChannelOpens(tl, s, f) ==
    s.live /\ Gen(s.card) = "Gen2" /\ tl.keys = s.card /\ f # "channel"

\* Faulty variant: the PIN is cached before the card has judged it.
Gen2VerifyPinCachesFirst(tl, s, p, f) ==
    LET tl1 == DiverseKeys([tl EXCEPT !.scp = NoCard, !.pin = p, !.pinOf = s.card], s, f)
        v   == VerifyExchange(card[s.card], p, f)
    IN IF ~ChannelOpens(tl1, s, f)
       THEN [rv |-> "Error", tl |-> tl1, card |-> card[s.card]]
       ELSE [rv |-> v.rv, tl |-> tl1, card |-> v.card]

Gen2VerifyPin(tl, s, p, f) ==
    LET tl1 == DiverseKeys([tl EXCEPT !.scp = NoCard, !.pin = NoPin, !.pinOf = NoCard], s, f)
        k   == card[s.card]
        v   == VerifyExchange(k, p, f)
    IN IF ~ChannelOpens(tl1, s, f)
       THEN [rv |-> "Error", tl |-> tl1, card |-> k]
       ELSE [rv |-> v.rv,
             tl |-> IF v.rv = "Ok"
                    THEN [tl1 EXCEPT !.scp = s.card, !.pin = p, !.pinOf = s.card] ELSE tl1,
             card |-> v.card]

\* Faulty variant: any failure in preparing the operation drops the credentials.
PrepareForgets(tl, s, f) ==
    LET v == VerifyExchange(card[s.card], tl.pin, f)
    IN IF tl.pin # NoPin /\ ChannelOpens(tl, s, f) /\ v.rv = "Ok"
       THEN [rv |-> "Ok", tl |-> [tl EXCEPT !.scp = s.card], card |-> v.card]
       ELSE [rv |-> "Error", tl |-> DropCredentials(tl), card |-> card[s.card]]

\* Faulty variant: a refused VERIFY is not an early return.
PrepareIgnoresVerify(tl, s, f) ==
    LET tl1 == DiverseKeys(tl, s, f)
    IN IF tl.pin # NoPin /\ ChannelOpens(tl1, s, f)
       THEN [rv |-> "Ok", tl |-> [tl1 EXCEPT !.scp = s.card],
             card |-> VerifyExchange(card[s.card], tl.pin, f).card]
       ELSE [rv |-> "Error", tl |-> tl, card |-> card[s.card]]

\* prepare_for_private_op: a failed VERIFY closes the channel and keeps the PIN.
PrepareForPrivateOp(tl, s, f) ==
    LET tl1 == DiverseKeys(tl, s, f)
        k   == card[s.card]
        v   == VerifyExchange(k, tl.pin, f)
    IN CASE tl.pin = NoPin \/ tl1.keys = NoCard ->
                [rv |-> "Error", tl |-> tl, card |-> k]
         [] tl.pin # NoPin /\ tl1.keys # NoCard /\ ~ChannelOpens(tl1, s, f) ->
                [rv |-> "Error", tl |-> [tl1 EXCEPT !.scp = NoCard], card |-> k]
         [] OTHER ->
                [rv   |-> v.rv,
                 tl   |-> [tl1 EXCEPT !.scp = IF v.rv = "Ok" THEN s.card ELSE NoCard],
                 card |-> v.card]

Gen2RsaPrivate(tl, s, f) ==
    LET x == PrepareForPrivateOp(tl, s, f)
    IN IF f = "op" THEN [x EXCEPT !.rv = "Error"] ELSE x

-----------------------------------------------------------------------------
(* Dispatch on the calling thread's profile (apdu/mod.rs). *)

VerifyPin(tl, s, p, f, direct) ==
    IF tl.profile = "Gen1" THEN Gen1VerifyPin(tl, s, p, f, direct)
                           ELSE Gen2VerifyPin(tl, s, p, f)

RsaPrivate(tl, s, f, direct) ==
    IF tl.profile = "Gen1" THEN Gen1RsaPrivate(tl, s, f, direct)
                           ELSE Gen2RsaPrivate(tl, s, f)

-----------------------------------------------------------------------------
(* ensure_card: connect if there is no PC/SC handle, bind if the token is   *)
(* not bound; a failed bind drops the handle again.  The result is the      *)
(* slot and the thread-local state it leaves, and whether it returned OK.   *)

Bind(tl, s) ==
    LET unbound == [s EXCEPT !.card = NoCard, !.live = FALSE, !.bound = FALSE]
        bound   == [s EXCEPT !.bound = TRUE]
    IN {[ok |-> FALSE, tl |-> tl, slot |-> unbound]}
       \cup (IF s.live THEN {[ok |-> TRUE, tl |-> SetProfile(tl, Gen(s.card)), slot |-> bound]}
                       ELSE {})

\* Faulty variant: a handle that has lost its card is replaced by one on the
\* card that is in the reader now, whatever sessions are open on the slot.
EnsureCardReconnects(tl, r) ==
    LET opened == [slot[r] EXCEPT !.card = inserted[r], !.live = TRUE]
    IN IF slot[r].bound
       THEN {[ok   |-> TRUE, tl |-> tl,
              slot |-> IF slot[r].live \/ inserted[r] = NoCard THEN slot[r] ELSE opened]}
       ELSE {[ok |-> FALSE, tl |-> ResetCla(tl), slot |-> slot[r]]}
            \cup (IF inserted[r] = NoCard THEN {} ELSE Bind(ResetCla(tl), opened))

EnsureCard(tl, r) ==
    LET s == slot[r]
        opened == [s EXCEPT !.card = inserted[r], !.live = TRUE]
    IN IF s.card # NoCard
       THEN IF s.bound THEN {[ok |-> TRUE, tl |-> tl, slot |-> s]} ELSE Bind(tl, s)
       ELSE {[ok |-> FALSE, tl |-> ResetCla(tl), slot |-> s]}
            \cup (IF inserted[r] = NoCard THEN {} ELSE Bind(ResetCla(tl), opened))

-----------------------------------------------------------------------------
FirstReader == CHOOSE r \in Readers : TRUE

Init ==
    /\ initialized = FALSE
    /\ slot = [r \in Readers |-> UnlistedSlot]
    /\ sessions = [h \in Handles |-> [NewSession(FirstReader) EXCEPT !.inUse = FALSE]]
    /\ tls = [t \in Threads |-> FreshThread]
    /\ inserted = [r \in Readers |-> NoCard]
    /\ card \in [Cards -> {k \in CardRecord : k.retries = MaxRetries /\ ~k.verified}]

\* C_Initialize lists the readers attached at that moment, at most MaxSlots.
Initialize ==
    /\ ~initialized
    /\ initialized' = TRUE
    /\ \E rs \in SUBSET Readers :
          /\ Cardinality(rs) <= MaxSlots
          /\ slot' = [r \in Readers |-> [UnlistedSlot EXCEPT !.listed = r \in rs]]
    /\ UNCHANGED <<sessions, tls, inserted, card>>

\* Faulty variant: sessions that are logged in stay open.
ClosePublicOnly(closing) ==
    [h \in Handles |-> [sessions[h] EXCEPT
        !.inUse = @ /\ (h \notin closing \/ sessions[h].loggedIn)]]

CloseEach(closing) ==
    [h \in Handles |-> IF h \in closing THEN [sessions[h] EXCEPT !.inUse = FALSE]
                                        ELSE sessions[h]]

\* C_Finalize drops the slots, and with them the PC/SC handles: PC/SC resets
\* the cards behind them.
Finalize ==
    /\ initialized
    /\ initialized' = FALSE
    /\ sessions' = CloseEach(Handles)
    /\ slot' = [r \in Readers |-> UnlistedSlot]
    /\ card' = [c \in Cards |->
                  IF \E r \in Readers : slot[r].card = c /\ slot[r].live
                  THEN [card[c] EXCEPT !.verified = FALSE] ELSE card[c]]
    /\ UNCHANGED <<tls, inserted>>

Touch(t, r, e) ==
    /\ slot' = [slot EXCEPT ![r] = e.slot]
    /\ tls' = [tls EXCEPT ![t] = e.tl]
    /\ UNCHANGED <<initialized, inserted, card>>

\* C_GetTokenInfo
GetTokenInfo(t, r) ==
    /\ initialized /\ slot[r].listed
    /\ \E e \in EnsureCard(tls[t], r) : Touch(t, r, e)
    /\ UNCHANGED sessions

FreeHandles == {h \in Handles : ~sessions[h].inUse}

\* C_OpenSession takes the lowest free handle; with none left it fails after
\* ensure_card has run.
OpenSession(t, r) ==
    /\ initialized /\ slot[r].listed
    /\ \E e \in EnsureCard(tls[t], r) :
          /\ Touch(t, r, e)
          /\ IF e.ok /\ FreeHandles # {}
             THEN \E h \in FreeHandles :
                    /\ \A g \in FreeHandles : h <= g
                    /\ sessions' = [sessions EXCEPT ![h] = NewSession(r)]
             ELSE UNCHANGED sessions

CloseSession(h) ==
    /\ initialized /\ sessions[h].inUse
    /\ sessions' = CloseEach({h})
    /\ UNCHANGED <<initialized, slot, tls, inserted, card>>

CloseAllSessions(r) ==
    /\ initialized
    /\ sessions' = CloseEach({h \in Handles : sessions[h].slot = r})
    /\ UNCHANGED <<initialized, slot, tls, inserted, card>>

\* The thread-local and card state an exchange through session h leaves.
Exchange(t, h, x) ==
    /\ tls' = [tls EXCEPT ![t] = x.tl]
    /\ card' = [card EXCEPT ![slot[sessions[h].slot].card] = x.card]
    /\ UNCHANGED <<initialized, slot, inserted>>

\* Faulty variant: a refused PIN is not an early return.
AcceptedUnlessError(rv) == rv \in {"Ok", "Incorrect"}

\* C_Login returns early on every other result.
Accepted(rv) == rv = "Ok"

Login(t, h, p, f, direct) ==
    /\ sessions[h].inUse /\ ~sessions[h].loggedIn
    /\ LET x == VerifyPin(tls[t], slot[sessions[h].slot], p, f, direct)
       IN /\ Exchange(t, h, x)
          /\ sessions' = IF Accepted(x.rv) THEN [sessions EXCEPT ![h].loggedIn = TRUE]
                                           ELSE sessions

\* C_Logout sends nothing to the card and leaves the session's operations.
Logout(t, h) ==
    /\ sessions[h].inUse /\ sessions[h].loggedIn
    /\ sessions' = [sessions EXCEPT ![h].loggedIn = FALSE]
    /\ tls' = [tls EXCEPT ![t] = ClearAuthState(@)]
    /\ UNCHANGED <<initialized, slot, inserted, card>>

SignInit(h) ==
    /\ "sign" \in Operations
    /\ sessions[h].inUse /\ sessions[h].loggedIn
    /\ sessions' = [sessions EXCEPT ![h].signActive = TRUE]
    /\ UNCHANGED <<initialized, slot, tls, inserted, card>>

\* C_Sign or C_SignFinal with a result buffer: whatever the card answers, the
\* operation is over.
Sign(t, h, f, direct) ==
    /\ sessions[h].inUse /\ sessions[h].signActive
    /\ Exchange(t, h, RsaPrivate(tls[t], slot[sessions[h].slot], f, direct))
    /\ sessions' = [sessions EXCEPT ![h].signActive = FALSE]

\* It is over as well when the call fails before it reaches the card: a small
\* buffer, a wrong input length, a hash that cannot be wrapped.
SignFails(h) ==
    /\ sessions[h].inUse /\ sessions[h].signActive
    /\ sessions' = [sessions EXCEPT ![h].signActive = FALSE]
    /\ UNCHANGED <<initialized, slot, tls, inserted, card>>

\* C_EncryptInit runs ensure_card on the slot of an open session.
EncryptInit(t, h) ==
    /\ sessions[h].inUse
    /\ \E e \in EnsureCard(tls[t], sessions[h].slot) : Touch(t, sessions[h].slot, e)
    /\ UNCHANGED sessions

DecryptInit(h) ==
    /\ "decrypt" \in Operations
    /\ sessions[h].inUse /\ sessions[h].loggedIn
    /\ sessions' = [sessions EXCEPT ![h].decryptActive = TRUE, ![h].decryptPlain = FALSE]
    /\ UNCHANGED <<initialized, slot, tls, inserted, card>>

DecryptEnds(h) ==
    [sessions EXCEPT ![h].decryptActive = FALSE, ![h].decryptPlain = FALSE]

\* C_Decrypt or C_DecryptFinal with a result buffer and nothing cached: a
\* plaintext that does not fit is kept and the operation stays active.
Decrypt(t, h, f, direct, fits) ==
    /\ sessions[h].inUse /\ sessions[h].decryptActive /\ ~sessions[h].decryptPlain
    /\ LET x == RsaPrivate(tls[t], slot[sessions[h].slot], f, direct)
       IN /\ Exchange(t, h, x)
          /\ sessions' = IF x.rv = "Ok" /\ ~fits
                         THEN [sessions EXCEPT ![h].decryptPlain = TRUE]
                         ELSE DecryptEnds(h)

\* The retry that fetches the kept plaintext, and the call that fails before
\* it reaches the card: neither exchanges anything with it.
DecryptWithoutCard(h) ==
    /\ sessions[h].inUse /\ sessions[h].decryptActive
    /\ sessions' = DecryptEnds(h)
    /\ UNCHANGED <<initialized, slot, tls, inserted, card>>

-----------------------------------------------------------------------------
(* The world around the module. *)

InsertCard(r, c) ==
    /\ inserted[r] = NoCard
    /\ \A q \in Readers : inserted[q] # c
    /\ inserted' = [inserted EXCEPT ![r] = c]
    /\ UNCHANGED <<initialized, slot, sessions, tls, card>>

\* The PC/SC handle of the slot, if there is one, is invalid from now on; the
\* module notices nothing and Slot.present stays TRUE.
RemoveCard(r) ==
    /\ inserted[r] # NoCard
    /\ inserted' = [inserted EXCEPT ![r] = NoCard]
    /\ slot' = [slot EXCEPT ![r].live = FALSE]
    /\ card' = [card EXCEPT ![inserted[r]].verified = FALSE]
    /\ UNCHANGED <<initialized, sessions, tls>>

ChangePin(c, p) ==
    /\ PinChanges /\ p # card[c].pin
    /\ card' = [card EXCEPT ![c].pin = p, ![c].retries = MaxRetries]
    /\ UNCHANGED <<initialized, slot, sessions, tls, inserted>>

-----------------------------------------------------------------------------
SessionCall(t, h) ==
    \/ CloseSession(h) \/ Logout(t, h) \/ EncryptInit(t, h)
    \/ SignInit(h) \/ SignFails(h) \/ DecryptInit(h) \/ DecryptWithoutCard(h)
    \/ \E f \in Faults, direct \in BOOLEAN :
          \/ \E p \in Pins : Login(t, h, p, f, direct)
          \/ Sign(t, h, f, direct)
          \/ \E fits \in BOOLEAN : Decrypt(t, h, f, direct, fits)

SlotCall(t, r) == GetTokenInfo(t, r) \/ OpenSession(t, r) \/ CloseAllSessions(r)

Environment ==
    \/ \E r \in Readers : RemoveCard(r) \/ \E c \in Cards : InsertCard(r, c)
    \/ \E c \in Cards, p \in Pins : ChangePin(c, p)

Next ==
    \/ Initialize \/ Finalize \/ Environment
    \/ \E t \in Threads :
          \/ \E h \in Handles : SessionCall(t, h)
          \/ \E r \in Readers : SlotCall(t, r)

Spec == Init /\ [][Next]_vars

-----------------------------------------------------------------------------
(* Invariants. *)

\* The state of the module, its threads and the cards keeps its shape.
TypeOK ==
    /\ initialized \in BOOLEAN
    /\ slot \in [Readers -> SlotRecord]
    /\ sessions \in [Handles -> SessionRecord]
    /\ tls \in [Threads -> ThreadRecord]
    /\ inserted \in [Readers -> Cards \cup {NoCard}]
    /\ card \in [Cards -> CardRecord]

\* An open session lies on a slot that exists and has a bound token, whatever
\* order of C_Initialize, C_Finalize, C_OpenSession and C_Close* led there:
\* state.slots[sess.slot] in C_Login and the operations would otherwise panic
\* under GLOBAL and poison the mutex for every later call.
SessionsUsable ==
    \A h \in Handles : sessions[h].inUse =>
        /\ initialized
        /\ slot[sessions[h].slot].listed
        /\ slot[sessions[h].slot].card # NoCard
        /\ slot[sessions[h].slot].bound

\* A slot has a PC/SC handle exactly when its token is bound: no call leaves a
\* half-bound slot that answers as if the card had been read.
ConnectedIffBound ==
    \A r \in Readers : /\ slot[r].card # NoCard <=> slot[r].bound
                       /\ slot[r].bound => initialized /\ slot[r].listed

\* The cached PIN of a thread was accepted by the very card whose static keys
\* the thread caches, and an open channel is a channel to that card.  The two
\* cells are written at different places and never cleared together by
\* verify_pin; this is what keeps a cached PIN from reaching another card.
KeysFit(tl) ==
    /\ tl.pin # NoPin => tl.keys \in Gen2Cards /\ tl.pinOf = tl.keys
    /\ tl.scp # NoCard => tl.scp = tl.keys /\ tl.pin # NoPin

PinsFitKeys == \A t \in Threads : KeysFit(tls[t])

\* So it is in every thread, and the state keeps its shape.
CachedPinFitsKeys == TypeOK /\ PinsFitKeys

\* Without PIN changes behind the module's back, that PIN is still the card's.
PinIsRight(tl) ==
    tl.pin # NoPin => tl.keys \in Gen2Cards /\ tl.pin = card[tl.keys].pin

CachedPinIsRight == \A t \in Threads : PinIsRight(tls[t])

-----------------------------------------------------------------------------
(* What a step may never do. *)

\* A card loses a try only when C_Login presents a wrong PIN to it: no
\* re-VERIFY of a cached PIN, no call on another slot or thread costs a try.
TriesLostOnlyByLogin ==
    [][\A c \in Cards : card'[c].retries < card[c].retries =>
         \E t \in Threads, h \in Handles, p \in Pins, f \in Faults, direct \in BOOLEAN :
            /\ slot[sessions[h].slot].card = c
            /\ p # card[c].pin
            /\ Login(t, h, p, f, direct)]_vars

\* A session becomes logged in only at a call in which the card of its own
\* slot accepted the PIN: its counter is full again, and the Gen1 security
\* status or the caller's cached Gen2 PIN is there for the operations to come.
LoginNeedsItsCard ==
    [][\A h \in Handles : ~sessions[h].loggedIn /\ sessions'[h].loggedIn =>
         LET c == slot[sessions[h].slot].card
         IN /\ c \in Cards
            /\ card'[c].retries = MaxRetries
            /\ IF c \in Gen2Cards
               THEN \E t \in Threads : tls'[t].keys = c /\ tls'[t].pin = card[c].pin
               ELSE card'[c].verified]_vars

\* A cached PIN is the PIN the card of the cached keys had when it was cached,
\* and neither is exchanged alone: a PIN changed behind the module's back can
\* make the cached one stale, but never another card's.
PinFollowsKeys ==
    [][\A t \in Threads : tls'[t].pin # NoPin =>
         \/ tls'[t].pin = tls[t].pin /\ tls'[t].keys = tls[t].keys
         \/ /\ tls'[t].keys \in Gen2Cards
            /\ card'[tls'[t].keys].pin = tls'[t].pin]_vars

\* A plaintext the module keeps for a retry comes from a call in which the
\* card accepted a PIN again.  On a Gen2 card the module does that itself, at
\* every decryption: the calling thread held the PIN that this card, and no
\* other, had accepted before; it is still the card's although PINs change
\* behind the module; and the card has just seen it.  A Gen1 card asks for the
\* security status itself.
PlainOnlyAfterVerify ==
    [][\A h \in Handles : ~sessions[h].decryptPlain /\ sessions'[h].decryptPlain =>
         LET c == slot[sessions[h].slot].card
         IN c \in Gen2Cards =>
              \E t \in Threads, f \in Faults, direct \in BOOLEAN :
                 /\ Decrypt(t, h, f, direct, FALSE)
                 /\ tls[t].pinOf = c /\ tls[t].pin = card[c].pin
                 /\ card'[c].retries = MaxRetries]_vars

-----------------------------------------------------------------------------
(* The abstract promise about PINs. *)

Custody == INSTANCE PinCustody
    WITH None    <- NoCard,
         holder  <- [t \in Threads |-> IF tls[t].pin = NoPin THEN NoCard ELSE tls[t].pinOf],
         retries <- [c \in Cards |-> card[c].retries]

\* Seen through its caches and the cards' counters, the module only types,
\* presents and forgets PINs as PinCustody allows.
CustodyKept == Custody!Spec

-----------------------------------------------------------------------------
(* What comments of the code say and the code does not do. *)

\* apdu/mod.rs:164 "Clear card-profile auth caches (gen2 SCP/PIN) on logout."
LogoutClearsCaches ==
    [][\A t \in Threads, h \in Handles : Logout(t, h) => tls'[t].pin = NoPin]_vars

=============================================================================
