------------------------------ MODULE RustApi ------------------------------
(***************************************************************************)
(* The Rust API (api/mod.rs) beside the PKCS#11 core.  Its calls serialize *)
(* on CARD_LOCK, the core's on GLOBAL: a C_* call of another thread may    *)
(* come between any two steps of an API call, here between the reader it   *)
(* binds, the PIN it presents and the key it uses.  On its own thread the  *)
(* call shares profile and credentials with the C_* calls before and       *)
(* after it.                                                               *)
(*                                                                         *)
(* Every call opens a PC/SC handle of its own and drops it on return.      *)
(* PC/SC (external) resets a card whose handle is dropped, and after that  *)
(* refuses every other handle on it; the core never reconnects.            *)
(***************************************************************************)
EXTENDS Cryptoki

Calls == {"list_tokens", "list_certificates", "use"}   \* use: sign, decrypt

ASSUME ThreadsAssumption == Threads # {}

VARIABLE api   \* the call that holds CARD_LOCK

apiVars == <<vars, api>>

\* card and live describe the call's PC/SC handle, as slot does the core's.
ApiRecord ==
    [thread : Threads, stage : {"idle", "bind", "login", "operate"}, call : Calls,
     todo : SUBSET Readers, card : Cards \cup {NoCard}, live : BOOLEAN, pin : Pins \cup {NoPin}]

NoCall ==
    [thread |-> CHOOSE t \in Threads : TRUE, stage |-> "idle", call |-> "use",
     todo |-> {}, card |-> NoCard, live |-> FALSE, pin |-> NoPin]

\* The threads that are not inside an API call.
Free == {t \in Threads : api.stage = "idle" \/ api.thread # t}

Me == api.thread
Conn == [listed |-> TRUE, card |-> api.card, live |-> api.live, bound |-> TRUE]

-----------------------------------------------------------------------------
(* Handles that are dropped. *)

\* A handle that has lost its card may still reset the one that is there.
Resets(live) == IF live THEN {TRUE} ELSE BOOLEAN

\* What dropping a handle on c does to the slots and to the card.
SlotsAfterReset(c, reset) ==
    [r \in Readers |-> IF reset /\ slot[r].card = c THEN [slot[r] EXCEPT !.live = FALSE]
                                                    ELSE slot[r]]

CardsAfterReset(cards, c, reset) ==
    IF reset THEN [cards EXCEPT ![c].verified = FALSE] ELSE cards

\* The call returns: its handle goes with it.  cards and tl are what its last
\* exchange left.
Return(cards, tl) ==
    \E reset \in Resets(api.live) :
        /\ slot' = SlotsAfterReset(api.card, reset)
        /\ card' = CardsAfterReset(cards, api.card, reset)
        /\ tls' = [tls EXCEPT ![Me] = tl]
        /\ api' = NoCall
        /\ UNCHANGED <<initialized, sessions, inserted>>

-----------------------------------------------------------------------------
(* open_slot and list_tokens: the readers are tried one after the other. *)

ApiCall(t) ==
    /\ api.stage = "idle"
    /\ \E call \in Calls, p \in Pins \cup {NoPin},
          rs \in {Readers} \cup {{r} : r \in Readers} :
          /\ call = "list_tokens" => rs = Readers
          /\ call # "use" => p = NoPin
          /\ api' = [NoCall EXCEPT !.thread = t, !.stage = "bind", !.call = call,
                                   !.todo = rs, !.pin = p]
    /\ UNCHANGED vars

\* try_bind_reader before it connects.  After reset_cla the profile is Gen1,
\* so that clear_auth_state clears nothing.
TriedProfile(tl) == ClearAuthState(ResetCla(tl))

\* The loop goes on with the next reader, or the call returns.
NextReader(r) ==
    api' = IF api.todo = {r} THEN NoCall ELSE [api EXCEPT !.todo = @ \ {r}]

\* The reader is empty or PC/SC fails: the caches are as try_bind_reader left
\* them and the next reader is tried.
ApiConnectFails(r) ==
    /\ api.stage = "bind" /\ r \in api.todo
    /\ tls' = [tls EXCEPT ![Me] = TriedProfile(@)]
    /\ NextReader(r)
    /\ UNCHANGED <<initialized, slot, sessions, inserted, card>>

\* The handle is opened and dropped again: the card is not recognized, or it
\* is and the call was only asked to look at it.  list_certificates ends with
\* the first card it recognizes.
ApiLooks(r, recognized) ==
    /\ api.stage = "bind" /\ r \in api.todo /\ inserted[r] # NoCard
    /\ recognized => api.call # "use"
    /\ LET c == inserted[r]
           tl == TriedProfile(tls[Me])
       IN /\ tls' = [tls EXCEPT ![Me] = IF recognized THEN SetProfile(tl, Gen(c)) ELSE tl]
          /\ slot' = SlotsAfterReset(c, TRUE)
          /\ card' = CardsAfterReset(card, c, TRUE)
    /\ IF recognized /\ api.call = "list_certificates" THEN api' = NoCall
                                                        ELSE NextReader(r)
    /\ UNCHANGED <<initialized, sessions, inserted>>

\* Faulty variant: the profile is set back after the card was bound.
ApiBindsThenResets(r) ==
    /\ api.stage = "bind" /\ r \in api.todo /\ inserted[r] # NoCard
    /\ api.call = "use"
    /\ tls' = [tls EXCEPT ![Me] = TriedProfile(SetProfile(@, Gen(inserted[r])))]
    /\ api' = [api EXCEPT !.stage = "login", !.todo = {}, !.card = inserted[r], !.live = TRUE]
    /\ UNCHANGED <<initialized, slot, sessions, inserted, card>>

\* sign and decrypt go on with the first card that binds.
ApiBinds(r) ==
    /\ api.stage = "bind" /\ r \in api.todo /\ inserted[r] # NoCard
    /\ api.call = "use"
    /\ tls' = [tls EXCEPT ![Me] = SetProfile(TriedProfile(@), Gen(inserted[r]))]
    /\ api' = [api EXCEPT !.stage = "login", !.todo = {}, !.card = inserted[r], !.live = TRUE]
    /\ UNCHANGED <<initialized, slot, sessions, inserted, card>>

-----------------------------------------------------------------------------
(* sign and decrypt. *)

\* login: an empty PIN is refused before it reaches the card.
ApiLogin(f, direct) ==
    /\ api.stage = "login"
    /\ LET x == VerifyPin(tls[Me], Conn, api.pin, f, direct)
       IN CASE api.pin = NoPin -> Return(card, tls[Me])
            [] api.pin # NoPin /\ ~Accepted(x.rv) ->
                  Return([card EXCEPT ![api.card] = x.card], x.tl)
            [] OTHER ->
                  /\ tls' = [tls EXCEPT ![Me] = x.tl]
                  /\ card' = [card EXCEPT ![api.card] = x.card]
                  /\ api' = [api EXCEPT !.stage = "operate"]
                  /\ UNCHANGED <<initialized, slot, sessions, inserted>>

\* The key is not on the card, or the data cannot be wrapped: `?` returns
\* and the credentials stay in the thread.
ApiNoKey ==
    /\ api.stage = "operate"
    /\ Return(card, tls[Me])

\* Faulty variant: the caches are cleared by the profile of a fresh thread.
ClearedByDefaultProfile(tl) == ClearAuthState(ResetCla(tl))

\* clear_auth_state at the end of a call that succeeds.
Cleared(tl) == ClearAuthState(tl)

\* The private operation; done says that whatever follows it (unpadding, the
\* certificate asked for) succeeded too.  Only then are the caches cleared.
ApiOperate(f, direct, done) ==
    /\ api.stage = "operate"
    /\ LET x == RsaPrivate(tls[Me], Conn, f, direct)
       IN /\ done => x.rv = "Ok"
          /\ Return([card EXCEPT ![api.card] = x.card],
                    IF done THEN Cleared(x.tl) ELSE x.tl)

ApiStep ==
    \/ ApiNoKey
    \/ \E r \in Readers : \/ ApiConnectFails(r) \/ ApiBinds(r)
                          \/ \E recognized \in BOOLEAN : ApiLooks(r, recognized)
    \/ \E f \in Faults, direct \in BOOLEAN :
          \/ ApiLogin(f, direct)
          \/ \E done \in BOOLEAN : ApiOperate(f, direct, done)

-----------------------------------------------------------------------------
(* The core, with what its handles do to the API call's. *)

\* A C_* call on a thread that is not inside an API call.  C_Finalize drops
\* the slots' handles, which the API call's may not survive.
CoreStep ==
    /\ \E t \in Free :
          \/ Initialize \/ Finalize
          \/ \E h \in Handles : SessionCall(t, h)
          \/ \E r \in Readers : SlotCall(t, r)
    /\ LET dropped == {r \in Readers : slot[r].card = api.card /\ slot'[r].card = NoCard}
       IN \E reset \in IF dropped = {} THEN {FALSE} ELSE Resets(\E r \in dropped : slot[r].live) :
             api' = [api EXCEPT !.live = @ /\ ~reset]

\* The failing bind of ensure_card once more, with what it does to others: the
\* handle it has just opened is dropped again.
CoreBindFails(t, r) ==
    /\ initialized /\ slot[r].listed
    /\ slot[r].card = NoCard /\ inserted[r] # NoCard
    /\ tls' = [tls EXCEPT ![t] = ResetCla(@)]
    /\ card' = CardsAfterReset(card, inserted[r], TRUE)
    /\ api' = [api EXCEPT !.live = @ /\ api.card # inserted[r]]
    /\ UNCHANGED <<initialized, slot, sessions, inserted>>

WorldStep ==
    /\ Environment
    /\ api' = [api EXCEPT !.live = @ /\ \E r \in Readers : inserted'[r] = api.card]

ApiInit == Init /\ api = NoCall

ApiNext ==
    \/ CoreStep \/ WorldStep \/ ApiStep
    \/ \E t \in Free : ApiCall(t) \/ \E r \in Readers : CoreBindFails(t, r)

ApiSpec == ApiInit /\ [][ApiNext]_apiVars

-----------------------------------------------------------------------------
(* Properties. *)

\* The call that holds CARD_LOCK has the shape ApiRecord, and everything else
\* keeps the core's.
ApiTypeOK == TypeOK /\ api \in ApiRecord

\* The state keeps its shape.  When sign or decrypt gets to its private
\* operation, the PIN it was given is the card's; on a Gen2 card it is the one
\* cached in this thread, beside the keys of this card, whatever earlier calls
\* left there and whatever other threads did since the PIN was verified.
OperationUsesTheTypedPin ==
    /\ ApiTypeOK
    /\ api.stage = "operate" =>
          /\ api.pin = card[api.card].pin
          /\ api.card \in Gen2Cards =>
                /\ tls[Me].profile = "Gen2"
                /\ tls[Me].pin = api.pin
                /\ tls[Me].keys = api.card

\* An API login with the right PIN on a card that has not been reset is
\* accepted, whichever cards and generations this thread used before and
\* whatever other threads do -- except that the static keys of another card,
\* left by a call that failed, are never replaced (gen2.rs, diverse_static_keys).
RightPinIsAccepted ==
    [][\A direct \in BOOLEAN :
        /\ ApiLogin("none", direct)
        /\ api.live /\ card[api.card].retries > 0 /\ api.pin = card[api.card].pin
        /\ tls[Me].keys \in {NoCard, api.card}
        => api'.stage = "operate"]_apiVars

\* A call that succeeds on a Gen2 card leaves neither PIN nor keys in its
\* thread: the profile that decides what clear_auth_state clears is still the
\* one of the card the call bound.
SuccessLeavesNoPin ==
    [][\A f \in Faults, direct \in BOOLEAN :
        ApiOperate(f, direct, TRUE) /\ api.card \in Gen2Cards =>
            tls'[Me].pin = NoPin /\ tls'[Me].keys = NoCard /\ tls'[Me].scp = NoCard]_apiVars

\* A card loses a try only when somebody typed a wrong PIN for it, into C_Login
\* or into the API: no re-VERIFY of a PIN some earlier call left does that.
TriesLostOnlyToTypedPins ==
    [][\A c \in Cards : card'[c].retries < card[c].retries =>
        \E p \in Pins \ {card[c].pin}, f \in Faults, direct \in BOOLEAN :
            \/ api.card = c /\ api.pin = p /\ ApiLogin(f, direct)
            \/ \E t \in Free, h \in Handles :
                  slot[sessions[h].slot].card = c /\ Login(t, h, p, f, direct)]_apiVars

\* Thread t could sign in session h now.
CanSign(t, h) ==
    LET s == slot[sessions[h].slot]
    IN /\ sessions[h].inUse /\ sessions[h].loggedIn /\ s.live
       /\ \A direct \in BOOLEAN : RsaPrivate(tls[t], s, "none", direct).rv = "Ok"

\* What takes signing in session h away from thread t: a wrong PIN for the
\* card, another session of the same thread that logs in or out, the same
\* thread connecting to another reader or being inside an API call; and, in a
\* thread that has bound no card itself, a private operation on another slot,
\* whose card then decides the profile.
SigningDisturbed(t, h) ==
    LET r == sessions[h].slot
    IN \/ card'[slot[r].card].retries < card[slot[r].card].retries
       \/ \E g \in Handles \ {h}, p \in Pins, f \in Faults, direct \in BOOLEAN :
             Logout(t, g) \/ Login(t, g, p, f, direct)
       \/ \E q \in Readers \ {r} : /\ slot[q].card = NoCard
                                   /\ GetTokenInfo(t, q) \/ OpenSession(t, q) \/ CoreBindFails(t, q)
       \/ /\ ~tls[t].claLocked
          /\ \E g \in Handles, f \in Faults, direct \in BOOLEAN :
                /\ sessions[g].slot # r
                /\ Sign(t, g, f, direct) \/ \E fits \in BOOLEAN : Decrypt(t, g, f, direct, fits)
       \/ api.stage # "idle" /\ t = Me

\* A thread that logs a session in can sign in it, whichever generation it was
\* dealing with before; and as long as the session stays open, logged in and on
\* a good handle, nothing else takes that from it: no exchange that breaks off,
\* no failed or abandoned operation, no call of another thread.
SigningSurvives ==
    [][\A t \in Threads, h \in Handles :
        LET stays == /\ sessions'[h].inUse /\ sessions'[h].loggedIn
                     /\ slot'[sessions[h].slot].live
            logsIn == \E p \in Pins, f \in Faults, direct \in BOOLEAN :
                         Login(t, h, p, f, direct)
        IN /\ CanSign(t, h) /\ stays => CanSign(t, h)' \/ SigningDisturbed(t, h)
           /\ ~sessions[h].loggedIn /\ stays /\ logsIn => CanSign(t, h)']_apiVars

=============================================================================
