--------------------------- MODULE CryptokiProofs ---------------------------
(***************************************************************************)
(* Proofs about Cryptoki, and about RustApi and KeyUse, for any number of  *)
(* threads, readers, cards, sessions and PINs.  The lemmas about VerifyPin, *)
(* RsaPrivate and EnsureCard describe one call of the APDU layer; the      *)
(* invariance proofs use them and never look inside.                       *)
(***************************************************************************)
EXTENDS KeyUse, TLAPS

-----------------------------------------------------------------------------
(* What one exchange and one ensure_card leave behind. *)

\* The fields of a card's record stay in range when it judges a PIN, and its
\* PIN does not change.
LEMMA VerifyExchangeType ==
    ASSUME NEW k \in CardRecord, NEW p, NEW f
    PROVE  /\ VerifyExchange(k, p, f).card \in CardRecord
           /\ VerifyExchange(k, p, f).card.pin = k.pin
<1>1. CardVerify(k, p).card \in CardRecord /\ CardVerify(k, p).card.pin = k.pin
  <2>1. CASE k.retries = 0
    BY <2>1 DEF CardVerify
  <2>2. CASE k.retries # 0
    <3>1. /\ [k EXCEPT !.retries = MaxRetries, !.verified = TRUE] \in CardRecord
          /\ [k EXCEPT !.retries = MaxRetries, !.verified = TRUE].pin = k.pin
      <4>1. MaxRetries \in 0 .. MaxRetries
        BY RetriesAssumption
      <4> QED BY <4>1 DEF CardRecord
    <3>2. /\ [k EXCEPT !.retries = @ - 1, !.verified = FALSE] \in CardRecord
          /\ [k EXCEPT !.retries = @ - 1, !.verified = FALSE].pin = k.pin
      <4>1. k.retries - 1 \in 0 .. MaxRetries
        BY <2>2, RetriesAssumption DEF CardRecord
      <4> QED BY <4>1 DEF CardRecord
    <3>3. CardVerify(k, p).card \in
             {[k EXCEPT !.retries = MaxRetries, !.verified = TRUE],
              [k EXCEPT !.retries = @ - 1, !.verified = FALSE]}
      BY <2>2 DEF CardVerify
    <3> QED BY <3>1, <3>2, <3>3
  <2> QED BY <2>1, <2>2
<1>2. [CardVerify(k, p) EXCEPT !.rv = "Error"].card = CardVerify(k, p).card
  BY DEF CardVerify
<1> QED BY <1>1, <1>2 DEF VerifyExchange

\* verify_pin leaves well-formed thread-local state and card.
LEMMA VerifyPinType ==
    ASSUME TypeOK, NEW tl \in ThreadRecord, NEW s \in SlotRecord,
           NEW p \in Pins, NEW f, NEW direct
    PROVE  /\ VerifyPin(tl, s, p, f, direct).tl \in ThreadRecord
           /\ s.card \in Cards =>
                 /\ VerifyPin(tl, s, p, f, direct).card \in CardRecord
                 /\ VerifyPin(tl, s, p, f, direct).card.pin = card[s.card].pin
<1>1. \A k \in CardRecord : /\ VerifyExchange(k, p, f).card \in CardRecord
                            /\ VerifyExchange(k, p, f).card.pin = k.pin
  BY VerifyExchangeType
<1>2. s.card \in Cards => card[s.card] \in CardRecord
  BY DEF TypeOK
<1>3. SelectKeyEf(tl, s, direct) \in ThreadRecord
  BY DEF SelectKeyEf, SetProfile, ThreadRecord, Gen
<1>4. DiverseKeys([tl EXCEPT !.scp = NoCard, !.pin = NoPin, !.pinOf = NoCard], s, f) \in ThreadRecord
  BY DEF DiverseKeys, ThreadRecord, SlotRecord
<1>5. s.card \in Cards \cup {NoCard}
  BY DEF SlotRecord
<1>6. CASE tl.profile = "Gen1"
  BY <1>1, <1>2, <1>3, <1>6 DEF VerifyPin, Gen1VerifyPin
<1>7. CASE tl.profile # "Gen1"
  <2> DEFINE tl1 == DiverseKeys([tl EXCEPT !.scp = NoCard, !.pin = NoPin, !.pinOf = NoCard], s, f)
  <2>1. [tl1 EXCEPT !.scp = s.card, !.pin = p, !.pinOf = s.card] \in ThreadRecord
    BY <1>4, <1>5 DEF ThreadRecord
  <2>2. VerifyPin(tl, s, p, f, direct).tl \in {tl1, [tl1 EXCEPT !.scp = s.card, !.pin = p, !.pinOf = s.card]}
    BY <1>7 DEF VerifyPin, Gen2VerifyPin
  <2>3. VerifyPin(tl, s, p, f, direct).card \in
           {card[s.card], VerifyExchange(card[s.card], p, f).card}
    BY <1>7 DEF VerifyPin, Gen2VerifyPin
  <2> QED BY <2>1, <2>2, <2>3, <1>1, <1>2, <1>4
<1> QED BY <1>6, <1>7

\* So does a private-key operation.
LEMMA RsaPrivateType ==
    ASSUME TypeOK, NEW tl \in ThreadRecord, NEW s \in SlotRecord, NEW f, NEW direct
    PROVE  /\ RsaPrivate(tl, s, f, direct).tl \in ThreadRecord
           /\ s.card \in Cards =>
                 /\ RsaPrivate(tl, s, f, direct).card \in CardRecord
                 /\ RsaPrivate(tl, s, f, direct).card.pin = card[s.card].pin
<1>1. \A k \in CardRecord : /\ VerifyExchange(k, tl.pin, f).card \in CardRecord
                            /\ VerifyExchange(k, tl.pin, f).card.pin = k.pin
  BY VerifyExchangeType
<1>2. s.card \in Cards => card[s.card] \in CardRecord
  BY DEF TypeOK
<1>3. SelectKeyEf(tl, s, direct) \in ThreadRecord
  BY DEF SelectKeyEf, SetProfile, ThreadRecord, Gen
<1>4. DiverseKeys(tl, s, f) \in ThreadRecord
  BY DEF DiverseKeys, ThreadRecord, SlotRecord
<1>5. s.card \in Cards \cup {NoCard}
  BY DEF SlotRecord
<1>6. CASE tl.profile = "Gen1"
  BY <1>2, <1>3, <1>6 DEF RsaPrivate, Gen1RsaPrivate
<1>7. CASE tl.profile # "Gen1"
  <2> DEFINE x   == PrepareForPrivateOp(tl, s, f)
             tl1 == DiverseKeys(tl, s, f)
  <2>1. /\ x.tl \in {tl, [tl1 EXCEPT !.scp = NoCard], [tl1 EXCEPT !.scp = s.card]}
        /\ x.card \in {card[s.card], VerifyExchange(card[s.card], tl.pin, f).card}
    BY DEF PrepareForPrivateOp
  <2>2. /\ RsaPrivate(tl, s, f, direct).tl = x.tl
        /\ RsaPrivate(tl, s, f, direct).card = x.card
    <3>1. /\ [x EXCEPT !.rv = "Error"].tl = x.tl
          /\ [x EXCEPT !.rv = "Error"].card = x.card
      BY DEF PrepareForPrivateOp
    <3> QED BY <1>7, <3>1 DEF RsaPrivate, Gen2RsaPrivate
  <2>3. [tl1 EXCEPT !.scp = NoCard] \in ThreadRecord /\ [tl1 EXCEPT !.scp = s.card] \in ThreadRecord
    BY <1>4, <1>5 DEF ThreadRecord
  <2> QED BY <2>1, <2>2, <2>3, <1>1, <1>2
<1> QED BY <1>6, <1>7

\* ensure_card leaves a well-formed slot and thread-local state.
LEMMA EnsureCardType ==
    ASSUME TypeOK, NEW tl \in ThreadRecord, NEW r \in Readers, NEW e \in EnsureCard(tl, r)
    PROVE  e.tl \in ThreadRecord /\ e.slot \in SlotRecord
<1>1. ResetCla(tl) \in ThreadRecord
  BY DEF ResetCla, ThreadRecord
<1>2. slot[r] \in SlotRecord /\ inserted[r] \in Cards \cup {NoCard}
  BY DEF TypeOK
<1>3. \A u \in ThreadRecord, s \in SlotRecord : \A x \in Bind(u, s) :
          x.tl \in ThreadRecord /\ x.slot \in SlotRecord
  <2> SUFFICES ASSUME NEW u \in ThreadRecord, NEW s \in SlotRecord, NEW x \in Bind(u, s)
               PROVE  x.tl \in ThreadRecord /\ x.slot \in SlotRecord
    OBVIOUS
  <2> DEFINE failed == [ok |-> FALSE, tl |-> u,
                        slot |-> [s EXCEPT !.card = NoCard, !.live = FALSE, !.bound = FALSE]]
             done   == [ok |-> TRUE, tl |-> SetProfile(u, Gen(s.card)),
                        slot |-> [s EXCEPT !.bound = TRUE]]
  <2>1. Bind(u, s) = {failed} \cup (IF s.live THEN {done} ELSE {})
    BY DEF Bind
  <2>2. x = failed \/ x = done
    BY <2>1
  <2>3. SetProfile(u, Gen(s.card)) \in ThreadRecord
    BY DEF SetProfile, Gen, ThreadRecord
  <2>4. /\ [s EXCEPT !.card = NoCard, !.live = FALSE, !.bound = FALSE] \in SlotRecord
        /\ [s EXCEPT !.bound = TRUE] \in SlotRecord
    BY DEF SlotRecord
  <2>5. CASE x = failed
    BY <2>4, <2>5
  <2>6. CASE x = done
    BY <2>3, <2>4, <2>6
  <2> QED BY <2>2, <2>5, <2>6
<1>4. [slot[r] EXCEPT !.card = inserted[r], !.live = TRUE] \in SlotRecord
  BY <1>2 DEF SlotRecord
<1>5. CASE slot[r].card # NoCard
  BY <1>2, <1>3, <1>5 DEF EnsureCard
<1>6. CASE slot[r].card = NoCard
  <2> DEFINE opened == [slot[r] EXCEPT !.card = inserted[r], !.live = TRUE]
  <2>1. \/ e = [ok |-> FALSE, tl |-> ResetCla(tl), slot |-> slot[r]]
        \/ e \in Bind(ResetCla(tl), opened)
    BY <1>6 DEF EnsureCard
  <2>2. CASE e = [ok |-> FALSE, tl |-> ResetCla(tl), slot |-> slot[r]]
    BY <1>1, <1>2, <2>2
  <2>3. CASE e \in Bind(ResetCla(tl), opened)
    BY <1>1, <1>3, <1>4, <2>3
  <2> QED BY <2>1, <2>2, <2>3
<1> QED BY <1>5, <1>6
-----------------------------------------------------------------------------
(* Type correctness. *)

\* A step that exchanges APDUs through an open session keeps the types.
LEMMA ExchangeType ==
    ASSUME TypeOK, NEW t \in Threads, NEW h \in Handles, NEW x, Exchange(t, h, x),
           x.tl \in ThreadRecord,
           slot[sessions[h].slot].card \in Cards => x.card \in CardRecord,
           sessions' \in [Handles -> SessionRecord]
    PROVE  TypeOK'
<1>1. tls' \in [Threads -> ThreadRecord]
  BY DEF TypeOK, Exchange
<1>2. card' \in [Cards -> CardRecord]
  BY DEF TypeOK, Exchange
<1> QED BY <1>1, <1>2 DEF TypeOK, Exchange

\* So does a step that runs ensure_card.
LEMMA TouchType ==
    ASSUME TypeOK, NEW t \in Threads, NEW r \in Readers, NEW e \in EnsureCard(tls[t], r),
           Touch(t, r, e), sessions' \in [Handles -> SessionRecord]
    PROVE  TypeOK'
<1>1. tls[t] \in ThreadRecord
  BY DEF TypeOK
<1>2. e.tl \in ThreadRecord /\ e.slot \in SlotRecord
  BY <1>1, EnsureCardType
<1> QED BY <1>2 DEF TypeOK, Touch

\* Every call and every event of the environment keeps the types.
LEMMA TypeStep == TypeOK /\ [Next]_vars => TypeOK'
<1> SUFFICES ASSUME TypeOK, [Next]_vars PROVE TypeOK'
  OBVIOUS
<1> USE DEF TypeOK
<1>s. \A h \in Handles : /\ sessions[h] \in SessionRecord
                         /\ sessions[h].slot \in Readers
                         /\ slot[sessions[h].slot] \in SlotRecord
  BY DEF SessionRecord
<1>c. \A closing : CloseEach(closing) \in [Handles -> SessionRecord]
  BY <1>s DEF CloseEach, SessionRecord
<1>d. \A h \in Handles : DecryptEnds(h) \in [Handles -> SessionRecord]
  BY <1>s, ZenonT(60) DEF DecryptEnds, SessionRecord
<1>1. CASE Initialize
  <2>1. PICK rs : slot' = [r \in Readers |-> [UnlistedSlot EXCEPT !.listed = r \in rs]]
    BY <1>1 DEF Initialize
  <2>2. \A b \in BOOLEAN : [UnlistedSlot EXCEPT !.listed = b] \in SlotRecord
    BY DEF UnlistedSlot, SlotRecord
  <2>3. \A r \in Readers : (r \in rs) \in BOOLEAN
    OBVIOUS
  <2>4. slot' \in [Readers -> SlotRecord]
    BY <2>1, <2>2, <2>3
  <2> QED BY <1>1, <2>4 DEF Initialize
<1>2. CASE Finalize
  <2>1. slot' \in [Readers -> SlotRecord]
    BY <1>2 DEF Finalize, UnlistedSlot, SlotRecord
  <2>2. card' \in [Cards -> CardRecord]
    <3>1. \A c \in Cards : [card[c] EXCEPT !.verified = FALSE] \in CardRecord
      BY DEF CardRecord
    <3> QED BY <1>2, <3>1 DEF Finalize
  <2> QED BY <1>2, <1>c, <2>1, <2>2 DEF Finalize
<1>3. ASSUME NEW t \in Threads, NEW r \in Readers, GetTokenInfo(t, r) PROVE TypeOK'
  BY <1>3, TouchType DEF GetTokenInfo
<1>4. ASSUME NEW t \in Threads, NEW r \in Readers, OpenSession(t, r) PROVE TypeOK'
  <2>1. PICK e \in EnsureCard(tls[t], r) :
           /\ Touch(t, r, e)
           /\ \/ UNCHANGED sessions
              \/ \E h \in Handles : sessions' = [sessions EXCEPT ![h] = NewSession(r)]
    BY <1>4 DEF OpenSession, FreeHandles
  <2>2. NewSession(r) \in SessionRecord
    BY DEF NewSession, SessionRecord
  <2>3. sessions' \in [Handles -> SessionRecord]
    BY <2>1, <2>2
  <2> QED BY <2>1, <2>3, TouchType
<1>5. ASSUME NEW h \in Handles, CloseSession(h) PROVE TypeOK'
  BY <1>5, <1>c DEF CloseSession
<1>6. ASSUME NEW r \in Readers, CloseAllSessions(r) PROVE TypeOK'
  BY <1>6, <1>c DEF CloseAllSessions
<1>7. ASSUME NEW t \in Threads, NEW h \in Handles, NEW p \in Pins, NEW f, NEW direct,
             Login(t, h, p, f, direct)
      PROVE  TypeOK'
  <2> DEFINE x == VerifyPin(tls[t], slot[sessions[h].slot], p, f, direct)
  <2>1. x.tl \in ThreadRecord /\ (slot[sessions[h].slot].card \in Cards => x.card \in CardRecord)
    BY <1>s, VerifyPinType
  <2>2. Exchange(t, h, x)
    BY <1>7 DEF Login
  <2>3. sessions' \in [Handles -> SessionRecord]
    <3>1. [sessions EXCEPT ![h].loggedIn = TRUE] \in [Handles -> SessionRecord]
      BY <1>s DEF SessionRecord
    <3> QED BY <1>7, <3>1 DEF Login
  <2> HIDE DEF x
  <2> QED BY <2>1, <2>2, <2>3, ExchangeType
<1>8. ASSUME NEW t \in Threads, NEW h \in Handles, Logout(t, h) PROVE TypeOK'
  <2>1. sessions' \in [Handles -> SessionRecord]
    BY <1>8, <1>s DEF Logout, SessionRecord
  <2>2. ClearAuthState(tls[t]) \in ThreadRecord
    BY DEF ClearAuthState, DropCredentials, ThreadRecord
  <2> QED BY <1>8, <2>1, <2>2 DEF Logout
<1>9. ASSUME NEW h \in Handles, SignInit(h) \/ SignFails(h) \/ DecryptInit(h) PROVE TypeOK'
  <2>1. /\ [sessions EXCEPT ![h].signActive = TRUE] \in [Handles -> SessionRecord]
        /\ [sessions EXCEPT ![h].signActive = FALSE] \in [Handles -> SessionRecord]
        /\ [sessions EXCEPT ![h].decryptActive = TRUE, ![h].decryptPlain = FALSE]
              \in [Handles -> SessionRecord]
    BY <1>s, ZenonT(60) DEF SessionRecord
  <2> QED BY <1>9, <2>1 DEF SignInit, SignFails, DecryptInit
<1>10. ASSUME NEW t \in Threads, NEW h \in Handles, NEW f, NEW direct, Sign(t, h, f, direct)
       PROVE  TypeOK'
  <2> DEFINE x == RsaPrivate(tls[t], slot[sessions[h].slot], f, direct)
  <2>1. x.tl \in ThreadRecord /\ (slot[sessions[h].slot].card \in Cards => x.card \in CardRecord)
    BY <1>s, RsaPrivateType
  <2>2. Exchange(t, h, x)
    BY <1>10 DEF Sign
  <2>3. sessions' \in [Handles -> SessionRecord]
    BY <1>10, <1>s DEF Sign, SessionRecord
  <2> HIDE DEF x
  <2> QED BY <2>1, <2>2, <2>3, ExchangeType
<1>11. ASSUME NEW t \in Threads, NEW h \in Handles, EncryptInit(t, h) PROVE TypeOK'
  BY <1>11, <1>s, TouchType DEF EncryptInit
<1>12. ASSUME NEW t \in Threads, NEW h \in Handles, NEW f, NEW direct, NEW fits,
              Decrypt(t, h, f, direct, fits)
       PROVE  TypeOK'
  <2> DEFINE x == RsaPrivate(tls[t], slot[sessions[h].slot], f, direct)
  <2>1. x.tl \in ThreadRecord /\ (slot[sessions[h].slot].card \in Cards => x.card \in CardRecord)
    BY <1>s, RsaPrivateType
  <2>2. Exchange(t, h, x)
    BY <1>12 DEF Decrypt
  <2>3. sessions' \in [Handles -> SessionRecord]
    <3>1. [sessions EXCEPT ![h].decryptPlain = TRUE] \in [Handles -> SessionRecord]
      BY <1>s DEF SessionRecord
    <3> QED BY <1>12, <1>d, <3>1 DEF Decrypt
  <2> HIDE DEF x
  <2> QED BY <2>1, <2>2, <2>3, ExchangeType
<1>13. ASSUME NEW h \in Handles, DecryptWithoutCard(h) PROVE TypeOK'
  BY <1>13, <1>d DEF DecryptWithoutCard
<1>14. CASE Environment
  <2>1. ASSUME NEW r \in Readers, RemoveCard(r) PROVE TypeOK'
    <3>1. slot' \in [Readers -> SlotRecord]
      BY <2>1 DEF RemoveCard, SlotRecord
    <3>2. card' \in [Cards -> CardRecord]
      BY <2>1 DEF RemoveCard, CardRecord
    <3> QED BY <2>1, <3>1, <3>2 DEF RemoveCard
  <2>2. ASSUME NEW r \in Readers, NEW c \in Cards, InsertCard(r, c) PROVE TypeOK'
    BY <2>2 DEF InsertCard
  <2>3. ASSUME NEW c \in Cards, NEW p \in Pins, ChangePin(c, p) PROVE TypeOK'
    <3>1. MaxRetries \in 0 .. MaxRetries
      BY RetriesAssumption
    <3>2. [card[c] EXCEPT !.pin = p, !.retries = MaxRetries] \in CardRecord
      BY <3>1 DEF CardRecord
    <3>3. card' = [card EXCEPT ![c] = [card[c] EXCEPT !.pin = p, !.retries = MaxRetries]]
      BY <2>3 DEF ChangePin
    <3> QED BY <2>3, <3>2, <3>3 DEF ChangePin
  <2> QED BY <1>14, <2>1, <2>2, <2>3 DEF Environment
<1>15. CASE UNCHANGED vars
  BY <1>15 DEF vars
<1> QED
  BY <1>1, <1>2, <1>3, <1>4, <1>5, <1>6, <1>7, <1>8, <1>9, <1>10, <1>11, <1>12, <1>13,
     <1>14, <1>15 DEF Next, SessionCall, SlotCall

LEMMA TypeInit == Init => TypeOK
<1> SUFFICES ASSUME Init PROVE TypeOK
  OBVIOUS
<1>1. FirstReader \in Readers
  BY ReadersAssumption DEF FirstReader
<1>2. [NewSession(FirstReader) EXCEPT !.inUse = FALSE] \in SessionRecord
  BY <1>1 DEF NewSession, SessionRecord
<1>3. sessions \in [Handles -> SessionRecord]
  BY <1>2 DEF Init
<1>4. UnlistedSlot \in SlotRecord /\ FreshThread \in ThreadRecord
  BY DEF UnlistedSlot, SlotRecord, FreshThread, ThreadRecord
<1> QED BY <1>3, <1>4 DEF Init, TypeOK

\* The state keeps its shape in every behaviour.
THEOREM TypeCorrect == Spec => []TypeOK
  BY TypeInit, TypeStep, PTL DEF Spec

-----------------------------------------------------------------------------
(* Slots and sessions. *)

\* ensure_card never unbinds a bound slot, and returns OK on a bound one only.
LEMMA EnsureCardSlot ==
    ASSUME TypeOK, ConnectedIffBound, NEW tl, NEW r \in Readers, NEW e \in EnsureCard(tl, r)
    PROVE  /\ e.slot.listed = slot[r].listed
           /\ e.slot.card # NoCard <=> e.slot.bound
           /\ slot[r].bound => e.slot = slot[r]
           /\ e.ok => e.slot.bound
<1>0. slot[r] \in SlotRecord /\ inserted[r] \in Cards \cup {NoCard}
  BY DEF TypeOK
<1>1. CASE slot[r].bound
  <2>1. e = [ok |-> TRUE, tl |-> tl, slot |-> slot[r]]
    BY <1>1 DEF EnsureCard, ConnectedIffBound
  <2> QED BY <1>1, <2>1 DEF ConnectedIffBound
<1>2. CASE ~slot[r].bound
  <2> DEFINE opened == [slot[r] EXCEPT !.card = inserted[r], !.live = TRUE]
             refused == [ok |-> FALSE, tl |-> ResetCla(tl), slot |-> slot[r]]
             failed  == [ok |-> FALSE, tl |-> ResetCla(tl),
                         slot |-> [opened EXCEPT !.card = NoCard, !.live = FALSE, !.bound = FALSE]]
             done    == [ok |-> TRUE, tl |-> SetProfile(ResetCla(tl), Gen(opened.card)),
                         slot |-> [opened EXCEPT !.bound = TRUE]]
  <2>1. slot[r].card = NoCard
    BY <1>2 DEF ConnectedIffBound
  <2>2. e = refused \/ (inserted[r] # NoCard /\ e \in Bind(ResetCla(tl), opened))
    <3>1. EnsureCard(tl, r) =
             {refused} \cup (IF inserted[r] = NoCard THEN {} ELSE Bind(ResetCla(tl), opened))
      BY <2>1 DEF EnsureCard
    <3> HIDE DEF refused, opened
    <3> QED BY <3>1
  <2>3. Bind(ResetCla(tl), opened) = {failed} \cup (IF opened.live THEN {done} ELSE {})
    BY DEF Bind
  <2>4. e = refused \/ e = failed \/ (inserted[r] # NoCard /\ e = done)
    BY <2>2, <2>3
  <2>5. CASE e = refused
    BY <1>2, <2>1, <2>5
  <2>6. CASE e = failed
    <3>1. /\ failed.slot.listed = slot[r].listed
          /\ failed.slot.card = NoCard
          /\ failed.slot.bound = FALSE
      BY <1>0 DEF SlotRecord
    <3> QED BY <1>2, <2>6, <3>1
  <2>7. CASE inserted[r] # NoCard /\ e = done
    <3>1. /\ done.slot.listed = slot[r].listed
          /\ done.slot.card = inserted[r]
          /\ done.slot.bound = TRUE
      BY <1>0 DEF SlotRecord
    <3> QED BY <1>2, <2>7, <3>1
  <2> QED BY <2>4, <2>5, <2>6, <2>7
<1> QED BY <1>1, <1>2

\* Slots that are bound and sessions that lie on them.
SlotsAndSessions == TypeOK /\ ConnectedIffBound /\ SessionsUsable

\* A step that leaves slots alone and opens no session keeps both.
LEMMA NoOpening ==
    ASSUME SlotsAndSessions, UNCHANGED <<initialized, slot>>,
           \A h \in Handles : sessions'[h].inUse =>
              sessions[h].inUse /\ sessions'[h].slot = sessions[h].slot
    PROVE  ConnectedIffBound' /\ SessionsUsable'
  BY DEF SlotsAndSessions, ConnectedIffBound, SessionsUsable

\* Running ensure_card keeps every slot consistent and every bound one bound.
LEMMA TouchSlots ==
    ASSUME SlotsAndSessions, initialized, NEW t \in Threads, NEW r \in Readers, slot[r].listed,
           NEW e \in EnsureCard(tls[t], r), Touch(t, r, e)
    PROVE  /\ ConnectedIffBound'
           /\ \A q \in Readers : slot[q].bound => slot'[q] = slot[q]
           /\ e.ok => slot'[r].bound
           /\ slot'[r].listed /\ initialized'
<1>1. slot' = [slot EXCEPT ![r] = e.slot] /\ initialized' = initialized
  BY DEF Touch
<1>2. /\ e.slot.listed = slot[r].listed
      /\ e.slot.card # NoCard <=> e.slot.bound
      /\ slot[r].bound => e.slot = slot[r]
      /\ e.ok => e.slot.bound
  BY EnsureCardSlot DEF SlotsAndSessions
<1>3. slot \in [Readers -> SlotRecord]
  BY DEF SlotsAndSessions, TypeOK
<1> QED BY <1>1, <1>2, <1>3 DEF SlotsAndSessions, ConnectedIffBound

\* Every step keeps slots and sessions in order.
LEMMA SlotStep == SlotsAndSessions /\ [Next]_vars => SlotsAndSessions'
<1> SUFFICES ASSUME SlotsAndSessions, [Next]_vars
             PROVE  ConnectedIffBound' /\ SessionsUsable'
  BY TypeStep DEF SlotsAndSessions
<1>t. /\ sessions \in [Handles -> SessionRecord]
      /\ \A h \in Handles : sessions[h].slot \in Readers
      /\ slot \in [Readers -> SlotRecord]
  BY DEF SlotsAndSessions, TypeOK, SessionRecord
<1> USE DEF SessionRecord
<1>1. CASE Initialize
  <2>1. \A h \in Handles : ~sessions[h].inUse
    BY <1>1 DEF Initialize, SlotsAndSessions, SessionsUsable
  <2>2. ConnectedIffBound'
    BY <1>1 DEF Initialize, ConnectedIffBound, UnlistedSlot
  <2> QED BY <1>1, <2>1, <2>2 DEF Initialize, SessionsUsable
<1>2. CASE Finalize
  <2>1. \A h \in Handles : ~sessions'[h].inUse
    BY <1>2, <1>t DEF Finalize, CloseEach
  <2>2. ConnectedIffBound'
    BY <1>2 DEF Finalize, ConnectedIffBound, UnlistedSlot
  <2> QED BY <2>1, <2>2 DEF SessionsUsable
<1>3. ASSUME NEW t \in Threads, NEW r \in Readers, GetTokenInfo(t, r)
      PROVE  ConnectedIffBound' /\ SessionsUsable'
  <2>1. PICK e \in EnsureCard(tls[t], r) : Touch(t, r, e)
    BY <1>3 DEF GetTokenInfo
  <2>2. /\ ConnectedIffBound' /\ initialized'
        /\ \A q \in Readers : slot[q].bound => slot'[q] = slot[q]
    BY <1>3, <2>1, TouchSlots DEF GetTokenInfo
  <2> QED BY <1>3, <1>t, <2>2 DEF GetTokenInfo, SlotsAndSessions, SessionsUsable
<1>4. ASSUME NEW t \in Threads, NEW r \in Readers, OpenSession(t, r)
      PROVE  ConnectedIffBound' /\ SessionsUsable'
  <2>1. PICK e \in EnsureCard(tls[t], r) :
           /\ Touch(t, r, e)
           /\ IF e.ok /\ FreeHandles # {}
              THEN \E h \in FreeHandles :
                     /\ \A g \in FreeHandles : h <= g
                     /\ sessions' = [sessions EXCEPT ![h] = NewSession(r)]
              ELSE UNCHANGED sessions
    BY <1>4 DEF OpenSession
  <2>2. /\ ConnectedIffBound' /\ initialized' /\ slot'[r].listed
        /\ \A q \in Readers : slot[q].bound => slot'[q] = slot[q]
        /\ e.ok => slot'[r].bound
    BY <1>4, <2>1, TouchSlots DEF OpenSession
  <2>3. CASE UNCHANGED sessions
    BY <1>t, <2>2, <2>3 DEF SlotsAndSessions, SessionsUsable
  <2>4. ASSUME e.ok, NEW h \in Handles, sessions' = [sessions EXCEPT ![h] = NewSession(r)]
        PROVE  SessionsUsable'
    <3>1. slot'[r].bound /\ slot'[r].card # NoCard
      BY <2>2, <2>4 DEF ConnectedIffBound
    <3>2. sessions'[h].slot = r /\ \A g \in Handles \ {h} : sessions'[g] = sessions[g]
      BY <1>t, <2>4 DEF NewSession
    <3> QED BY <1>t, <2>2, <3>1, <3>2 DEF SlotsAndSessions, SessionsUsable
  <2> QED BY <2>1, <2>2, <2>3, <2>4 DEF FreeHandles
<1>5. ASSUME NEW h \in Handles, CloseSession(h) PROVE ConnectedIffBound' /\ SessionsUsable'
  BY <1>5, <1>t, NoOpening DEF CloseSession, CloseEach
<1>6. ASSUME NEW r \in Readers, CloseAllSessions(r) PROVE ConnectedIffBound' /\ SessionsUsable'
  BY <1>6, <1>t, NoOpening DEF CloseAllSessions, CloseEach
<1>7. ASSUME NEW t \in Threads, NEW h \in Handles, NEW p \in Pins, NEW f, NEW direct,
             Login(t, h, p, f, direct)
      PROVE  ConnectedIffBound' /\ SessionsUsable'
  BY <1>7, <1>t, NoOpening DEF Login, Exchange
<1>8. ASSUME NEW t \in Threads, NEW h \in Handles, Logout(t, h)
      PROVE  ConnectedIffBound' /\ SessionsUsable'
  BY <1>8, <1>t, NoOpening DEF Logout
<1>9. ASSUME NEW h \in Handles, SignInit(h) \/ SignFails(h) \/ DecryptInit(h)
      PROVE  ConnectedIffBound' /\ SessionsUsable'
  BY <1>9, <1>t, NoOpening DEF SignInit, SignFails, DecryptInit
<1>10. ASSUME NEW t \in Threads, NEW h \in Handles, NEW f, NEW direct, Sign(t, h, f, direct)
       PROVE  ConnectedIffBound' /\ SessionsUsable'
  BY <1>10, <1>t, NoOpening DEF Sign, Exchange
<1>11. ASSUME NEW t \in Threads, NEW h \in Handles, EncryptInit(t, h)
       PROVE  ConnectedIffBound' /\ SessionsUsable'
  <2> DEFINE r == sessions[h].slot
  <2>1. PICK e \in EnsureCard(tls[t], r) : Touch(t, r, e)
    BY <1>11 DEF EncryptInit
  <2>2. initialized /\ slot[r].listed
    BY <1>11 DEF EncryptInit, SlotsAndSessions, SessionsUsable
  <2>3. /\ ConnectedIffBound' /\ initialized'
        /\ \A q \in Readers : slot[q].bound => slot'[q] = slot[q]
    BY <1>t, <2>1, <2>2, TouchSlots
  <2> QED BY <1>11, <1>t, <2>3 DEF EncryptInit, SlotsAndSessions, SessionsUsable
<1>12. ASSUME NEW t \in Threads, NEW h \in Handles, NEW f, NEW direct, NEW fits,
              Decrypt(t, h, f, direct, fits)
       PROVE  ConnectedIffBound' /\ SessionsUsable'
  BY <1>12, <1>t, NoOpening DEF Decrypt, Exchange, DecryptEnds
<1>13. ASSUME NEW h \in Handles, DecryptWithoutCard(h) PROVE ConnectedIffBound' /\ SessionsUsable'
  BY <1>13, <1>t, NoOpening DEF DecryptWithoutCard, DecryptEnds
<1>14. CASE Environment
  <2>1. ASSUME NEW r \in Readers, RemoveCard(r) PROVE ConnectedIffBound' /\ SessionsUsable'
    <3>1. \A q \in Readers : /\ slot'[q].card = slot[q].card
                             /\ slot'[q].bound = slot[q].bound
                             /\ slot'[q].listed = slot[q].listed
      BY <1>t, <2>1 DEF RemoveCard, SlotRecord
    <3> QED BY <1>t, <2>1, <3>1
            DEF RemoveCard, SlotsAndSessions, ConnectedIffBound, SessionsUsable
  <2>2. ASSUME NEW r \in Readers, NEW c \in Cards, InsertCard(r, c)
        PROVE  ConnectedIffBound' /\ SessionsUsable'
    BY <1>t, <2>2, NoOpening DEF InsertCard
  <2>3. ASSUME NEW c \in Cards, NEW p \in Pins, ChangePin(c, p)
        PROVE  ConnectedIffBound' /\ SessionsUsable'
    BY <1>t, <2>3, NoOpening DEF ChangePin
  <2> QED BY <1>14, <2>1, <2>2, <2>3 DEF Environment
<1>15. CASE UNCHANGED vars
  BY <1>15, <1>t, NoOpening DEF vars
<1> QED
  BY <1>1, <1>2, <1>3, <1>4, <1>5, <1>6, <1>7, <1>8, <1>9, <1>10, <1>11, <1>12, <1>13,
     <1>14, <1>15 DEF Next, SessionCall, SlotCall

LEMMA SlotInit == Init => SlotsAndSessions
<1>1. Init => TypeOK
  BY TypeInit
<1>2. Init => ConnectedIffBound
  BY DEF Init, ConnectedIffBound, UnlistedSlot
<1>3. Init => SessionsUsable
  BY DEF Init, SessionsUsable, NewSession
<1> QED BY <1>1, <1>2, <1>3 DEF SlotsAndSessions

\* No call can index a slot that is gone: every open session lies on a listed
\* slot with a bound token.
THEOREM SessionsStayUsable == Spec => []SessionsUsable
<1>1. SlotsAndSessions => SessionsUsable
  BY DEF SlotsAndSessions
<1> QED BY <1>1, SlotInit, SlotStep, PTL DEF Spec

\* No call leaves a slot connected but unbound, or bound but unconnected.
THEOREM SlotsStayConsistent == Spec => []ConnectedIffBound
<1>1. SlotsAndSessions => ConnectedIffBound
  BY DEF SlotsAndSessions
<1> QED BY <1>1, SlotInit, SlotStep, PTL DEF Spec

-----------------------------------------------------------------------------
(* Cached PINs. *)

\* A card that answers 9000 was shown its own PIN and grants all tries again;
\* one that is shown its own PIN takes no try away.
LEMMA VerifyExchangeJudges ==
    ASSUME NEW k \in CardRecord, NEW p, NEW f
    PROVE  LET v == VerifyExchange(k, p, f)
           IN /\ v.rv = "Ok" => p = k.pin /\ v.card.retries = MaxRetries /\ v.card.verified
              /\ p = k.pin => v.card.retries = k.retries \/ v.card.retries = MaxRetries
<1>1. CASE k.retries = 0
  BY <1>1 DEF VerifyExchange, CardVerify
<1>2. CASE k.retries # 0 /\ p = k.pin
  <2>1. CardVerify(k, p) =
           [rv |-> "Ok", card |-> [k EXCEPT !.retries = MaxRetries, !.verified = TRUE]]
    BY <1>2 DEF CardVerify
  <2>2. /\ [k EXCEPT !.retries = MaxRetries, !.verified = TRUE].retries = MaxRetries
        /\ [k EXCEPT !.retries = MaxRetries, !.verified = TRUE].verified
    BY DEF CardRecord
  <2> QED BY <1>2, <2>1, <2>2 DEF VerifyExchange
<1>3. CASE k.retries # 0 /\ p # k.pin
  <2>1. CardVerify(k, p).rv = "Incorrect"
    BY <1>3 DEF CardVerify
  <2>2. [CardVerify(k, p) EXCEPT !.rv = "Error"].rv = "Error"
    BY <1>3 DEF CardVerify
  <2> QED BY <1>3, <2>1, <2>2 DEF VerifyExchange
<1> QED BY <1>1, <1>2, <1>3

\* The credentials verify_pin leaves: those from before, or none, or the PIN
\* just accepted together with the keys of the card that accepted it.
LEMMA VerifyPinCredentials ==
    ASSUME TypeOK, NEW tl \in ThreadRecord, KeysFit(tl), NEW s \in SlotRecord,
           s.card \in Cards, NEW p \in Pins, NEW f, NEW direct
    PROVE  LET x == VerifyPin(tl, s, p, f, direct)
           IN /\ KeysFit(x.tl)
              /\ \/ x.tl.pin = NoPin
                 \/ x.tl.pin = tl.pin /\ x.tl.keys = tl.keys
                 \/ /\ x.tl.pin = p /\ x.tl.keys = s.card
                    /\ p = card[s.card].pin
<1>1. CASE tl.profile = "Gen1"
  <2>1. /\ SelectKeyEf(tl, s, direct).pin = tl.pin
        /\ SelectKeyEf(tl, s, direct).keys = tl.keys
        /\ SelectKeyEf(tl, s, direct).pinOf = tl.pinOf
        /\ SelectKeyEf(tl, s, direct).scp = tl.scp
    BY DEF SelectKeyEf, SetProfile, ThreadRecord
  <2>2. VerifyPin(tl, s, p, f, direct).tl = SelectKeyEf(tl, s, direct)
    BY <1>1 DEF VerifyPin, Gen1VerifyPin
  <2> QED BY <2>1, <2>2 DEF KeysFit
<1>2. CASE tl.profile # "Gen1"
  <2> DEFINE tl0 == [tl EXCEPT !.scp = NoCard, !.pin = NoPin, !.pinOf = NoCard]
             tl1 == DiverseKeys(tl0, s, f)
             v   == VerifyExchange(card[s.card], p, f)
  <2>1. tl1 \in ThreadRecord /\ tl1.pin = NoPin /\ tl1.scp = NoCard
    BY DEF DiverseKeys, ThreadRecord
  <2>2. \/ VerifyPin(tl, s, p, f, direct).tl = tl1
        \/ /\ ChannelOpens(tl1, s, f) /\ v.rv = "Ok"
           /\ VerifyPin(tl, s, p, f, direct).tl = [tl1 EXCEPT !.scp = s.card, !.pin = p, !.pinOf = s.card]
    BY <1>2 DEF VerifyPin, Gen2VerifyPin
  <2>3. CASE VerifyPin(tl, s, p, f, direct).tl = tl1
    BY <2>1, <2>3 DEF KeysFit
  <2>4. CASE /\ ChannelOpens(tl1, s, f) /\ v.rv = "Ok"
             /\ VerifyPin(tl, s, p, f, direct).tl = [tl1 EXCEPT !.scp = s.card, !.pin = p, !.pinOf = s.card]
    <3>1. tl1.keys = s.card /\ s.card \in Gen2Cards
      BY <2>4 DEF ChannelOpens, Gen
    <3>2. p = card[s.card].pin
      BY <2>4, VerifyExchangeJudges DEF TypeOK
    <3>3. p # NoPin
      BY CardsAssumption
    <3>4. /\ [tl1 EXCEPT !.scp = s.card, !.pin = p, !.pinOf = s.card].scp = s.card
          /\ [tl1 EXCEPT !.scp = s.card, !.pin = p, !.pinOf = s.card].pin = p
          /\ [tl1 EXCEPT !.scp = s.card, !.pin = p, !.pinOf = s.card].keys = tl1.keys
          /\ [tl1 EXCEPT !.scp = s.card, !.pin = p, !.pinOf = s.card].pinOf = s.card
      BY <2>1 DEF ThreadRecord
    <3> HIDE DEF tl1, v
    <3> QED BY <2>4, <3>1, <3>2, <3>3, <3>4 DEF KeysFit
  <2> QED BY <2>2, <2>3, <2>4
<1> QED BY <1>1, <1>2

\* A private-key operation leaves the cached PIN and its keys alone, and a
\* cached PIN that is right costs the card no try.
LEMMA RsaPrivateCredentials ==
    ASSUME TypeOK, NEW tl \in ThreadRecord, KeysFit(tl), NEW s \in SlotRecord,
           s.card \in Cards, NEW f, NEW direct
    PROVE  LET x == RsaPrivate(tl, s, f, direct)
           IN /\ KeysFit(x.tl)
              /\ x.tl.pin = tl.pin /\ x.tl.pinOf = tl.pinOf
              /\ tl.pin # NoPin => x.tl.keys = tl.keys
              /\ \/ x.card = card[s.card]
                 \/ /\ tl.pin # NoPin /\ tl.keys = s.card
                    /\ x.card = VerifyExchange(card[s.card], tl.pin, f).card
<1>1. CASE tl.profile = "Gen1"
  <2>1. /\ SelectKeyEf(tl, s, direct).pin = tl.pin
        /\ SelectKeyEf(tl, s, direct).keys = tl.keys
        /\ SelectKeyEf(tl, s, direct).pinOf = tl.pinOf
        /\ SelectKeyEf(tl, s, direct).scp = tl.scp
    BY DEF SelectKeyEf, SetProfile, ThreadRecord
  <2>2. /\ RsaPrivate(tl, s, f, direct).tl = SelectKeyEf(tl, s, direct)
        /\ RsaPrivate(tl, s, f, direct).card = card[s.card]
    BY <1>1 DEF RsaPrivate, Gen1RsaPrivate
  <2> QED BY <2>1, <2>2 DEF KeysFit
<1>2. CASE tl.profile # "Gen1"
  <2> DEFINE x   == PrepareForPrivateOp(tl, s, f)
             tl1 == DiverseKeys(tl, s, f)
             v   == VerifyExchange(card[s.card], tl.pin, f)
  <2>1. /\ RsaPrivate(tl, s, f, direct).tl = x.tl
        /\ RsaPrivate(tl, s, f, direct).card = x.card
    <3>1. /\ [x EXCEPT !.rv = "Error"].tl = x.tl
          /\ [x EXCEPT !.rv = "Error"].card = x.card
      BY DEF PrepareForPrivateOp
    <3> QED BY <1>2, <3>1 DEF RsaPrivate, Gen2RsaPrivate
  <2>2. CASE tl.pin = NoPin \/ tl1.keys = NoCard
    <3>1. x.tl = tl /\ x.card = card[s.card]
      BY <2>2 DEF PrepareForPrivateOp
    <3> QED BY <2>1, <3>1
  <2>3. CASE tl.pin # NoPin /\ tl1.keys # NoCard
    <3>1. tl.keys \in Gen2Cards /\ tl.keys # NoCard /\ tl.pinOf = tl.keys
      BY <2>3, CardsAssumption DEF KeysFit
    <3>2. tl1 = tl
      BY <3>1 DEF DiverseKeys
    <3>3. CASE ~ChannelOpens(tl, s, f)
      <4>1. x.tl = [tl EXCEPT !.scp = NoCard] /\ x.card = card[s.card]
        BY <2>3, <3>2, <3>3 DEF PrepareForPrivateOp
      <4>2. /\ [tl EXCEPT !.scp = NoCard].pin = tl.pin
            /\ [tl EXCEPT !.scp = NoCard].keys = tl.keys
            /\ [tl EXCEPT !.scp = NoCard].pinOf = tl.pinOf
            /\ [tl EXCEPT !.scp = NoCard].scp = NoCard
        BY DEF ThreadRecord
      <4> HIDE DEF x
      <4> QED BY <2>1, <3>1, <4>1, <4>2 DEF KeysFit
    <3>4. CASE ChannelOpens(tl, s, f)
      <4>1. tl.keys = s.card
        BY <3>4 DEF ChannelOpens
      <4>2. /\ x.tl \in {[tl EXCEPT !.scp = s.card], [tl EXCEPT !.scp = NoCard]}
            /\ x.card = v.card
        BY <2>3, <3>2, <3>4 DEF PrepareForPrivateOp
      <4>3. \A c : /\ [tl EXCEPT !.scp = c].pin = tl.pin
                   /\ [tl EXCEPT !.scp = c].keys = tl.keys
                   /\ [tl EXCEPT !.scp = c].pinOf = tl.pinOf
                   /\ [tl EXCEPT !.scp = c].scp = c
        BY DEF ThreadRecord
      <4>4. /\ KeysFit([tl EXCEPT !.scp = s.card])
            /\ KeysFit([tl EXCEPT !.scp = NoCard])
        BY <2>3, <3>1, <4>1, <4>3 DEF KeysFit
      <4>5. /\ KeysFit(x.tl) /\ x.tl.pin = tl.pin
            /\ x.tl.keys = tl.keys /\ x.tl.pinOf = tl.pinOf
        <5> HIDE DEF x
        <5> QED BY <4>2, <4>3, <4>4
      <4> HIDE DEF x
      <4> QED BY <2>1, <2>3, <4>1, <4>2, <4>5
    <3> QED BY <3>3, <3>4
  <2> QED BY <2>2, <2>3
<1> QED BY <1>1, <1>2

\* ensure_card touches the profile only.
LEMMA EnsureCardCredentials ==
    ASSUME TypeOK, NEW tl \in ThreadRecord, NEW r \in Readers, NEW e \in EnsureCard(tl, r)
    PROVE  /\ e.tl.pin = tl.pin /\ e.tl.pinOf = tl.pinOf
           /\ e.tl.keys = tl.keys /\ e.tl.scp = tl.scp
<1>1. \A u \in ThreadRecord : \A s : \A x \in Bind(u, s) :
          /\ x.tl.pin = u.pin /\ x.tl.pinOf = u.pinOf
          /\ x.tl.keys = u.keys /\ x.tl.scp = u.scp
  <2> SUFFICES ASSUME NEW u \in ThreadRecord, NEW s, NEW x \in Bind(u, s)
               PROVE  /\ x.tl.pin = u.pin /\ x.tl.pinOf = u.pinOf
                      /\ x.tl.keys = u.keys /\ x.tl.scp = u.scp
    OBVIOUS
  <2>1. x.tl = u \/ x.tl = SetProfile(u, Gen(s.card))
    <3> DEFINE failed == [ok |-> FALSE, tl |-> u,
                          slot |-> [s EXCEPT !.card = NoCard, !.live = FALSE, !.bound = FALSE]]
               done   == [ok |-> TRUE, tl |-> SetProfile(u, Gen(s.card)),
                          slot |-> [s EXCEPT !.bound = TRUE]]
    <3>1. Bind(u, s) = {failed} \cup (IF s.live THEN {done} ELSE {})
      BY DEF Bind
    <3>2. x = failed \/ x = done
      BY <3>1
    <3> QED BY <3>2
  <2> QED BY <2>1, ZenonT(60) DEF SetProfile, ThreadRecord
<1>2. /\ ResetCla(tl).pin = tl.pin /\ ResetCla(tl).pinOf = tl.pinOf
      /\ ResetCla(tl).keys = tl.keys /\ ResetCla(tl).scp = tl.scp
      /\ ResetCla(tl) \in ThreadRecord
  BY DEF ResetCla, ThreadRecord
<1>3. \/ e.tl = tl \/ e.tl = ResetCla(tl)
      \/ \E s : e \in Bind(tl, s) \/ e \in Bind(ResetCla(tl), s)
  BY DEF EnsureCard
<1> QED BY <1>1, <1>2, <1>3

\* How a step may change the credentials u of a thread into w.
CredentialsMove(u, w) ==
    /\ KeysFit(w)
    /\ \/ w.pin = NoPin
       \/ w.pin = u.pin /\ w.keys = u.keys
       \/ w.keys \in Gen2Cards /\ w.pin = card'[w.keys].pin

\* How a step may change the credentials and the PINs of the cards.
CredentialsStep ==
    /\ \A t \in Threads : CredentialsMove(tls[t], tls'[t])
    /\ PinChanges \/ \A c \in Cards : card'[c].pin = card[c].pin

\* What is inductive about cached PINs.
Credentials == SlotsAndSessions /\ PinsFitKeys

\* A step of one thread that leaves card PINs alone is a CredentialsStep.
LEMMA OneThreadMoves ==
    ASSUME Credentials, NEW t \in Threads, NEW w, tls' = [tls EXCEPT ![t] = w],
           CredentialsMove(tls[t], w), \A c \in Cards : card'[c].pin = card[c].pin
    PROVE  CredentialsStep
<1>1. tls \in [Threads -> ThreadRecord]
  BY DEF Credentials, SlotsAndSessions, TypeOK
<1>2. \A q \in Threads : KeysFit(tls[q])
  BY DEF Credentials, PinsFitKeys
<1>3. \A q \in Threads \ {t} : tls'[q] = tls[q]
  BY <1>1
<1>4. tls'[t] = w
  BY <1>1
<1> QED BY <1>2, <1>3, <1>4 DEF CredentialsStep, CredentialsMove

\* A step that changes no credentials and no PIN is one as well.
LEMMA NoCredentialsMove ==
    ASSUME Credentials, UNCHANGED tls, \A c \in Cards : card'[c].pin = card[c].pin
    PROVE  CredentialsStep
  BY DEF Credentials, PinsFitKeys, CredentialsStep, CredentialsMove

\* The card behind an open session, and the shape of what is looked up there.
LEMMA OpenSessionCard ==
    ASSUME Credentials, NEW h \in Handles, sessions[h].inUse
    PROVE  /\ slot[sessions[h].slot] \in SlotRecord
           /\ slot[sessions[h].slot].card \in Cards
<1>1. sessions[h].slot \in Readers
  BY DEF Credentials, SlotsAndSessions, TypeOK, SessionRecord
<1> QED BY <1>1 DEF Credentials, SlotsAndSessions, SessionsUsable, TypeOK, SlotRecord

\* An exchange changes no PIN of a card.
LEMMA ExchangePins ==
    ASSUME Credentials, NEW t \in Threads, NEW h \in Handles, sessions[h].inUse, NEW x,
           Exchange(t, h, x), x.card.pin = card[slot[sessions[h].slot].card].pin
    PROVE  \A c \in Cards : card'[c].pin = card[c].pin
  BY DEF Credentials, SlotsAndSessions, TypeOK, Exchange

\* Every step moves credentials as CredentialsStep says.
LEMMA NextMovesCredentials == Credentials /\ [Next]_vars => CredentialsStep
<1> SUFFICES ASSUME Credentials, [Next]_vars PROVE CredentialsStep
  OBVIOUS
<1>t. /\ TypeOK /\ tls \in [Threads -> ThreadRecord]
      /\ \A t \in Threads : tls[t] \in ThreadRecord /\ KeysFit(tls[t])
  BY DEF Credentials, SlotsAndSessions, TypeOK, PinsFitKeys
<1>1. ASSUME Initialize \/ UNCHANGED vars PROVE CredentialsStep
  BY <1>1, NoCredentialsMove DEF Initialize, vars
<1>2. CASE Finalize
  <2>1. \A c \in Cards : card'[c].pin = card[c].pin
    BY <1>2, <1>t DEF Finalize, TypeOK, CardRecord
  <2> QED BY <1>2, <2>1, NoCredentialsMove DEF Finalize
<1>3. ASSUME NEW t \in Threads, NEW r \in Readers, NEW e \in EnsureCard(tls[t], r), Touch(t, r, e)
      PROVE  CredentialsStep
  <2>1. /\ e.tl.pin = tls[t].pin /\ e.tl.pinOf = tls[t].pinOf
        /\ e.tl.keys = tls[t].keys /\ e.tl.scp = tls[t].scp
    BY <1>t, EnsureCardCredentials
  <2>2. CredentialsMove(tls[t], e.tl)
    BY <1>t, <2>1 DEF CredentialsMove, KeysFit
  <2> QED BY <1>3, <2>2, OneThreadMoves DEF Touch
<1>4. ASSUME NEW h \in Handles,
             \/ CloseSession(h) \/ SignInit(h) \/ SignFails(h)
             \/ DecryptInit(h) \/ DecryptWithoutCard(h)
      PROVE  CredentialsStep
  BY <1>4, NoCredentialsMove
     DEF CloseSession, SignInit, SignFails, DecryptInit, DecryptWithoutCard
<1>5. ASSUME NEW r \in Readers, CloseAllSessions(r) PROVE CredentialsStep
  BY <1>5, NoCredentialsMove DEF CloseAllSessions
<1>6. ASSUME NEW t \in Threads, NEW h \in Handles, NEW p \in Pins, NEW f, NEW direct,
             Login(t, h, p, f, direct)
      PROVE  CredentialsStep
  <2> DEFINE s == slot[sessions[h].slot]
             x == VerifyPin(tls[t], s, p, f, direct)
  <2>1. s \in SlotRecord /\ s.card \in Cards /\ sessions[h].inUse /\ Exchange(t, h, x)
    BY <1>6, OpenSessionCard DEF Login
  <2>2. x.card.pin = card[s.card].pin
    BY <1>t, <2>1, VerifyPinType
  <2>3. /\ KeysFit(x.tl)
        /\ \/ x.tl.pin = NoPin
           \/ x.tl.pin = tls[t].pin /\ x.tl.keys = tls[t].keys
           \/ x.tl.pin = p /\ x.tl.keys = s.card /\ p = card[s.card].pin
    BY <1>t, <2>1, VerifyPinCredentials
  <2> HIDE DEF x
  <2>4. \A c \in Cards : card'[c].pin = card[c].pin
    BY <2>1, <2>2, ExchangePins
  <2>5. CredentialsMove(tls[t], x.tl)
    <3>1. x.tl.pin # NoPin => x.tl.keys \in Gen2Cards
      BY <2>3 DEF KeysFit
    <3>2. card'[s.card].pin = card[s.card].pin
      BY <2>1, <2>4
    <3> HIDE DEF s
    <3> QED BY <2>3, <3>1, <3>2 DEF CredentialsMove
  <2> QED BY <2>1, <2>4, <2>5, OneThreadMoves DEF Exchange
<1>7. ASSUME NEW t \in Threads, NEW h \in Handles, Logout(t, h) PROVE CredentialsStep
  <2>1. CredentialsMove(tls[t], ClearAuthState(tls[t]))
    <3>1. DropCredentials(tls[t]).pin = NoPin /\ DropCredentials(tls[t]).scp = NoCard
      BY <1>t DEF DropCredentials, ThreadRecord
    <3> QED BY <1>t, <3>1 DEF ClearAuthState, CredentialsMove, KeysFit
  <2> QED BY <1>7, <1>t, <2>1, OneThreadMoves DEF Logout
<1>8. ASSUME NEW t \in Threads, NEW h \in Handles, NEW f, NEW direct, sessions[h].inUse,
             Exchange(t, h, RsaPrivate(tls[t], slot[sessions[h].slot], f, direct))
      PROVE  CredentialsStep
  <2> DEFINE s == slot[sessions[h].slot]
             x == RsaPrivate(tls[t], s, f, direct)
  <2>1. s \in SlotRecord /\ s.card \in Cards /\ Exchange(t, h, x)
    BY <1>8, OpenSessionCard
  <2>2. x.card.pin = card[s.card].pin
    BY <1>t, <2>1, RsaPrivateType
  <2>3. /\ KeysFit(x.tl) /\ x.tl.pin = tls[t].pin
        /\ tls[t].pin # NoPin => x.tl.keys = tls[t].keys
    BY <1>t, <2>1, RsaPrivateCredentials
  <2> HIDE DEF x
  <2>4. \A c \in Cards : card'[c].pin = card[c].pin
    BY <1>8, <2>1, <2>2, ExchangePins
  <2>5. CredentialsMove(tls[t], x.tl)
    BY <2>3 DEF CredentialsMove
  <2> QED BY <2>1, <2>4, <2>5, OneThreadMoves DEF Exchange
<1>9. CASE Environment
  <2>1. ASSUME NEW r \in Readers, RemoveCard(r) PROVE CredentialsStep
    <3>1. \A c \in Cards : card'[c].pin = card[c].pin
      BY <1>t, <2>1 DEF RemoveCard, TypeOK, CardRecord
    <3> QED BY <2>1, <3>1, NoCredentialsMove DEF RemoveCard
  <2>2. ASSUME NEW r \in Readers, NEW c \in Cards, InsertCard(r, c) PROVE CredentialsStep
    BY <2>2, NoCredentialsMove DEF InsertCard
  <2>3. ASSUME NEW c \in Cards, NEW p \in Pins, ChangePin(c, p) PROVE CredentialsStep
    BY <1>t, <2>3 DEF ChangePin, CredentialsStep, CredentialsMove
  <2> QED BY <1>9, <2>1, <2>2, <2>3 DEF Environment
<1>10. ASSUME NEW t \in Threads, NEW r \in Readers, SlotCall(t, r) PROVE CredentialsStep
  BY <1>3, <1>5, <1>10 DEF SlotCall, GetTokenInfo, OpenSession
<1>11. ASSUME NEW t \in Threads, NEW h \in Handles, SessionCall(t, h) PROVE CredentialsStep
  <2>1. sessions[h].slot \in Readers
    BY <1>t DEF TypeOK, SessionRecord
  <2>2. CASE EncryptInit(t, h)
    BY <1>3, <2>1, <2>2 DEF EncryptInit
  <2>3. ASSUME NEW f \in Faults, NEW direct \in BOOLEAN, Sign(t, h, f, direct)
        PROVE  CredentialsStep
    BY <1>8, <2>3 DEF Sign
  <2>4. ASSUME NEW f \in Faults, NEW direct \in BOOLEAN, NEW fits \in BOOLEAN,
               Decrypt(t, h, f, direct, fits)
        PROVE  CredentialsStep
    BY <1>8, <2>4 DEF Decrypt
  <2> QED BY <1>4, <1>6, <1>7, <1>11, <2>2, <2>3, <2>4 DEF SessionCall
<1> QED BY <1>1, <1>2, <1>9, <1>10, <1>11 DEF Next

\* The inductive step for cached PINs and keys.
LEMMA CredentialsInvariant == Credentials /\ [Next]_vars => Credentials'
<1> SUFFICES ASSUME Credentials, [Next]_vars PROVE Credentials'
  OBVIOUS
<1>1. SlotsAndSessions'
  BY SlotStep DEF Credentials
<1>2. PinsFitKeys'
  BY NextMovesCredentials DEF CredentialsStep, CredentialsMove, PinsFitKeys
<1> QED BY <1>1, <1>2 DEF Credentials

LEMMA CredentialsInit == Init => Credentials
  BY SlotInit DEF Credentials, Init, PinsFitKeys, KeysFit, FreshThread

\* The PIN a thread caches was accepted by the very Gen2 card whose static keys
\* the thread caches, and its channel, if open, is one to that card.
THEOREM CachedPinsFitKeys == Spec => []CachedPinFitsKeys
<1>1. Credentials => CachedPinFitsKeys
  BY DEF Credentials, SlotsAndSessions, CachedPinFitsKeys
<1> QED BY <1>1, CredentialsInit, CredentialsInvariant, PTL DEF Spec

\* Cached PIN and keys only ever change together, to a PIN the card of the
\* keys has just accepted, even when PINs change behind the module's back.
THEOREM PinsFollowKeys == Spec => PinFollowsKeys
<1> DEFINE A == \A t \in Threads : tls'[t].pin # NoPin =>
                  \/ tls'[t].pin = tls[t].pin /\ tls'[t].keys = tls[t].keys
                  \/ /\ tls'[t].keys \in Gen2Cards
                     /\ card'[tls'[t].keys].pin = tls'[t].pin
<1>1. Credentials /\ [Next]_vars => [A]_vars
  BY NextMovesCredentials DEF CredentialsStep, CredentialsMove
<1> QED BY <1>1, CredentialsInit, CredentialsInvariant, PTL DEF Spec, PinFollowsKeys

\* What is inductive as long as nobody else changes PINs.
RightCredentials == Credentials /\ CachedPinIsRight

LEMMA RightCredentialsInvariant ==
    ASSUME PinChanges = FALSE
    PROVE  RightCredentials /\ [Next]_vars => RightCredentials'
<1> SUFFICES ASSUME RightCredentials, [Next]_vars PROVE RightCredentials'
  OBVIOUS
<1>1. Credentials' /\ CredentialsStep
  BY CredentialsInvariant, NextMovesCredentials DEF RightCredentials
<1>2. \A c \in Cards : card'[c].pin = card[c].pin
  BY <1>1 DEF CredentialsStep
<1>3. ASSUME NEW t \in Threads, tls'[t].pin # NoPin
      PROVE  tls'[t].keys \in Gen2Cards /\ tls'[t].pin = card'[tls'[t].keys].pin
  <2>1. tls'[t].keys \in Gen2Cards
    BY <1>1, <1>3 DEF CredentialsStep, CredentialsMove, KeysFit
  <2>2. card'[tls'[t].keys].pin = card[tls'[t].keys].pin
    BY <1>2, <2>1, CardsAssumption
  <2> QED
    BY <1>1, <1>3, <2>1, <2>2
       DEF CredentialsStep, CredentialsMove, RightCredentials, CachedPinIsRight, PinIsRight
<1>4. CachedPinIsRight'
  BY <1>3 DEF CachedPinIsRight, PinIsRight
<1> QED BY <1>1, <1>4 DEF RightCredentials

LEMMA RightCredentialsInit == Init => RightCredentials
  BY CredentialsInit DEF RightCredentials, Init, CachedPinIsRight, PinIsRight, FreshThread

\* Without PIN changes behind the module's back a cached PIN is the card's PIN.
THEOREM CachedPinsStayRight ==
    ASSUME PinChanges = FALSE
    PROVE  Spec => []CachedPinIsRight
<1>1. RightCredentials => CachedPinIsRight
  BY DEF RightCredentials
<1> QED BY <1>1, RightCredentialsInit, RightCredentialsInvariant, PTL DEF Spec

-----------------------------------------------------------------------------
(* Tries. *)

\* The four ways an exchange may end for the retry counter.
LEMMA VerifyExchangeTries ==
    ASSUME NEW k \in CardRecord, NEW p, NEW f
    PROVE  LET v == VerifyExchange(k, p, f)
           IN \/ v.rv # "Ok" /\ v.card.retries = k.retries
              \/ k.retries > 0 /\ p = k.pin /\ v.card.retries = MaxRetries
              \/ /\ k.retries > 0 /\ p # k.pin
                 /\ v.rv # "Ok" /\ v.card.retries = k.retries - 1
<1>0. k.retries \in 0 .. MaxRetries
  BY DEF CardRecord
<1>1. CASE k.retries = 0 \/ f = "lost"
  <2>1. VerifyExchange(k, p, f).card = k
    BY <1>1 DEF VerifyExchange, CardVerify
  <2>2. VerifyExchange(k, p, f).rv # "Ok"
    BY <1>1 DEF VerifyExchange, CardVerify
  <2> QED BY <2>1, <2>2
<1>2. CASE k.retries # 0 /\ f # "lost"
  <2> DEFINE right == [k EXCEPT !.retries = MaxRetries, !.verified = TRUE]
             less  == [k EXCEPT !.retries = @ - 1, !.verified = FALSE]
  <2>1. right.retries = MaxRetries /\ less.retries = k.retries - 1
    BY DEF CardRecord
  <2>2. k.retries > 0
    BY <1>0, <1>2, RetriesAssumption
  <2>3. CASE p = k.pin
    <3>1. VerifyExchange(k, p, f).card = right
      BY <1>2, <2>3 DEF VerifyExchange, CardVerify
    <3> QED BY <2>1, <2>2, <2>3, <3>1
  <2>4. CASE p # k.pin
    <3>1. VerifyExchange(k, p, f).card = less /\ VerifyExchange(k, p, f).rv # "Ok"
      BY <1>2, <2>4 DEF VerifyExchange, CardVerify
    <3> HIDE DEF less
    <3> QED BY <2>1, <2>2, <2>4, <3>1
  <2> QED BY <2>3, <2>4
<1> QED BY <1>1, <1>2

\* verify_pin shows the card the typed PIN or nothing.
LEMMA VerifyPinCard ==
    ASSUME NEW tl, NEW s, NEW p, NEW f, NEW direct
    PROVE  VerifyPin(tl, s, p, f, direct).card
             \in {card[s.card], VerifyExchange(card[s.card], p, f).card}
  BY DEF VerifyPin, Gen1VerifyPin, Gen2VerifyPin

\* A private-key operation costs no card a try.
LEMMA RsaPrivateTries ==
    ASSUME TypeOK, NEW tl \in ThreadRecord, KeysFit(tl), PinIsRight(tl), NEW s \in SlotRecord,
           s.card \in Cards, NEW f, NEW direct
    PROVE  LET n == RsaPrivate(tl, s, f, direct).card.retries
           IN n = card[s.card].retries \/ n = MaxRetries
<1> DEFINE x == RsaPrivate(tl, s, f, direct)
           v == VerifyExchange(card[s.card], tl.pin, f)
<1>1. \/ x.card = card[s.card]
      \/ tl.pin # NoPin /\ tl.keys = s.card /\ x.card = v.card
  BY RsaPrivateCredentials
<1>2. tl.pin # NoPin /\ tl.keys = s.card => tl.pin = card[s.card].pin
  BY DEF PinIsRight
<1>3. tl.pin = card[s.card].pin =>
         v.card.retries = card[s.card].retries \/ v.card.retries = MaxRetries
  <2>1. card[s.card] \in CardRecord
    BY DEF TypeOK
  <2> QED BY <2>1, VerifyExchangeJudges, ZenonT(60)
<1> HIDE DEF x, v
<1> QED BY <1>1, <1>2, <1>3 DEF x

\* verify_pin costs the card it is for a try when the PIN is wrong, and no
\* other card anything.
LEMMA VerifyPinTries ==
    ASSUME TypeOK, NEW tl, NEW s, s.card \in Cards, NEW p, NEW f, NEW direct
    PROVE  p = card[s.card].pin =>
              \/ VerifyPin(tl, s, p, f, direct).card.retries = card[s.card].retries
              \/ VerifyPin(tl, s, p, f, direct).card.retries = MaxRetries
<1> DEFINE x == VerifyPin(tl, s, p, f, direct)
           v == VerifyExchange(card[s.card], p, f)
<1>1. x.card = card[s.card] \/ x.card = v.card
  BY VerifyPinCard
<1>2. ASSUME p = card[s.card].pin
      PROVE  v.card.retries = card[s.card].retries \/ v.card.retries = MaxRetries
  <2>1. card[s.card] \in CardRecord
    BY DEF TypeOK
  <2> QED BY <1>2, <2>1, VerifyExchangeJudges, ZenonT(60)
<1> HIDE DEF x, v
<1> QED BY <1>1, <1>2 DEF x

\* Card c loses a try in this step.
LosesTry(c) == card'[c].retries < card[c].retries

LEMMA NoTryLost ==
    ASSUME TypeOK, NEW c \in Cards,
           card'[c].retries = card[c].retries \/ card'[c].retries = MaxRetries
    PROVE  ~LosesTry(c)
<1>1. card[c].retries \in 0 .. MaxRetries /\ MaxRetries \in Nat
  BY RetriesAssumption DEF TypeOK, CardRecord
<1> QED BY <1>1 DEF LosesTry

\* Among the calls on a session only C_Login with a wrong PIN costs a try.
LEMMA SessionCallTries ==
    ASSUME RightCredentials, NEW c \in Cards, LosesTry(c),
           NEW t \in Threads, NEW h \in Handles, SessionCall(t, h)
    PROVE  \E p \in Pins, f \in Faults, direct \in BOOLEAN :
              /\ slot[sessions[h].slot].card = c
              /\ p # card[c].pin
              /\ Login(t, h, p, f, direct)
<1> DEFINE Goal ==
      \E p \in Pins, f \in Faults, direct \in BOOLEAN :
              /\ slot[sessions[h].slot].card = c
              /\ p # card[c].pin
              /\ Login(t, h, p, f, direct)
           s == slot[sessions[h].slot]
<1>t. /\ TypeOK /\ Credentials /\ card \in [Cards -> CardRecord]
      /\ tls[t] \in ThreadRecord /\ KeysFit(tls[t]) /\ PinIsRight(tls[t])
  BY DEF RightCredentials, Credentials, SlotsAndSessions, TypeOK, PinsFitKeys, CachedPinIsRight
<1>1. ASSUME card'[c].retries = card[c].retries \/ card'[c].retries = MaxRetries PROVE FALSE
  BY <1>1, <1>t, NoTryLost
<1>2. ASSUME UNCHANGED card PROVE FALSE
  BY <1>1, <1>2
<1>3. ASSUME NEW x, Exchange(t, h, x), s.card \in Cards
      PROVE  card'[c] = IF s.card = c THEN x.card ELSE card[c]
  BY <1>3, <1>t DEF Exchange
<1>4. ASSUME NEW f, NEW direct, sessions[h].inUse, Exchange(t, h, RsaPrivate(tls[t], s, f, direct))
      PROVE  FALSE
  <2> DEFINE x == RsaPrivate(tls[t], s, f, direct)
  <2>1. s \in SlotRecord /\ s.card \in Cards
    BY <1>4, <1>t, OpenSessionCard
  <2>2. x.card.retries = card[s.card].retries \/ x.card.retries = MaxRetries
    BY <1>t, <2>1, RsaPrivateTries
  <2>3. Exchange(t, h, x)
    BY <1>4
  <2> HIDE DEF x, s
  <2>4. card'[c] = IF s.card = c THEN x.card ELSE card[c]
    BY <1>3, <2>1, <2>3
  <2> QED BY <1>1, <2>2, <2>4
<1>5. ASSUME NEW p \in Pins, NEW f \in Faults, NEW direct \in BOOLEAN, Login(t, h, p, f, direct)
      PROVE  Goal
  <2> DEFINE x == VerifyPin(tls[t], s, p, f, direct)
  <2>1. s \in SlotRecord /\ s.card \in Cards
    BY <1>5, <1>t, OpenSessionCard DEF Login
  <2>2. p = card[s.card].pin =>
           x.card.retries = card[s.card].retries \/ x.card.retries = MaxRetries
    <3>1. TypeOK
      BY <1>t
    <3> HIDE DEF s
    <3> QED BY <2>1, <3>1, VerifyPinTries, SMTT(30)
  <2>3. Exchange(t, h, x)
    BY <1>5 DEF Login
  <2>4. s.card = c /\ p # card[c].pin
    <3> HIDE DEF x, s
    <3>1. card'[c] = IF s.card = c THEN x.card ELSE card[c]
      BY <1>3, <2>1, <2>3
    <3> QED BY <1>1, <2>2, <3>1
  <2> QED BY <1>5, <2>4
<1>6. ASSUME NEW f \in Faults, NEW direct \in BOOLEAN, Sign(t, h, f, direct) PROVE FALSE
  BY <1>4, <1>6 DEF Sign
<1>7. ASSUME NEW f \in Faults, NEW direct \in BOOLEAN, NEW fits \in BOOLEAN,
             Decrypt(t, h, f, direct, fits)
      PROVE  FALSE
  BY <1>4, <1>7 DEF Decrypt
<1> HIDE DEF Goal
<1>8. Goal
  BY <1>2, <1>5, <1>6, <1>7
     DEF SessionCall, CloseSession, Logout, EncryptInit, Touch, SignInit, SignFails,
         DecryptInit, DecryptWithoutCard
<1> QED BY <1>8 DEF Goal

\* The steps that are no call on a session cost no card a try.
LEMMA OtherTries ==
    ASSUME TypeOK, NEW c \in Cards,
           \/ Initialize \/ Finalize \/ Environment \/ UNCHANGED vars
           \/ \E t \in Threads, r \in Readers : SlotCall(t, r)
    PROVE  ~LosesTry(c)
<1>t. card \in [Cards -> CardRecord] /\ inserted \in [Readers -> Cards \cup {NoCard}]
  BY DEF TypeOK
<1>1. ASSUME UNCHANGED card PROVE ~LosesTry(c)
  BY <1>1, NoTryLost
<1>2. CASE Finalize
  <2>1. card'[c].retries = card[c].retries
    BY <1>2, <1>t DEF Finalize, CardRecord
  <2> QED BY <2>1, NoTryLost
<1>3. CASE Environment
  <2>1. ASSUME NEW r \in Readers, RemoveCard(r) PROVE ~LosesTry(c)
    <3>1. card'[c].retries = card[c].retries
      BY <1>t, <2>1 DEF RemoveCard, CardRecord
    <3> QED BY <3>1, NoTryLost
  <2>2. ASSUME NEW q \in Cards, NEW p \in Pins, ChangePin(q, p) PROVE ~LosesTry(c)
    <3>1. card'[c].retries = card[c].retries \/ card'[c].retries = MaxRetries
      BY <1>t, <2>2 DEF ChangePin, CardRecord
    <3> QED BY <3>1, NoTryLost
  <2> QED BY <1>1, <1>3, <2>1, <2>2 DEF Environment, InsertCard
<1> QED
  BY <1>1, <1>2, <1>3
     DEF Initialize, vars, SlotCall, GetTokenInfo, OpenSession, CloseAllSessions, Touch

\* No card loses a try except in a C_Login that shows it a wrong PIN.
LEMMA TriesStep ==
    ASSUME RightCredentials, [Next]_vars, NEW c \in Cards, LosesTry(c)
    PROVE  \E t \in Threads, h \in Handles, p \in Pins, f \in Faults, direct \in BOOLEAN :
              /\ slot[sessions[h].slot].card = c
              /\ p # card[c].pin
              /\ Login(t, h, p, f, direct)
<1>1. PICK t \in Threads, h \in Handles : SessionCall(t, h)
  BY OtherTries DEF Next, RightCredentials, Credentials, SlotsAndSessions
<1> QED BY <1>1, SessionCallTries

\* A card loses a try only when C_Login shows it a wrong PIN, never to the
\* re-VERIFY before a private-key operation.
THEOREM TriesAreLostToLoginOnly ==
    ASSUME PinChanges = FALSE
    PROVE  Spec => TriesLostOnlyByLogin
<1> DEFINE A == \A c \in Cards : card'[c].retries < card[c].retries =>
         \E t \in Threads, h \in Handles, p \in Pins, f \in Faults, direct \in BOOLEAN :
            /\ slot[sessions[h].slot].card = c
            /\ p # card[c].pin
            /\ Login(t, h, p, f, direct)
<1>1. RightCredentials /\ [Next]_vars => [A]_vars
  BY TriesStep DEF LosesTry
<1> QED
  BY <1>1, RightCredentialsInit, RightCredentialsInvariant, PTL DEF Spec, TriesLostOnlyByLogin

-----------------------------------------------------------------------------
(* Cryptoki implements PinCustody: seen through the cached PINs and the    *)
(* cards' counters, every step types, presents or forgets a PIN.           *)


\* The card whose PIN a thread holds.
HolderOf(tl) == IF tl.pin = NoPin THEN NoCard ELSE tl.pinOf

\* How a call of thread t on card c may end for the holder, from held to w,
\* and the counter, from k to n.  typed says whether a PIN was typed.
CustodyMove(c, held, w, k, n, typed) ==
    \/ n = k /\ w \in {held, NoCard}
    \/ ~typed /\ k > 0 /\ n = MaxRetries /\ held = c /\ w = held
    \/ /\ typed /\ k > 0 /\ n = MaxRetries
       /\ IF c \in Gen2Cards THEN w \in {c, NoCard} ELSE w = held
    \/ /\ typed /\ k > 0 /\ n = k - 1
       /\ IF c \in Gen2Cards THEN w = NoCard ELSE w = held

\* verify_pin ends in one of the ways PinCustody knows for a typed PIN.
LEMMA VerifyPinCustody ==
    ASSUME TypeOK, NEW tl \in ThreadRecord, KeysFit(tl), NEW s \in SlotRecord,
           s.card \in Cards, NEW p \in Pins, NEW f, NEW direct
    PROVE  LET x == VerifyPin(tl, s, p, f, direct)
           IN CustodyMove(s.card, HolderOf(tl), HolderOf(x.tl),
                          card[s.card].retries, x.card.retries, TRUE)
<1> DEFINE k == card[s.card]
           v == VerifyExchange(k, p, f)
           x == VerifyPin(tl, s, p, f, direct)
<1> SUFFICES CustodyMove(s.card, HolderOf(tl), HolderOf(x.tl), k.retries, x.card.retries, TRUE)
  OBVIOUS
<1>0. k \in CardRecord
  BY DEF TypeOK
<1>v. \/ v.rv # "Ok" /\ v.card.retries = k.retries
      \/ k.retries > 0 /\ p = k.pin /\ v.card.retries = MaxRetries
      \/ k.retries > 0 /\ p # k.pin /\ v.rv # "Ok" /\ v.card.retries = k.retries - 1
  BY <1>0, VerifyExchangeTries
<1>w. v.rv = "Ok" => p = k.pin
  BY <1>0, VerifyExchangeJudges
<1>1. CASE tl.profile = "Gen1"
  <2>1. HolderOf(SelectKeyEf(tl, s, direct)) = HolderOf(tl)
    BY DEF SelectKeyEf, SetProfile, ThreadRecord, HolderOf
  <2>2. /\ x.tl = SelectKeyEf(tl, s, direct)
        /\ \/ x.card = k
           \/ s.card \notin Gen2Cards /\ x.card = v.card
    BY <1>1 DEF VerifyPin, Gen1VerifyPin, Gen
  <2> HIDE DEF x, v, k
  <2> QED BY <1>v, <2>1, <2>2 DEF CustodyMove
<1>2. CASE tl.profile # "Gen1"
  <2> DEFINE tl0 == [tl EXCEPT !.scp = NoCard, !.pin = NoPin, !.pinOf = NoCard]
             tl1 == DiverseKeys(tl0, s, f)
             tl2 == [tl1 EXCEPT !.scp = s.card, !.pin = p, !.pinOf = s.card]
  <2>1. tl1 \in ThreadRecord /\ tl1.pin = NoPin
    BY DEF DiverseKeys, ThreadRecord
  <2>2. tl2.pin = p /\ tl2.pinOf = s.card
    BY <2>1 DEF ThreadRecord
  <2>3. p # NoPin
    BY CardsAssumption
  <2>4. HolderOf(tl1) = NoCard /\ HolderOf(tl2) = s.card
    BY <2>1, <2>2, <2>3 DEF HolderOf
  <2>5. CASE ~ChannelOpens(tl1, s, f)
    <3>1. x.tl = tl1 /\ x.card = k
      BY <1>2, <2>5 DEF VerifyPin, Gen2VerifyPin
    <3> HIDE DEF x, tl1, tl2, k
    <3> QED BY <2>4, <3>1 DEF CustodyMove
  <2>6. CASE ChannelOpens(tl1, s, f)
    <3>1. s.card \in Gen2Cards
      BY <2>6 DEF ChannelOpens, Gen
    <3>2. x.tl = (IF v.rv = "Ok" THEN tl2 ELSE tl1) /\ x.card = v.card
      BY <1>2, <2>6 DEF VerifyPin, Gen2VerifyPin
    <3>3. HolderOf(x.tl) = IF v.rv = "Ok" THEN s.card ELSE NoCard
      <4> HIDE DEF x, tl1, tl2, v
      <4> QED BY <2>4, <3>1, <3>2
    <3> HIDE DEF x, tl1, tl2, v, k
    <3> QED BY <1>v, <1>w, <3>1, <3>2, <3>3 DEF CustodyMove
  <2> QED BY <2>5, <2>6
<1> QED BY <1>1, <1>2

\* A private-key operation presents the held PIN to its own card or nothing.
LEMMA RsaPrivateCustody ==
    ASSUME TypeOK, NEW tl \in ThreadRecord, KeysFit(tl), PinIsRight(tl), NEW s \in SlotRecord,
           s.card \in Cards, NEW f, NEW direct
    PROVE  LET x == RsaPrivate(tl, s, f, direct)
           IN CustodyMove(s.card, HolderOf(tl), HolderOf(x.tl),
                          card[s.card].retries, x.card.retries, FALSE)
<1> DEFINE k == card[s.card]
           v == VerifyExchange(k, tl.pin, f)
           x == RsaPrivate(tl, s, f, direct)
<1> SUFFICES CustodyMove(s.card, HolderOf(tl), HolderOf(x.tl), k.retries, x.card.retries, FALSE)
  OBVIOUS
<1>0. k \in CardRecord
  BY DEF TypeOK
<1>1. /\ x.tl.pin = tl.pin /\ x.tl.pinOf = tl.pinOf
      /\ x.card = k \/ (tl.pin # NoPin /\ tl.keys = s.card /\ x.card = v.card)
  BY RsaPrivateCredentials
<1>2. HolderOf(x.tl) = HolderOf(tl)
  <2> HIDE DEF x
  <2> QED BY <1>1 DEF HolderOf
<1>3. CASE x.card = k
  <2> HIDE DEF x, k
  <2> QED BY <1>2, <1>3 DEF CustodyMove
<1>4. CASE tl.pin # NoPin /\ tl.keys = s.card /\ x.card = v.card
  <2>1. tl.pin = k.pin /\ HolderOf(tl) = s.card
    BY <1>4 DEF PinIsRight, KeysFit, HolderOf
  <2>2. v.card.retries = k.retries \/ (k.retries > 0 /\ v.card.retries = MaxRetries)
    <3>1. \/ v.rv # "Ok" /\ v.card.retries = k.retries
          \/ k.retries > 0 /\ tl.pin = k.pin /\ v.card.retries = MaxRetries
          \/ /\ k.retries > 0 /\ tl.pin # k.pin
             /\ v.rv # "Ok" /\ v.card.retries = k.retries - 1
      BY <1>0, VerifyExchangeTries
    <3> HIDE DEF v, k
    <3> QED BY <2>1, <3>1
  <2> HIDE DEF x, v, k
  <2> QED BY <1>2, <1>4, <2>1, <2>2 DEF CustodyMove
<1> QED BY <1>1, <1>3, <1>4

\* The refinement mapping of Custody.
Holder == [t \in Threads |-> IF tls[t].pin = NoPin THEN NoCard ELSE tls[t].pinOf]
Tries  == [c \in Cards |-> card[c].retries]

\* An exchange that ends in such a way is a step of PinCustody.
LEMMA ExchangeCustody ==
    ASSUME Credentials, NEW t \in Threads, NEW h \in Handles, sessions[h].inUse, NEW x,
           Exchange(t, h, x), NEW typed \in BOOLEAN,
           LET c == slot[sessions[h].slot].card
           IN CustodyMove(c, HolderOf(tls[t]), HolderOf(x.tl),
                          card[c].retries, x.card.retries, typed)
    PROVE  [Custody!Next]_(Custody!vars)
<1>1. PICK c \in Cards : c = slot[sessions[h].slot].card
  BY OpenSessionCard
<1>2. /\ tls \in [Threads -> ThreadRecord]
      /\ card \in [Cards -> CardRecord]
      /\ tls' = [tls EXCEPT ![t] = x.tl]
      /\ card' = [card EXCEPT ![c] = x.card]
  BY <1>1 DEF Credentials, SlotsAndSessions, TypeOK, Exchange
<1>3. Holder' = [Holder EXCEPT ![t] = HolderOf(x.tl)]
  <2>1. \A q \in Threads : Holder'[q] = [Holder EXCEPT ![t] = HolderOf(x.tl)][q]
    BY <1>2 DEF Holder, HolderOf
  <2> QED BY <2>1 DEF Holder
<1>4. Tries' = [Tries EXCEPT ![c] = x.card.retries]
  <2>1. \A q \in Cards : Tries'[q] = [Tries EXCEPT ![c] = x.card.retries][q]
    BY <1>1, <1>2 DEF Tries
  <2> QED BY <2>1 DEF Tries
<1>5. /\ Holder \in [Threads -> Cards \cup {NoCard}] /\ Holder[t] = HolderOf(tls[t])
      /\ Tries \in [Cards -> 0 .. MaxRetries] /\ Tries[c] = card[c].retries
  BY <1>1, <1>2 DEF Holder, HolderOf, Tries, ThreadRecord, CardRecord
<1>6. CustodyMove(c, Holder[t], HolderOf(x.tl), Tries[c], x.card.retries, typed)
  BY <1>1, <1>5
<1>7. CASE x.card.retries = Tries[c] /\ HolderOf(x.tl) = Holder[t]
  <2>1. Holder' = Holder /\ Tries' = Tries
    BY <1>1, <1>3, <1>4, <1>5, <1>7
  <2> QED BY <2>1 DEF Custody!vars, Holder, Tries
<1>8. CASE x.card.retries = Tries[c] /\ HolderOf(x.tl) = NoCard
  <2>1. Holder' = [Holder EXCEPT ![t] = NoCard] /\ Tries' = Tries
    BY <1>1, <1>3, <1>4, <1>5, <1>8
  <2>2. Custody!Forget(t)
    BY <2>1 DEF Custody!Forget, Holder, Tries
  <2> QED BY <2>2 DEF Custody!Next
<1>9. CASE ~typed /\ Tries[c] > 0 /\ x.card.retries = MaxRetries /\ Holder[t] = c
           /\ HolderOf(x.tl) = Holder[t]
  <2>1. Holder' = Holder /\ Tries' = [Tries EXCEPT ![c] = MaxRetries]
    BY <1>3, <1>4, <1>5, <1>9
  <2>2. Custody!Present(t, c)
    BY <1>9, <2>1 DEF Custody!Present, Holder, Tries
  <2> QED BY <2>2 DEF Custody!Next
<1>10. CASE typed /\ Tries[c] > 0 /\ x.card.retries = MaxRetries
            /\ IF c \in Gen2Cards THEN HolderOf(x.tl) \in {c, NoCard}
                                  ELSE HolderOf(x.tl) = Holder[t]
  <2>1. Tries' = [Tries EXCEPT ![c] = MaxRetries]
    BY <1>4, <1>10
  <2>2. \/ c \in Gen2Cards /\ Holder' = [Holder EXCEPT ![t] = c]
        \/ c \in Gen2Cards /\ Holder' = [Holder EXCEPT ![t] = NoCard]
        \/ c \notin Gen2Cards /\ Holder' = Holder
    BY <1>3, <1>5, <1>10
  <2>3. Custody!TypeRight(t, c)
    BY <1>10, <2>1, <2>2 DEF Custody!TypeRight, Holder, Tries
  <2> QED BY <2>3 DEF Custody!Next
<1>11. CASE typed /\ Tries[c] > 0 /\ x.card.retries = Tries[c] - 1
            /\ IF c \in Gen2Cards THEN HolderOf(x.tl) = NoCard
                                  ELSE HolderOf(x.tl) = Holder[t]
  <2>1. Tries' = [Tries EXCEPT ![c] = Tries[c] - 1]
    BY <1>4, <1>11
  <2>2. IF c \in Gen2Cards THEN Holder' = [Holder EXCEPT ![t] = NoCard] ELSE Holder' = Holder
    BY <1>3, <1>5, <1>11
  <2>3. Custody!TypeWrong(t, c)
    BY <1>11, <2>1, <2>2 DEF Custody!TypeWrong, Holder, Tries
  <2> QED BY <2>3 DEF Custody!Next
<1> QED BY <1>6, <1>7, <1>8, <1>9, <1>10, <1>11 DEF CustodyMove

\* A step that moves neither holders nor counters stutters.
LEMMA CustodyStutter ==
    ASSUME TypeOK, \A t \in Threads : HolderOf(tls'[t]) = HolderOf(tls[t]),
           \A c \in Cards : card'[c].retries = card[c].retries
    PROVE  UNCHANGED Custody!vars
  BY DEF Custody!vars, HolderOf

\* Every step of Cryptoki is a step of PinCustody or none.
LEMMA CustodyStep ==
    ASSUME PinChanges = FALSE, RightCredentials, [Next]_vars
    PROVE  [Custody!Next]_(Custody!vars)
<1>t. /\ TypeOK /\ Credentials /\ tls \in [Threads -> ThreadRecord]
      /\ \A t \in Threads : /\ tls[t] \in ThreadRecord /\ KeysFit(tls[t])
                            /\ PinIsRight(tls[t])
  BY DEF RightCredentials, Credentials, SlotsAndSessions, TypeOK, PinsFitKeys,
         CachedPinIsRight
<1>1. ASSUME UNCHANGED <<tls, card>> PROVE [Custody!Next]_(Custody!vars)
  BY <1>1, <1>t, CustodyStutter
<1>2. ASSUME Finalize PROVE [Custody!Next]_(Custody!vars)
  <2>1. \A c \in Cards : card'[c].retries = card[c].retries
    BY <1>2, <1>t DEF Finalize, TypeOK, CardRecord
  <2> QED BY <1>2, <1>t, <2>1, CustodyStutter DEF Finalize
<1>3. ASSUME NEW t \in Threads, NEW r \in Readers, NEW e \in EnsureCard(tls[t], r), Touch(t, r, e)
      PROVE  [Custody!Next]_(Custody!vars)
  <2>1. e.tl.pin = tls[t].pin /\ e.tl.pinOf = tls[t].pinOf
    BY <1>t, EnsureCardCredentials
  <2>2. \A q \in Threads : HolderOf(tls'[q]) = HolderOf(tls[q])
    BY <1>3, <1>t, <2>1 DEF Touch, HolderOf
  <2> QED BY <1>3, <1>t, <2>2, CustodyStutter DEF Touch
<1>4. ASSUME NEW t \in Threads, NEW h \in Handles, Logout(t, h)
      PROVE  [Custody!Next]_(Custody!vars)
  <2>1. CASE tls[t].profile = "Gen2"
    <3>1. Holder' = [Holder EXCEPT ![t] = NoCard]
      <4>1. \A q \in Threads : Holder'[q] = [Holder EXCEPT ![t] = NoCard][q]
        BY <1>4, <1>t, <2>1
           DEF Logout, ClearAuthState, DropCredentials, ThreadRecord, Holder
      <4> QED BY <4>1 DEF Holder
    <3>2. Tries' = Tries
      BY <1>4 DEF Logout, Tries
    <3>3. Custody!Forget(t)
      BY <3>1, <3>2 DEF Custody!Forget, Holder, Tries
    <3> QED BY <3>3 DEF Custody!Next
  <2>2. CASE tls[t].profile # "Gen2"
    BY <1>1, <1>4, <1>t, <2>2 DEF Logout, ClearAuthState
  <2> QED BY <2>1, <2>2
<1>5. ASSUME NEW t \in Threads, NEW h \in Handles, NEW p \in Pins, NEW f, NEW direct,
             Login(t, h, p, f, direct)
      PROVE  [Custody!Next]_(Custody!vars)
  <2> DEFINE s == slot[sessions[h].slot]
             x == VerifyPin(tls[t], s, p, f, direct)
  <2>1. s \in SlotRecord /\ s.card \in Cards /\ sessions[h].inUse /\ Exchange(t, h, x)
    BY <1>5, <1>t, OpenSessionCard DEF Login
  <2>2. CustodyMove(s.card, HolderOf(tls[t]), HolderOf(x.tl),
                    card[s.card].retries, x.card.retries, TRUE)
    BY <1>t, <2>1, VerifyPinCustody
  <2> HIDE DEF x
  <2> QED BY <1>t, <2>1, <2>2, ExchangeCustody
<1>6. ASSUME NEW t \in Threads, NEW h \in Handles, NEW f, NEW direct, sessions[h].inUse,
             Exchange(t, h, RsaPrivate(tls[t], slot[sessions[h].slot], f, direct))
      PROVE  [Custody!Next]_(Custody!vars)
  <2> DEFINE s == slot[sessions[h].slot]
             x == RsaPrivate(tls[t], s, f, direct)
  <2>1. s \in SlotRecord /\ s.card \in Cards /\ Exchange(t, h, x)
    BY <1>6, <1>t, OpenSessionCard
  <2>2. CustodyMove(s.card, HolderOf(tls[t]), HolderOf(x.tl),
                    card[s.card].retries, x.card.retries, FALSE)
    BY <1>t, <2>1, RsaPrivateCustody
  <2> HIDE DEF x
  <2> QED BY <1>6, <1>t, <2>1, <2>2, ExchangeCustody
<1>7. ASSUME Environment PROVE [Custody!Next]_(Custody!vars)
  <2>1. ASSUME NEW r \in Readers, RemoveCard(r) PROVE [Custody!Next]_(Custody!vars)
    <3>1. \A c \in Cards : card'[c].retries = card[c].retries
      BY <1>t, <2>1 DEF RemoveCard, TypeOK, CardRecord
    <3> QED BY <1>t, <2>1, <3>1, CustodyStutter DEF RemoveCard
  <2> QED BY <1>1, <1>7, <2>1 DEF Environment, InsertCard, ChangePin
<1>8. ASSUME NEW t \in Threads, NEW h \in Handles, SessionCall(t, h)
      PROVE  [Custody!Next]_(Custody!vars)
  <2>1. sessions[h].slot \in Readers
    BY <1>t DEF TypeOK, SessionRecord
  <2>2. CASE EncryptInit(t, h)
    BY <1>3, <2>1, <2>2 DEF EncryptInit
  <2>3. ASSUME NEW f \in Faults, NEW direct \in BOOLEAN, Sign(t, h, f, direct)
        PROVE  [Custody!Next]_(Custody!vars)
    BY <1>6, <2>3 DEF Sign
  <2>4. ASSUME NEW f \in Faults, NEW direct \in BOOLEAN, NEW fits \in BOOLEAN,
               Decrypt(t, h, f, direct, fits)
        PROVE  [Custody!Next]_(Custody!vars)
    BY <1>6, <2>4 DEF Decrypt
  <2> QED
    BY <1>1, <1>4, <1>5, <1>8, <2>2, <2>3, <2>4
       DEF SessionCall, CloseSession, SignInit, SignFails, DecryptInit, DecryptWithoutCard
<1>9. ASSUME NEW t \in Threads, NEW r \in Readers, SlotCall(t, r)
      PROVE  [Custody!Next]_(Custody!vars)
  BY <1>1, <1>3, <1>9 DEF SlotCall, GetTokenInfo, OpenSession, CloseAllSessions
<1>10. CASE UNCHANGED vars
  BY <1>1, <1>10 DEF vars
<1>11. CASE Next
  BY <1>1, <1>2, <1>7, <1>8, <1>9, <1>11 DEF Next, Initialize
<1> QED BY <1>10, <1>11

\* A PIN the module keeps is only ever presented to the card that accepted it,
\* and no try is lost without a PIN being typed: Cryptoki implements PinCustody.
THEOREM CustodyIsKept ==
    ASSUME PinChanges = FALSE
    PROVE  Spec => CustodyKept
<1>1. Init => Custody!Init
  BY DEF Init, Custody!Init, FreshThread
<1>2. RightCredentials /\ [Next]_vars => [Custody!Next]_(Custody!vars)
  BY CustodyStep
<1> QED
  BY <1>1, <1>2, RightCredentialsInit, RightCredentialsInvariant, PTL
     DEF Spec, CustodyKept, Custody!Spec

-----------------------------------------------------------------------------
(* What an answer of the card allows. *)

\* verify_pin returns OK only after the very card of the slot has accepted the
\* PIN, and leaves what the operations to come need.
LEMMA VerifyPinOk ==
    ASSUME TypeOK, NEW tl \in ThreadRecord, NEW s \in SlotRecord, s.card \in Cards,
           NEW p \in Pins, NEW f, NEW direct, VerifyPin(tl, s, p, f, direct).rv = "Ok"
    PROVE  LET x == VerifyPin(tl, s, p, f, direct)
           IN /\ p = card[s.card].pin
              /\ x.card.retries = MaxRetries
              /\ IF s.card \in Gen2Cards THEN x.tl.keys = s.card /\ x.tl.pin = card[s.card].pin
                                         ELSE x.card.verified
<1> DEFINE k == card[s.card]
           v == VerifyExchange(k, p, f)
           x == VerifyPin(tl, s, p, f, direct)
<1> SUFFICES /\ p = k.pin
             /\ x.card.retries = MaxRetries
             /\ IF s.card \in Gen2Cards THEN x.tl.keys = s.card /\ x.tl.pin = k.pin
                                        ELSE x.card.verified
  OBVIOUS
<1>0. k \in CardRecord
  BY DEF TypeOK
<1>v. v.rv = "Ok" => p = k.pin /\ v.card.retries = MaxRetries /\ v.card.verified
  BY <1>0, VerifyExchangeJudges
<1>1. CASE tl.profile = "Gen1"
  <2>1. s.card \notin Gen2Cards /\ x.card = v.card /\ v.rv = "Ok"
    BY <1>1 DEF VerifyPin, Gen1VerifyPin, Gen
  <2> HIDE DEF x, v, k
  <2> QED BY <1>v, <2>1
<1>2. CASE tl.profile # "Gen1"
  <2> DEFINE tl0 == [tl EXCEPT !.scp = NoCard, !.pin = NoPin, !.pinOf = NoCard]
             tl1 == DiverseKeys(tl0, s, f)
             tl2 == [tl1 EXCEPT !.scp = s.card, !.pin = p, !.pinOf = s.card]
  <2>1. tl1 \in ThreadRecord
    BY DEF DiverseKeys, ThreadRecord
  <2>2. tl2.pin = p /\ tl2.keys = tl1.keys
    BY <2>1 DEF ThreadRecord
  <2>3. ChannelOpens(tl1, s, f) /\ v.rv = "Ok" /\ x.tl = tl2 /\ x.card = v.card
    BY <1>2 DEF VerifyPin, Gen2VerifyPin
  <2>4. s.card \in Gen2Cards /\ tl1.keys = s.card
    BY <2>3 DEF ChannelOpens, Gen
  <2> HIDE DEF x, tl1, tl2, v, k
  <2> QED BY <1>v, <2>2, <2>3, <2>4
<1> QED BY <1>1, <1>2

\* A private-key operation on a Gen2 card succeeds only with the PIN this very
\* card had accepted and has now accepted again.
LEMMA RsaPrivateOk ==
    ASSUME TypeOK, NEW tl \in ThreadRecord, KeysFit(tl), NEW s \in SlotRecord, s.card \in Cards,
           s.card \in Gen2Cards, NEW f, NEW direct, RsaPrivate(tl, s, f, direct).rv = "Ok"
    PROVE  /\ tl.pinOf = s.card /\ tl.pin = card[s.card].pin
           /\ RsaPrivate(tl, s, f, direct).card.retries = MaxRetries
<1>1. tl.profile # "Gen1"
  BY DEF RsaPrivate, Gen1RsaPrivate, Gen
<1> DEFINE x   == PrepareForPrivateOp(tl, s, f)
           tl1 == DiverseKeys(tl, s, f)
           v   == VerifyExchange(card[s.card], tl.pin, f)
<1>2. x.rv = "Ok" /\ RsaPrivate(tl, s, f, direct) = x
  <2>1. [x EXCEPT !.rv = "Error"].rv = "Error"
    BY DEF PrepareForPrivateOp
  <2> QED BY <1>1, <2>1 DEF RsaPrivate, Gen2RsaPrivate
<1>3. /\ tl.pin # NoPin /\ tl1.keys # NoCard /\ ChannelOpens(tl1, s, f)
      /\ v.rv = "Ok" /\ x.card = v.card
  BY <1>2 DEF PrepareForPrivateOp
<1>4. tl.keys \in Gen2Cards /\ tl.keys # NoCard /\ tl.pinOf = tl.keys
  BY <1>3, CardsAssumption DEF KeysFit
<1>5. tl1 = tl
  BY <1>4 DEF DiverseKeys
<1>6. tl.keys = s.card
  BY <1>3, <1>5 DEF ChannelOpens
<1>7. tl.pin = card[s.card].pin /\ v.card.retries = MaxRetries
  BY <1>3, VerifyExchangeJudges DEF TypeOK
<1> HIDE DEF x, v
<1> QED BY <1>2, <1>3, <1>4, <1>6, <1>7

-----------------------------------------------------------------------------
(* Which calls give a session something. *)

LoggedInBy(h, t, p, f, direct) ==
    /\ Login(t, h, p, f, direct)
    /\ VerifyPin(tls[t], slot[sessions[h].slot], p, f, direct).rv = "Ok"

KeptBy(h, t, f, direct) ==
    /\ Decrypt(t, h, f, direct, FALSE)
    /\ RsaPrivate(tls[t], slot[sessions[h].slot], f, direct).rv = "Ok"

\* The use of a key, a login and a kept plaintext each have one source.
SessionGains(h) ==
    /\ MayUseKey(h)' => MayUseKey(h) \/ LogsIn(h)
    /\ ~sessions[h].loggedIn /\ sessions'[h].loggedIn =>
         \E t \in Threads, p \in Pins, f \in Faults, direct \in BOOLEAN :
            LoggedInBy(h, t, p, f, direct)
    /\ ~sessions[h].decryptPlain /\ sessions'[h].decryptPlain =>
         \E t \in Threads, f \in Faults, direct \in BOOLEAN : KeptBy(h, t, f, direct)

LEMMA SessionsGain ==
    TypeOK /\ [Next]_vars => \A g \in Handles : SessionGains(g)
<1> SUFFICES ASSUME TypeOK, [Next]_vars, NEW g \in Handles PROVE SessionGains(g)
  OBVIOUS
<1>t. /\ sessions \in [Handles -> SessionRecord] /\ sessions[g] \in SessionRecord
      /\ \A h \in Handles : sessions[h].slot \in Readers
  BY DEF TypeOK, SessionRecord
<1>1. CASE UNCHANGED sessions
  BY <1>1 DEF SessionGains, MayUseKey
<1>2. ASSUME NEW hs, sessions' = CloseEach(hs) PROVE SessionGains(g)
  <2>1. sessions'[g] = sessions[g] \/ sessions'[g] = [sessions[g] EXCEPT !.inUse = FALSE]
    BY <1>2 DEF CloseEach
  <2> QED BY <1>t, <2>1 DEF SessionGains, MayUseKey, LogsIn, SessionRecord
<1>3. ASSUME NEW t \in Threads, NEW r \in Readers, OpenSession(t, r) PROVE SessionGains(g)
  <2>1. \/ UNCHANGED sessions
        \/ \E h \in Handles : sessions' = [sessions EXCEPT ![h] = NewSession(r)]
    BY <1>3 DEF OpenSession, FreeHandles
  <2>2. sessions'[g] = sessions[g] \/ sessions'[g] = NewSession(r)
    BY <1>t, <2>1
  <2>3. /\ ~NewSession(r).loggedIn /\ ~NewSession(r).signActive
        /\ ~NewSession(r).decryptActive /\ ~NewSession(r).decryptPlain
    BY DEF NewSession
  <2> QED BY <2>2, <2>3 DEF SessionGains, MayUseKey
<1>4. ASSUME NEW t \in Threads, NEW h \in Handles, NEW p \in Pins, NEW f \in Faults,
             NEW direct \in BOOLEAN, Login(t, h, p, f, direct)
      PROVE  SessionGains(g)
  <2> DEFINE x == VerifyPin(tls[t], slot[sessions[h].slot], p, f, direct)
  <2>1. CASE x.rv = "Ok" /\ h = g
    <3>1. sessions'[g] = [sessions[g] EXCEPT !.loggedIn = TRUE]
      BY <1>4, <1>t, <2>1 DEF Login, Accepted
    <3>2. /\ ~sessions[g].loggedIn /\ sessions[g].inUse /\ sessions'[g].loggedIn
          /\ sessions'[g].decryptPlain = sessions[g].decryptPlain
      BY <1>4, <1>t, <2>1, <3>1 DEF Login, SessionRecord
    <3>3. LoggedInBy(g, t, p, f, direct)
      BY <1>4, <2>1 DEF LoggedInBy
    <3> QED BY <3>2, <3>3 DEF SessionGains, LogsIn
  <2>2. CASE ~(x.rv = "Ok" /\ h = g)
    <3>1. sessions'[g] = sessions[g]
      BY <1>4, <1>t, <2>2 DEF Login, Accepted
    <3> QED BY <3>1 DEF SessionGains, MayUseKey
  <2> QED BY <2>1, <2>2
<1>5. ASSUME NEW h \in Handles,
             \E b \in {FALSE, sessions[h].inUse /\ sessions[h].loggedIn} :
                \/ sessions' = [sessions EXCEPT ![h].signActive = b]
                \/ b = FALSE /\ sessions' = [sessions EXCEPT ![h].loggedIn = b]
                \/ sessions' = [sessions EXCEPT ![h].decryptActive = b, ![h].decryptPlain = FALSE]
      PROVE  SessionGains(g)
  <2>1. PICK b \in {FALSE, sessions[h].inUse /\ sessions[h].loggedIn} :
           \/ sessions' = [sessions EXCEPT ![h].signActive = b]
           \/ b = FALSE /\ sessions' = [sessions EXCEPT ![h].loggedIn = b]
           \/ sessions' = [sessions EXCEPT ![h].decryptActive = b, ![h].decryptPlain = FALSE]
    BY <1>5
  <2>2. CASE sessions' = [sessions EXCEPT ![h].signActive = b]
    BY <1>t, <2>2 DEF SessionGains, MayUseKey, LogsIn, SessionRecord
  <2>3. CASE b = FALSE /\ sessions' = [sessions EXCEPT ![h].loggedIn = b]
    BY <1>t, <2>3 DEF SessionGains, MayUseKey, LogsIn, SessionRecord
  <2>4. CASE sessions' = [sessions EXCEPT ![h].decryptActive = b, ![h].decryptPlain = FALSE]
    BY <1>t, <2>4 DEF SessionGains, MayUseKey, LogsIn, SessionRecord
  <2> QED BY <2>1, <2>2, <2>3, <2>4
<1>6. ASSUME NEW h \in Handles,
             SignInit(h) \/ SignFails(h) \/ DecryptInit(h) \/ DecryptWithoutCard(h)
      PROVE  SessionGains(g)
  BY <1>5, <1>6 DEF SignInit, SignFails, DecryptInit, DecryptWithoutCard, DecryptEnds
<1>7. ASSUME NEW t \in Threads, NEW h \in Handles, Logout(t, h) PROVE SessionGains(g)
  BY <1>5, <1>7 DEF Logout
<1>8. ASSUME NEW t \in Threads, NEW h \in Handles, NEW f, NEW direct, Sign(t, h, f, direct)
      PROVE  SessionGains(g)
  BY <1>5, <1>8 DEF Sign
<1>9. ASSUME NEW t \in Threads, NEW h \in Handles, NEW f \in Faults, NEW direct \in BOOLEAN,
             NEW fits \in BOOLEAN, Decrypt(t, h, f, direct, fits)
      PROVE  SessionGains(g)
  <2> DEFINE x == RsaPrivate(tls[t], slot[sessions[h].slot], f, direct)
  <2>1. CASE x.rv = "Ok" /\ ~fits
    <3>1. sessions' = [sessions EXCEPT ![h].decryptPlain = TRUE]
      BY <1>9, <2>1 DEF Decrypt
    <3>2. KeptBy(h, t, f, direct)
      BY <1>9, <2>1 DEF KeptBy
    <3>3. CASE h = g
      <4>1. /\ sessions[g].inUse /\ sessions[g].decryptActive
            /\ sessions'[g].loggedIn = sessions[g].loggedIn
        BY <1>9, <1>t, <3>1, <3>3 DEF Decrypt, SessionRecord
      <4> QED BY <3>2, <3>3, <4>1 DEF SessionGains, MayUseKey
    <3>4. CASE h # g
      BY <1>t, <3>1, <3>4 DEF SessionGains, MayUseKey
    <3> QED BY <3>3, <3>4
  <2>2. CASE ~(x.rv = "Ok" /\ ~fits)
    BY <1>5, <1>9, <2>2 DEF Decrypt, DecryptEnds
  <2> QED BY <2>1, <2>2
<1>10. CASE Initialize \/ Environment \/ UNCHANGED vars
  BY <1>1, <1>10 DEF Initialize, Environment, RemoveCard, InsertCard, ChangePin, vars
<1>11. CASE Finalize
  BY <1>2, <1>11 DEF Finalize
<1>12. ASSUME NEW t \in Threads, NEW r \in Readers, SlotCall(t, r) PROVE SessionGains(g)
  BY <1>1, <1>2, <1>3, <1>12 DEF SlotCall, GetTokenInfo, CloseAllSessions
<1>13. ASSUME NEW t \in Threads, NEW h \in Handles, SessionCall(t, h) PROVE SessionGains(g)
  <2>1. CASE CloseSession(h) \/ EncryptInit(t, h)
    BY <1>1, <1>2, <2>1 DEF CloseSession, EncryptInit
  <2> QED BY <1>4, <1>6, <1>7, <1>8, <1>9, <1>13, <2>1 DEF SessionCall
<1> QED BY <1>10, <1>11, <1>12, <1>13 DEF Next

\* What a step that logs a session in or keeps a plaintext owes: the two action
\* properties below, step by step.
LoginsAreGranted ==
    \A h \in Handles : ~sessions[h].loggedIn /\ sessions'[h].loggedIn =>
        LET c == slot[sessions[h].slot].card
        IN /\ c \in Cards
           /\ card'[c].retries = MaxRetries
           /\ IF c \in Gen2Cards
              THEN \E t \in Threads : tls'[t].keys = c /\ tls'[t].pin = card[c].pin
              ELSE card'[c].verified

PlaintextsAreGranted ==
    \A h \in Handles : ~sessions[h].decryptPlain /\ sessions'[h].decryptPlain =>
        LET c == slot[sessions[h].slot].card
        IN c \in Gen2Cards =>
             \E t \in Threads, f \in Faults, direct \in BOOLEAN :
                /\ Decrypt(t, h, f, direct, FALSE)
                /\ tls[t].pinOf = c /\ tls[t].pin = card[c].pin
                /\ card'[c].retries = MaxRetries

\* A step that leaves the sessions alone owes nothing.
LEMMA NothingGained ==
    UNCHANGED sessions => LoginsAreGranted /\ PlaintextsAreGranted
  BY DEF LoginsAreGranted, PlaintextsAreGranted

LEMMA LoginsStep == Credentials /\ [Next]_vars => LoginsAreGranted
<1> DEFINE Granted(h) ==
             LET c == slot[sessions[h].slot].card
             IN /\ c \in Cards
                /\ card'[c].retries = MaxRetries
                /\ IF c \in Gen2Cards
                   THEN \E t \in Threads : tls'[t].keys = c /\ tls'[t].pin = card[c].pin
                   ELSE card'[c].verified
<1>1. Credentials /\ [Next]_vars =>
         \A h \in Handles : ~sessions[h].loggedIn /\ sessions'[h].loggedIn => Granted(h)
  <2> SUFFICES ASSUME Credentials, [Next]_vars, NEW h \in Handles,
                      ~sessions[h].loggedIn, sessions'[h].loggedIn
               PROVE  Granted(h)
    OBVIOUS
  <2>1. PICK t \in Threads, p \in Pins, f \in Faults, direct \in BOOLEAN :
           LoggedInBy(h, t, p, f, direct)
    BY SessionsGain DEF SessionGains, Credentials, SlotsAndSessions
  <2> DEFINE s == slot[sessions[h].slot]
             x == VerifyPin(tls[t], s, p, f, direct)
  <2>2. s \in SlotRecord /\ s.card \in Cards /\ Exchange(t, h, x) /\ x.rv = "Ok"
    BY <2>1, OpenSessionCard DEF LoggedInBy, Login
  <2>3. TypeOK /\ tls \in [Threads -> ThreadRecord] /\ card \in [Cards -> CardRecord]
    BY DEF Credentials, SlotsAndSessions, TypeOK
  <2>4. /\ x.card.retries = MaxRetries
        /\ IF s.card \in Gen2Cards THEN x.tl.keys = s.card /\ x.tl.pin = card[s.card].pin
                                   ELSE x.card.verified
    BY <2>2, <2>3, VerifyPinOk
  <2>5. tls'[t] = x.tl /\ card'[s.card] = x.card
    BY <2>2, <2>3 DEF Exchange
  <2> HIDE DEF x
  <2> QED BY <2>2, <2>4, <2>5
<1> QED BY <1>1 DEF LoginsAreGranted

LEMMA PlaintextsStep == Credentials /\ [Next]_vars => PlaintextsAreGranted
<1> SUFFICES ASSUME Credentials, [Next]_vars, NEW h \in Handles,
                    ~sessions[h].decryptPlain, sessions'[h].decryptPlain,
                    slot[sessions[h].slot].card \in Gen2Cards
             PROVE  \E t \in Threads, f \in Faults, direct \in BOOLEAN :
                       /\ Decrypt(t, h, f, direct, FALSE)
                       /\ tls[t].pinOf = slot[sessions[h].slot].card
                       /\ tls[t].pin = card[slot[sessions[h].slot].card].pin
                       /\ card'[slot[sessions[h].slot].card].retries = MaxRetries
  BY DEF PlaintextsAreGranted
<1>1. PICK t \in Threads, f \in Faults, direct \in BOOLEAN : KeptBy(h, t, f, direct)
  BY SessionsGain DEF SessionGains, Credentials, SlotsAndSessions
<1> DEFINE s == slot[sessions[h].slot]
           x == RsaPrivate(tls[t], s, f, direct)
<1>2. s \in SlotRecord /\ s.card \in Cards /\ x.rv = "Ok" /\ Exchange(t, h, x)
  BY <1>1, OpenSessionCard DEF KeptBy, Decrypt
<1>3. TypeOK /\ tls[t] \in ThreadRecord /\ KeysFit(tls[t]) /\ card \in [Cards -> CardRecord]
  BY DEF Credentials, SlotsAndSessions, TypeOK, PinsFitKeys
<1>4. /\ tls[t].pinOf = s.card /\ tls[t].pin = card[s.card].pin
      /\ x.card.retries = MaxRetries
  BY <1>2, <1>3, RsaPrivateOk
<1> HIDE DEF x
<1>5. card'[s.card] = x.card
  BY <1>2, <1>3 DEF Exchange
<1>6. Decrypt(t, h, f, direct, FALSE)
  BY <1>1 DEF KeptBy
<1> QED BY <1>4, <1>5, <1>6

\* A session is logged in only by a call in which the card of its own slot has
\* accepted the PIN.
THEOREM LoginsNeedTheirCard == Spec => LoginNeedsItsCard
<1>1. Credentials /\ [Next]_vars => [LoginsAreGranted]_vars
  BY LoginsStep
<1> QED
  BY <1>1, CredentialsInit, CredentialsInvariant, PTL DEF Spec, LoginNeedsItsCard, LoginsAreGranted

\* A plaintext from a Gen2 card is kept only by a call in which the card has
\* accepted again the PIN that it, and no other card, had accepted before.
THEOREM PlaintextsNeedTheirPin == Spec => PlainOnlyAfterVerify
<1>1. Credentials /\ [Next]_vars => [PlaintextsAreGranted]_vars
  BY PlaintextsStep
<1> QED
  BY <1>1, CredentialsInit, CredentialsInvariant, PTL
     DEF Spec, PlainOnlyAfterVerify, PlaintextsAreGranted

-----------------------------------------------------------------------------
(* The Rust API beside the core: what its handles and its own exchanges do. *)

\* Thread-local state w has the credentials of u.
SameCredentials(u, w) ==
    /\ w \in ThreadRecord /\ w.pin = u.pin /\ w.pinOf = u.pinOf
    /\ w.keys = u.keys /\ w.scp = u.scp

LEMMA ProfileKeepsCredentials ==
    ASSUME NEW tl \in ThreadRecord, NEW g \in {"Gen1", "Gen2"}
    PROVE  /\ SameCredentials(tl, SetProfile(tl, g)) /\ SetProfile(tl, g).profile = g
           /\ SameCredentials(tl, ResetCla(tl))
  BY DEF SameCredentials, SetProfile, ResetCla, ThreadRecord

\* try_bind_reader clears no credentials: it has just forgotten the profile.
LEMMA TriedKeepsCredentials ==
    ASSUME NEW tl \in ThreadRecord
    PROVE  SameCredentials(tl, TriedProfile(tl))
<1>1. ResetCla(tl).profile = "Gen1"
  BY DEF ResetCla, ThreadRecord
<1>2. TriedProfile(tl) = ResetCla(tl)
  BY <1>1 DEF TriedProfile, ClearAuthState
<1> QED BY <1>2, ProfileKeepsCredentials

LEMMA ClearedCredentials ==
    ASSUME NEW tl \in ThreadRecord, KeysFit(tl), PinIsRight(tl)
    PROVE  Cleared(tl) \in ThreadRecord /\ KeysFit(Cleared(tl)) /\ PinIsRight(Cleared(tl))
<1>1. /\ DropCredentials(tl) \in ThreadRecord
      /\ DropCredentials(tl).pin = NoPin /\ DropCredentials(tl).scp = NoCard
  BY DEF DropCredentials, ThreadRecord
<1>2. KeysFit(DropCredentials(tl)) /\ PinIsRight(DropCredentials(tl))
  BY <1>1 DEF KeysFit, PinIsRight
<1> QED BY <1>1, <1>2 DEF Cleared, ClearAuthState

\* A card that is reset keeps its PIN and its tries.
LEMMA ResetCards ==
    ASSUME NEW cards \in [Cards -> CardRecord], NEW c, NEW reset
    PROVE  /\ CardsAfterReset(cards, c, reset) \in [Cards -> CardRecord]
           /\ \A q \in Cards :
                 /\ CardsAfterReset(cards, c, reset)[q].pin = cards[q].pin
                 /\ CardsAfterReset(cards, c, reset)[q].retries = cards[q].retries
  BY DEF CardsAfterReset, CardRecord

\* The slots lose no more than their handles.
LEMMA ResetSlots ==
    ASSUME SlotsAndSessions, NEW c, NEW reset,
           slot' = SlotsAfterReset(c, reset) \/ slot' = slot,
           UNCHANGED <<initialized, sessions>>
    PROVE  slot' \in [Readers -> SlotRecord] /\ ConnectedIffBound' /\ SessionsUsable'
<1>t. slot \in [Readers -> SlotRecord] /\ sessions \in [Handles -> SessionRecord]
  BY DEF SlotsAndSessions, TypeOK
<1>1. slot' \in [Readers -> SlotRecord]
  BY <1>t, ZenonT(60) DEF SlotsAfterReset, SlotRecord
<1>2. \A r \in Readers : /\ slot'[r].listed = slot[r].listed
                         /\ slot'[r].card = slot[r].card
                         /\ slot'[r].bound = slot[r].bound
  BY <1>t DEF SlotsAfterReset, SlotRecord
<1>3. \A h \in Handles : sessions[h].slot \in Readers
  BY <1>t DEF SessionRecord
<1> QED BY <1>1, <1>2, <1>3 DEF SlotsAndSessions, ConnectedIffBound, SessionsUsable

\* A step of one thread that ends with right credentials and resets at most
\* handles and a card keeps what is inductive about the core.
LEMMA ApiThreadStep ==
    ASSUME RightCredentials, NEW t \in Threads, NEW w \in ThreadRecord,
           KeysFit(w), PinIsRight(w), tls' = [tls EXCEPT ![t] = w],
           card' \in [Cards -> CardRecord], \A c \in Cards : card'[c].pin = card[c].pin,
           NEW c, NEW reset, slot' = SlotsAfterReset(c, reset) \/ slot' = slot,
           UNCHANGED <<initialized, sessions, inserted>>
    PROVE  RightCredentials'
<1>t. /\ SlotsAndSessions /\ tls \in [Threads -> ThreadRecord] /\ TypeOK
      /\ \A q \in Threads : KeysFit(tls[q]) /\ PinIsRight(tls[q])
  BY DEF RightCredentials, Credentials, SlotsAndSessions, TypeOK, PinsFitKeys, CachedPinIsRight
<1>1. slot' \in [Readers -> SlotRecord] /\ ConnectedIffBound' /\ SessionsUsable'
  BY <1>t, ResetSlots
<1>2. TypeOK'
  BY <1>1, <1>t DEF TypeOK
<1>3. \A q \in Threads : tls'[q] = w \/ tls'[q] = tls[q]
  BY <1>t
<1>4. \A q \in Threads : KeysFit(tls'[q])
  BY <1>3, <1>t
<1>5. \A q \in Threads : tls'[q].pin # NoPin =>
         tls'[q].keys \in Gen2Cards /\ tls'[q].pin = card'[tls'[q].keys].pin
  BY <1>3, <1>t, CardsAssumption DEF PinIsRight
<1> QED
  BY <1>1, <1>2, <1>4, <1>5
     DEF RightCredentials, Credentials, SlotsAndSessions, PinsFitKeys, CachedPinIsRight, PinIsRight

LEMMA NoCallType == NoCall \in ApiRecord /\ NoCall.stage = "idle"
<1>1. (CHOOSE t \in Threads : TRUE) \in Threads
  BY ThreadsAssumption
<1> QED BY <1>1 DEF NoCall, ApiRecord, Calls

\* A C_* call of thread t leaves every other thread's caches alone.
LEMMA OtherThreads ==
    ASSUME TypeOK, NEW t \in Threads, NEW q \in Threads, q # t,
           \/ Initialize \/ Finalize
           \/ \E h \in Handles : SessionCall(t, h)
           \/ \E r \in Readers : SlotCall(t, r)
    PROVE  tls'[q] = tls[q]
<1>t. tls \in [Threads -> ThreadRecord]
  BY DEF TypeOK
<1>1. ASSUME UNCHANGED tls PROVE tls'[q] = tls[q]
  BY <1>1
<1>2. ASSUME NEW w, tls' = [tls EXCEPT ![t] = w] PROVE tls'[q] = tls[q]
  BY <1>2, <1>t
<1>3. ASSUME NEW r, NEW e, Touch(t, r, e) PROVE tls'[q] = tls[q]
  BY <1>2, <1>3 DEF Touch
<1>4. ASSUME NEW h, NEW x, Exchange(t, h, x) PROVE tls'[q] = tls[q]
  BY <1>2, <1>4 DEF Exchange
<1>5. ASSUME NEW r \in Readers, SlotCall(t, r) PROVE tls'[q] = tls[q]
  BY <1>1, <1>3, <1>5 DEF SlotCall, GetTokenInfo, OpenSession, CloseAllSessions
<1>6. ASSUME NEW h \in Handles, SessionCall(t, h) PROVE tls'[q] = tls[q]
  <2>1. ASSUME NEW p, NEW f, NEW direct, Login(t, h, p, f, direct) PROVE tls'[q] = tls[q]
    BY <1>4, <2>1 DEF Login
  <2>2. ASSUME NEW f, NEW direct, Sign(t, h, f, direct) PROVE tls'[q] = tls[q]
    BY <1>4, <2>2 DEF Sign
  <2>3. ASSUME NEW f, NEW direct, NEW fits, Decrypt(t, h, f, direct, fits) PROVE tls'[q] = tls[q]
    BY <1>4, <2>3 DEF Decrypt
  <2>4. CASE Logout(t, h)
    BY <1>2, <2>4 DEF Logout
  <2>5. CASE EncryptInit(t, h)
    BY <1>3, <2>5 DEF EncryptInit
  <2>6. CASE \/ CloseSession(h) \/ SignInit(h) \/ SignFails(h)
             \/ DecryptInit(h) \/ DecryptWithoutCard(h)
    BY <1>1, <2>6 DEF CloseSession, SignInit, SignFails, DecryptInit, DecryptWithoutCard
  <2> QED BY <1>6, <2>1, <2>2, <2>3, <2>4, <2>5, <2>6 DEF SessionCall
<1> QED BY <1>1, <1>5, <1>6 DEF Initialize, Finalize

-----------------------------------------------------------------------------
(* The Rust API beside the core: what is inductive. *)

\* From the moment a call has bound a card, its thread has that card's profile.
ProfileFits ==
    api.stage \in {"login", "operate"} =>
        api.card \in Cards /\ tls[Me].profile = Gen(api.card)

ApiCredentials ==
    RightCredentials /\ api \in ApiRecord /\ ProfileFits /\ OperationUsesTheTypedPin

\* What the proofs below keep needing of the state.
LEMMA ApiFacts ==
    ASSUME ApiCredentials
    PROVE  /\ RightCredentials /\ Credentials /\ SlotsAndSessions /\ TypeOK
           /\ tls \in [Threads -> ThreadRecord] /\ card \in [Cards -> CardRecord]
           /\ inserted \in [Readers -> Cards \cup {NoCard}]
           /\ api \in ApiRecord /\ Me \in Threads /\ tls[Me] \in ThreadRecord
           /\ \A t \in Threads : KeysFit(tls[t]) /\ PinIsRight(tls[t])
  BY DEF ApiCredentials, RightCredentials, Credentials, SlotsAndSessions, TypeOK, PinsFitKeys,
         CachedPinIsRight, ApiRecord, Me

\* Between calls and while readers are tried nothing is claimed of the call.
LEMMA NoClaim ==
    ASSUME RightCredentials', api' \in ApiRecord, api'.stage \notin {"login", "operate"}
    PROVE  ApiCredentials'
  BY DEF ApiCredentials, ProfileFits, OperationUsesTheTypedPin, ApiTypeOK, RightCredentials,
         Credentials, SlotsAndSessions

\* A call that returns leaves right credentials behind it.
LEMMA ReturnKeeps ==
    ASSUME ApiCredentials, NEW cards \in [Cards -> CardRecord],
           \A c \in Cards : cards[c].pin = card[c].pin,
           NEW w \in ThreadRecord, KeysFit(w), PinIsRight(w), Return(cards, w)
    PROVE  ApiCredentials'
<1>1. PICK reset : /\ slot' = SlotsAfterReset(api.card, reset)
                   /\ card' = CardsAfterReset(cards, api.card, reset)
                   /\ tls' = [tls EXCEPT ![Me] = w] /\ api' = NoCall
                   /\ UNCHANGED <<initialized, sessions, inserted>>
  BY DEF Return
<1>2. card' \in [Cards -> CardRecord] /\ \A c \in Cards : card'[c].pin = card[c].pin
  BY <1>1, ResetCards
<1>3. RightCredentials'
  BY <1>1, <1>2, ApiFacts, ApiThreadStep
<1> QED BY <1>1, <1>3, NoCallType, NoClaim

\* The record that stands for the call's handle.
LEMMA ConnType ==
    ASSUME ApiCredentials, api.stage \in {"login", "operate"}
    PROVE  /\ Conn \in SlotRecord /\ Conn.card = api.card /\ Conn.live = api.live
           /\ api.card \in Cards /\ tls[Me].profile = Gen(api.card)
  BY DEF ApiCredentials, ApiRecord, ProfileFits, Conn, SlotRecord

\* verify_pin on a card of the thread's profile keeps the profile.
LEMMA VerifyPinProfile ==
    ASSUME NEW tl \in ThreadRecord, NEW s, NEW p, NEW f, NEW direct, tl.profile = Gen(s.card)
    PROVE  VerifyPin(tl, s, p, f, direct).tl.profile = Gen(s.card)
<1>1. CASE tl.profile = "Gen1"
  <2>1. SelectKeyEf(tl, s, direct).profile = Gen(s.card)
    BY DEF SelectKeyEf, SetProfile, ThreadRecord
  <2> QED BY <1>1, <2>1 DEF VerifyPin, Gen1VerifyPin
<1>2. CASE tl.profile # "Gen1"
  <2> DEFINE tl0 == [tl EXCEPT !.scp = NoCard, !.pin = NoPin, !.pinOf = NoCard]
             tl1 == DiverseKeys(tl0, s, f)
             tl2 == [tl1 EXCEPT !.scp = s.card, !.pin = p, !.pinOf = s.card]
  <2>1. tl0.profile = tl.profile /\ [tl0 EXCEPT !.keys = s.card].profile = tl.profile
    BY DEF ThreadRecord
  <2>2. tl1 = tl0 \/ tl1 = [tl0 EXCEPT !.keys = s.card]
    BY DEF DiverseKeys
  <2>3. tl1.profile = tl.profile
    <3> HIDE DEF tl1, tl0
    <3> QED BY <2>1, <2>2
  <2>4. tl2.profile = tl1.profile
    <3>1. tl1 \in [{"profile", "claLocked", "pin", "pinOf", "keys", "scp"} ->
                     {tl1[i] : i \in {"profile", "claLocked", "pin", "pinOf", "keys", "scp"}}]
      BY DEF DiverseKeys, ThreadRecord
    <3> HIDE DEF tl1
    <3> QED BY <3>1
  <2>5. VerifyPin(tl, s, p, f, direct).tl \in {tl1, tl2}
    BY <1>2 DEF VerifyPin, Gen2VerifyPin
  <2> HIDE DEF tl1, tl2
  <2> QED BY <2>3, <2>4, <2>5
<1> QED BY <1>1, <1>2

\* The credentials verify_pin leaves are right again.
LEMMA VerifyPinRight ==
    ASSUME TypeOK, NEW tl \in ThreadRecord, KeysFit(tl), PinIsRight(tl), NEW s \in SlotRecord,
           s.card \in Cards, NEW p \in Pins, NEW f, NEW direct
    PROVE  LET w == VerifyPin(tl, s, p, f, direct).tl IN KeysFit(w) /\ PinIsRight(w)
<1> DEFINE w == VerifyPin(tl, s, p, f, direct).tl
<1>1. /\ KeysFit(w)
      /\ \/ w.pin = NoPin
         \/ w.pin = tl.pin /\ w.keys = tl.keys
         \/ w.pin = p /\ w.keys = s.card /\ p = card[s.card].pin
  BY VerifyPinCredentials
<1> HIDE DEF w
<1>2. KeysFit(w) /\ PinIsRight(w)
  BY <1>1 DEF KeysFit, PinIsRight
<1> QED BY <1>2 DEF w

LEMMA RsaPrivateRight ==
    ASSUME TypeOK, NEW tl \in ThreadRecord, KeysFit(tl), PinIsRight(tl), NEW s \in SlotRecord,
           s.card \in Cards, NEW f, NEW direct
    PROVE  LET w == RsaPrivate(tl, s, f, direct).tl IN KeysFit(w) /\ PinIsRight(w)
<1> DEFINE w == RsaPrivate(tl, s, f, direct).tl
<1>1. KeysFit(w) /\ w.pin = tl.pin /\ (tl.pin # NoPin => w.keys = tl.keys)
  BY RsaPrivateCredentials
<1> HIDE DEF w
<1>2. KeysFit(w) /\ PinIsRight(w)
  BY <1>1 DEF PinIsRight
<1> QED BY <1>2 DEF w

\* login of the API keeps all of it, and gets to the private operation with
\* the card's own PIN only.
LEMMA ApiLoginKeeps ==
    ASSUME ApiCredentials, NEW f, NEW direct, ApiLogin(f, direct)
    PROVE  ApiCredentials'
<1> DEFINE x == VerifyPin(tls[Me], Conn, api.pin, f, direct)
           cards == [card EXCEPT ![api.card] = x.card]
<1>0. api.stage = "login"
  BY DEF ApiLogin
<1>1. /\ Conn \in SlotRecord /\ Conn.card = api.card
      /\ api.card \in Cards /\ tls[Me].profile = Gen(api.card)
  BY <1>0, ConnType
<1>2. CASE api.pin = NoPin
  <2>1. Return(card, tls[Me])
    BY <1>2 DEF ApiLogin
  <2> QED BY <2>1, ApiFacts, ReturnKeeps
<1>3. CASE api.pin # NoPin
  <2>1. api.pin \in Pins
    BY <1>3, ApiFacts DEF ApiRecord
  <2>2. x.tl \in ThreadRecord /\ x.card \in CardRecord /\ x.card.pin = card[api.card].pin
    BY <1>1, <2>1, ApiFacts, VerifyPinType
  <2>3. KeysFit(x.tl) /\ PinIsRight(x.tl)
    BY <1>1, <2>1, ApiFacts, VerifyPinRight
  <2>4. x.tl.profile = Gen(api.card)
    BY <1>1, ApiFacts, VerifyPinProfile
  <2>5. x.rv = "Ok" =>
          /\ api.pin = card[api.card].pin
          /\ api.card \in Gen2Cards => x.tl.keys = api.card /\ x.tl.pin = api.pin
    BY <1>1, <2>1, ApiFacts, VerifyPinOk
  <2>6. \/ Return(cards, x.tl)
        \/ /\ x.rv = "Ok" /\ tls' = [tls EXCEPT ![Me] = x.tl] /\ card' = cards
           /\ api' = [api EXCEPT !.stage = "operate"]
           /\ UNCHANGED <<initialized, slot, sessions, inserted>>
    BY <1>3 DEF ApiLogin, Accepted
  <2> HIDE DEF x
  <2>7. cards \in [Cards -> CardRecord] /\ \A c \in Cards : cards[c].pin = card[c].pin
    BY <2>2, ApiFacts
  <2>8. CASE Return(cards, x.tl)
    BY <2>2, <2>3, <2>7, <2>8, ReturnKeeps
  <2>9. CASE /\ x.rv = "Ok" /\ tls' = [tls EXCEPT ![Me] = x.tl] /\ card' = cards
             /\ api' = [api EXCEPT !.stage = "operate"]
             /\ UNCHANGED <<initialized, slot, sessions, inserted>>
    <3>1. RightCredentials'
      BY <2>2, <2>3, <2>7, <2>9, ApiFacts, ApiThreadStep
    <3>2. /\ api' \in ApiRecord /\ Me' = Me /\ api'.card = api.card /\ api'.pin = api.pin
          /\ api'.stage = "operate"
      BY <2>9, ApiFacts DEF ApiRecord, Me
    <3>3. tls'[Me] = x.tl /\ card'[api.card].pin = card[api.card].pin
      BY <1>1, <2>7, <2>9, ApiFacts
    <3>4. ProfileFits'
      BY <1>1, <2>4, <3>2, <3>3 DEF ProfileFits
    <3>5. OperationUsesTheTypedPin'
      <4>1. TypeOK'
        BY <3>1 DEF RightCredentials, Credentials, SlotsAndSessions
      <4>2. api.card \in Gen2Cards => x.tl.profile = "Gen2"
        BY <2>4 DEF Gen
      <4> QED BY <2>5, <2>9, <3>2, <3>3, <4>1, <4>2 DEF OperationUsesTheTypedPin, ApiTypeOK
    <3> QED BY <3>1, <3>2, <3>4, <3>5 DEF ApiCredentials
  <2> HIDE DEF cards
  <2> QED BY <2>6, <2>8, <2>9
<1> QED BY <1>2, <1>3

\* So does the private operation.
LEMMA ApiOperateKeeps ==
    ASSUME ApiCredentials, NEW f, NEW direct, NEW done, ApiOperate(f, direct, done)
    PROVE  ApiCredentials'
<1> DEFINE x == RsaPrivate(tls[Me], Conn, f, direct)
           cards == [card EXCEPT ![api.card] = x.card]
           w == IF done THEN Cleared(x.tl) ELSE x.tl
<1>0. api.stage = "operate" /\ Return(cards, w)
  BY DEF ApiOperate
<1>1. Conn \in SlotRecord /\ Conn.card = api.card /\ api.card \in Cards
  BY <1>0, ConnType
<1>2. x.tl \in ThreadRecord /\ x.card \in CardRecord /\ x.card.pin = card[api.card].pin
  BY <1>1, ApiFacts, RsaPrivateType
<1>3. KeysFit(x.tl) /\ PinIsRight(x.tl)
  BY <1>1, ApiFacts, RsaPrivateRight
<1> HIDE DEF x
<1>4. cards \in [Cards -> CardRecord] /\ \A c \in Cards : cards[c].pin = card[c].pin
  BY <1>2, ApiFacts
<1>5. w \in ThreadRecord /\ KeysFit(w) /\ PinIsRight(w)
  BY <1>2, <1>3, ClearedCredentials
<1> HIDE DEF cards, w
<1> QED BY <1>0, <1>4, <1>5, ReturnKeeps

\* While readers are tried, and between calls, only profile and handles move.
LEMMA ApiReadersKeep ==
    ASSUME ApiCredentials, NEW r \in Readers,
           \/ ApiConnectFails(r) \/ ApiBinds(r)
           \/ \E recognized \in BOOLEAN : ApiLooks(r, recognized)
    PROVE  ApiCredentials'
<1>a. /\ api.stage = "bind" /\ api \in ApiRecord /\ Me \in Threads
      /\ [api EXCEPT !.todo = @ \ {r}] \in ApiRecord
      /\ [api EXCEPT !.todo = @ \ {r}].stage = "bind"
  BY ApiFacts DEF ApiConnectFails, ApiBinds, ApiLooks, ApiRecord
<1>b. NextReader(r) => api' \in ApiRecord /\ api'.stage \in {"idle", "bind"}
  BY <1>a, NoCallType DEF NextReader
<1>c. SameCredentials(tls[Me], TriedProfile(tls[Me]))
  BY ApiFacts, TriedKeepsCredentials
<1>d. \A c : /\ SameCredentials(tls[Me], SetProfile(TriedProfile(tls[Me]), Gen(c)))
             /\ SetProfile(TriedProfile(tls[Me]), Gen(c)).profile = Gen(c)
  BY <1>c, ProfileKeepsCredentials DEF SameCredentials, Gen
<1>e. ASSUME NEW w, SameCredentials(tls[Me], w)
      PROVE  w \in ThreadRecord /\ KeysFit(w) /\ PinIsRight(w)
  BY <1>e, ApiFacts DEF SameCredentials, KeysFit, PinIsRight
<1>1. CASE ApiConnectFails(r)
  <2>1. /\ tls' = [tls EXCEPT ![Me] = TriedProfile(tls[Me])] /\ NextReader(r)
        /\ slot' = slot /\ card' = card /\ UNCHANGED <<initialized, sessions, inserted>>
    BY <1>1 DEF ApiConnectFails
  <2>2. RightCredentials'
    BY <1>c, <1>e, <2>1, ApiFacts, ApiThreadStep
  <2> QED BY <1>b, <2>1, <2>2, NoClaim
<1>2. ASSUME NEW recognized \in BOOLEAN, ApiLooks(r, recognized) PROVE ApiCredentials'
  <2> DEFINE tl == TriedProfile(tls[Me])
             w  == IF recognized THEN SetProfile(tl, Gen(inserted[r])) ELSE tl
  <2>1. /\ tls' = [tls EXCEPT ![Me] = w] /\ slot' = SlotsAfterReset(inserted[r], TRUE)
        /\ card' = CardsAfterReset(card, inserted[r], TRUE)
        /\ UNCHANGED <<initialized, sessions, inserted>>
        /\ api' = NoCall \/ NextReader(r)
    BY <1>2 DEF ApiLooks
  <2>2. w \in ThreadRecord /\ KeysFit(w) /\ PinIsRight(w)
    BY <1>c, <1>d, <1>e
  <2> HIDE DEF w
  <2>3. card' \in [Cards -> CardRecord] /\ \A c \in Cards : card'[c].pin = card[c].pin
    <3> DEFINE reset == CardsAfterReset(card, inserted[r], TRUE)
    <3>1. card \in [Cards -> CardRecord]
      BY ApiFacts
    <3>2. reset \in [Cards -> CardRecord] /\ \A c \in Cards : reset[c].pin = card[c].pin
      BY <3>1 DEF CardsAfterReset, CardRecord
    <3> QED BY <2>1, <3>2
  <2>4. RightCredentials'
    BY <2>1, <2>2, <2>3, ApiFacts, ApiThreadStep
  <2> QED BY <1>b, <2>1, <2>4, NoCallType, NoClaim
<1>3. CASE ApiBinds(r)
  <2> DEFINE c == inserted[r]
             w == SetProfile(TriedProfile(tls[Me]), Gen(c))
  <2>1. /\ tls' = [tls EXCEPT ![Me] = w] /\ slot' = slot /\ card' = card
        /\ UNCHANGED <<initialized, sessions, inserted>>
        /\ api' = [api EXCEPT !.stage = "login", !.todo = {}, !.card = c, !.live = TRUE]
        /\ c \in Cards
    BY <1>3, ApiFacts DEF ApiBinds
  <2>2. w \in ThreadRecord /\ KeysFit(w) /\ PinIsRight(w) /\ w.profile = Gen(c)
    BY <1>d, <1>e
  <2> HIDE DEF w, c
  <2>3. RightCredentials'
    BY <2>1, <2>2, ApiFacts, ApiThreadStep
  <2>4. api' \in ApiRecord /\ api'.stage = "login" /\ api'.card = c /\ Me' = Me
    BY <1>a, <2>1 DEF ApiRecord, Me
  <2>5. ProfileFits'
    BY <2>1, <2>2, <2>4, ApiFacts DEF ProfileFits
  <2>6. OperationUsesTheTypedPin'
    BY <2>3, <2>4 DEF OperationUsesTheTypedPin, ApiTypeOK, RightCredentials, Credentials,
                      SlotsAndSessions
  <2> QED BY <2>3, <2>4, <2>5, <2>6 DEF ApiCredentials
<1> QED BY <1>1, <1>2, <1>3

\* What everybody else does to the call that is under way: it may lose its
\* handle, and neither its thread's caches nor a PIN move.
LEMMA OthersKeepCall ==
    ASSUME ApiCredentials, RightCredentials', \A c \in Cards : card'[c].pin = card[c].pin,
           NEW live \in BOOLEAN, api' = [api EXCEPT !.live = live],
           api.stage # "idle" => tls'[Me] = tls[Me]
    PROVE  ApiCredentials'
<1>1. /\ api' \in ApiRecord /\ api'.stage = api.stage /\ api'.card = api.card
      /\ api'.pin = api.pin /\ Me' = Me
  BY ApiFacts DEF ApiRecord, Me
<1>2. TypeOK'
  BY DEF RightCredentials, Credentials, SlotsAndSessions
<1>3. CASE api.stage \in {"login", "operate"}
  <2>1. api.card \in Cards /\ tls'[Me] = tls[Me]
    BY <1>3, ConnType
  <2>2. ProfileFits'
    BY <1>1, <2>1, <1>3 DEF ApiCredentials, ProfileFits
  <2>3. OperationUsesTheTypedPin'
    BY <1>1, <1>2, <2>1 DEF ApiCredentials, OperationUsesTheTypedPin, ApiTypeOK
  <2> QED BY <1>1, <2>2, <2>3 DEF ApiCredentials
<1>4. CASE api.stage \notin {"login", "operate"}
  BY <1>1, <1>4, NoClaim
<1> QED BY <1>3, <1>4

\* The call a step of the core stands for.
LEMMA CoreStepCall ==
    ASSUME CoreStep
    PROVE  \E t \in Free : \/ Initialize \/ Finalize
                           \/ \E h \in Handles : SessionCall(t, h)
                           \/ \E r \in Readers : SlotCall(t, r)
  BY Zenon DEF CoreStep

\* A step of the core is one whatever the API does.
LEMMA CoreStepIsNext ==
    ASSUME CoreStep \/ WorldStep
    PROVE  Next
  BY DEF CoreStep, WorldStep, Free, Next

\* Every step of the API, the core and the world keeps right credentials, and
\* those of the call that is under way.
LEMMA ApiInvariant ==
    ASSUME PinChanges = FALSE
    PROVE  ApiCredentials /\ [ApiNext]_apiVars => ApiCredentials'
<1> SUFFICES ASSUME ApiCredentials, [ApiNext]_apiVars PROVE ApiCredentials'
  OBVIOUS
<1>1. CASE UNCHANGED apiVars
  <2>1. UNCHANGED <<initialized, slot, sessions, tls, inserted, card, api>>
    BY <1>1 DEF apiVars, vars
  <2> QED
    BY <2>1 DEF ApiCredentials, RightCredentials, Credentials, SlotsAndSessions, TypeOK,
          ConnectedIffBound, SessionsUsable, PinsFitKeys, CachedPinIsRight, PinIsRight,
          ProfileFits, OperationUsesTheTypedPin, ApiTypeOK, Me
<1>2. ASSUME Next
      PROVE  RightCredentials' /\ \A c \in Cards : card'[c].pin = card[c].pin
  BY <1>2, ApiFacts, RightCredentialsInvariant, NextMovesCredentials DEF CredentialsStep
<1>3. CASE CoreStep
  <2>1. RightCredentials' /\ \A c \in Cards : card'[c].pin = card[c].pin
    BY <1>2, <1>3, CoreStepIsNext
  <2>2. api.stage # "idle" => tls'[Me] = tls[Me]
    BY <1>3, ApiFacts, OtherThreads DEF CoreStep, Free, Me
  <2>3. \E live \in BOOLEAN : api' = [api EXCEPT !.live = live]
    BY <1>3 DEF CoreStep
  <2> QED BY <2>1, <2>2, <2>3, OthersKeepCall
<1>4. CASE WorldStep
  <2>1. RightCredentials' /\ \A c \in Cards : card'[c].pin = card[c].pin
    BY <1>2, <1>4, CoreStepIsNext
  <2>2. tls' = tls
    BY <1>4 DEF WorldStep, Environment, RemoveCard, InsertCard, ChangePin
  <2>3. \E live \in BOOLEAN : api' = [api EXCEPT !.live = live]
    BY <1>4 DEF WorldStep
  <2> QED BY <2>1, <2>2, <2>3, OthersKeepCall
<1>5. ASSUME NEW t \in Free, ApiCall(t) PROVE ApiCredentials'
  <2>1. RightCredentials'
    BY <1>5, ApiFacts DEF ApiCall, vars, RightCredentials, Credentials, SlotsAndSessions, TypeOK,
          ConnectedIffBound, SessionsUsable, PinsFitKeys, CachedPinIsRight, PinIsRight
  <2>2. PICK call \in Calls, p \in Pins \cup {NoPin}, rs \in {Readers} \cup {{r} : r \in Readers} :
           api' = [NoCall EXCEPT !.thread = t, !.stage = "bind", !.call = call,
                                 !.todo = rs, !.pin = p]
    BY <1>5 DEF ApiCall
  <2>3. api' \in ApiRecord /\ api'.stage = "bind"
    BY <2>2, NoCallType DEF ApiRecord, Free
  <2> QED BY <2>1, <2>3, NoClaim
<1>6. ASSUME NEW t \in Free, NEW r \in Readers, CoreBindFails(t, r) PROVE ApiCredentials'
  <2> DEFINE w == ResetCla(tls[t])
             cards == CardsAfterReset(card, inserted[r], TRUE)
  <2>1. t \in Threads /\ (api.stage # "idle" => Me # t)
    BY DEF Free, Me
  <2>2. /\ tls' = [tls EXCEPT ![t] = w] /\ card' = cards /\ slot' = slot
        /\ UNCHANGED <<initialized, sessions, inserted>>
        /\ \E live \in BOOLEAN : api' = [api EXCEPT !.live = live]
    BY <1>6 DEF CoreBindFails
  <2>3. SameCredentials(tls[t], w)
    BY <2>1, ApiFacts, ProfileKeepsCredentials
  <2>4. w \in ThreadRecord /\ KeysFit(w) /\ PinIsRight(w)
    BY <2>1, <2>3, ApiFacts DEF SameCredentials, KeysFit, PinIsRight
  <2>5. cards \in [Cards -> CardRecord] /\ \A c \in Cards : cards[c].pin = card[c].pin
    <3>1. card \in [Cards -> CardRecord]
      BY ApiFacts
    <3> QED BY <3>1 DEF CardsAfterReset, CardRecord
  <2> HIDE DEF w, cards
  <2>6. RightCredentials'
    BY <2>1, <2>2, <2>4, <2>5, ApiFacts, ApiThreadStep
  <2>7. api.stage # "idle" => tls'[Me] = tls[Me]
    BY <2>1, <2>2, ApiFacts
  <2> QED BY <2>2, <2>5, <2>6, <2>7, OthersKeepCall
<1>7. CASE ApiNoKey
  BY <1>7, ApiFacts, ReturnKeeps DEF ApiNoKey
<1>8. CASE ApiStep
  BY <1>7, <1>8, ApiReadersKeep, ApiLoginKeeps, ApiOperateKeeps DEF ApiStep
<1> QED BY <1>1, <1>3, <1>4, <1>5, <1>6, <1>8 DEF ApiNext

LEMMA ApiCredentialsInit == ApiInit => ApiCredentials
<1> SUFFICES ASSUME ApiInit PROVE ApiCredentials
  OBVIOUS
<1>1. RightCredentials /\ TypeOK
  BY RightCredentialsInit DEF ApiInit, RightCredentials, Credentials, SlotsAndSessions
<1>2. api \in ApiRecord /\ api.stage = "idle"
  BY NoCallType DEF ApiInit
<1> QED
  BY <1>1, <1>2 DEF ApiCredentials, ProfileFits, OperationUsesTheTypedPin, ApiTypeOK

\* Whatever other threads do and earlier calls left, sign and decrypt get to
\* their private operation with the PIN of the card only, and on a Gen2 card
\* with that PIN and the card's keys in the caches of the thread.
THEOREM OperationsUseTheTypedPin ==
    ASSUME PinChanges = FALSE
    PROVE  ApiSpec => []OperationUsesTheTypedPin
<1>1. ApiCredentials => OperationUsesTheTypedPin
  BY DEF ApiCredentials
<1> QED BY <1>1, ApiCredentialsInit, ApiInvariant, PTL DEF ApiSpec

\* The API's calls and resets, which the core knows nothing of, break none of
\* what it relies on: sessions stay usable, cached PINs stay the cards'.
THEOREM CoreHoldsBesideApi ==
    ASSUME PinChanges = FALSE
    PROVE  ApiSpec => [](SessionsUsable /\ CachedPinFitsKeys /\ CachedPinIsRight)
<1>1. ApiCredentials => SessionsUsable /\ CachedPinFitsKeys /\ CachedPinIsRight
  BY DEF ApiCredentials, RightCredentials, Credentials, SlotsAndSessions, CachedPinFitsKeys
<1> QED BY <1>1, ApiCredentialsInit, ApiInvariant, PTL DEF ApiSpec

\* The right PIN is accepted on a card that answers, in a thread that does not
\* still hold another card's keys.
THEOREM RightPinsAreAccepted ==
    ASSUME PinChanges = FALSE
    PROVE  ApiSpec => RightPinIsAccepted
<1> DEFINE A == \A direct \in BOOLEAN :
                  /\ ApiLogin("none", direct)
                  /\ api.live /\ card[api.card].retries > 0 /\ api.pin = card[api.card].pin
                  /\ tls[Me].keys \in {NoCard, api.card}
                  => api'.stage = "operate"
<1>1. ApiCredentials /\ [ApiNext]_apiVars => [A]_apiVars
  <2> SUFFICES ASSUME ApiCredentials, NEW direct \in BOOLEAN, ApiLogin("none", direct), api.live,
                      card[api.card].retries > 0, api.pin = card[api.card].pin,
                      tls[Me].keys \in {NoCard, api.card}
               PROVE  api'.stage = "operate"
    OBVIOUS
  <2> DEFINE x == VerifyPin(tls[Me], Conn, api.pin, "none", direct)
             k == card[api.card]
             tl0 == [tls[Me] EXCEPT !.scp = NoCard, !.pin = NoPin, !.pinOf = NoCard]
             tl1 == DiverseKeys(tl0, Conn, "none")
  <2>0. api.stage = "login"
    BY DEF ApiLogin
  <2>1. /\ Conn \in SlotRecord /\ Conn.card = api.card /\ Conn.live
        /\ api.card \in Cards /\ tls[Me].profile = Gen(api.card)
        /\ tls[Me] \in ThreadRecord /\ k \in CardRecord /\ api \in ApiRecord
    BY <2>0, ConnType, ApiFacts
  <2>2. api.pin # NoPin
    BY <2>1, CardsAssumption DEF CardRecord
  <2>3. VerifyExchange(k, api.pin, "none").rv = "Ok"
    <3>1. k.retries # 0
      BY <2>1, RetriesAssumption DEF CardRecord
    <3> QED BY <3>1 DEF VerifyExchange, CardVerify
  <2>4. x.rv = "Ok"
    <3>1. CASE tls[Me].profile = "Gen1"
      BY <2>1, <2>3, <3>1 DEF VerifyPin, Gen1VerifyPin
    <3>2. CASE tls[Me].profile # "Gen1"
      <4>1. Gen(api.card) = "Gen2"
        BY <2>1, <3>2 DEF Gen
      <4>2. tl0.keys = tls[Me].keys /\ [tl0 EXCEPT !.keys = api.card].keys = api.card
        BY <2>1 DEF ThreadRecord
      <4>3. tl1 = IF tls[Me].keys = NoCard THEN [tl0 EXCEPT !.keys = api.card] ELSE tl0
        <5> HIDE DEF tl0
        <5> QED BY <2>1, <4>1, <4>2 DEF DiverseKeys
      <4>4. tl1.keys = api.card
        <5> HIDE DEF tl1, tl0
        <5> QED BY <4>2, <4>3
      <4>5. ChannelOpens(tl1, Conn, "none")
        <5> HIDE DEF tl1
        <5> QED BY <2>1, <4>1, <4>4 DEF ChannelOpens
      <4> QED BY <2>1, <2>3, <3>2, <4>5 DEF VerifyPin, Gen2VerifyPin
    <3> QED BY <3>1, <3>2
  <2>5. api' = [api EXCEPT !.stage = "operate"]
    <3> HIDE DEF x
    <3> QED BY <2>2, <2>4 DEF ApiLogin, Accepted, x
  <2> QED BY <2>1, <2>5 DEF ApiRecord
<1> QED
  BY <1>1, ApiCredentialsInit, ApiInvariant, PTL DEF ApiSpec, RightPinIsAccepted

\* A private-key operation leaves the profile of a thread that deals with a
\* Gen2 card alone.
LEMMA RsaPrivateProfile ==
    ASSUME NEW tl \in ThreadRecord, tl.profile = "Gen2", NEW s, NEW f, NEW direct
    PROVE  RsaPrivate(tl, s, f, direct).tl.profile = "Gen2"
<1> DEFINE x   == PrepareForPrivateOp(tl, s, f)
           tl1 == DiverseKeys(tl, s, f)
<1>1. x.tl \in {tl, [tl1 EXCEPT !.scp = NoCard], [tl1 EXCEPT !.scp = s.card]}
  BY DEF PrepareForPrivateOp
<1>2. RsaPrivate(tl, s, f, direct).tl = x.tl
  <2>1. [x EXCEPT !.rv = "Error"].tl = x.tl
    BY DEF PrepareForPrivateOp
  <2> QED BY <2>1 DEF RsaPrivate, Gen2RsaPrivate
<1>3. \A d : /\ [tl EXCEPT !.scp = d].profile = "Gen2"
             /\ [[tl EXCEPT !.keys = s.card] EXCEPT !.scp = d].profile = "Gen2"
  BY DEF ThreadRecord
<1>4. tl1 = tl \/ tl1 = [tl EXCEPT !.keys = s.card]
  BY DEF DiverseKeys
<1> HIDE DEF x, tl1
<1>5. [tl1 EXCEPT !.scp = NoCard].profile = "Gen2" /\ [tl1 EXCEPT !.scp = s.card].profile = "Gen2"
  BY <1>3, <1>4
<1>6. x.tl.profile = "Gen2"
  BY <1>1, <1>5
<1> QED BY <1>2, <1>6

\* A call that succeeds on a Gen2 card leaves no credentials in its thread.
THEOREM SuccessesLeaveNoPin ==
    ASSUME PinChanges = FALSE
    PROVE  ApiSpec => SuccessLeavesNoPin
<1> DEFINE A == \A f \in Faults, direct \in BOOLEAN :
                  ApiOperate(f, direct, TRUE) /\ api.card \in Gen2Cards =>
                    tls'[Me].pin = NoPin /\ tls'[Me].keys = NoCard /\ tls'[Me].scp = NoCard
<1>1. ApiCredentials /\ [ApiNext]_apiVars => [A]_apiVars
  <2> SUFFICES ASSUME ApiCredentials, NEW f \in Faults, NEW direct \in BOOLEAN,
                      ApiOperate(f, direct, TRUE), api.card \in Gen2Cards
               PROVE  tls'[Me].pin = NoPin /\ tls'[Me].keys = NoCard /\ tls'[Me].scp = NoCard
    OBVIOUS
  <2> DEFINE x == RsaPrivate(tls[Me], Conn, f, direct)
  <2>1. api.stage = "operate" /\ tls' = [tls EXCEPT ![Me] = Cleared(x.tl)]
    BY DEF ApiOperate, Return
  <2>2. Conn \in SlotRecord /\ tls[Me] \in ThreadRecord /\ tls[Me].profile = "Gen2"
    BY <2>1, ConnType, ApiFacts DEF Gen
  <2>3. x.tl \in ThreadRecord
    BY <2>2, ApiFacts, RsaPrivateType
  <2>4. x.tl.profile = "Gen2"
    BY <2>2, RsaPrivateProfile
  <2> HIDE DEF x
  <2>5. Cleared(x.tl) = DropCredentials(x.tl)
    BY <2>4 DEF Cleared, ClearAuthState
  <2>6. /\ DropCredentials(x.tl).pin = NoPin /\ DropCredentials(x.tl).keys = NoCard
        /\ DropCredentials(x.tl).scp = NoCard
    BY <2>3 DEF DropCredentials, ThreadRecord
  <2>7. tls'[Me] = DropCredentials(x.tl)
    BY <2>1, <2>5, ApiFacts
  <2> QED BY <2>6, <2>7
<1> QED
  BY <1>1, ApiCredentialsInit, ApiInvariant, PTL DEF ApiSpec, SuccessLeavesNoPin

-----------------------------------------------------------------------------
(* The Rust API beside the core: tries. *)

\* Returning costs no card a try that the last exchange has not cost it.
LEMMA ReturnTries ==
    ASSUME ApiCredentials, NEW cards \in [Cards -> CardRecord], NEW w, Return(cards, w),
           NEW c \in Cards,
           cards[c].retries = card[c].retries \/ cards[c].retries = MaxRetries
    PROVE  ~LosesTry(c)
<1>1. PICK reset : card' = CardsAfterReset(cards, api.card, reset)
  BY DEF Return
<1>2. card'[c].retries = cards[c].retries
  BY <1>1, ResetCards
<1> QED BY <1>2, ApiFacts, NoTryLost

\* Of the API's steps only login with a wrong PIN costs a try.
LEMMA ApiStepTries ==
    ASSUME ApiCredentials, ApiStep, NEW c \in Cards, LosesTry(c)
    PROVE  \E p \in Pins \ {card[c].pin}, f \in Faults, direct \in BOOLEAN :
              api.card = c /\ api.pin = p /\ ApiLogin(f, direct)
<1> DEFINE Goal == \E p \in Pins \ {card[c].pin}, f \in Faults, direct \in BOOLEAN :
                      api.card = c /\ api.pin = p /\ ApiLogin(f, direct)
<1>1. CASE ApiNoKey
  BY <1>1, ApiFacts, ReturnTries DEF ApiNoKey
<1>2. ASSUME NEW r \in Readers,
             \/ ApiConnectFails(r) \/ ApiBinds(r)
             \/ \E recognized \in BOOLEAN : ApiLooks(r, recognized)
      PROVE  FALSE
  <2>1. card' = card \/ card' = CardsAfterReset(card, inserted[r], TRUE)
    BY <1>2 DEF ApiConnectFails, ApiBinds, ApiLooks
  <2>2. card \in [Cards -> CardRecord]
    BY ApiFacts
  <2>3. card'[c].retries = card[c].retries
    BY <2>1, <2>2 DEF CardsAfterReset, CardRecord
  <2> QED BY <2>3, ApiFacts, NoTryLost
<1>3. ASSUME NEW f, NEW direct, NEW done, ApiOperate(f, direct, done) PROVE FALSE
  <2> DEFINE x == RsaPrivate(tls[Me], Conn, f, direct)
             cards == [card EXCEPT ![api.card] = x.card]
             w == IF done THEN Cleared(x.tl) ELSE x.tl
  <2>1. api.stage = "operate" /\ Return(cards, w)
    BY <1>3 DEF ApiOperate
  <2>2. Conn \in SlotRecord /\ Conn.card = api.card /\ api.card \in Cards
    BY <2>1, ConnType
  <2>3. x.card \in CardRecord
    BY <2>2, ApiFacts, RsaPrivateType
  <2>4. x.card.retries = card[api.card].retries \/ x.card.retries = MaxRetries
    BY <2>2, ApiFacts, RsaPrivateTries
  <2> HIDE DEF x, w
  <2>5. /\ cards \in [Cards -> CardRecord]
        /\ cards[c].retries = card[c].retries \/ cards[c].retries = MaxRetries
    BY <2>2, <2>3, <2>4, ApiFacts
  <2> HIDE DEF cards
  <2> QED BY <2>1, <2>5, ReturnTries
<1>4. ASSUME NEW f \in Faults, NEW direct \in BOOLEAN, ApiLogin(f, direct) PROVE Goal
  <2> DEFINE x == VerifyPin(tls[Me], Conn, api.pin, f, direct)
             cards == [card EXCEPT ![api.card] = x.card]
  <2>0. api.stage = "login"
    BY <1>4 DEF ApiLogin
  <2>1. Conn \in SlotRecord /\ Conn.card = api.card /\ api.card \in Cards
    BY <2>0, ConnType
  <2>2. api.pin # NoPin
    <3>1. api.pin = NoPin => Return(card, tls[Me])
      BY <1>4 DEF ApiLogin
    <3> QED BY <3>1, ApiFacts, ReturnTries
  <2>3. api.pin \in Pins
    BY <2>2, ApiFacts DEF ApiRecord
  <2>4. x.card \in CardRecord
    BY <2>1, <2>3, ApiFacts, VerifyPinType
  <2>5. api.pin = card[api.card].pin =>
           x.card.retries = card[api.card].retries \/ x.card.retries = MaxRetries
    BY <2>1, ApiFacts, VerifyPinTries, SMTT(30)
  <2>6. Return(cards, x.tl) \/ card' = cards
    BY <1>4, <2>2 DEF ApiLogin
  <2> HIDE DEF x
  <2>7. cards \in [Cards -> CardRecord]
    BY <2>4, ApiFacts
  <2>8. ASSUME cards[c].retries = card[c].retries \/ cards[c].retries = MaxRetries PROVE FALSE
    <3> HIDE DEF cards
    <3>1. CASE Return(cards, x.tl)
      BY <2>7, <2>8, <3>1, ReturnTries
    <3>2. CASE card' = cards
      BY <2>8, <3>2, ApiFacts, NoTryLost
    <3> QED BY <2>6, <3>1, <3>2
  <2>9. api.card = c /\ api.pin # card[c].pin
    <3>1. cards[c] = IF api.card = c THEN x.card ELSE card[c]
      BY <2>1, ApiFacts
    <3> HIDE DEF cards
    <3> QED BY <2>5, <2>8, <3>1
  <2> QED BY <1>4, <2>3, <2>9
<1> HIDE DEF Goal
<1>5. Goal
  BY <1>1, <1>2, <1>3, <1>4 DEF ApiStep
<1> QED BY <1>5 DEF Goal

\* A card loses a try only to a wrong PIN somebody typed for it, into C_Login
\* or into the API.
THEOREM TriesAreLostToTypedPinsOnly ==
    ASSUME PinChanges = FALSE
    PROVE  ApiSpec => TriesLostOnlyToTypedPins
<1> DEFINE Typed(c) ==
             \E p \in Pins \ {card[c].pin}, f \in Faults, direct \in BOOLEAN :
               \/ api.card = c /\ api.pin = p /\ ApiLogin(f, direct)
               \/ \E t \in Free, h \in Handles :
                     slot[sessions[h].slot].card = c /\ Login(t, h, p, f, direct)
           A == \A c \in Cards : card'[c].retries < card[c].retries => Typed(c)
<1>1. ApiCredentials /\ [ApiNext]_apiVars => [A]_apiVars
  <2> SUFFICES ASSUME ApiCredentials, [ApiNext]_apiVars, NEW c \in Cards, LosesTry(c)
               PROVE  Typed(c)
    BY DEF LosesTry
  <2>1. ASSUME UNCHANGED card PROVE FALSE
    BY <2>1, ApiFacts, NoTryLost
  <2>2. CASE CoreStep
    <3>1. PICK t \in Free : \/ Initialize \/ Finalize
                            \/ \E h \in Handles : SessionCall(t, h)
                            \/ \E r \in Readers : SlotCall(t, r)
      BY <2>2, CoreStepCall
    <3>2. t \in Threads
      BY DEF Free
    <3>3. PICK h \in Handles : SessionCall(t, h)
      BY <3>1, <3>2, ApiFacts, OtherTries
    <3>4. \E p \in Pins, f \in Faults, direct \in BOOLEAN :
             /\ slot[sessions[h].slot].card = c
             /\ p # card[c].pin
             /\ Login(t, h, p, f, direct)
      BY <3>2, <3>3, ApiFacts, SessionCallTries
    <3> QED BY <3>4
  <2>3. CASE WorldStep
    BY <2>3, ApiFacts, OtherTries DEF WorldStep
  <2>4. CASE ApiStep
    BY <2>4, ApiStepTries
  <2>5. ASSUME NEW t, NEW r, CoreBindFails(t, r) PROVE FALSE
    <3>1. card' = CardsAfterReset(card, inserted[r], TRUE) /\ card \in [Cards -> CardRecord]
      BY <2>5, ApiFacts DEF CoreBindFails
    <3>2. card'[c].retries = card[c].retries
      BY <3>1 DEF CardsAfterReset, CardRecord
    <3> QED BY <3>2, ApiFacts, NoTryLost
  <2>6. ASSUME NEW t, ApiCall(t) PROVE FALSE
    BY <2>1, <2>6 DEF ApiCall, vars
  <2>7. ~UNCHANGED apiVars
    BY <2>1 DEF apiVars, vars
  <2> HIDE DEF Typed
  <2> QED BY <2>2, <2>3, <2>4, <2>5, <2>6, <2>7 DEF ApiNext
<1> QED
  BY <1>1, ApiCredentialsInit, ApiInvariant, PTL DEF ApiSpec, TriesLostOnlyToTypedPins

-----------------------------------------------------------------------------
(* The Rust API beside the core: signing. *)

\* A good handle is one on the card that is in the reader, and a card is in one
\* reader at most.
HandlesFit ==
    /\ \A r \in Readers : slot[r].live => slot[r].card \in Cards /\ inserted[r] = slot[r].card
    /\ \A q, r \in Readers : inserted[q] \in Cards /\ inserted[q] = inserted[r] => q = r

ApiHandles == ApiCredentials /\ HandlesFit

\* ensure_card leaves a bound slot and the caches of its caller alone, and
\* opens a handle on the card in the reader only.
LEMMA EnsureCardHandle ==
    ASSUME TypeOK, ConnectedIffBound, HandlesFit, NEW tl, NEW r \in Readers,
           NEW e \in EnsureCard(tl, r)
    PROVE  /\ slot[r].bound => e.tl = tl /\ e.slot = slot[r]
           /\ e.slot.live => e.slot.card \in Cards /\ inserted[r] = e.slot.card
<1>0. slot[r] \in SlotRecord /\ inserted[r] \in Cards \cup {NoCard}
  BY DEF TypeOK
<1>1. CASE slot[r].bound
  <2>1. e = [ok |-> TRUE, tl |-> tl, slot |-> slot[r]]
    BY <1>1 DEF EnsureCard, ConnectedIffBound
  <2> QED BY <2>1 DEF HandlesFit
<1>2. CASE ~slot[r].bound
  <2> DEFINE opened == [slot[r] EXCEPT !.card = inserted[r], !.live = TRUE]
             refused == [ok |-> FALSE, tl |-> ResetCla(tl), slot |-> slot[r]]
             failed  == [ok |-> FALSE, tl |-> ResetCla(tl),
                         slot |-> [opened EXCEPT !.card = NoCard, !.live = FALSE, !.bound = FALSE]]
             done    == [ok |-> TRUE, tl |-> SetProfile(ResetCla(tl), Gen(opened.card)),
                         slot |-> [opened EXCEPT !.bound = TRUE]]
  <2>1. slot[r].card = NoCard /\ ~slot[r].live
    BY <1>2, CardsAssumption DEF ConnectedIffBound, HandlesFit
  <2>2. e = refused \/ (inserted[r] # NoCard /\ e \in Bind(ResetCla(tl), opened))
    <3>1. EnsureCard(tl, r) =
             {refused} \cup (IF inserted[r] = NoCard THEN {} ELSE Bind(ResetCla(tl), opened))
      BY <2>1 DEF EnsureCard
    <3> HIDE DEF refused, opened
    <3> QED BY <3>1
  <2>3. Bind(ResetCla(tl), opened) = {failed} \cup (IF opened.live THEN {done} ELSE {})
    BY DEF Bind
  <2>4. e = refused \/ e = failed \/ (inserted[r] # NoCard /\ e = done)
    BY <2>2, <2>3
  <2>5. ~refused.slot.live /\ failed.slot.live = FALSE /\ done.slot.card = inserted[r]
    BY <1>0, <2>1 DEF SlotRecord
  <2> HIDE DEF refused, failed, done
  <2> QED BY <1>0, <1>2, <2>4, <2>5
<1> QED BY <1>1, <1>2

\* A step that opens no handle and moves no card keeps them fitting.
LEMMA NoHandleOpened ==
    ASSUME HandlesFit, UNCHANGED inserted,
           \A r \in Readers : slot'[r].live => slot[r].live /\ slot'[r].card = slot[r].card
    PROVE  HandlesFit'
  BY DEF HandlesFit

LEMMA ResetOpensNone ==
    ASSUME TypeOK, NEW c, NEW reset, slot' = SlotsAfterReset(c, reset)
    PROVE  \A r \in Readers :
              /\ slot'[r].card = slot[r].card
              /\ slot'[r].live => slot[r].live
              /\ slot'[r].live /\ reset => slot[r].card # c
  BY DEF SlotsAfterReset, TypeOK, SlotRecord

LEMMA HandlesStep ==
    ASSUME ApiHandles, [ApiNext]_apiVars
    PROVE  HandlesFit'
<1>t. /\ HandlesFit /\ TypeOK /\ ConnectedIffBound /\ slot \in [Readers -> SlotRecord]
      /\ sessions \in [Handles -> SessionRecord] /\ inserted \in [Readers -> Cards \cup {NoCard}]
  BY ApiFacts DEF ApiHandles, SlotsAndSessions, TypeOK
<1>1. ASSUME UNCHANGED <<slot, inserted>> PROVE HandlesFit'
  BY <1>1, <1>t, NoHandleOpened
<1>2. ASSUME NEW c, NEW reset, slot' = SlotsAfterReset(c, reset), UNCHANGED inserted
      PROVE  HandlesFit'
  BY <1>2, <1>t, ResetOpensNone, NoHandleOpened
<1>3. ASSUME NEW t \in Threads, NEW r \in Readers, NEW e \in EnsureCard(tls[t], r), Touch(t, r, e)
      PROVE  HandlesFit'
  <2>1. e.slot.live => e.slot.card \in Cards /\ inserted[r] = e.slot.card
    BY <1>t, EnsureCardHandle
  <2>2. slot' = [slot EXCEPT ![r] = e.slot] /\ inserted' = inserted
    BY <1>3 DEF Touch
  <2> QED BY <1>t, <2>1, <2>2 DEF HandlesFit
<1>4. CASE CoreStep
  <2>1. PICK t \in Threads : \/ Initialize \/ Finalize
                             \/ \E h \in Handles : SessionCall(t, h)
                             \/ \E r \in Readers : SlotCall(t, r)
    BY <1>4, CoreStepCall DEF Free
  <2>2. CASE Initialize \/ Finalize
    <3>1. inserted' = inserted /\ \A r \in Readers : ~slot'[r].live
      BY <2>2 DEF Initialize, Finalize, UnlistedSlot
    <3> QED BY <1>t, <3>1, NoHandleOpened
  <2>3. ASSUME NEW h \in Handles, SessionCall(t, h) PROVE HandlesFit'
    <3>1. sessions[h].slot \in Readers
      BY <1>t DEF SessionRecord
    <3>2. CASE EncryptInit(t, h)
      BY <1>3, <3>1, <3>2 DEF EncryptInit
    <3>3. CASE ~EncryptInit(t, h)
      <4>1. UNCHANGED <<slot, inserted>>
        BY <2>3, <3>3 DEF SessionCall, CloseSession, Logout, SignInit, SignFails, DecryptInit,
              DecryptWithoutCard, Login, Sign, Decrypt, Exchange
      <4> QED BY <1>1, <4>1
    <3> QED BY <3>2, <3>3
  <2>4. ASSUME NEW r \in Readers, SlotCall(t, r) PROVE HandlesFit'
    BY <1>1, <1>3, <2>4 DEF SlotCall, GetTokenInfo, OpenSession, CloseAllSessions
  <2> QED BY <2>1, <2>2, <2>3, <2>4
<1>5. CASE WorldStep
  <2>1. ASSUME NEW r \in Readers, RemoveCard(r) PROVE HandlesFit'
    <3>1. slot' = [slot EXCEPT ![r].live = FALSE] /\ inserted' = [inserted EXCEPT ![r] = NoCard]
      BY <2>1 DEF RemoveCard
    <3>2. \A q \in Readers : slot'[q].live => slot'[q] = slot[q] /\ q # r
      BY <1>t, <3>1 DEF SlotRecord
    <3> QED BY <1>t, <3>1, <3>2, CardsAssumption DEF HandlesFit
  <2>2. ASSUME NEW r \in Readers, NEW c \in Cards, InsertCard(r, c) PROVE HandlesFit'
    BY <1>t, <2>2, CardsAssumption DEF HandlesFit, InsertCard
  <2>3. ASSUME NEW c \in Cards, NEW p \in Pins, ChangePin(c, p) PROVE HandlesFit'
    BY <1>1, <2>3 DEF ChangePin
  <2> QED BY <1>5, <2>1, <2>2, <2>3 DEF WorldStep, Environment
<1>6. ASSUME NEW cards, NEW w, Return(cards, w) PROVE HandlesFit'
  BY <1>2, <1>6 DEF Return
<1>7. ASSUME NEW r \in Readers,
             \/ ApiConnectFails(r) \/ ApiBinds(r)
             \/ \E recognized \in BOOLEAN : ApiLooks(r, recognized)
      PROVE  HandlesFit'
  BY <1>1, <1>2, <1>7 DEF ApiConnectFails, ApiBinds, ApiLooks
<1>8. ASSUME NEW f, NEW direct, ApiLogin(f, direct) PROVE HandlesFit'
  BY <1>1, <1>6, <1>8 DEF ApiLogin
<1>9. CASE ApiStep
  BY <1>6, <1>7, <1>8, <1>9 DEF ApiStep, ApiNoKey, ApiOperate
<1>10. CASE \/ UNCHANGED apiVars
            \/ \E t \in Free : ApiCall(t) \/ \E r \in Readers : CoreBindFails(t, r)
  BY <1>1, <1>10 DEF apiVars, vars, ApiCall, CoreBindFails
<1> QED BY <1>4, <1>5, <1>9, <1>10 DEF ApiNext

LEMMA ApiHandlesInvariant ==
    ASSUME PinChanges = FALSE
    PROVE  ApiHandles /\ [ApiNext]_apiVars => ApiHandles'
  BY HandlesStep, ApiInvariant DEF ApiHandles

LEMMA ApiHandlesInit == ApiInit => ApiHandles
<1> SUFFICES ASSUME ApiInit PROVE HandlesFit
  BY ApiCredentialsInit DEF ApiHandles
<1> QED BY CardsAssumption DEF ApiInit, Init, HandlesFit, UnlistedSlot

\* Thread-local state tl is fit to sign with card c, whose record is k.
Ready(tl, c, k) ==
    IF tl.profile = "Gen1" THEN c \notin Gen2Cards /\ k.verified = TRUE
                           ELSE /\ c \in Gen2Cards /\ k.retries > 0
                                /\ tl.pin = k.pin /\ tl.keys = c

LEMMA RsaPrivateReady ==
    ASSUME TypeOK, NEW tl \in ThreadRecord, KeysFit(tl), NEW s \in SlotRecord, s.card \in Cards,
           s.live, NEW direct
    PROVE  RsaPrivate(tl, s, "none", direct).rv = "Ok" <=> Ready(tl, s.card, card[s.card])
<1> DEFINE k == card[s.card]
<1>0. k \in CardRecord /\ k.pin # NoPin /\ k.verified \in BOOLEAN
  BY CardsAssumption DEF TypeOK, CardRecord
<1>1. CASE tl.profile = "Gen1"
  BY <1>0, <1>1 DEF RsaPrivate, Gen1RsaPrivate, Gen, Ready
<1>2. CASE tl.profile # "Gen1"
  <2> DEFINE x   == PrepareForPrivateOp(tl, s, "none")
             tl1 == DiverseKeys(tl, s, "none")
             v   == VerifyExchange(k, tl.pin, "none")
  <2>1. RsaPrivate(tl, s, "none", direct).rv = x.rv
    BY <1>2 DEF RsaPrivate, Gen2RsaPrivate
  <2>2. CASE tl.pin = NoPin
    <3>1. x.rv = "Error"
      BY <2>2 DEF PrepareForPrivateOp
    <3> QED BY <1>0, <1>2, <2>1, <2>2, <3>1 DEF Ready
  <2>3. CASE tl.pin # NoPin
    <3>1. tl.keys \in Gen2Cards /\ tl.keys # NoCard
      BY <2>3, CardsAssumption DEF KeysFit
    <3>2. tl1 = tl
      BY <3>1 DEF DiverseKeys
    <3>3. CASE ~ChannelOpens(tl, s, "none")
      <4>1. x.rv = "Error"
        BY <2>3, <3>1, <3>2, <3>3 DEF PrepareForPrivateOp
      <4>2. ~(s.card \in Gen2Cards /\ tl.keys = s.card)
        BY <3>3 DEF ChannelOpens, Gen
      <4> QED BY <1>2, <2>1, <4>1, <4>2 DEF Ready
    <3>4. CASE ChannelOpens(tl, s, "none")
      <4>1. x.rv = v.rv
        BY <2>3, <3>1, <3>2, <3>4 DEF PrepareForPrivateOp
      <4>2. s.card \in Gen2Cards /\ tl.keys = s.card
        BY <3>4 DEF ChannelOpens, Gen
      <4>3. v.rv = "Ok" <=> k.retries # 0 /\ tl.pin = k.pin
        BY DEF VerifyExchange, CardVerify
      <4>4. k.retries # 0 <=> k.retries > 0
        BY <1>0, RetriesAssumption DEF CardRecord
      <4> HIDE DEF x, v, k
      <4>5. x.rv = "Ok" <=> Ready(tl, s.card, k)
        BY <1>2, <4>1, <4>2, <4>3, <4>4 DEF Ready
      <4> QED BY <2>1, <4>5 DEF k
    <3> QED BY <3>3, <3>4
  <2> QED BY <2>2, <2>3
<1> QED BY <1>1, <1>2

\* What it takes to sign, without the exchange itself.
SignReady(t, h) ==
    /\ sessions[h].inUse /\ sessions[h].loggedIn /\ slot[sessions[h].slot].live
    /\ Ready(tls[t], slot[sessions[h].slot].card, card[slot[sessions[h].slot].card])

LEMMA CanSignMeans ==
    ApiHandles => \A t \in Threads, h \in Handles : CanSign(t, h) <=> SignReady(t, h)
<1> SUFFICES ASSUME ApiHandles, NEW t \in Threads, NEW h \in Handles, sessions[h].inUse,
                    slot[sessions[h].slot].live
             PROVE  CanSign(t, h) <=> SignReady(t, h)
  BY DEF CanSign, SignReady
<1> DEFINE s == slot[sessions[h].slot]
<1>1. ApiCredentials
  BY DEF ApiHandles
<1>2. s \in SlotRecord /\ s.card \in Cards
  BY <1>1, ApiFacts, OpenSessionCard
<1>3. \A direct \in BOOLEAN :
         RsaPrivate(tls[t], s, "none", direct).rv = "Ok" <=> Ready(tls[t], s.card, card[s.card])
  BY <1>1, <1>2, ApiFacts, RsaPrivateReady
<1>4. (\A direct \in BOOLEAN : RsaPrivate(tls[t], s, "none", direct).rv = "Ok")
         <=> Ready(tls[t], s.card, card[s.card])
  BY <1>3
<1> QED BY <1>4 DEF CanSign, SignReady

LEMMA CanSignMeansNext ==
    ApiHandles' => (\A t \in Threads, h \in Handles : CanSign(t, h) <=> SignReady(t, h))'
  BY CanSignMeans, PTL

\* The record of a card that has lost no try and no security status.
CardKept(k, n) == n.pin = k.pin /\ n.retries >= k.retries /\ (k.verified => n.verified)

\* A VERIFY that costs no try leaves the security status, if it was there.
LEMMA VerifyExchangeKeeps ==
    ASSUME NEW k \in CardRecord, NEW p, NEW f,
           VerifyExchange(k, p, f).card.retries >= k.retries
    PROVE  CardKept(k, VerifyExchange(k, p, f).card)
<1>0. k.retries \in Nat /\ VerifyExchange(k, p, f).card.pin = k.pin
  BY VerifyExchangeType, RetriesAssumption DEF CardRecord
<1> DEFINE v == VerifyExchange(k, p, f).card
           right == [k EXCEPT !.retries = MaxRetries, !.verified = TRUE]
           less  == [k EXCEPT !.retries = @ - 1, !.verified = FALSE]
<1>1. v = k \/ v = right \/ v = less
  BY DEF VerifyExchange, CardVerify
<1>2. right.verified = TRUE /\ less.retries = k.retries - 1
  BY DEF CardRecord
<1>3. v.retries >= k.retries /\ v.pin = k.pin
  BY <1>0
<1> HIDE DEF v, right, less
<1>4. k.verified => v.verified
  BY <1>0, <1>1, <1>2, <1>3
<1>5. CardKept(k, v)
  BY <1>3, <1>4 DEF CardKept
<1> QED BY <1>5 DEF v

\* A card behind a good handle that stays good keeps its record unless it
\* loses a try.
LEMMA CardStays ==
    ASSUME PinChanges = FALSE, ApiHandles, [ApiNext]_apiVars,
           NEW r \in Readers, slot[r].live, slot'[r].live,
           ~LosesTry(slot[r].card)
    PROVE  CardKept(card[slot[r].card], card'[slot[r].card])
<1> DEFINE c    == slot[r].card
           Kept == CardKept(card[c], card'[c])
<1>t. /\ ApiCredentials /\ HandlesFit /\ TypeOK
      /\ card \in [Cards -> CardRecord] /\ slot \in [Readers -> SlotRecord]
  BY ApiFacts DEF ApiHandles, TypeOK
<1>c. c \in Cards /\ inserted[r] = c /\ c # NoCard
  BY <1>t, CardsAssumption DEF HandlesFit
<1>n. card[c] \in CardRecord /\ card[c].retries \in Nat
  BY <1>c, <1>t, RetriesAssumption DEF CardRecord
<1> SUFFICES Kept
  OBVIOUS
<1> HIDE DEF c, Kept
<1>1. ASSUME card'[c] = card[c] PROVE Kept
  BY <1>1, <1>n DEF CardKept, Kept
<1>2. ASSUME card'[c].retries \in Nat PROVE card'[c].retries >= card[c].retries
  BY <1>2, <1>n DEF LosesTry, c
<1>3. ASSUME NEW d \in Cards, NEW p, NEW f, NEW n \in CardRecord,
             n \in {card[d], VerifyExchange(card[d], p, f).card},
             card'[c] = [card EXCEPT ![d] = n][c]
      PROVE  Kept
  <2>1. CASE d # c
    BY <1>1, <1>3, <2>1, <1>c, <1>t
  <2>2. CASE d = c /\ n = card[c]
    BY <1>1, <1>3, <2>2, <1>c, <1>t
  <2>3. CASE d = c /\ n = VerifyExchange(card[c], p, f).card
    <3>1. card'[c] = VerifyExchange(card[c], p, f).card
      BY <1>3, <2>3, <1>c, <1>t
    <3>2. card'[c].retries \in Nat
      BY <1>3, <2>3, <3>1, RetriesAssumption DEF CardRecord
    <3>3. VerifyExchange(card[c], p, f).card.retries >= card[c].retries
      BY <1>2, <3>1, <3>2
    <3>4. CardKept(card[c], VerifyExchange(card[c], p, f).card)
      BY <1>n, <3>3, VerifyExchangeKeeps
    <3> QED BY <3>1, <3>4 DEF Kept
  <2> QED BY <1>3, <2>1, <2>2, <2>3
<1>4. ASSUME NEW d, NEW reset, NEW cards,
             slot' = SlotsAfterReset(d, reset), card' = CardsAfterReset(cards, d, reset)
      PROVE  card'[c] = cards[c]
  <2>1. reset => d # c
    BY <1>t, <1>4, ResetOpensNone DEF c
  <2> QED BY <1>4, <2>1 DEF CardsAfterReset
<1>5. ASSUME NEW t \in Threads, NEW h \in Handles, SessionCall(t, h)
      PROVE  Kept
  <2> DEFINE s == slot[sessions[h].slot]
  <2>t. tls[t] \in ThreadRecord /\ KeysFit(tls[t])
    BY <1>t, ApiFacts
  <2>s. sessions[h].inUse => s \in SlotRecord /\ s.card \in Cards
    BY <1>t, ApiFacts, OpenSessionCard
  <2>1. ASSUME NEW p \in Pins, NEW f, NEW direct, Login(t, h, p, f, direct)
        PROVE  Kept
    <3> DEFINE x == VerifyPin(tls[t], s, p, f, direct)
    <3>1. s \in SlotRecord /\ s.card \in Cards /\ card' = [card EXCEPT ![s.card] = x.card]
      BY <2>1, <2>s DEF Login, Exchange
    <3>2. x.card \in {card[s.card], VerifyExchange(card[s.card], p, f).card}
      BY VerifyPinCard
    <3>3. x.card \in CardRecord
      BY <1>t, <2>t, <3>1, VerifyPinType
    <3> HIDE DEF x, s
    <3> QED BY <1>3, <3>1, <3>2, <3>3
  <2>2. ASSUME NEW f, NEW direct, sessions[h].inUse, Exchange(t, h, RsaPrivate(tls[t], s, f, direct))
        PROVE  Kept
    <3> DEFINE x == RsaPrivate(tls[t], s, f, direct)
    <3>1. s \in SlotRecord /\ s.card \in Cards /\ card' = [card EXCEPT ![s.card] = x.card]
      BY <2>2, <2>s DEF Exchange
    <3>2. x.card \in {card[s.card], VerifyExchange(card[s.card], tls[t].pin, f).card}
      BY <1>t, <2>t, <3>1, RsaPrivateCredentials
    <3>3. x.card \in CardRecord
      BY <1>t, <2>t, <3>1, RsaPrivateType
    <3> HIDE DEF x, s
    <3> QED BY <1>3, <3>1, <3>2, <3>3
  <2>3. ASSUME NEW f, NEW direct, Sign(t, h, f, direct) PROVE Kept
    BY <2>2, <2>3 DEF Sign
  <2>4. ASSUME NEW f, NEW direct, NEW fits, Decrypt(t, h, f, direct, fits)
        PROVE  Kept
    BY <2>2, <2>4 DEF Decrypt
  <2>5. CASE \/ CloseSession(h) \/ Logout(t, h) \/ EncryptInit(t, h) \/ SignInit(h) \/ SignFails(h)
             \/ DecryptInit(h) \/ DecryptWithoutCard(h)
    BY <1>1, <2>5 DEF CloseSession, Logout, EncryptInit, Touch, SignInit, SignFails, DecryptInit,
          DecryptWithoutCard
  <2> QED BY <1>5, <2>1, <2>3, <2>4, <2>5 DEF SessionCall
<1>6. CASE CoreStep
  <2>1. PICK t \in Threads : \/ Initialize \/ Finalize
                             \/ \E h \in Handles : SessionCall(t, h)
                             \/ \E q \in Readers : SlotCall(t, q)
    BY <1>6, CoreStepCall DEF Free
  <2>2. CASE Initialize \/ Finalize
    <3>1. ~slot'[r].live
      BY <2>2 DEF Initialize, Finalize, UnlistedSlot
    <3> QED BY <3>1
  <2>3. ASSUME NEW q \in Readers, SlotCall(t, q) PROVE Kept
    BY <1>1, <2>3 DEF SlotCall, GetTokenInfo, OpenSession, CloseAllSessions, Touch
  <2> QED BY <1>5, <2>1, <2>2, <2>3
<1>7. CASE WorldStep
  <2>1. ASSUME NEW q \in Readers, RemoveCard(q) PROVE Kept
    <3>1. inserted[q] # NoCard /\ card' = [card EXCEPT ![inserted[q]].verified = FALSE]
          /\ slot' = [slot EXCEPT ![q].live = FALSE]
      BY <2>1 DEF RemoveCard
    <3>2. q # r
      BY <1>t, <3>1 DEF SlotRecord
    <3>3. inserted[q] # c
      BY <1>c, <1>t, <3>2 DEF HandlesFit
    <3>4. card'[c] = card[c]
      BY <1>c, <1>t, <3>1, <3>3
    <3> QED BY <1>1, <3>4
  <2>2. ASSUME NEW q \in Readers, NEW d \in Cards, InsertCard(q, d)
        PROVE  Kept
    BY <1>1, <2>2 DEF InsertCard
  <2>3. ASSUME NEW d, NEW p, ChangePin(d, p) PROVE FALSE
    BY <2>3 DEF ChangePin
  <2> QED BY <1>7, <2>1, <2>2, <2>3 DEF WorldStep, Environment
<1>8. ASSUME NEW q \in Readers,
             \/ ApiConnectFails(q) \/ ApiBinds(q)
             \/ \E recognized \in BOOLEAN : ApiLooks(q, recognized)
      PROVE  Kept
  <2>1. \/ card' = card
        \/ /\ slot' = SlotsAfterReset(inserted[q], TRUE)
           /\ card' = CardsAfterReset(card, inserted[q], TRUE)
    BY <1>8 DEF ApiConnectFails, ApiBinds, ApiLooks
  <2> QED BY <1>1, <1>4, <2>1
<1>9. ASSUME NEW d \in Cards, NEW p, NEW f, NEW n \in CardRecord,
             n \in {card[d], VerifyExchange(card[d], p, f).card}, NEW w,
             Return([card EXCEPT ![d] = n], w) \/ card' = [card EXCEPT ![d] = n]
      PROVE  Kept
  <2> DEFINE cards == [card EXCEPT ![d] = n]
  <2>1. Return(cards, w) => card'[c] = cards[c]
    <3> HIDE DEF cards
    <3> QED BY <1>4 DEF Return
  <2>2. card'[c] = cards[c]
    BY <1>9, <2>1
  <2> QED BY <1>3, <1>9, <2>2
<1>10. ASSUME NEW w, Return(card, w) PROVE Kept
  BY <1>1, <1>4, <1>10 DEF Return
<1>11. ASSUME NEW f, NEW direct, ApiLogin(f, direct) PROVE Kept
  <2> DEFINE x == VerifyPin(tls[Me], Conn, api.pin, f, direct)
  <2>0. api.stage = "login"
    BY <1>11 DEF ApiLogin
  <2>1. Conn \in SlotRecord /\ Conn.card = api.card /\ api.card \in Cards
    BY <1>t, <2>0, ConnType
  <2>2. CASE api.pin = NoPin
    BY <1>10, <1>11, <2>2 DEF ApiLogin
  <2>3. CASE api.pin # NoPin
    <3>1. api.pin \in Pins
      BY <1>t, <2>3, ApiFacts DEF ApiRecord
    <3>2. x.card \in CardRecord
      BY <1>t, <2>1, <3>1, ApiFacts, VerifyPinType
    <3>3. x.card \in {card[api.card], VerifyExchange(card[api.card], api.pin, f).card}
      BY <2>1, VerifyPinCard
    <3>4. \/ Return([card EXCEPT ![api.card] = x.card], x.tl)
          \/ card' = [card EXCEPT ![api.card] = x.card]
      BY <1>11, <2>3 DEF ApiLogin
    <3> HIDE DEF x
    <3>5. CASE Return([card EXCEPT ![api.card] = x.card], x.tl)
      BY <1>9, <2>1, <3>2, <3>3, <3>5
    <3>6. CASE card' = [card EXCEPT ![api.card] = x.card]
      BY <1>9, <2>1, <3>2, <3>3, <3>6
    <3> QED BY <3>4, <3>5, <3>6
  <2> QED BY <2>2, <2>3
<1>12. ASSUME NEW f, NEW direct, NEW done, ApiOperate(f, direct, done)
       PROVE  Kept
  <2> DEFINE x == RsaPrivate(tls[Me], Conn, f, direct)
             w == IF done THEN Cleared(x.tl) ELSE x.tl
  <2>1. api.stage = "operate" /\ Return([card EXCEPT ![api.card] = x.card], w)
    BY <1>12 DEF ApiOperate
  <2>2. Conn \in SlotRecord /\ Conn.card = api.card /\ api.card \in Cards
    BY <1>t, <2>1, ConnType
  <2>3. x.card \in CardRecord
    BY <1>t, <2>2, ApiFacts, RsaPrivateType
  <2>4. x.card \in {card[api.card], VerifyExchange(card[api.card], tls[Me].pin, f).card}
    BY <1>t, <2>2, ApiFacts, RsaPrivateCredentials
  <2> HIDE DEF x, w
  <2> QED BY <1>9, <2>1, <2>2, <2>3, <2>4
<1>13. CASE ApiStep
  BY <1>8, <1>10, <1>11, <1>12, <1>13 DEF ApiStep, ApiNoKey
<1>14. ASSUME NEW t, NEW q \in Readers, CoreBindFails(t, q) PROVE Kept
  <2>1. /\ slot[q].card = NoCard
        /\ card' = CardsAfterReset(card, inserted[q], TRUE)
    BY <1>14 DEF CoreBindFails
  <2>2. inserted[q] # c
    BY <1>c, <1>t, <2>1 DEF HandlesFit, c
  <2>3. card'[c] = card[c]
    BY <2>1, <2>2, <1>c, <1>t DEF CardsAfterReset
  <2> QED BY <1>1, <2>3
<1>15. CASE UNCHANGED apiVars \/ \E t \in Free : ApiCall(t)
  BY <1>1, <1>15 DEF apiVars, vars, ApiCall
<1> QED BY <1>6, <1>7, <1>13, <1>14, <1>15 DEF ApiNext

\* Every step that is none of a call on a session, a call on a slot, or of the
\* world leaves the sessions alone and the slots at most without handles.
LEMMA ApiTouchesNoSession ==
    ASSUME TypeOK,
           \/ ApiStep \/ UNCHANGED apiVars
           \/ \E t \in Free : ApiCall(t) \/ \E r \in Readers : CoreBindFails(t, r)
    PROVE  UNCHANGED sessions /\ \A r \in Readers : slot'[r].card = slot[r].card
<1> DEFINE Kept == UNCHANGED sessions /\ \A r \in Readers : slot'[r].card = slot[r].card
<1> SUFFICES Kept
  OBVIOUS
<1>1. ASSUME UNCHANGED <<sessions, slot>> PROVE Kept
  BY <1>1
<1>2. ASSUME NEW c, NEW reset, slot' = SlotsAfterReset(c, reset), UNCHANGED sessions PROVE Kept
  BY <1>2, ResetOpensNone
<1> HIDE DEF Kept
<1>3. ASSUME NEW cards, NEW w, Return(cards, w) PROVE Kept
  BY <1>2, <1>3 DEF Return
<1>4. ASSUME NEW f, NEW direct, ApiLogin(f, direct) PROVE Kept
  BY <1>1, <1>3, <1>4 DEF ApiLogin
<1>5. ASSUME NEW r \in Readers,
             \/ ApiConnectFails(r) \/ ApiBinds(r)
             \/ \E recognized \in BOOLEAN : ApiLooks(r, recognized)
      PROVE  Kept
  BY <1>1, <1>2, <1>5 DEF ApiConnectFails, ApiBinds, ApiLooks
<1>6. CASE ApiStep
  BY <1>3, <1>4, <1>5, <1>6 DEF ApiStep, ApiNoKey, ApiOperate
<1>7. CASE \/ UNCHANGED apiVars
           \/ \E t \in Free : ApiCall(t) \/ \E r \in Readers : CoreBindFails(t, r)
  BY <1>1, <1>7 DEF apiVars, vars, ApiCall, CoreBindFails
<1> QED BY <1>6, <1>7

\* A session that stays open stays on its slot, and the slot with its card.
LEMMA SessionStays ==
    ASSUME ApiHandles, [ApiNext]_apiVars, NEW h \in Handles, sessions[h].inUse, sessions'[h].inUse
    PROVE  /\ sessions'[h].slot = sessions[h].slot
           /\ slot'[sessions[h].slot].card = slot[sessions[h].slot].card
<1> DEFINE r == sessions[h].slot
           Kept == sessions'[h].slot = r /\ slot'[r].card = slot[r].card
<1>t. /\ ApiCredentials /\ HandlesFit /\ TypeOK /\ ConnectedIffBound
      /\ slot \in [Readers -> SlotRecord] /\ sessions \in [Handles -> SessionRecord]
  BY ApiFacts DEF ApiHandles, SlotsAndSessions, TypeOK
<1>r. r \in Readers /\ initialized /\ slot[r].bound
  BY <1>t, ApiFacts DEF SlotsAndSessions, SessionsUsable, SessionRecord
<1> SUFFICES Kept
  OBVIOUS
<1>1. ASSUME UNCHANGED sessions, slot'[r].card = slot[r].card PROVE Kept
  BY <1>1
<1>2. ASSUME slot' = slot, sessions'[h].slot = r PROVE Kept
  BY <1>2
<1>3. ASSUME NEW u \in Threads, NEW q \in Readers, NEW e \in EnsureCard(tls[u], q), Touch(u, q, e)
      PROVE  slot'[r].card = slot[r].card
  <2>1. slot[q].bound => e.slot = slot[q]
    BY <1>t, EnsureCardHandle
  <2>2. slot' = [slot EXCEPT ![q] = e.slot]
    BY <1>3 DEF Touch
  <2> HIDE DEF r
  <2> QED BY <1>r, <1>t, <2>1, <2>2
<1>4. ASSUME NEW u \in Threads, NEW q \in Readers, SlotCall(u, q) PROVE Kept
  <2>1. CASE GetTokenInfo(u, q)
    BY <1>3, <2>1 DEF GetTokenInfo
  <2>2. CASE OpenSession(u, q)
    <3>1. slot'[r].card = slot[r].card
      BY <1>3, <2>2 DEF OpenSession
    <3>2. \/ UNCHANGED sessions
          \/ \E g \in FreeHandles : sessions' = [sessions EXCEPT ![g] = NewSession(q)]
      BY <2>2 DEF OpenSession
    <3>3. sessions'[h] = sessions[h]
      BY <1>t, <3>2 DEF FreeHandles
    <3> QED BY <3>1, <3>3
  <2>3. CASE CloseAllSessions(q)
    <3>1. sessions'[h].slot = r
      BY <1>t, <2>3 DEF CloseAllSessions, CloseEach, SessionRecord
    <3> QED BY <2>3, <3>1 DEF CloseAllSessions
  <2> QED BY <1>4, <2>1, <2>2, <2>3 DEF SlotCall
<1>5. ASSUME NEW u \in Threads, NEW g \in Handles, SessionCall(u, g) PROVE Kept
  <2>1. CASE EncryptInit(u, g)
    <3>1. sessions[g].slot \in Readers
      BY <1>t DEF SessionRecord
    <3>2. slot'[r].card = slot[r].card
      BY <1>3, <2>1, <3>1 DEF EncryptInit
    <3> QED BY <2>1, <3>2 DEF EncryptInit
  <2>2. CASE ~EncryptInit(u, g)
    <3>1. slot' = slot
      BY <1>5, <2>2 DEF SessionCall, CloseSession, Logout, SignInit, SignFails, DecryptInit,
            DecryptWithoutCard, Login, Sign, Decrypt, Exchange
    <3>2. ASSUME NEW n \in SessionRecord, n.slot = sessions[g].slot,
                 sessions' = [sessions EXCEPT ![g] = n]
          PROVE  sessions'[h].slot = r
      BY <1>t, <3>2
    <3>3. /\ sessions[g] \in SessionRecord
          /\ \A b \in BOOLEAN :
                /\ [sessions[g] EXCEPT !.loggedIn = b] \in SessionRecord
                /\ [sessions[g] EXCEPT !.loggedIn = b].slot = sessions[g].slot
                /\ [sessions[g] EXCEPT !.signActive = b] \in SessionRecord
                /\ [sessions[g] EXCEPT !.signActive = b].slot = sessions[g].slot
                /\ [sessions[g] EXCEPT !.decryptPlain = b] \in SessionRecord
                /\ [sessions[g] EXCEPT !.decryptPlain = b].slot = sessions[g].slot
                /\ [sessions[g] EXCEPT !.decryptActive = b, !.decryptPlain = FALSE] \in SessionRecord
                /\ [sessions[g] EXCEPT !.decryptActive = b, !.decryptPlain = FALSE].slot
                      = sessions[g].slot
      BY <1>t DEF SessionRecord
    <3> HIDE DEF r
    <3>4. CASE CloseSession(g)
      BY <1>t, <3>4 DEF CloseSession, CloseEach, SessionRecord, r
    <3>5. CASE Logout(u, g)
      BY <3>2, <3>3, <3>5 DEF Logout
    <3>6. CASE SignInit(g) \/ SignFails(g)
      BY <3>2, <3>3, <3>6 DEF SignInit, SignFails
    <3>7. CASE DecryptInit(g) \/ DecryptWithoutCard(g)
      BY <3>2, <3>3, <3>7 DEF DecryptInit, DecryptWithoutCard, DecryptEnds
    <3>8. ASSUME NEW p, NEW f, NEW direct, Login(u, g, p, f, direct) PROVE sessions'[h].slot = r
      BY <3>2, <3>3, <3>8 DEF Login, r
    <3>9. ASSUME NEW f, NEW direct, Sign(u, g, f, direct) PROVE sessions'[h].slot = r
      BY <3>2, <3>3, <3>9 DEF Sign
    <3>10. ASSUME NEW f, NEW direct, NEW fits, Decrypt(u, g, f, direct, fits)
           PROVE  sessions'[h].slot = r
      BY <3>2, <3>3, <3>10 DEF Decrypt, DecryptEnds
    <3> QED
      BY <1>2, <1>5, <2>2, <3>1, <3>4, <3>5, <3>6, <3>7, <3>8, <3>9, <3>10 DEF SessionCall
  <2> QED BY <2>1, <2>2
<1>6. CASE CoreStep
  <2>1. PICK u \in Threads : \/ Initialize \/ Finalize
                             \/ \E g \in Handles : SessionCall(u, g)
                             \/ \E q \in Readers : SlotCall(u, q)
    BY <1>6, CoreStepCall DEF Free
  <2>2. ~Initialize
    BY <1>r DEF Initialize
  <2>3. ASSUME Finalize PROVE FALSE
    BY <2>3, <1>t DEF Finalize, CloseEach, SessionRecord
  <2> QED BY <1>4, <1>5, <2>1, <2>2, <2>3
<1>7. CASE WorldStep
  <2>1. \/ slot' = slot
        \/ \E q \in Readers : slot' = [slot EXCEPT ![q].live = FALSE]
    BY <1>7 DEF WorldStep, Environment, RemoveCard, InsertCard, ChangePin
  <2>2. slot'[r].card = slot[r].card
    BY <1>r, <1>t, <2>1 DEF SlotRecord
  <2>3. UNCHANGED sessions
    BY <1>7 DEF WorldStep, Environment, RemoveCard, InsertCard, ChangePin
  <2> QED BY <1>1, <2>2, <2>3
<1>8. CASE \/ ApiStep \/ UNCHANGED apiVars
           \/ \E t \in Free : ApiCall(t) \/ \E q \in Readers : CoreBindFails(t, q)
  BY <1>r, <1>t, <1>8, ApiTouchesNoSession
<1> HIDE DEF Kept
<1> QED BY <1>6, <1>7, <1>8 DEF ApiNext

\* The caches w are as good to sign with as u: a Gen1 thread needs none.
SameSigner(u, w) ==
    w.profile = u.profile /\ (u.profile # "Gen1" => w.pin = u.pin /\ w.keys = u.keys)

\* A private operation of a thread that could sign with card c leaves it so,
\* unless the thread has bound nothing and deals with another card.
LEMMA RsaPrivateSigner ==
    ASSUME TypeOK, NEW tl \in ThreadRecord, KeysFit(tl), NEW s \in SlotRecord, s.card \in Cards,
           NEW c, NEW k \in CardRecord, Ready(tl, c, k), tl.claLocked \/ s.card = c,
           NEW f, NEW direct
    PROVE  SameSigner(tl, RsaPrivate(tl, s, f, direct).tl)
<1> DEFINE w == RsaPrivate(tl, s, f, direct).tl
<1>1. CASE tl.profile = "Gen1"
  <2>1. w = SelectKeyEf(tl, s, direct)
    BY <1>1 DEF RsaPrivate, Gen1RsaPrivate
  <2>2. Gen(c) = "Gen1"
    BY <1>1 DEF Ready, Gen
  <2>3. SetProfile(tl, Gen(c)).profile = "Gen1"
    BY <2>2 DEF SetProfile, ThreadRecord
  <2>4. SelectKeyEf(tl, s, direct) = tl \/ SelectKeyEf(tl, s, direct) = SetProfile(tl, Gen(c))
    BY DEF SelectKeyEf
  <2> HIDE DEF w
  <2>5. w.profile = "Gen1"
    BY <1>1, <2>1, <2>3, <2>4
  <2>6. SameSigner(tl, w)
    BY <1>1, <2>5 DEF SameSigner
  <2> QED BY <2>6 DEF w
<1>2. CASE tl.profile # "Gen1"
  <2>1. tl.profile = "Gen2"
    BY <1>2 DEF ThreadRecord
  <2>2. tl.pin # NoPin
    BY <1>2, CardsAssumption DEF Ready, CardRecord
  <2>3. w.profile = "Gen2"
    BY <2>1, RsaPrivateProfile
  <2>4. w.pin = tl.pin /\ w.keys = tl.keys
    BY <2>2, RsaPrivateCredentials
  <2> QED BY <2>1, <2>3, <2>4 DEF SameSigner
<1> QED BY <1>1, <1>2

\* Nothing but what SigningDisturbed names takes from a thread what it signs
\* with.
LEMMA SignerStays ==
    ASSUME PinChanges = FALSE, ApiHandles, [ApiNext]_apiVars,
           NEW t \in Threads, NEW h \in Handles, SignReady(t, h),
           sessions'[h].inUse, sessions'[h].loggedIn, ~SigningDisturbed(t, h)
    PROVE  SameSigner(tls[t], tls'[t])
<1> DEFINE r == sessions[h].slot
           c == slot[r].card
           Same == SameSigner(tls[t], tls'[t])
<1>t. /\ ApiCredentials /\ HandlesFit /\ TypeOK /\ ConnectedIffBound
      /\ slot \in [Readers -> SlotRecord] /\ sessions \in [Handles -> SessionRecord]
      /\ tls \in [Threads -> ThreadRecord] /\ Credentials
      /\ tls[t] \in ThreadRecord /\ KeysFit(tls[t])
  BY ApiFacts DEF ApiHandles, SlotsAndSessions, TypeOK
<1>r. /\ sessions[h].inUse /\ sessions[h].loggedIn /\ Ready(tls[t], c, card[c])
      /\ r \in Readers /\ initialized /\ slot[r].bound /\ c # NoCard
      /\ c \in Cards /\ card[c] \in CardRecord
  <2>1. sessions[h].inUse /\ sessions[h].loggedIn /\ Ready(tls[t], c, card[c])
    BY DEF SignReady
  <2>2. r \in Readers /\ initialized /\ slot[r].bound /\ c # NoCard
    BY <1>t, <2>1, ApiFacts DEF SlotsAndSessions, SessionsUsable, SessionRecord
  <2>3. c \in Cards /\ card[c] \in CardRecord
    BY <1>t, <2>1, OpenSessionCard DEF TypeOK
  <2> QED BY <2>1, <2>2, <2>3
<1>p. \E p : p \in Pins
  BY ReadersAssumption
<1>f. "none" \in Faults /\ TRUE \in BOOLEAN
  BY FaultsAssumption
<1>g. \A g \in Handles \ {h} : ~Logout(t, g)
  BY <1>p, <1>f DEF SigningDisturbed
<1>l. \A g \in Handles \ {h}, p \in Pins, f \in Faults, direct \in BOOLEAN :
         ~Login(t, g, p, f, direct)
  BY DEF SigningDisturbed
<1>q. \A q \in Readers \ {r} : slot[q].card = NoCard =>
         ~GetTokenInfo(t, q) /\ ~OpenSession(t, q) /\ ~CoreBindFails(t, q)
  BY DEF SigningDisturbed
<1>o. ~tls[t].claLocked =>
         \A g \in Handles, f \in Faults, direct \in BOOLEAN, fits \in BOOLEAN :
            sessions[g].slot # r => ~Sign(t, g, f, direct) /\ ~Decrypt(t, g, f, direct, fits)
  BY DEF SigningDisturbed
<1>m. api.stage = "idle" \/ t # Me
  BY DEF SigningDisturbed
<1> SUFFICES Same
  OBVIOUS
<1> HIDE DEF c, r, Same
<1>1. ASSUME tls'[t] = tls[t] PROVE Same
  BY <1>1 DEF SameSigner, Same
<1>2. ASSUME NEW u \in Threads, u # t, NEW w, tls' = [tls EXCEPT ![u] = w] PROVE Same
  BY <1>1, <1>2, <1>t
<1>3. ASSUME NEW q \in Readers, NEW e \in EnsureCard(tls[t], q), Touch(t, q, e), slot[q].bound
      PROVE  Same
  <2>1. e.tl = tls[t]
    BY <1>t, <1>3, EnsureCardHandle
  <2>2. tls' = [tls EXCEPT ![t] = e.tl]
    BY <1>3 DEF Touch
  <2> QED BY <1>1, <1>t, <2>1, <2>2
<1>4. ASSUME NEW q \in Readers, SlotCall(t, q) PROVE Same
  <2>1. CASE CloseAllSessions(q)
    BY <1>1, <2>1 DEF CloseAllSessions
  <2>2. CASE GetTokenInfo(t, q) \/ OpenSession(t, q)
    <3>1. slot[q].bound
      BY <1>t, <1>r, <1>q, <2>2 DEF ConnectedIffBound
    <3> QED BY <1>3, <2>2, <3>1 DEF GetTokenInfo, OpenSession
  <2> QED BY <1>4, <2>1, <2>2 DEF SlotCall
<1>5. ASSUME NEW g \in Handles, SessionCall(t, g) PROVE Same
  <2>1. ASSUME NEW f \in Faults, NEW direct \in BOOLEAN, sessions[g].inUse,
               Exchange(t, g, RsaPrivate(tls[t], slot[sessions[g].slot], f, direct)),
               tls[t].claLocked \/ sessions[g].slot = r
        PROVE  Same
    <3> DEFINE s == slot[sessions[g].slot]
               w == RsaPrivate(tls[t], s, f, direct).tl
    <3>1. s \in SlotRecord /\ s.card \in Cards
      BY <1>t, <2>1, OpenSessionCard
    <3>2. tls[t].claLocked \/ s.card = c
      BY <2>1 DEF c
    <3>3. SameSigner(tls[t], w)
      BY <1>t, <1>r, <3>1, <3>2, RsaPrivateSigner
    <3>4. tls'[t] = w
      BY <1>t, <2>1 DEF Exchange
    <3> QED BY <3>3, <3>4 DEF Same
  <2>2. ASSUME NEW f \in Faults, NEW direct \in BOOLEAN, Sign(t, g, f, direct) PROVE Same
    <3>1. tls[t].claLocked \/ sessions[g].slot = r
      BY <1>o, <2>2
    <3> QED BY <2>1, <2>2, <3>1 DEF Sign
  <2>3. ASSUME NEW f \in Faults, NEW direct \in BOOLEAN, NEW fits \in BOOLEAN,
               Decrypt(t, g, f, direct, fits)
        PROVE  Same
    <3>1. tls[t].claLocked \/ sessions[g].slot = r
      BY <1>o, <2>3
    <3> QED BY <2>1, <2>3, <3>1 DEF Decrypt
  <2>4. ASSUME NEW p \in Pins, NEW f \in Faults, NEW direct \in BOOLEAN, Login(t, g, p, f, direct)
        PROVE  FALSE
    <3>1. g # h
      BY <1>r, <2>4 DEF Login
    <3> QED BY <1>l, <2>4, <3>1
  <2>5. ASSUME Logout(t, g) PROVE FALSE
    <3>1. g # h
      BY <1>t, <2>5 DEF Logout, SessionRecord
    <3> QED BY <1>g, <2>5, <3>1
  <2>6. CASE EncryptInit(t, g)
    <3>1. sessions[g].slot \in Readers /\ slot[sessions[g].slot].bound
      BY <1>t, <2>6, ApiFacts DEF EncryptInit, SlotsAndSessions, SessionsUsable, SessionRecord
    <3> QED BY <1>3, <2>6, <3>1 DEF EncryptInit
  <2>7. CASE \/ CloseSession(g) \/ SignInit(g) \/ SignFails(g) \/ DecryptInit(g)
             \/ DecryptWithoutCard(g)
    BY <1>1, <2>7 DEF CloseSession, SignInit, SignFails, DecryptInit, DecryptWithoutCard
  <2> QED BY <1>5, <2>2, <2>3, <2>4, <2>5, <2>6, <2>7 DEF SessionCall
<1>6. CASE CoreStep
  <2>1. PICK u \in Threads : \/ Initialize \/ Finalize
                             \/ \E g \in Handles : SessionCall(u, g)
                             \/ \E q \in Readers : SlotCall(u, q)
    BY <1>6, CoreStepCall DEF Free
  <2>2. CASE u # t
    <3>1. tls'[t] = tls[t]
      BY <1>t, <2>1, <2>2, OtherThreads
    <3> QED BY <1>1, <3>1
  <2>3. CASE u = t
    BY <1>1, <1>4, <1>5, <2>1, <2>3 DEF Initialize, Finalize
  <2> QED BY <2>2, <2>3
<1>7. CASE WorldStep \/ UNCHANGED apiVars \/ \E u \in Free : ApiCall(u)
  BY <1>1, <1>7 DEF WorldStep, Environment, RemoveCard, InsertCard, ChangePin, apiVars, vars, ApiCall
<1>8. ASSUME NEW u \in Free, NEW q \in Readers, CoreBindFails(u, q) PROVE Same
  <2>1. slot[q].card = NoCard
    BY <1>8 DEF CoreBindFails
  <2>2. q # r
    BY <1>r, <2>1 DEF c
  <2>3. u # t
    BY <1>8, <1>q, <2>1, <2>2
  <2>4. u \in Threads /\ tls' = [tls EXCEPT ![u] = ResetCla(tls[u])]
    BY <1>8 DEF Free, CoreBindFails
  <2> QED BY <1>2, <2>3, <2>4
<1>9. CASE ApiStep
  <2>1. api.stage # "idle" /\ \E w : tls' = [tls EXCEPT ![Me] = w]
    <3>1. ASSUME NEW cards, NEW w, Return(cards, w) PROVE \E x : tls' = [tls EXCEPT ![Me] = x]
      BY <3>1 DEF Return
    <3>2. ASSUME NEW f, NEW direct, ApiLogin(f, direct)
          PROVE  api.stage # "idle" /\ \E x : tls' = [tls EXCEPT ![Me] = x]
      BY <3>1, <3>2 DEF ApiLogin
    <3>3. ASSUME NEW f, NEW direct, NEW done, ApiOperate(f, direct, done)
          PROVE  api.stage # "idle" /\ \E x : tls' = [tls EXCEPT ![Me] = x]
      BY <3>1, <3>3 DEF ApiOperate
    <3>4. CASE ApiNoKey
      BY <3>1, <3>4 DEF ApiNoKey
    <3>5. ASSUME NEW q \in Readers,
                 \/ ApiConnectFails(q) \/ ApiBinds(q)
                 \/ \E recognized \in BOOLEAN : ApiLooks(q, recognized)
          PROVE  api.stage # "idle" /\ \E x : tls' = [tls EXCEPT ![Me] = x]
      BY <3>5 DEF ApiConnectFails, ApiBinds, ApiLooks
    <3> QED BY <1>9, <3>2, <3>3, <3>4, <3>5 DEF ApiStep, ApiNoKey
  <2>2. Me # t /\ Me \in Threads
    BY <1>m, <1>t, <2>1, ApiFacts
  <2> QED BY <1>2, <2>1, <2>2
<1> QED BY <1>6, <1>7, <1>8, <1>9 DEF ApiNext

\* A thread that could sign still can, in a session that stays open, logged in
\* and on a good handle.
LEMMA ReadyStays ==
    ASSUME PinChanges = FALSE, ApiHandles, [ApiNext]_apiVars,
           NEW t \in Threads, NEW h \in Handles, SignReady(t, h),
           sessions'[h].inUse, sessions'[h].loggedIn, slot'[sessions[h].slot].live,
           ~SigningDisturbed(t, h)
    PROVE  SignReady(t, h)'
<1> DEFINE r == sessions[h].slot
           c == slot[r].card
<1>1. /\ sessions[h].inUse /\ slot[r].live /\ Ready(tls[t], c, card[c]) /\ r \in Readers
      /\ c \in Cards /\ card[c].retries \in Nat /\ card[c].verified \in BOOLEAN
  <2>1. sessions[h].inUse /\ slot[r].live /\ Ready(tls[t], c, card[c])
    BY DEF SignReady
  <2>2. r \in Readers /\ TypeOK
    BY ApiFacts DEF ApiHandles, TypeOK, SessionRecord
  <2>3. c \in Cards
    BY <2>1, <2>2 DEF ApiHandles, HandlesFit
  <2>4. card[c] \in CardRecord
    BY <2>2, <2>3 DEF TypeOK
  <2> QED BY <2>1, <2>2, <2>3, <2>4, RetriesAssumption DEF CardRecord
<1>2. sessions'[h].slot = r /\ slot'[r].card = c
  BY <1>1, SessionStays
<1>3. SameSigner(tls[t], tls'[t])
  BY SignerStays
<1>4. ~LosesTry(c)
  BY DEF SigningDisturbed, LosesTry
<1>5. CardKept(card[c], card'[c])
  BY <1>1, <1>4, CardStays
<1>6. card'[c].retries \in Nat /\ card'[c].verified \in BOOLEAN
  <2>1. card' \in [Cards -> CardRecord]
    BY ApiHandlesInvariant, ApiInvariant
       DEF ApiHandles, ApiCredentials, RightCredentials, Credentials, SlotsAndSessions, TypeOK
  <2>2. card'[c] \in CardRecord
    BY <1>1, <2>1
  <2> HIDE DEF c
  <2> QED BY <2>2, RetriesAssumption, SMTT(30) DEF CardRecord
<1> HIDE DEF c
<1>7. Ready(tls'[t], c, card'[c])
  BY <1>1, <1>3, <1>5, <1>6 DEF Ready, SameSigner, CardKept
<1> QED BY <1>2, <1>7 DEF SignReady, c

\* A thread that has just logged a session in can sign in it.
LEMMA LoginMakesReady ==
    ASSUME ApiHandles, NEW t \in Threads, NEW h \in Handles, NEW p \in Pins, NEW f, NEW direct,
           Login(t, h, p, f, direct), ~sessions[h].loggedIn,
           sessions'[h].inUse, sessions'[h].loggedIn, slot'[sessions[h].slot].live
    PROVE  SignReady(t, h)'
<1> DEFINE s == slot[sessions[h].slot]
           x == VerifyPin(tls[t], s, p, f, direct)
<1>t. /\ TypeOK /\ Credentials /\ sessions \in [Handles -> SessionRecord]
      /\ tls \in [Threads -> ThreadRecord] /\ card \in [Cards -> CardRecord]
      /\ tls[t] \in ThreadRecord
  BY ApiFacts DEF ApiHandles, TypeOK
<1>1. s \in SlotRecord /\ s.card \in Cards /\ Exchange(t, h, x)
  BY <1>t, OpenSessionCard DEF Login
<1>2. x.rv = "Ok" /\ sessions' = [sessions EXCEPT ![h].loggedIn = TRUE]
  BY DEF Login, Accepted
<1>3. x.card \in CardRecord /\ x.card.pin = card[s.card].pin
  BY <1>t, <1>1, VerifyPinType
<1>4. /\ x.card.retries = MaxRetries
      /\ IF s.card \in Gen2Cards THEN x.tl.keys = s.card /\ x.tl.pin = card[s.card].pin
                                 ELSE x.card.verified
  BY <1>t, <1>1, <1>2, VerifyPinOk
<1>5. tls[t].profile = Gen(s.card)
  <2>1. CASE tls[t].profile = "Gen1"
    BY <1>2, <2>1 DEF VerifyPin, Gen1VerifyPin
  <2>2. CASE tls[t].profile # "Gen1"
    <3>1. Gen(s.card) = "Gen2"
      BY <1>2, <2>2 DEF VerifyPin, Gen2VerifyPin, ChannelOpens
    <3> QED BY <1>t, <2>2, <3>1 DEF ThreadRecord
  <2> QED BY <2>1, <2>2
<1>6. x.tl.profile = Gen(s.card)
  BY <1>t, <1>5, VerifyPinProfile
<1> HIDE DEF x
<1>7. Ready(x.tl, s.card, x.card)
  <2>1. MaxRetries > 0
    BY RetriesAssumption
  <2>2. x.card.verified \in BOOLEAN
    BY <1>3 DEF CardRecord
  <2> HIDE DEF s
  <2> QED BY <1>3, <1>4, <1>6, <2>1, <2>2 DEF Ready, Gen
<1>8. tls'[t] = x.tl /\ card'[s.card] = x.card /\ slot' = slot
  BY <1>t, <1>1 DEF Exchange
<1>9. sessions'[h].slot = sessions[h].slot
  BY <1>t, <1>2 DEF SessionRecord
<1> QED BY <1>7, <1>8, <1>9 DEF SignReady

\* Whoever logs a session in can sign in it, and keeps that until one of the
\* things SigningDisturbed names happens, or session or handle are lost.
THEOREM SigningStaysPossible ==
    ASSUME PinChanges = FALSE
    PROVE  ApiSpec => SigningSurvives
<1> DEFINE Stays(h) == /\ sessions'[h].inUse /\ sessions'[h].loggedIn
                       /\ slot'[sessions[h].slot].live
           LoggingIn(t, h) == \E p \in Pins, f \in Faults, direct \in BOOLEAN :
                                 Login(t, h, p, f, direct)
           A == \A t \in Threads, h \in Handles :
                  /\ CanSign(t, h) /\ Stays(h) => CanSign(t, h)' \/ SigningDisturbed(t, h)
                  /\ ~sessions[h].loggedIn /\ Stays(h) /\ LoggingIn(t, h) => CanSign(t, h)'
<1>1. ApiHandles /\ [ApiNext]_apiVars => [A]_apiVars
  <2> SUFFICES ASSUME ApiHandles, [ApiNext]_apiVars, NEW t \in Threads, NEW h \in Handles
               PROVE  /\ CanSign(t, h) /\ Stays(h) => CanSign(t, h)' \/ SigningDisturbed(t, h)
                      /\ ~sessions[h].loggedIn /\ Stays(h) /\ LoggingIn(t, h) => CanSign(t, h)'
    OBVIOUS
  <2>1. CanSign(t, h) <=> SignReady(t, h)
    BY CanSignMeans
  <2>2. CanSign(t, h)' <=> SignReady(t, h)'
    BY ApiHandlesInvariant, CanSignMeansNext
  <2>3. CanSign(t, h) /\ Stays(h) => CanSign(t, h)' \/ SigningDisturbed(t, h)
    BY <2>1, <2>2, ReadyStays
  <2>4. ~sessions[h].loggedIn /\ Stays(h) /\ LoggingIn(t, h) => CanSign(t, h)'
    BY <2>2, LoginMakesReady
  <2> QED BY <2>3, <2>4
<1> QED
  BY <1>1, ApiHandlesInit, ApiHandlesInvariant, PTL DEF ApiSpec, SigningSurvives

\* What sessions owe to the card of their slot holds beside the API too: none of
\* its calls logs a session in or keeps a plaintext.
THEOREM SessionRulesHoldBesideApi ==
    ASSUME PinChanges = FALSE
    PROVE  ApiSpec => LoginNeedsItsCard /\ PlainOnlyAfterVerify
<1> DEFINE A == LoginsAreGranted /\ PlaintextsAreGranted
<1>1. ApiCredentials /\ [ApiNext]_apiVars => A
  <2> SUFFICES ASSUME ApiCredentials, [ApiNext]_apiVars PROVE A
    OBVIOUS
  <2>1. TypeOK /\ Credentials
    BY ApiFacts
  <2>2. CASE CoreStep \/ WorldStep
    <3>1. Next
      BY <2>2, CoreStepIsNext
    <3> QED BY <2>1, <3>1, LoginsStep, PlaintextsStep
  <2>3. CASE ~(CoreStep \/ WorldStep)
    <3>1. \/ ApiStep \/ UNCHANGED apiVars
          \/ \E t \in Free : ApiCall(t) \/ \E r \in Readers : CoreBindFails(t, r)
      BY <2>3 DEF ApiNext
    <3>2. UNCHANGED sessions
      BY <2>1, <3>1, ApiTouchesNoSession
    <3> QED BY <3>2, NothingGained
  <2> QED BY <2>2, <2>3
<1>2. ApiCredentials /\ [ApiNext]_apiVars =>
         [LoginsAreGranted]_vars /\ [PlaintextsAreGranted]_vars
  BY <1>1
<1> QED
  BY <1>2, ApiCredentialsInit, ApiInvariant, PTL
     DEF ApiSpec, LoginNeedsItsCard, PlainOnlyAfterVerify, LoginsAreGranted, PlaintextsAreGranted

-----------------------------------------------------------------------------
(* KeyUse: the login a private-key operation rests on. *)

\* Beside the API too, a session that may use a key could do so before, or it
\* is being logged in.
LEMMA KeyUseGained ==
    ASSUME ApiHandles, [ApiNext]_apiVars, NEW h \in Handles, MayUseKey(h)'
    PROVE  MayUseKey(h) \/ LogsIn(h)
<1>1. TypeOK
  BY ApiFacts DEF ApiHandles
<1>2. CASE CoreStep \/ WorldStep
  BY <1>1, <1>2, CoreStepIsNext, SessionsGain DEF SessionGains
<1>3. CASE ~(CoreStep \/ WorldStep)
  <2>1. UNCHANGED sessions
    BY <1>1, <1>3, ApiTouchesNoSession DEF ApiNext
  <2> QED BY <2>1 DEF MayUseKey
<1> QED BY <1>2, <1>3

\* What is inductive: a slot in use is not bound again, so that the card of a
\* session's login stays the card of its slot.
KeyUseKept == ApiHandles /\ KeyUseNeedsOwnLogin

LEMMA KeyUseInvariant ==
    ASSUME PinChanges = FALSE
    PROVE  KeyUseKept /\ [ApiNext /\ Recorded]_keyUseVars => KeyUseKept'
<1> SUFFICES ASSUME KeyUseKept, [ApiNext /\ Recorded]_keyUseVars PROVE KeyUseKept'
  OBVIOUS
<1>1. ApiHandles /\ KeyUseNeedsOwnLogin /\ [ApiNext]_apiVars
  BY DEF KeyUseKept, keyUseVars
<1>2. ApiHandles'
  BY <1>1, ApiHandlesInvariant
<1>3. CASE UNCHANGED keyUseVars
  <2>1. UNCHANGED <<sessions, slot, loginCard>>
    BY <1>3 DEF keyUseVars, apiVars, vars
  <2> QED BY <1>1, <1>2, <2>1 DEF KeyUseKept, KeyUseNeedsOwnLogin, MayUseKey
<1>4. ASSUME Recorded, NEW h \in Handles, MayUseKey(h)'
      PROVE  /\ loginCard'[h] \in Cards
             /\ loginCard'[h] = slot'[sessions'[h].slot].card
  <2>1. MayUseKey(h) \/ LogsIn(h)
    BY <1>1, <1>4, KeyUseGained
  <2>2. sessions[h].inUse /\ sessions'[h].inUse
    BY <1>4, <2>1 DEF MayUseKey, LogsIn
  <2>3. slot'[sessions'[h].slot].card = slot[sessions[h].slot].card
    BY <1>1, <2>2, SessionStays
  <2>4. CASE LogsIn(h)
    <3>1. slot[sessions[h].slot].card \in Cards
      BY <1>1, <2>2, ApiFacts, OpenSessionCard DEF ApiHandles
    <3>2. loginCard'[h] = slot[sessions[h].slot].card
      BY <1>4, <2>4 DEF Recorded
    <3> QED BY <2>3, <3>1, <3>2
  <2>5. CASE ~LogsIn(h)
    <3>1. /\ loginCard[h] \in Cards
          /\ loginCard[h] = slot[sessions[h].slot].card
      BY <1>1, <2>1, <2>5 DEF KeyUseNeedsOwnLogin
    <3>2. loginCard'[h] = loginCard[h]
      BY <1>4, <2>2, <2>5 DEF Recorded
    <3> QED BY <2>3, <3>1, <3>2
  <2> QED BY <2>4, <2>5
<1>5. CASE Recorded
  BY <1>2, <1>4, <1>5 DEF KeyUseKept, KeyUseNeedsOwnLogin
<1> QED BY <1>3, <1>5

\* Whoever may use a private key, or holds a plaintext, was logged in in that
\* very session, by the card that is still behind its slot -- beside the Rust
\* API, with any number of sessions, threads and readers.
THEOREM KeysAreUsedByTheirLogin ==
    ASSUME PinChanges = FALSE
    PROVE  KeyUseSpec => []KeyUseNeedsOwnLogin
<1>1. KeyUseInit => KeyUseKept
  <2> SUFFICES ASSUME KeyUseInit PROVE KeyUseKept
    OBVIOUS
  <2>1. ApiHandles
    BY ApiHandlesInit DEF KeyUseInit
  <2>2. \A h \in Handles : ~sessions[h].inUse
    BY DEF KeyUseInit, ApiInit, Init, NewSession
  <2> QED BY <2>1, <2>2 DEF KeyUseKept, KeyUseNeedsOwnLogin, MayUseKey
<1>2. KeyUseKept => KeyUseNeedsOwnLogin
  BY DEF KeyUseKept
<1> QED BY <1>1, <1>2, KeyUseInvariant, PTL DEF KeyUseSpec

=============================================================================
