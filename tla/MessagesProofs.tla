--------------------------- MODULE MessagesProofs ---------------------------
(***************************************************************************)
(* Each of the three operations of Messages implements Stream, for every   *)
(* set of keys, mechanisms and bytes and every capacity.                   *)
(***************************************************************************)
EXTENDS Messages, TLAPS

Operations == {"sign", "verify", "digest"}

\* While an operation is under way the module has collected exactly what the
\* caller was told was taken.  A signature's buffer outlives it, so nothing is
\* said of it between two signatures.
SignCollects == sign.active => sign.setup # None /\ given.sign = sign.buf

VerifyCollects == verify.active => verify.setup # None /\ given.verify = verify.buf

DigestCollects == digest.active => given.digest = digest.ctx.fed

GivenOK == given \in [Operations -> Seq(Bytes)]

IInv == TypeOK /\ GivenOK /\ SignCollects /\ VerifyCollects /\ DigestCollects

-----------------------------------------------------------------------------
(* Parts *)

\* A part is a short sequence of bytes.
LEMMA PartsAre == ASSUME NEW p PROVE p \in Parts <=> p \in Seq(Bytes) /\ Len(p) <= Capacity + 1
<1>1. ASSUME p \in Parts PROVE p \in Seq(Bytes) /\ Len(p) <= Capacity + 1
  <2>1. PICK k \in 0 .. Capacity + 1 : p \in [1 .. k -> Bytes]
    BY <1>1 DEF Parts
  <2> QED BY <2>1
<1>2. ASSUME p \in Seq(Bytes), Len(p) <= Capacity + 1 PROVE p \in Parts
  <2>1. Len(p) \in 0 .. Capacity + 1 /\ p \in [1 .. Len(p) -> Bytes]
    BY <1>2, CapacityAssumption
  <2> QED BY <2>1 DEF Parts
<1> QED BY <1>1, <1>2

\* What is collected grows by parts and stays within its limit.
LEMMA JoinedParts ==
    ASSUME NEW a \in Parts, NEW b \in Parts, Len(a) + Len(b) <= Capacity
    PROVE  a \o b \in Parts /\ Len(a \o b) <= Capacity
<1>1. a \o b \in Seq(Bytes) /\ Len(a \o b) = Len(a) + Len(b) /\ Len(a) \in Nat /\ Len(b) \in Nat
  BY PartsAre
<1>2. Len(a \o b) <= Capacity + 1
  BY <1>1, CapacityAssumption
<1> QED BY <1>1, <1>2, PartsAre

LEMMA NothingIsAPart == <<>> \in Parts /\ Len(<<>>) <= Capacity /\ <<>> \in Seq(Bytes)
<1>1. <<>> \in Seq(Bytes) /\ Len(<<>>) = 0
  OBVIOUS
<1>2. Len(<<>>) <= Capacity + 1 /\ Len(<<>>) <= Capacity
  BY <1>1, CapacityAssumption
<1> QED BY <1>1, <1>2, PartsAre

LEMMA NoneIsNoSetup ==
    /\ \A s \in Setup : s # None
    /\ \A m \in Mechanisms : m # None
    /\ \A c \in HashContext : c # None
BY NoneAssumption

-----------------------------------------------------------------------------
(* The other operations are left alone. *)

\* What a call for operation o does to what was given and what came out: it
\* ends, begins or extends that operation and no other.
Concerns(o) ==
    \/ Begun(o)
    \/ \E p \in Parts : Given(o, p)
    \/ \E s, data, final : Yields(o, s, data, final)
    \/ YieldsNothing(o)

\* The books of the other operations are not touched.
LEMMA OthersUntouched ==
    ASSUME IInv, NEW o \in Operations, Concerns(o)
    PROVE  /\ DOMAIN last' = Operations /\ GivenOK'
           /\ \A other \in Operations \ {o} :
                 last'[other] = last[other] /\ given'[other] = given[other]
<1>1. DOMAIN last = Operations /\ DOMAIN given = Operations /\ GivenOK
  BY DEF IInv, TypeOK, GivenOK, Operations
<1>2. CASE Begun(o)
  BY <1>1, <1>2 DEF Begun, GivenOK
<1>3. ASSUME NEW p \in Parts, Given(o, p)
      PROVE  /\ DOMAIN last' = Operations /\ GivenOK'
             /\ \A other \in Operations \ {o} :
                   last'[other] = last[other] /\ given'[other] = given[other]
  <2>1. given[o] \in Seq(Bytes) /\ p \in Seq(Bytes)
    BY <1>1, PartsAre DEF GivenOK
  <2>2. given[o] \o p \in Seq(Bytes)
    BY <2>1
  <2> QED BY <1>1, <1>3, <2>2 DEF Given, GivenOK
<1>4. ASSUME NEW s, NEW data, NEW final, Yields(o, s, data, final)
      PROVE  /\ DOMAIN last' = Operations /\ GivenOK'
             /\ \A other \in Operations \ {o} :
                   last'[other] = last[other] /\ given'[other] = given[other]
  BY <1>1, <1>4 DEF Yields, GivenOK
<1>5. CASE YieldsNothing(o)
  BY <1>1, <1>5 DEF YieldsNothing, GivenOK
<1> QED BY <1>2, <1>3, <1>4, <1>5 DEF Concerns

-----------------------------------------------------------------------------
(* Signatures *)

\* What a call of C_Sign* promises: it keeps the shape of its own state and is
\* a step of the abstract operation.
SignDone ==
    /\ sign' \in Collector /\ Len(sign.buf)' <= Capacity /\ SignCollects'
    /\ [SignStream!Next]_(SignStream!vars)

LEMMA SignInitStep == ASSUME IInv, NEW s \in Setup, SignInit(s) PROVE SignDone /\ Concerns("sign")
<1>1. DOMAIN last = Operations /\ DOMAIN given = Operations
  BY DEF IInv, TypeOK, GivenOK, Operations
<1>2. sign' = [active |-> TRUE, setup |-> s, buf |-> <<>>]
  BY DEF SignInit, SignStarted
<1>3. given'.sign = <<>> /\ last'.sign = None
  BY <1>1 DEF SignInit, Begun, Operations
<1>4. sign' \in Collector /\ Len(sign.buf)' <= Capacity /\ SignCollects'
  BY <1>2, <1>3, NothingIsAPart, NoneIsNoSetup DEF Collector, SignCollects
<1>5. SignStream!Begin
  BY <1>2, <1>3 DEF SignStream!Begin
<1>6. Begun("sign")
  BY DEF SignInit
<1> QED BY <1>4, <1>5, <1>6 DEF SignDone, SignStream!Next, Concerns

LEMMA SignUpdateStep ==
    ASSUME IInv, NEW p \in Parts, SignUpdate(p) PROVE SignDone /\ Concerns("sign")
<1>1. DOMAIN last = Operations /\ DOMAIN given = Operations /\ sign \in Collector
  BY DEF IInv, TypeOK, GivenOK, Operations
<1>2. sign.active /\ sign.buf \in Parts /\ Len(sign.buf) + Len(p) <= Capacity
  BY <1>1 DEF SignUpdate, Collector
<1>3. sign' = [sign EXCEPT !.buf = sign.buf \o p]
  BY DEF SignUpdate
<1>4. sign.buf \o p \in Parts /\ Len(sign.buf \o p) <= Capacity
  BY <1>2, JoinedParts
<1>5. given'.sign = given.sign \o p /\ last' = last
  BY <1>1 DEF SignUpdate, Given, Operations
<1>6. given.sign = sign.buf /\ sign.setup # None
  BY <1>2 DEF IInv, SignCollects
<1>7. /\ sign' \in Collector /\ sign'.active = sign.active
      /\ sign'.setup = sign.setup /\ sign'.buf = sign.buf \o p
  BY <1>1, <1>3, <1>4 DEF Collector
<1>8. Len(sign.buf)' <= Capacity /\ SignCollects'
  BY <1>4, <1>5, <1>6, <1>7 DEF SignCollects
<1>9. SignStream!Absorb
  BY <1>2, <1>5, <1>6, <1>7 DEF SignStream!Absorb
<1>10. Given("sign", p)
  BY DEF SignUpdate
<1> QED BY <1>7, <1>8, <1>9, <1>10 DEF SignDone, SignStream!Next, Concerns

\* The data of C_Sign stands for the message, C_SignFinal signs the parts.
LEMMA DoSignStep ==
    ASSUME IInv, NEW data, NEW final \in BOOLEAN, DoSign(data, final),
           IF final THEN data = sign.buf ELSE data \in Parts
    PROVE  SignDone /\ Concerns("sign")
<1>1. DOMAIN last = Operations /\ DOMAIN given = Operations /\ sign \in Collector
  BY DEF IInv, TypeOK, GivenOK, Operations
<1>2. sign.active /\ sign.setup # None /\ given.sign = sign.buf
  BY DEF IInv, DoSign, SignCollects
<1>3. /\ sign' \in Collector /\ ~sign'.active
      /\ sign'.buf = sign.buf
  BY <1>1 DEF DoSign, Collector
<1>4. Len(sign.buf)' <= Capacity /\ SignCollects'
  BY <1>3 DEF IInv, TypeOK, SignCollects
<1>5. given'.sign = <<>>
  BY <1>1 DEF DoSign, Yields, YieldsNothing, Operations
<1>6. SignStream!End
  BY <1>2, <1>3, <1>5 DEF SignStream!End
<1>7. CASE Yields("sign", sign.setup, data, final)
  <2>1. last'.sign = [setup |-> sign.setup, data |-> data, final |-> final]
    BY <1>1, <1>7 DEF Yields, Operations
  <2>2. CASE ~final
    <3>1. SignStream!Finish(IF FALSE THEN given.sign \o data ELSE data, FALSE) /\ data \in Parts
      BY <1>2, <1>6, <2>1, <2>2 DEF SignStream!Finish
    <3> QED BY <1>3, <1>4, <1>7, <2>2, <3>1 DEF SignDone, SignStream!Next, Concerns
  <2>3. CASE final
    <3>1. SignStream!Finish(given.sign, TRUE)
      BY <1>2, <1>6, <2>1, <2>3 DEF SignStream!Finish
    <3> QED BY <1>3, <1>4, <1>7, <3>1 DEF SignDone, SignStream!Next, Concerns
  <2> QED BY <2>2, <2>3
<1>8. CASE YieldsNothing("sign")
  <2>1. SignStream!Abandon
    BY <1>6, <1>8 DEF YieldsNothing, SignStream!Abandon
  <2> QED BY <1>3, <1>4, <1>8, <2>1 DEF SignDone, SignStream!Next, Concerns
<1> QED BY <1>7, <1>8 DEF DoSign

LEMMA SignCallStep ==
    ASSUME IInv, SignCall PROVE SignDone /\ Concerns("sign") /\ UNCHANGED <<verify, digest>>
<1>1. ASSUME NEW s \in Setup, SignInit(s)
      PROVE  SignDone /\ Concerns("sign") /\ UNCHANGED <<verify, digest>>
  BY <1>1, SignInitStep DEF SignInit
<1>2. ASSUME NEW p \in Parts, SignUpdate(p)
      PROVE  SignDone /\ Concerns("sign") /\ UNCHANGED <<verify, digest>>
  BY <1>2, SignUpdateStep DEF SignUpdate
<1>3. ASSUME NEW p \in Parts, Sign(p)
      PROVE  SignDone /\ Concerns("sign") /\ UNCHANGED <<verify, digest>>
  <2>1. DoSign(p, FALSE)
    BY <1>3 DEF Sign
  <2>2. SignDone /\ Concerns("sign")
    BY <2>1, DoSignStep
  <2> QED BY <2>1, <2>2 DEF DoSign
<1>4. ASSUME SignFinal
      PROVE  SignDone /\ Concerns("sign") /\ UNCHANGED <<verify, digest>>
  <2>1. DoSign(sign.buf, TRUE)
    BY <1>4 DEF SignFinal
  <2>2. SignDone /\ Concerns("sign")
    BY <2>1, DoSignStep
  <2> QED BY <2>1, <2>2 DEF DoSign
<1> QED BY <1>1, <1>2, <1>3, <1>4 DEF SignCall

-----------------------------------------------------------------------------
(* Verifications *)

\* What a call of C_Verify* promises: it keeps the shape of its own state and is
\* a step of the abstract operation.
VerifyDone ==
    /\ verify' \in Collector /\ Len(verify.buf)' <= Capacity /\ VerifyCollects'
    /\ [VerifyStream!Next]_(VerifyStream!vars)

LEMMA VerifyInitStep == ASSUME IInv, NEW s \in Setup, VerifyInit(s) PROVE VerifyDone /\ Concerns("verify")
<1>1. DOMAIN last = Operations /\ DOMAIN given = Operations
  BY DEF IInv, TypeOK, GivenOK, Operations
<1>2. verify' = [active |-> TRUE, setup |-> s, buf |-> <<>>]
  BY DEF VerifyInit
<1>3. given'.verify = <<>> /\ last'.verify = None
  BY <1>1 DEF VerifyInit, Begun, Operations
<1>4. verify' \in Collector /\ Len(verify.buf)' <= Capacity /\ VerifyCollects'
  BY <1>2, <1>3, NothingIsAPart, NoneIsNoSetup DEF Collector, VerifyCollects
<1>5. VerifyStream!Begin
  BY <1>2, <1>3 DEF VerifyStream!Begin
<1>6. Begun("verify")
  BY DEF VerifyInit
<1> QED BY <1>4, <1>5, <1>6 DEF VerifyDone, VerifyStream!Next, Concerns

LEMMA VerifyUpdateStep ==
    ASSUME IInv, NEW p \in Parts, VerifyUpdate(p) PROVE VerifyDone /\ Concerns("verify")
<1>1. DOMAIN last = Operations /\ DOMAIN given = Operations /\ verify \in Collector
  BY DEF IInv, TypeOK, GivenOK, Operations
<1>2. verify.active /\ verify.buf \in Parts /\ Len(verify.buf) + Len(p) <= Capacity
  BY <1>1 DEF VerifyUpdate, Collector
<1>3. verify' = [verify EXCEPT !.buf = verify.buf \o p]
  BY DEF VerifyUpdate
<1>4. verify.buf \o p \in Parts /\ Len(verify.buf \o p) <= Capacity
  BY <1>2, JoinedParts
<1>5. given'.verify = given.verify \o p /\ last' = last
  BY <1>1 DEF VerifyUpdate, Given, Operations
<1>6. given.verify = verify.buf /\ verify.setup # None
  BY <1>2 DEF IInv, VerifyCollects
<1>7. /\ verify' \in Collector /\ verify'.active = verify.active
      /\ verify'.setup = verify.setup /\ verify'.buf = verify.buf \o p
  BY <1>1, <1>3, <1>4 DEF Collector
<1>8. Len(verify.buf)' <= Capacity /\ VerifyCollects'
  BY <1>4, <1>5, <1>6, <1>7 DEF VerifyCollects
<1>9. VerifyStream!Absorb
  BY <1>2, <1>5, <1>6, <1>7 DEF VerifyStream!Absorb
<1>10. Given("verify", p)
  BY DEF VerifyUpdate
<1> QED BY <1>7, <1>8, <1>9, <1>10 DEF VerifyDone, VerifyStream!Next, Concerns

\* A verdict covers the data of C_Verify or, in C_VerifyFinal, the parts.
LEMMA DoVerifyStep ==
    ASSUME IInv, NEW data, NEW final \in BOOLEAN, DoVerify(data, final),
           IF final THEN data = verify.buf ELSE data \in Parts
    PROVE  VerifyDone /\ Concerns("verify")
<1>1. DOMAIN last = Operations /\ DOMAIN given = Operations /\ verify \in Collector
  BY DEF IInv, TypeOK, GivenOK, Operations
<1>2. verify.active /\ verify.setup # None /\ given.verify = verify.buf
  BY DEF IInv, DoVerify, VerifyCollects
<1>3. /\ verify' \in Collector /\ ~verify'.active
      /\ verify'.buf = <<>>
  BY <1>1, NothingIsAPart DEF DoVerify, VerifyEnded, Collector
<1>4. Len(verify.buf)' <= Capacity /\ VerifyCollects'
  BY <1>3, NothingIsAPart DEF VerifyCollects
<1>5. given'.verify = <<>>
  BY <1>1 DEF DoVerify, Yields, YieldsNothing, Operations
<1>6. VerifyStream!End
  BY <1>2, <1>3, <1>5 DEF VerifyStream!End
<1>7. CASE Yields("verify", verify.setup, data, final)
  <2>1. last'.verify = [setup |-> verify.setup, data |-> data, final |-> final]
    BY <1>1, <1>7 DEF Yields, Operations
  <2>2. CASE ~final
    <3>1. VerifyStream!Finish(IF FALSE THEN given.verify \o data ELSE data, FALSE) /\ data \in Parts
      BY <1>2, <1>6, <2>1, <2>2 DEF VerifyStream!Finish
    <3> QED BY <1>3, <1>4, <1>7, <2>2, <3>1 DEF VerifyDone, VerifyStream!Next, Concerns
  <2>3. CASE final
    <3>1. VerifyStream!Finish(given.verify, TRUE)
      BY <1>2, <1>6, <2>1, <2>3 DEF VerifyStream!Finish
    <3> QED BY <1>3, <1>4, <1>7, <3>1 DEF VerifyDone, VerifyStream!Next, Concerns
  <2> QED BY <2>2, <2>3
<1>8. CASE YieldsNothing("verify")
  <2>1. VerifyStream!Abandon
    BY <1>6, <1>8 DEF YieldsNothing, VerifyStream!Abandon
  <2> QED BY <1>3, <1>4, <1>8, <2>1 DEF VerifyDone, VerifyStream!Next, Concerns
<1> QED BY <1>7, <1>8 DEF DoVerify

LEMMA VerifyCallStep ==
    ASSUME IInv, VerifyCall PROVE VerifyDone /\ Concerns("verify") /\ UNCHANGED <<sign, digest>>
<1>1. ASSUME NEW s \in Setup, VerifyInit(s)
      PROVE  VerifyDone /\ Concerns("verify") /\ UNCHANGED <<sign, digest>>
  BY <1>1, VerifyInitStep DEF VerifyInit
<1>2. ASSUME NEW p \in Parts, VerifyUpdate(p)
      PROVE  VerifyDone /\ Concerns("verify") /\ UNCHANGED <<sign, digest>>
  BY <1>2, VerifyUpdateStep DEF VerifyUpdate
<1>3. ASSUME NEW p \in Parts, Verify(p)
      PROVE  VerifyDone /\ Concerns("verify") /\ UNCHANGED <<sign, digest>>
  <2>1. DoVerify(p, FALSE)
    BY <1>3 DEF Verify
  <2>2. VerifyDone /\ Concerns("verify")
    BY <2>1, DoVerifyStep
  <2> QED BY <2>1, <2>2 DEF DoVerify
<1>4. ASSUME VerifyFinal
      PROVE  VerifyDone /\ Concerns("verify") /\ UNCHANGED <<sign, digest>>
  <2>1. DoVerify(verify.buf, TRUE)
    BY <1>4 DEF VerifyFinal
  <2>2. VerifyDone /\ Concerns("verify")
    BY <2>1, DoVerifyStep
  <2> QED BY <2>1, <2>2 DEF DoVerify
<1> QED BY <1>1, <1>2, <1>3, <1>4 DEF VerifyCall

-----------------------------------------------------------------------------
(* Digests *)

\* What a call of C_Digest* promises.
DigestDone ==
    /\ digest' \in Context /\ (digest'.active <=> digest'.ctx # None) /\ DigestCollects'
    /\ [DigestStream!Next]_(DigestStream!vars)

LEMMA DigestInitStep ==
    ASSUME IInv, NEW m \in Mechanisms, DigestInit(m) PROVE DigestDone /\ Concerns("digest")
<1>1. DOMAIN last = Operations /\ DOMAIN given = Operations
  BY DEF IInv, TypeOK, GivenOK, Operations
<1>2. digest' = [active |-> TRUE, ctx |-> [mech |-> m, fed |-> <<>>]]
  BY DEF DigestInit
<1>3. given'.digest = <<>> /\ last'.digest = None
  BY <1>1 DEF DigestInit, Begun, Operations
<1>4. [mech |-> m, fed |-> <<>>] \in HashContext
  BY NothingIsAPart DEF HashContext
<1>5. digest' \in Context /\ digest'.active /\ digest'.ctx # None /\ DigestCollects'
  BY <1>2, <1>3, <1>4, NoneIsNoSetup DEF Context, DigestCollects
<1>6. DigestStream!Begin
  BY <1>2, <1>3 DEF DigestStream!Begin
<1>7. Begun("digest")
  BY DEF DigestInit
<1> QED BY <1>5, <1>6, <1>7 DEF DigestDone, DigestStream!Next, Concerns

\* What holds of a digest that is under way.
LEMMA DigestUnderWay ==
    ASSUME IInv, DigestReady
    PROVE  /\ digest.active /\ digest.ctx \in HashContext
           /\ digest.ctx.mech # None /\ digest.ctx.fed \in Seq(Bytes)
           /\ given.digest = digest.ctx.fed
<1>1. digest.active /\ digest.ctx \in HashContext
  BY DEF IInv, TypeOK, DigestReady, Context
<1>2. digest.ctx.mech # None /\ digest.ctx.fed \in Seq(Bytes)
  BY <1>1, NoneIsNoSetup DEF HashContext
<1> QED BY <1>1, <1>2 DEF IInv, DigestCollects

LEMMA DigestUpdateStep ==
    ASSUME IInv, NEW p \in Parts, DigestUpdate(p) PROVE DigestDone /\ Concerns("digest")
<1>1. DOMAIN last = Operations /\ DOMAIN given = Operations /\ digest \in Context
  BY DEF IInv, TypeOK, GivenOK, Operations
<1>2. /\ digest.active /\ digest.ctx \in HashContext
      /\ digest.ctx.mech # None /\ digest.ctx.fed \in Seq(Bytes)
      /\ given.digest = digest.ctx.fed
  BY DigestUnderWay DEF DigestUpdate
<1>3. digest' = [digest EXCEPT !.ctx = [digest.ctx EXCEPT !.fed = digest.ctx.fed \o p]]
  BY DEF DigestUpdate, Feed
<1>4. digest.ctx.fed \o p \in Seq(Bytes)
  BY <1>2, PartsAre
<1>5. /\ digest' \in Context /\ digest'.active /\ digest'.ctx \in HashContext
      /\ digest'.ctx.mech = digest.ctx.mech /\ digest'.ctx.fed = digest.ctx.fed \o p
  <2> DEFINE c == [digest.ctx EXCEPT !.fed = digest.ctx.fed \o p]
  <2>1. c \in HashContext /\ c.mech = digest.ctx.mech /\ c.fed = digest.ctx.fed \o p
    BY <1>2, <1>4 DEF HashContext
  <2>2. digest' = [digest EXCEPT !.ctx = c]
    BY <1>3
  <2> HIDE DEF c
  <2> QED BY <1>1, <1>2, <2>1, <2>2 DEF Context
<1>6. given'.digest = given.digest \o p /\ last' = last
  BY <1>1 DEF DigestUpdate, Given, Operations
<1>7. digest'.ctx # None /\ DigestCollects'
  BY <1>2, <1>5, <1>6, NoneIsNoSetup DEF DigestCollects
<1>8. DigestStream!Absorb
  BY <1>2, <1>5, <1>6 DEF DigestStream!Absorb
<1>9. Given("digest", p)
  BY DEF DigestUpdate
<1> QED BY <1>5, <1>7, <1>8, <1>9 DEF DigestDone, DigestStream!Next, Concerns

\* The digest covers what was fed and then the data of the call that ends it.
LEMMA DigestYieldsStep ==
    ASSUME IInv, DigestReady, NEW data \in Parts, NEW final \in BOOLEAN,
           final => data = <<>>, DigestYields(data, final)
    PROVE  DigestDone /\ Concerns("digest")
<1>1. DOMAIN last = Operations /\ DOMAIN given = Operations
  BY DEF IInv, TypeOK, GivenOK, Operations
<1>2. /\ digest.active /\ digest.ctx.mech # None /\ digest.ctx.fed \in Seq(Bytes)
      /\ given.digest = digest.ctx.fed
  BY DigestUnderWay
<1>3. digest' = [active |-> FALSE, ctx |-> None]
  BY DEF DigestYields
<1>4. digest' \in Context /\ ~digest'.active /\ digest'.ctx = None /\ DigestCollects'
  BY <1>3 DEF Context, DigestCollects
<1>5. Yields("digest", digest.ctx.mech, digest.ctx.fed \o data, final)
  BY DEF DigestYields
<1>6. /\ given'.digest = <<>>
      /\ last'.digest = [setup |-> digest.ctx.mech, data |-> given.digest \o data, final |-> final]
  BY <1>1, <1>2, <1>5 DEF Yields, Operations
<1>7. DigestStream!End
  BY <1>2, <1>4, <1>6 DEF DigestStream!End
<1>8. CASE final
  <2>1. given.digest \o data = given.digest
    BY <1>2, <1>8
  <2>2. DigestStream!Finish(given.digest, TRUE)
    BY <1>2, <1>6, <1>7, <1>8, <2>1 DEF DigestStream!Finish
  <2> QED BY <1>4, <1>5, <2>2 DEF DigestDone, DigestStream!Next, Concerns
<1>9. CASE ~final
  <2>1. DigestStream!Finish(IF TRUE THEN given.digest \o data ELSE data, FALSE)
    BY <1>2, <1>6, <1>7, <1>9 DEF DigestStream!Finish
  <2> QED BY <1>4, <1>5, <2>1 DEF DigestDone, DigestStream!Next, Concerns
<1> QED BY <1>8, <1>9

LEMMA DigestCallStep ==
    ASSUME IInv, DigestCall
    PROVE  DigestDone /\ Concerns("digest") /\ UNCHANGED <<sign, verify>>
<1>1. ASSUME NEW m \in Mechanisms, DigestInit(m)
      PROVE  DigestDone /\ Concerns("digest") /\ UNCHANGED <<sign, verify>>
  BY <1>1, DigestInitStep DEF DigestInit
<1>2. ASSUME NEW p \in Parts, DigestUpdate(p)
      PROVE  DigestDone /\ Concerns("digest") /\ UNCHANGED <<sign, verify>>
  BY <1>2, DigestUpdateStep DEF DigestUpdate
<1>3. ASSUME NEW p \in Parts, NEW fits \in BOOLEAN, Digest(p, fits)
      PROVE  DigestDone /\ Concerns("digest") /\ UNCHANGED <<sign, verify>>
  <2>1. DigestReady /\ DigestYields(p, FALSE)
    BY <1>3 DEF Digest
  <2>2. DigestDone /\ Concerns("digest")
    BY <2>1, DigestYieldsStep
  <2> QED BY <2>1, <2>2 DEF DigestYields
<1>4. ASSUME DigestFinal
      PROVE  DigestDone /\ Concerns("digest") /\ UNCHANGED <<sign, verify>>
  <2>1. DigestReady /\ DigestYields(<<>>, TRUE)
    BY <1>4 DEF DigestFinal
  <2>2. DigestDone /\ Concerns("digest")
    BY <2>1, DigestYieldsStep, NothingIsAPart
  <2> QED BY <2>1, <2>2 DEF DigestYields
<1> QED BY <1>1, <1>2, <1>3, <1>4 DEF DigestCall

-----------------------------------------------------------------------------
(* The three together *)

LEMMA InvInit == Init => IInv
<1> SUFFICES ASSUME Init PROVE IInv
  OBVIOUS
<1>1. sign \in Collector /\ verify \in Collector
  BY NothingIsAPart DEF Init, Collector
<1>2. Len(sign.buf) <= Capacity /\ Len(verify.buf) <= Capacity
  BY NothingIsAPart DEF Init
<1>3. digest \in Context /\ (digest.active <=> digest.ctx # None)
  BY DEF Init, Context
<1>4. DOMAIN last = {"sign", "verify", "digest"} /\ GivenOK
  <2>1. DOMAIN last = {"sign", "verify", "digest"}
    BY DEF Init
  <2>2. given = [o \in Operations |-> <<>>]
    BY DEF Init, Operations
  <2>3. GivenOK
    BY <2>2, NothingIsAPart DEF GivenOK
  <2> QED BY <2>1, <2>3
<1>5. SignCollects /\ VerifyCollects /\ DigestCollects
  BY DEF Init, SignCollects, VerifyCollects, DigestCollects
<1> QED BY <1>1, <1>2, <1>3, <1>4, <1>5 DEF IInv, TypeOK

\* Every step keeps the invariant and is, for each of the three, a step of the
\* abstract operation or none.
StreamSteps ==
    /\ [SignStream!Next]_(SignStream!vars)
    /\ [VerifyStream!Next]_(VerifyStream!vars)
    /\ [DigestStream!Next]_(DigestStream!vars)

LEMMA InvStep == IInv /\ [Next]_vars => IInv' /\ StreamSteps
<1> SUFFICES ASSUME IInv, [Next]_vars PROVE IInv' /\ StreamSteps
  OBVIOUS
<1>1. DOMAIN last = Operations
  BY DEF IInv, TypeOK, Operations
<1>2. CASE SignCall
  <2>1. SignDone /\ Concerns("sign") /\ UNCHANGED <<verify, digest>>
    BY <1>2, SignCallStep
  <2>2. /\ DOMAIN last' = Operations /\ GivenOK'
        /\ last'.verify = last.verify /\ given'.verify = given.verify
        /\ last'.digest = last.digest /\ given'.digest = given.digest
    BY <2>1, OthersUntouched DEF Operations
  <2>3. UNCHANGED VerifyStream!vars /\ UNCHANGED DigestStream!vars
    BY <2>1, <2>2 DEF VerifyStream!vars, DigestStream!vars
  <2>4. VerifyCollects' /\ DigestCollects'
    BY <2>1, <2>2 DEF IInv, VerifyCollects, DigestCollects
  <2>5. TypeOK'
    BY <2>1, <2>2 DEF IInv, TypeOK, SignDone, Operations
  <2> QED BY <2>1, <2>2, <2>3, <2>4, <2>5 DEF IInv, SignDone, StreamSteps
<1>3. CASE VerifyCall
  <2>1. VerifyDone /\ Concerns("verify") /\ UNCHANGED <<sign, digest>>
    BY <1>3, VerifyCallStep
  <2>2. /\ DOMAIN last' = Operations /\ GivenOK'
        /\ last'.sign = last.sign /\ given'.sign = given.sign
        /\ last'.digest = last.digest /\ given'.digest = given.digest
    BY <2>1, OthersUntouched DEF Operations
  <2>3. UNCHANGED SignStream!vars /\ UNCHANGED DigestStream!vars
    BY <2>1, <2>2 DEF SignStream!vars, DigestStream!vars
  <2>4. SignCollects' /\ DigestCollects'
    BY <2>1, <2>2 DEF IInv, SignCollects, DigestCollects
  <2>5. TypeOK'
    BY <2>1, <2>2 DEF IInv, TypeOK, VerifyDone, Operations
  <2> QED BY <2>1, <2>2, <2>3, <2>4, <2>5 DEF IInv, VerifyDone, StreamSteps
<1>4. CASE DigestCall
  <2>1. DigestDone /\ Concerns("digest") /\ UNCHANGED <<sign, verify>>
    BY <1>4, DigestCallStep
  <2>2. /\ DOMAIN last' = Operations /\ GivenOK'
        /\ last'.sign = last.sign /\ given'.sign = given.sign
        /\ last'.verify = last.verify /\ given'.verify = given.verify
    BY <2>1, OthersUntouched DEF Operations
  <2>3. UNCHANGED SignStream!vars /\ UNCHANGED VerifyStream!vars
    BY <2>1, <2>2 DEF SignStream!vars, VerifyStream!vars
  <2>4. SignCollects' /\ VerifyCollects'
    BY <2>1, <2>2 DEF IInv, SignCollects, VerifyCollects
  <2>5. TypeOK'
    BY <2>1, <2>2 DEF IInv, TypeOK, DigestDone, Operations
  <2> QED BY <2>1, <2>2, <2>3, <2>4, <2>5 DEF IInv, DigestDone, StreamSteps
<1>5. CASE UNCHANGED vars
  <2>1. UNCHANGED SignStream!vars /\ UNCHANGED VerifyStream!vars /\ UNCHANGED DigestStream!vars
    BY <1>5 DEF vars, SignStream!vars, VerifyStream!vars, DigestStream!vars
  <2>2. IInv'
    BY <1>5 DEF vars, IInv, TypeOK, GivenOK, SignCollects, VerifyCollects, DigestCollects
  <2> QED BY <2>1, <2>2 DEF StreamSteps
<1> QED BY <1>2, <1>3, <1>4, <1>5 DEF Next

\* A signature covers exactly the parts since its C_SignInit, whatever is left
\* in the buffer of an earlier one, and there is one per C_SignInit.
THEOREM SignaturesAreStreams == Spec => SignIsStream
<1>1. Init => SignStream!Init
  BY DEF Init, SignStream!Init
<1>2. IInv /\ [Next]_vars => [SignStream!Next]_(SignStream!vars)
  BY InvStep DEF StreamSteps
<1>3. IInv /\ [Next]_vars => IInv'
  BY InvStep
<1> QED BY <1>1, <1>2, <1>3, InvInit, PTL DEF Spec, SignIsStream, SignStream!Spec

\* A verification covers exactly the parts since its C_VerifyInit, with one
\* verdict per C_VerifyInit.
THEOREM VerificationsAreStreams == Spec => VerifyIsStream
<1>1. Init => VerifyStream!Init
  BY DEF Init, VerifyStream!Init
<1>2. IInv /\ [Next]_vars => [VerifyStream!Next]_(VerifyStream!vars)
  BY InvStep DEF StreamSteps
<1>3. IInv /\ [Next]_vars => IInv'
  BY InvStep
<1> QED BY <1>1, <1>2, <1>3, InvInit, PTL DEF Spec, VerifyIsStream, VerifyStream!Spec

\* A digest covers the parts and then the data of the last call, and nothing a
\* call with a small buffer came with; and the state keeps its shape.
THEOREM DigestsAreStreams == Spec => DigestIsStream
<1>1. Init => DigestStream!Init
  BY DEF Init, DigestStream!Init
<1>2. IInv /\ [Next]_vars => [DigestStream!Next]_(DigestStream!vars)
  BY InvStep DEF StreamSteps
<1>3. IInv /\ [Next]_vars => IInv'
  BY InvStep
<1>4. IInv => TypeOK
  BY DEF IInv
<1> QED
  BY <1>1, <1>2, <1>3, <1>4, InvInit, PTL DEF Spec, DigestIsStream, DigestStream!Spec
=============================================================================
