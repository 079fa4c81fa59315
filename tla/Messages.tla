------------------------------ MODULE Messages ------------------------------
(***************************************************************************)
(* C_Sign*, C_Verify* and C_Digest* on one session (pkcs11/module.rs): the *)
(* message each collects and the moment at which the operation is over.    *)
(* The three follow different rules: a small buffer ends a signature and   *)
(* not a digest; the data of C_Digest comes after the parts, that of       *)
(* C_Sign and C_Verify replaces them; C_SignFinal leaves its buffer behind *)
(* and C_VerifyFinal does not.  Who may sign and what the card does for it *)
(* is Cryptoki's concern.                                                  *)
(***************************************************************************)
EXTENDS Naturals, Sequences

CONSTANTS
    Keys,        \* object handles of keys
    Mechanisms,  \* mechanisms, of each operation
    Bytes,       \* what data is made of
    Capacity,    \* 8192, the most C_SignUpdate and C_VerifyUpdate collect
    MaxMessage,  \* bound on what a digest takes in, which the code has not
    None         \* no setup, no result

Setup == [key : Keys, mech : Mechanisms]

\* A hash context is its mechanism and what it was fed.
HashContext == [mech : Mechanisms, fed : Seq(Bytes)]

ASSUME CapacityAssumption == Capacity \in Nat /\ MaxMessage \in Nat
ASSUME NoneAssumption == None \notin Setup \cup Mechanisms \cup HashContext

VARIABLES
    sign,    \* sign_active, sign_key, sign_mech, sign_buf
    verify,  \* verify_active, verify_key, verify_mech, verify_buf
    digest,  \* digest_active, digest_ctx
    last,    \* the last result of each since its Init
    given    \* the parts the callers have given to each, which they were told
             \* were taken

vars == <<sign, verify, digest, last, given>>

Parts == UNION {[1 .. k -> Bytes] : k \in 0 .. Capacity + 1}

\* A signature or verification; the buffer survives a signature.
Collector == [active : BOOLEAN, setup : Setup \cup {None}, buf : Parts]

Context == [active : BOOLEAN, ctx : HashContext \cup {None}]

Init ==
    /\ sign = [active |-> FALSE, setup |-> None, buf |-> <<>>]
    /\ verify = [active |-> FALSE, setup |-> None, buf |-> <<>>]
    /\ digest = [active |-> FALSE, ctx |-> None]
    /\ last = [sign |-> None, verify |-> None, digest |-> None]
    /\ given = [sign |-> <<>>, verify |-> <<>>, digest |-> <<>>]

Begun(o) == last' = [last EXCEPT ![o] = None] /\ given' = [given EXCEPT ![o] = <<>>]

Given(o, part) == given' = [given EXCEPT ![o] = @ \o part] /\ UNCHANGED last

Yields(o, s, data, final) ==
    /\ last' = [last EXCEPT ![o] = [setup |-> s, data |-> data, final |-> final]]
    /\ given' = [given EXCEPT ![o] = <<>>]

YieldsNothing(o) == given' = [given EXCEPT ![o] = <<>>] /\ UNCHANGED last

-----------------------------------------------------------------------------
(* C_SignInit, C_SignUpdate, C_Sign, C_SignFinal *)

\* Faulty variant: the parts of an operation that failed stay.
SignStartedKeepsParts(s) == [sign EXCEPT !.active = TRUE, !.setup = s]

SignStarted(s) == [active |-> TRUE, setup |-> s, buf |-> <<>>]

SignInit(s) ==
    /\ sign' = SignStarted(s)
    /\ Begun("sign")
    /\ UNCHANGED <<verify, digest>>

\* A part that does not fit is refused and changes nothing.
SignUpdate(part) ==
    /\ sign.active /\ Len(sign.buf) + Len(part) <= Capacity
    /\ sign' = [sign EXCEPT !.buf = @ \o part]
    /\ Given("sign", part)
    /\ UNCHANGED <<verify, digest>>

\* do_sign with a buffer; a call without one asks for the length and changes
\* nothing, unless the hash cannot be wrapped.
DoSign(data, final) ==
    /\ sign.active
    /\ sign' = [sign EXCEPT !.active = FALSE]
    /\ \/ Yields("sign", sign.setup, data, final)
       \/ YieldsNothing("sign")  \* small buffer, wrong length, the card fails
    /\ UNCHANGED <<verify, digest>>

Sign(data) == DoSign(data, FALSE)

SignFinal == DoSign(sign.buf, TRUE)

-----------------------------------------------------------------------------
(* C_VerifyInit, C_VerifyUpdate, C_Verify, C_VerifyFinal *)

VerifyInit(s) ==
    /\ verify' = [active |-> TRUE, setup |-> s, buf |-> <<>>]
    /\ Begun("verify")
    /\ UNCHANGED <<sign, digest>>

VerifyUpdate(part) ==
    /\ verify.active /\ Len(verify.buf) + Len(part) <= Capacity
    /\ verify' = [verify EXCEPT !.buf = @ \o part]
    /\ Given("verify", part)
    /\ UNCHANGED <<sign, digest>>

\* Faulty variant: only a verdict ends the operation, and it stays open.
VerifyEndedStaysOpen == [verify EXCEPT !.buf = <<>>]

VerifyEnded == [verify EXCEPT !.active = FALSE, !.buf = <<>>]

\* do_verify: a verdict on the data or an error, and the operation is over.
DoVerify(data, final) ==
    /\ verify.active
    /\ verify' = VerifyEnded
    /\ Yields("verify", verify.setup, data, final) \/ YieldsNothing("verify")
    /\ UNCHANGED <<sign, digest>>

Verify(data) == DoVerify(data, FALSE)

VerifyFinal == DoVerify(verify.buf, TRUE)

-----------------------------------------------------------------------------
(* C_DigestInit, C_DigestUpdate, C_Digest, C_DigestFinal *)

DigestInit(m) ==
    /\ digest' = [active |-> TRUE, ctx |-> [mech |-> m, fed |-> <<>>]]
    /\ Begun("digest")
    /\ UNCHANGED <<sign, verify>>

DigestReady == digest.active /\ digest.ctx # None

Feed(data) == digest' = [digest EXCEPT !.ctx.fed = @ \o data]

DigestUpdate(part) ==
    /\ DigestReady
    /\ Len(digest.ctx.fed) + Len(part) <= MaxMessage
    /\ Feed(part)
    /\ Given("digest", part)
    /\ UNCHANGED <<sign, verify>>

DigestYields(data, final) ==
    /\ digest' = [active |-> FALSE, ctx |-> None]
    /\ Yields("digest", digest.ctx.mech, digest.ctx.fed \o data, final)
    /\ UNCHANGED <<sign, verify>>

\* Faulty variant: the data is taken in before the buffer is found too small.
DigestFeedsFirst(data, fits) ==
    /\ DigestReady
    /\ Len(digest.ctx.fed) + Len(data) <= MaxMessage
    /\ IF fits THEN DigestYields(data, FALSE)
       ELSE Feed(data) /\ UNCHANGED <<sign, verify, last, given>>

\* A call without a buffer or with a small one changes nothing.
Digest(data, fits) == DigestReady /\ fits /\ DigestYields(data, FALSE)

DigestFinal == DigestReady /\ DigestYields(<<>>, TRUE)

-----------------------------------------------------------------------------
SignCall ==
    \/ \E s \in Setup : SignInit(s)
    \/ \E p \in Parts : SignUpdate(p) \/ Sign(p)
    \/ SignFinal

VerifyCall ==
    \/ \E s \in Setup : VerifyInit(s)
    \/ \E p \in Parts : VerifyUpdate(p) \/ Verify(p)
    \/ VerifyFinal

DigestCall ==
    \/ \E m \in Mechanisms : DigestInit(m)
    \/ \E p \in Parts : DigestUpdate(p) \/ \E fits \in BOOLEAN : Digest(p, fits)
    \/ DigestFinal

Next == SignCall \/ VerifyCall \/ DigestCall

Spec == Init /\ [][Next]_vars

-----------------------------------------------------------------------------
\* The state keeps its shape, the collected parts their limit, and there is a
\* hash context exactly while a digest is under way.
TypeOK ==
    /\ sign \in Collector /\ Len(sign.buf) <= Capacity
    /\ verify \in Collector /\ Len(verify.buf) <= Capacity
    /\ digest \in Context /\ (digest.active <=> digest.ctx # None)
    /\ DOMAIN last = {"sign", "verify", "digest"}

\* A signature covers exactly the parts since its C_SignInit, whatever calls
\* came before and how they ended, although the buffer is only ever cleared
\* there; and there is one signature per C_SignInit.
SignStream == INSTANCE Stream
    WITH Setups  <- Setup, Joins <- FALSE,
         setup   <- IF sign.active THEN sign.setup ELSE None,
         message <- given.sign,
         result  <- last.sign

SignIsStream == SignStream!Spec

\* So does a verification, with one verdict per C_VerifyInit.
VerifyStream == INSTANCE Stream
    WITH Setups  <- Setup, Joins <- FALSE,
         setup   <- IF verify.active THEN verify.setup ELSE None,
         message <- given.verify,
         result  <- last.verify

VerifyIsStream == VerifyStream!Spec

\* A digest covers the parts and the data of the last call in that order,
\* nothing that was fed before its C_DigestInit, and nothing a call with a
\* small buffer came with; and the state of all three keeps its shape.
DigestStream == INSTANCE Stream
    WITH Setups  <- Mechanisms, Joins <- TRUE,
         setup   <- IF digest.active THEN digest.ctx.mech ELSE None,
         message <- given.digest,
         result  <- last.digest

DigestIsStream == DigestStream!Spec /\ []TypeOK

=============================================================================
