------------------------------- MODULE Crypt -------------------------------
(***************************************************************************)
(* C_Encrypt* and C_Decrypt* on one session (pkcs11/module.rs): data that  *)
(* is collected part by part, the size probe, and the result that is kept  *)
(* when the caller's buffer is too small.  The two directions share no     *)
(* state.  Who may decrypt, and what the card does for it, is Cryptoki's   *)
(* concern: here a computation works or fails.  Lengths are counted in     *)
(* units, Block of which make RSA_MODULUS_LEN; keys have that length.      *)
(***************************************************************************)
EXTENDS Naturals, Sequences

CONSTANTS
    Directions,   \* "encrypt", "decrypt"
    Keys,         \* object handles of keys
    Mechanisms,   \* "PKCS", "X509", "OAEP"
    Bytes,        \* what data is made of
    Block,        \* RSA_MODULUS_LEN
    Plaintext,    \* length of what a block decrypts to, by block
    None          \* no result kept, no call seen

ASSUME DirectionsAssumption ==
    Directions \subseteq {"encrypt", "decrypt"} /\ Mechanisms \subseteq {"PKCS", "X509", "OAEP"}
ASSUME BlockAssumption ==
    Block \in Nat \ {0, 1} /\ Plaintext \in [[1 .. Block -> Bytes] -> 0 .. Block - 1]
ASSUME NoneAssumption == None \notin Keys \cup Mechanisms \cup Seq(Bytes)

VARIABLES
    op,      \* the session's *_active, *_key, *_mech, *_buf and kept result
    answer,  \* the last answer to a call that asks for the result
    asked    \* since the last Init: the input of the first call with a buffer
             \* and the number of computations

vars == <<op, answer, asked>>

DataUpTo(n) == UNION {[1 .. k -> Bytes] : k \in 0 .. n}

\* C_EncryptUpdate collects one block, C_DecryptUpdate 512 bytes.
Limit(d) == IF d = "encrypt" THEN Block ELSE 2 * Block

\* Enough to be refused as too long by every mechanism and both buffers.
Inputs == DataUpTo(2 * Block)

Result == [key : Keys, mech : Mechanisms, input : Inputs, len : 0 .. Block]

ASSUME NoResultAssumption == None \notin Result

Op == [active : BOOLEAN, key : Keys \cup {None}, mech : Mechanisms \cup {None},
       buf : Inputs, kept : Result \cup {None}]

Silent == [rv |-> "none"]

Answer ==
    [rv : {"none", "failed"}]
    \cup [rv : {"probed"}, input : Inputs, len : 0 .. 2 * Block]
    \cup [rv : {"small"}, input : Inputs, len : 0 .. Block, room : 0 .. Block]
    \cup [rv : {"done"}, input : Inputs, result : Result]

Idle(o) == [o EXCEPT !.active = FALSE, !.buf = <<>>, !.kept = None]

Init ==
    /\ op = [d \in Directions |->
               [active |-> FALSE, key |-> None, mech |-> None, buf |-> <<>>, kept |-> None]]
    /\ answer = [d \in Directions |-> Silent]
    /\ asked = [d \in Directions |-> [first |-> None, computed |-> 0]]

-----------------------------------------------------------------------------
\* An Init is accepted at any time, also while an operation is active.
Started(o, k, m) ==
    [active |-> TRUE, key |-> k, mech |-> m, buf |-> <<>>, kept |-> None]

Start(d, k, m) ==
    /\ op' = [op EXCEPT ![d] = Started(@, k, m)]
    /\ answer' = [answer EXCEPT ![d] = Silent]
    /\ asked' = [asked EXCEPT ![d] = [first |-> None, computed |-> 0]]

\* A part that does not fit is refused and leaves what was collected before.
Update(d, part) ==
    /\ op[d].active
    /\ Len(op[d].buf) + Len(part) <= Limit(d)
    /\ op' = [op EXCEPT ![d].buf = @ \o part]
    /\ UNCHANGED <<answer, asked>>

-----------------------------------------------------------------------------
(* do_encrypt, do_decrypt *)

\* What is refused before the RSA operation: a plaintext too long for the
\* padding, a raw block or ciphertext that is not one block.
Refused(d, m, input) ==
    IF d = "encrypt"
    THEN CASE m = "PKCS" -> Len(input) > Block - 1
           [] m = "OAEP" -> Len(input) > Block - 2
           [] m = "X509" -> Len(input) # Block
    ELSE Len(input) # Block

\* PKCS and OAEP unpadding may leave less than a block.
ResultLength(d, m, input) ==
    IF d = "encrypt" \/ m = "X509" THEN Block ELSE Plaintext[input]

Computed(d, input) ==
    LET o == op[d]
    IN [key |-> o.key, mech |-> o.mech, input |-> input,
        len |-> ResultLength(d, o.mech, input)]

\* Faulty variant: C_Decrypt announces what PKCS padding would leave at most.
ProbedLengthUnpads(d, input) ==
    IF op[d].kept # None THEN op[d].kept.len
    ELSE IF d = "encrypt" THEN Block
    ELSE IF Len(input) = 0 THEN 0 ELSE Len(input) - 1

ProbedLength(d, input) ==
    IF op[d].kept # None THEN op[d].kept.len
    ELSE IF d = "encrypt" THEN Block ELSE Len(input)

\* A call without a result buffer changes nothing.
Probe(d, input) ==
    /\ op[d].active
    /\ answer' = [answer EXCEPT ![d] =
                    [rv |-> "probed", input |-> input, len |-> ProbedLength(d, input)]]
    /\ UNCHANGED <<op, asked>>

\* Faulty variant: a result that does not fit is dropped.
KeptNothing(o, r) == o

\* The result waits for the retry and the operation stays active.
Kept(o, r) == [o EXCEPT !.kept = r]

Ask(d, input, computing) ==
    asked' = [asked EXCEPT ![d] =
                [first    |-> IF @.first = None THEN input ELSE @.first,
                 computed |-> IF computing THEN @.computed + 1 ELSE @.computed]]

\* The result, kept or just computed, goes to a buffer with the given room.
Deliver(d, input, room, r) ==
    IF room < r.len
    THEN /\ op' = [op EXCEPT ![d] = Kept(@, r)]
         /\ answer' = [answer EXCEPT ![d] =
                         [rv |-> "small", input |-> input, len |-> r.len, room |-> room]]
    ELSE /\ op' = [op EXCEPT ![d] = Idle(@)]
         /\ answer' = [answer EXCEPT ![d] = [rv |-> "done", input |-> input, result |-> r]]

\* A retry delivers what was kept, whatever data it comes with.
Retry(d, input, room) ==
    /\ op[d].active /\ op[d].kept # None
    /\ Ask(d, input, FALSE)
    /\ Deliver(d, input, room, op[d].kept)

Compute(d, input, room) ==
    /\ op[d].active /\ op[d].kept = None
    /\ ~Refused(d, op[d].mech, input)
    /\ Ask(d, input, TRUE)
    /\ Deliver(d, input, room, Computed(d, input))

\* Faulty variant: an error ends the operation without clearing it.
EndedByErrorKeepsData(o) == [o EXCEPT !.active = FALSE]

EndedByError(o) == Idle(o)

\* The call is refused or the RSA operation fails (random numbers, the card,
\* a value above the modulus, the padding).  do_decrypt has one more exit, with
\* CKR_KEY_HANDLE_INVALID and a kept plaintext left in place, for a key that is
\* not in the token's tables any more: those of a slot with an open session are
\* not read again, so that the key of an active operation is always there.
Fail(d, input) ==
    /\ op[d].active /\ op[d].kept = None
    /\ Ask(d, input, ~Refused(d, op[d].mech, input))
    /\ op' = [op EXCEPT ![d] = EndedByError(@)]
    /\ answer' = [answer EXCEPT ![d] = [rv |-> "failed"]]

-----------------------------------------------------------------------------
(* The calls. *)

\* C_EncryptInit, C_DecryptInit
CryptInit(d) == \E k \in Keys, m \in Mechanisms : Start(d, k, m)

\* C_Encrypt, C_Decrypt with their data; C_EncryptFinal, C_DecryptFinal with
\* what was collected.
Call(d, input) ==
    \/ Probe(d, input)
    \/ Fail(d, input)
    \/ \E room \in 0 .. Block : Retry(d, input, room) \/ Compute(d, input, room)

SinglePart(d) == \E input \in Inputs : Call(d, input)

Final(d) == Call(d, op[d].buf)

CryptCall(d) ==
    \/ CryptInit(d)
    \/ \E part \in DataUpTo(Block) : Update(d, part)
    \/ SinglePart(d)
    \/ Final(d)

Next == \E d \in Directions : CryptCall(d)

Spec == Init /\ [][Next]_vars

-----------------------------------------------------------------------------
(* Invariants. *)

\* The state keeps its shape; buffers stay within their limits.
TypeOK ==
    /\ op \in [Directions -> Op]
    /\ \A d \in Directions : Len(op[d].buf) <= Limit(d)
    /\ answer \in [Directions -> Answer]
    /\ asked \in [Directions -> [first : Inputs \cup {None}, computed : Nat]]

\* The state keeps its shape, and between two operations the session holds no
\* data of the last one, in whatever way it ended: no collected part, no
\* plaintext.
IdleHoldsNothing ==
    /\ TypeOK
    /\ \A d \in Directions : ~op[d].active => op[d].buf = <<>> /\ op[d].kept = None

\* However often the caller probes and retries, an Init buys one RSA operation
\* at most: a decryption is not repeated on the card because a buffer was small.
\* Everything handed out or kept since an Init is the result of the first
\* call with a buffer, under the key and mechanism of that Init: never of an
\* earlier operation, and never of the data a retry came with.
ResultsAnswerTheFirstCall ==
    \A d \in Directions :
        LET Belongs(r) ==
                r.key = op[d].key /\ r.mech = op[d].mech /\ r.input = asked[d].first
        IN /\ asked[d].computed <= 1
           /\ op[d].kept # None => Belongs(op[d].kept)
           /\ answer[d].rv = "done" => Belongs(answer[d].result)

-----------------------------------------------------------------------------
(* What a step may never do. *)

\* A buffer of the length the last answer announced for the same data is
\* never too small, whether it came from a probe or from a failed try.
AnnouncedLengthSuffices ==
    [][\A d \in Directions :
         /\ answer'[d] # answer[d] /\ answer'[d].rv = "small"
         /\ answer[d].rv \in {"probed", "small"}
         /\ answer[d].input = answer'[d].input
         => answer'[d].room < answer[d].len]_vars

=============================================================================
