---------------------------- MODULE CryptProofs ----------------------------
(***************************************************************************)
(* Encryption and decryption on a session, for every set of keys and       *)
(* mechanisms, block length and data: what is kept, what is handed out,    *)
(* and what is announced.  Then the formats around RSA, for every length   *)
(* of the modulus, message and hash: what is padded is unpadded to the     *)
(* same, nothing else is, and signatures are those of DigestInfo.          *)
(***************************************************************************)
EXTENDS Crypt, Padding, WellFoundedInduction, TLAPS

LEMMA BlockIsNat == Block \in Nat /\ Block >= 2
  BY BlockAssumption

\* Data of limited length is sequences of limited length.
LEMMA DataFacts ==
    ASSUME NEW n \in Nat, NEW s
    PROVE  s \in DataUpTo(n) <=> s \in Seq(Bytes) /\ Len(s) <= n
  <1>1. ASSUME s \in DataUpTo(n) PROVE s \in Seq(Bytes) /\ Len(s) <= n
    <2>1. PICK k \in 0 .. n : s \in [1 .. k -> Bytes]
      BY <1>1 DEF DataUpTo
    <2> QED BY <2>1
  <1>2. ASSUME s \in Seq(Bytes), Len(s) <= n PROVE s \in DataUpTo(n)
    <2>1. Len(s) \in 0 .. n /\ s \in [1 .. Len(s) -> Bytes]
      BY <1>2
    <2> QED BY <2>1 DEF DataUpTo
  <1> QED BY <1>1, <1>2

LEMMA InputsAre ==
    ASSUME NEW s
    PROVE  s \in Inputs <=> s \in Seq(Bytes) /\ Len(s) <= 2 * Block
  <1>1. 2 * Block \in Nat
    BY BlockIsNat
  <1> QED BY <1>1, DataFacts DEF Inputs

LEMMA InputFacts ==
    ASSUME NEW s \in Inputs
    PROVE  s \in Seq(Bytes) /\ Len(s) \in 0 .. 2 * Block /\ s # None
  BY BlockIsNat, InputsAre, NoneAssumption

LEMMA NoDataIsInput == <<>> \in Inputs /\ Len(<<>>) = 0
  <1>1. <<>> \in Seq(Bytes) /\ Len(<<>>) = 0
    OBVIOUS
  <1>2. 0 <= 2 * Block
    BY BlockIsNat
  <1> QED BY <1>1, <1>2, InputsAre

\* What was collected is an input, and stays one when a part that fits is added.
LEMMA PartsFit ==
    ASSUME NEW d \in Directions, NEW buf \in Inputs, NEW part \in DataUpTo(Block),
           Len(buf) + Len(part) <= Limit(d)
    PROVE  buf \o part \in Inputs /\ Len(buf \o part) <= Limit(d)
  <1>1. buf \in Seq(Bytes) /\ part \in Seq(Bytes)
    BY InputFacts, DataFacts, BlockIsNat
  <1>2. buf \o part \in Seq(Bytes) /\ Len(buf \o part) = Len(buf) + Len(part)
    BY <1>1
  <1>3. Limit(d) \in Nat /\ Limit(d) <= 2 * Block
    BY BlockIsNat DEF Limit
  <1>4. Len(buf \o part) <= 2 * Block
    BY <1>1, <1>2, <1>3, BlockIsNat
  <1>5. buf \o part \in Inputs
    BY <1>2, <1>4, InputsAre
  <1> QED BY <1>2, <1>5

\* The length of what a computation gives.
LEMMA ResultLengthFacts ==
    ASSUME NEW d \in Directions, NEW m \in Mechanisms, NEW input \in Inputs,
           ~Refused(d, m, input)
    PROVE  /\ ResultLength(d, m, input) \in 0 .. Block
           /\ d # "encrypt" => Len(input) = Block
  <1>1. d # "encrypt" => Len(input) = Block
    BY DEF Refused
  <1>2. d # "encrypt" => Plaintext[input] \in 0 .. Block - 1
    <2> SUFFICES ASSUME d # "encrypt" PROVE Plaintext[input] \in 0 .. Block - 1
      OBVIOUS
    <2>1. input \in [1 .. Block -> Bytes]
      BY <1>1, InputFacts
    <2> QED BY <2>1, BlockAssumption
  <1> QED BY <1>1, <1>2, BlockIsNat DEF ResultLength

-----------------------------------------------------------------------------
(* The invariant, direction by direction: no action touches both. *)

Asked == [first : Inputs \cup {None}, computed : Nat]

\* A result of the current operation for the first call since its Init.
Belongs(r, o, q) == r.key = o.key /\ r.mech = o.mech /\ r.input = q.first

\* What a probe would say.
Announced(d, o, input) ==
    IF o.kept # None THEN o.kept.len ELSE IF d = "encrypt" THEN Block ELSE Len(input)

\* A direction of the session, the last answer, and the history since the Init.
\* While nothing is kept, nothing was computed: a computation ends the operation
\* or leaves its result.
Good(d, o, a, q) ==
    /\ o \in Op /\ Len(o.buf) <= Limit(d) /\ a \in Answer /\ q \in Asked
    /\ o.active => o.key \in Keys /\ o.mech \in Mechanisms
    /\ ~o.active => o.buf = <<>> /\ o.kept = None
    /\ q.computed <= 1
    /\ o.active /\ o.kept = None => q.first = None /\ q.computed = 0 /\ a.rv # "done"
    /\ o.kept # None => Belongs(o.kept, o, q)
    /\ a.rv = "done" => Belongs(a.result, o, q)
    /\ a.rv = "probed" /\ o.active => a.len = Announced(d, o, a.input)
    /\ a.rv = "small" => o.kept # None /\ a.len = o.kept.len

IInv ==
    /\ TypeOK
    /\ \A d \in Directions : Good(d, op[d], answer[d], asked[d])

\* g is f but for the direction d.
Set(f, g, d, v) == g = [f EXCEPT ![d] = v]

\* A step of one direction.
LEMMA OneDirectionStep ==
    ASSUME IInv, NEW d \in Directions, NEW o, NEW a, NEW q, Good(d, o, a, q),
           Set(op, op', d, o), Set(answer, answer', d, a), Set(asked, asked', d, q)
    PROVE  IInv'
  <1>1. TypeOK
    BY DEF IInv
  <1>2. o \in Op /\ a \in Answer /\ q \in Asked
    BY DEF Good
  <1>3. op' \in [Directions -> Op] /\ answer' \in [Directions -> Answer]
        /\ asked' \in [Directions -> Asked]
    BY <1>1, <1>2 DEF TypeOK, Set, Asked
  <1>4. ASSUME NEW e \in Directions PROVE Good(e, op'[e], answer'[e], asked'[e])
    <2>1. CASE e = d
      <3>1. op'[e] = o /\ answer'[e] = a /\ asked'[e] = q
        BY <1>1, <2>1 DEF TypeOK, Set
      <3> QED BY <2>1, <3>1
    <2>2. CASE e # d
      <3>1. op'[e] = op[e] /\ answer'[e] = answer[e] /\ asked'[e] = asked[e]
        BY <1>1, <2>2 DEF TypeOK, Set
      <3> QED BY <3>1 DEF IInv
    <2> QED BY <2>1, <2>2
  <1>5. \A e \in Directions : Len(op'[e].buf) <= Limit(e)
    BY <1>4 DEF Good
  <1> QED BY <1>3, <1>4, <1>5 DEF IInv, TypeOK, Asked

\* What has not changed is what it was.
LEMMA Unchanged ==
    ASSUME IInv, NEW d \in Directions
    PROVE  /\ op[d] \in Op /\ answer[d] \in Answer /\ asked[d] \in Asked
           /\ Good(d, op[d], answer[d], asked[d])
           /\ UNCHANGED op => Set(op, op', d, op[d])
           /\ UNCHANGED answer => Set(answer, answer', d, answer[d])
           /\ UNCHANGED asked => Set(asked, asked', d, asked[d])
  BY DEF IInv, TypeOK, Set, Asked

\* C_EncryptInit, C_DecryptInit
LEMMA StartStep ==
    ASSUME IInv, NEW d \in Directions, NEW k \in Keys, NEW m \in Mechanisms, Start(d, k, m)
    PROVE  IInv'
  <1> DEFINE o == Started(op[d], k, m)
             q == [first |-> None, computed |-> 0]
  <1>1. o \in Op /\ o.active /\ o.key = k /\ o.mech = m /\ o.buf = <<>> /\ o.kept = None
    BY NoDataIsInput DEF Started, Op
  <1>2. Silent \in Answer /\ Silent.rv = "none"
    BY DEF Silent, Answer
  <1>3. q \in Asked /\ q.first = None /\ q.computed = 0
    BY DEF Asked
  <1>4. Len(o.buf) <= Limit(d)
    BY <1>1, BlockIsNat, NoDataIsInput DEF Limit
  <1>5. Set(op, op', d, o) /\ Set(answer, answer', d, Silent) /\ Set(asked, asked', d, q)
    BY DEF Start, Set
  <1> HIDE DEF o, q
  <1>6. Good(d, o, Silent, q)
    BY <1>1, <1>2, <1>3, <1>4 DEF Good
  <1> QED BY <1>5, <1>6, OneDirectionStep

\* C_EncryptUpdate, C_DecryptUpdate
LEMMA UpdateStep ==
    ASSUME IInv, NEW d \in Directions, NEW part \in DataUpTo(Block), Update(d, part)
    PROVE  IInv'
  <1> DEFINE b == op[d].buf \o part
             o == [op[d] EXCEPT !.buf = b]
  <1>1. op[d] \in Op /\ op[d].active /\ Good(d, op[d], answer[d], asked[d])
    BY Unchanged DEF Update
  <1>2. b \in Inputs /\ Len(b) <= Limit(d)
    <2>1. op[d].buf \in Inputs
      BY <1>1 DEF Op
    <2> QED BY <2>1, PartsFit DEF Update
  <1> HIDE DEF b
  <1>3. o \in Op /\ o.buf = b /\ o.active /\ o.key = op[d].key /\ o.mech = op[d].mech
        /\ o.kept = op[d].kept
    BY <1>1, <1>2 DEF Op
  <1>4. Set(op, op', d, o) /\ UNCHANGED <<answer, asked>>
    BY DEF Update, Set, b
  <1> HIDE DEF o
  <1>5. Good(d, o, answer[d], asked[d])
    BY <1>1, <1>2, <1>3 DEF Good, Belongs, Announced
  <1> QED BY <1>4, <1>5, Unchanged, OneDirectionStep

\* A probe
LEMMA ProbeStep ==
    ASSUME IInv, NEW d \in Directions, NEW input \in Inputs, Probe(d, input)
    PROVE  IInv'
  <1> DEFINE len == ProbedLength(d, input)
             a == [rv |-> "probed", input |-> input, len |-> len]
  <1>1. op[d] \in Op /\ op[d].active /\ Good(d, op[d], answer[d], asked[d])
    BY Unchanged DEF Probe
  <1>2. len = Announced(d, op[d], input)
    BY DEF ProbedLength, Announced
  <1>3. op[d].kept # None => op[d].kept.len \in 0 .. Block
    BY <1>1 DEF Op, Result
  <1>4. len \in 0 .. 2 * Block
    BY <1>2, <1>3, InputFacts, BlockIsNat DEF Announced
  <1>5. Set(answer, answer', d, a) /\ UNCHANGED <<op, asked>>
    BY DEF Probe, Set
  <1> HIDE DEF len
  <1>6. a \in Answer /\ a.rv = "probed" /\ a.input = input /\ a.len = len
    BY <1>4 DEF Answer
  <1> HIDE DEF a
  <1>7. Good(d, op[d], a, asked[d])
    BY <1>1, <1>2, <1>6 DEF Good
  <1> QED BY <1>5, <1>7, Unchanged, OneDirectionStep

\* What Ask makes of the history.
AskedNow(q, input, computing) ==
    [first    |-> IF q.first = None THEN input ELSE q.first,
     computed |-> IF computing THEN q.computed + 1 ELSE q.computed]

LEMMA AskFacts ==
    ASSUME NEW q \in Asked, NEW input \in Inputs, NEW computing \in BOOLEAN
    PROVE  LET next == AskedNow(q, input, computing)
           IN /\ next \in Asked /\ next.first \in Inputs
              /\ next.first = (IF q.first = None THEN input ELSE q.first)
              /\ next.computed = (IF computing THEN q.computed + 1 ELSE q.computed)
  BY DEF Asked, AskedNow

\* A result that is the one of this operation is delivered or kept.
LEMMA DeliverStep ==
    ASSUME IInv, NEW d \in Directions, NEW input \in Inputs, NEW room \in 0 .. Block,
           NEW computing \in BOOLEAN, NEW r \in Result,
           op[d].active, Deliver(d, input, room, r), Ask(d, input, computing),
           Belongs(r, op[d], AskedNow(asked[d], input, computing)),
           AskedNow(asked[d], input, computing).computed <= 1
    PROVE  IInv'
  <1> DEFINE q == AskedNow(asked[d], input, computing)
  <1>1. op[d] \in Op /\ asked[d] \in Asked /\ Good(d, op[d], answer[d], asked[d])
    BY Unchanged
  <1>2. q \in Asked /\ Belongs(r, op[d], q) /\ q.computed <= 1
    BY <1>1, AskFacts
  <1>3. Set(asked, asked', d, q)
    BY DEF Ask, Set, AskedNow
  <1>4. r # None /\ r.len \in 0 .. Block
    BY NoResultAssumption DEF Result
  <1> HIDE DEF q
  <1>5. CASE room < r.len
    <2> DEFINE o == Kept(op[d], r)
               a == [rv |-> "small", input |-> input, len |-> r.len, room |-> room]
    <2>1. o \in Op /\ o.active /\ o.key = op[d].key /\ o.mech = op[d].mech
          /\ o.buf = op[d].buf /\ o.kept = r
      BY <1>1 DEF Op, Kept
    <2>2. a \in Answer /\ a.rv = "small" /\ a.len = r.len
      BY <1>4 DEF Answer
    <2>3. Set(op, op', d, o) /\ Set(answer, answer', d, a)
      BY <1>5 DEF Deliver, Set
    <2> HIDE DEF o, a
    <2>4. Good(d, o, a, q)
      BY <1>1, <1>2, <1>4, <2>1, <2>2 DEF Good, Belongs
    <2> QED BY <1>3, <2>3, <2>4, OneDirectionStep
  <1>6. CASE ~(room < r.len)
    <2> DEFINE o == Idle(op[d])
               a == [rv |-> "done", input |-> input, result |-> r]
    <2>1. o \in Op /\ ~o.active /\ o.key = op[d].key /\ o.mech = op[d].mech
          /\ o.buf = <<>> /\ o.kept = None
      BY <1>1, NoDataIsInput DEF Op, Idle
    <2>2. a \in Answer /\ a.rv = "done" /\ a.result = r
      BY DEF Answer
    <2>3. Set(op, op', d, o) /\ Set(answer, answer', d, a)
      BY <1>6 DEF Deliver, Set
    <2>4. 0 <= Limit(d)
      BY BlockIsNat DEF Limit
    <2> HIDE DEF o, a
    <2>5. Good(d, o, a, q)
      BY <1>2, <2>1, <2>2, <2>4, NoDataIsInput DEF Good, Belongs
    <2> QED BY <1>3, <2>3, <2>5, OneDirectionStep
  <1> QED BY <1>5, <1>6

\* A call that finds a result kept from an earlier one.
LEMMA RetryStep ==
    ASSUME IInv, NEW d \in Directions, NEW input \in Inputs, NEW room \in 0 .. Block,
           Retry(d, input, room)
    PROVE  IInv'
  <1> DEFINE r == op[d].kept
             q == AskedNow(asked[d], input, FALSE)
  <1>1. op[d] \in Op /\ asked[d] \in Asked /\ Good(d, op[d], answer[d], asked[d])
    BY Unchanged
  <1>2. op[d].active /\ r # None /\ Ask(d, input, FALSE) /\ Deliver(d, input, room, r)
    BY DEF Retry
  <1>3. r \in Result /\ r.input \in Inputs
    BY <1>1, <1>2 DEF Op, Result
  <1>4. Belongs(r, op[d], asked[d]) /\ asked[d].computed <= 1
    BY <1>1, <1>2 DEF Good
  <1>5. asked[d].first # None
    BY <1>3, <1>4, InputFacts DEF Belongs
  <1>6. q.first = asked[d].first /\ q.computed = asked[d].computed
    BY <1>1, <1>5 DEF AskedNow
  <1>7. Belongs(r, op[d], q) /\ q.computed <= 1
    BY <1>4, <1>6 DEF Belongs
  <1> HIDE DEF r
  <1> QED BY <1>2, <1>3, <1>7, DeliverStep

\* A call that computes: it is the first since the Init.
LEMMA ComputeStep ==
    ASSUME IInv, NEW d \in Directions, NEW input \in Inputs, NEW room \in 0 .. Block,
           Compute(d, input, room)
    PROVE  IInv'
  <1> DEFINE r == Computed(d, input)
             q == AskedNow(asked[d], input, TRUE)
  <1>1. op[d] \in Op /\ asked[d] \in Asked /\ Good(d, op[d], answer[d], asked[d])
    BY Unchanged
  <1>2. op[d].active /\ op[d].kept = None /\ ~Refused(d, op[d].mech, input)
        /\ Ask(d, input, TRUE) /\ Deliver(d, input, room, r)
    BY DEF Compute
  <1>3. op[d].key \in Keys /\ op[d].mech \in Mechanisms
        /\ asked[d].first = None /\ asked[d].computed = 0
    BY <1>1, <1>2 DEF Good
  <1>4. r \in Result /\ r.key = op[d].key /\ r.mech = op[d].mech /\ r.input = input
    BY <1>2, <1>3, ResultLengthFacts DEF Computed, Result
  <1>5. q.first = input /\ q.computed = 1
    BY <1>1, <1>3 DEF AskedNow
  <1> HIDE DEF r, q
  <1>6. Belongs(r, op[d], q) /\ q.computed <= 1
    BY <1>4, <1>5 DEF Belongs
  <1> QED BY <1>2, <1>4, <1>6, DeliverStep DEF q

\* A call that fails ends the operation and clears it.
LEMMA FailStep ==
    ASSUME IInv, NEW d \in Directions, NEW input \in Inputs, Fail(d, input)
    PROVE  IInv'
  <1> DEFINE o == Idle(op[d])
             a == [rv |-> "failed"]
             computing == ~Refused(d, op[d].mech, input)
             q == AskedNow(asked[d], input, computing)
  <1>1. op[d] \in Op /\ asked[d] \in Asked /\ Good(d, op[d], answer[d], asked[d])
    BY Unchanged
  <1>2. op[d].active /\ op[d].kept = None
    BY DEF Fail
  <1>3. asked[d].computed = 0
    BY <1>1, <1>2 DEF Good
  <1>4. o \in Op /\ ~o.active /\ o.buf = <<>> /\ o.kept = None
    BY <1>1, NoDataIsInput DEF Op, Idle
  <1>5. a \in Answer /\ a.rv = "failed"
    BY DEF Answer
  <1>6. computing \in BOOLEAN
    OBVIOUS
  <1>7. Set(op, op', d, o) /\ Set(answer, answer', d, a) /\ Set(asked, asked', d, q)
    BY DEF Fail, EndedByError, Ask, AskedNow, Set
  <1> HIDE DEF computing
  <1>8. q \in Asked /\ q.computed <= 1
    <2>1. q \in Asked /\ q.computed = (IF computing THEN asked[d].computed + 1 ELSE asked[d].computed)
      BY <1>1, <1>6, AskFacts
    <2> QED BY <1>3, <2>1
  <1>9. 0 <= Limit(d)
    BY BlockIsNat DEF Limit
  <1> HIDE DEF o, a, q
  <1>10. Good(d, o, a, q)
    BY <1>4, <1>5, <1>8, <1>9, NoDataIsInput DEF Good
  <1> QED BY <1>7, <1>10, OneDirectionStep

\* A call, single-part or with what was collected.
LEMMA CallStep ==
    ASSUME IInv, NEW d \in Directions, NEW input \in Inputs, Call(d, input)
    PROVE  IInv'
  BY ProbeStep, FailStep, RetryStep, ComputeStep DEF Call

\* No operation is active before the first Init.
LEMMA InvariantInit == Init => IInv
  <1> SUFFICES ASSUME Init PROVE IInv
    OBVIOUS
  <1> DEFINE o == [active |-> FALSE, key |-> None, mech |-> None, buf |-> <<>>, kept |-> None]
             q == [first |-> None, computed |-> 0]
  <1>1. o \in Op /\ ~o.active /\ o.buf = <<>> /\ o.kept = None
    BY NoDataIsInput DEF Op
  <1>2. Silent \in Answer /\ Silent.rv = "none"
    BY DEF Silent, Answer
  <1>3. q \in Asked /\ q.computed = 0
    BY DEF Asked
  <1>4. \A d \in Directions : 0 <= Limit(d)
    BY BlockIsNat DEF Limit
  <1>5. /\ op = [d \in Directions |-> o] /\ answer = [d \in Directions |-> Silent]
        /\ asked = [d \in Directions |-> q]
    BY DEF Init
  <1> HIDE DEF o, q
  <1>6. \A d \in Directions : Good(d, o, Silent, q)
    <2> TAKE d \in Directions
    <2>1. Len(o.buf) <= Limit(d) /\ q.computed <= 1
      BY <1>1, <1>3, <1>4, NoDataIsInput
    <2>2. Silent.rv \notin {"done", "probed", "small"}
      BY <1>2
    <2> QED BY <1>1, <1>2, <1>3, <2>1, <2>2 DEF Good
  <1>7. TypeOK
    BY <1>1, <1>2, <1>3, <1>4, <1>5, NoDataIsInput DEF TypeOK, Asked
  <1> QED BY <1>5, <1>6, <1>7 DEF IInv

\* Every step keeps the invariant.
LEMMA InvariantStep == IInv /\ [Next]_vars => IInv'
  <1> SUFFICES ASSUME IInv, [Next]_vars PROVE IInv'
    OBVIOUS
  <1>1. ASSUME NEW d \in Directions, CryptCall(d) PROVE IInv'
    <2>1. CASE CryptInit(d)
      BY <2>1, StartStep DEF CryptInit
    <2>2. CASE \E part \in DataUpTo(Block) : Update(d, part)
      BY <2>2, UpdateStep
    <2>3. CASE SinglePart(d)
      BY <2>3, CallStep DEF SinglePart
    <2>4. CASE Final(d)
      <3>1. op[d].buf \in Inputs
        BY Unchanged DEF Op
      <3> QED BY <2>4, <3>1, CallStep DEF Final
    <2> QED BY <1>1, <2>1, <2>2, <2>3, <2>4 DEF CryptCall
  <1>2. CASE UNCHANGED vars
    BY <1>2 DEF vars, IInv, TypeOK
  <1> QED BY <1>1, <1>2 DEF Next

\* Between two operations the session holds no data of the last one, in whatever
\* way do_encrypt or do_decrypt ended it.
THEOREM IdleSessionsHoldNothing == Spec => []IdleHoldsNothing
  <1>1. IInv => IdleHoldsNothing
    BY DEF IInv, Good, IdleHoldsNothing
  <1> QED BY <1>1, InvariantInit, InvariantStep, PTL DEF Spec

\* An Init buys one RSA operation at most, and what is kept or handed out after
\* it is the result of the first call with a buffer, under its key and mechanism.
THEOREM ResultsAreOfTheFirstCall == Spec => []ResultsAnswerTheFirstCall
  <1>1. IInv => ResultsAnswerTheFirstCall
    BY DEF IInv, Good, Belongs, ResultsAnswerTheFirstCall
  <1> QED BY <1>1, InvariantInit, InvariantStep, PTL DEF Spec

-----------------------------------------------------------------------------
(* What is announced. *)

\* A result that does not fit is no longer than what was announced for its data.
Fits(d) ==
    /\ answer'[d] # answer[d] /\ answer'[d].rv = "small"
    /\ answer[d].rv \in {"probed", "small"}
    /\ answer[d].input = answer'[d].input
    => answer'[d].room < answer[d].len

\* A delivery that fails says so of the result.
LEMMA SmallAnswer ==
    ASSUME TypeOK, NEW d \in Directions, NEW input, NEW room, NEW r,
           Deliver(d, input, room, r), answer'[d].rv = "small"
    PROVE  room < r.len /\ answer'[d].input = input /\ answer'[d].room = room
  <1>1. CASE room < r.len
    <2>1. answer'[d] = [rv |-> "small", input |-> input, len |-> r.len, room |-> room]
      BY <1>1 DEF Deliver, TypeOK
    <2> QED BY <1>1, <2>1
  <1>2. CASE ~(room < r.len)
    <2>1. answer'[d] = [rv |-> "done", input |-> input, result |-> r]
      BY <1>2 DEF Deliver, TypeOK
    <2> QED BY <2>1
  <1> QED BY <1>1, <1>2

\* What a call delivers is what was announced for its data before.
LEMMA CallFits ==
    ASSUME IInv, NEW d \in Directions, NEW input \in Inputs, Call(d, input)
    PROVE  Fits(d)
  <1> SUFFICES ASSUME answer'[d] # answer[d], answer'[d].rv = "small",
                      answer[d].rv \in {"probed", "small"},
                      answer[d].input = answer'[d].input
               PROVE  answer'[d].room < answer[d].len
    BY DEF Fits
  <1>1. TypeOK /\ op[d] \in Op /\ Good(d, op[d], answer[d], asked[d])
    BY Unchanged DEF IInv
  <1>2. CASE Probe(d, input)
    BY <1>1, <1>2 DEF Probe, TypeOK
  <1>3. CASE Fail(d, input)
    BY <1>1, <1>3 DEF Fail, TypeOK
  <1>4. ASSUME NEW room \in 0 .. Block, Retry(d, input, room)
        PROVE  answer'[d].room < answer[d].len
    <2>1. op[d].active /\ op[d].kept # None /\ Deliver(d, input, room, op[d].kept)
      BY <1>4 DEF Retry
    <2>2. room < op[d].kept.len /\ answer'[d].room = room
      BY <1>1, <2>1, SmallAnswer
    <2>3. answer[d].len = op[d].kept.len
      BY <1>1, <2>1 DEF Good, Announced
    <2> QED BY <2>2, <2>3
  <1>5. ASSUME NEW room \in 0 .. Block, Compute(d, input, room)
        PROVE  answer'[d].room < answer[d].len
    <2>1. op[d].active /\ op[d].kept = None /\ ~Refused(d, op[d].mech, input)
          /\ Deliver(d, input, room, Computed(d, input))
      BY <1>5 DEF Compute
    <2>2. room < Computed(d, input).len /\ answer'[d].room = room /\ answer[d].input = input
      BY <1>1, <2>1, SmallAnswer
    <2>3. answer[d].len = IF d = "encrypt" THEN Block ELSE Len(input)
      BY <1>1, <2>1, <2>2 DEF Good, Announced
    <2>4. Computed(d, input).len = ResultLength(d, op[d].mech, input)
      BY DEF Computed
    <2>5. op[d].mech \in Mechanisms
      BY <1>1, <2>1 DEF Good
    <2>6. ResultLength(d, op[d].mech, input) \in 0 .. Block
          /\ (d # "encrypt" => Len(input) = Block)
      BY <2>1, <2>5, ResultLengthFacts
    <2>7. answer[d].len = Block
      BY <2>3, <2>6
    <2> QED BY <2>2, <2>4, <2>6, <2>7, BlockIsNat
  <1> QED BY <1>2, <1>3, <1>4, <1>5 DEF Call

\* Every step of a direction.
LEMMA StepsFit ==
    ASSUME IInv, [Next]_vars, NEW d \in Directions
    PROVE  Fits(d)
  <1>1. TypeOK
    BY DEF IInv
  <1>2. ASSUME NEW e \in Directions, CryptCall(e) PROVE Fits(d)
    <2>1. CASE e # d
      <3>1. answer'[d] = answer[d]
        BY <1>1, <1>2, <2>1 DEF CryptCall, CryptInit, Start, Update, SinglePart, Final, Call,
                                Probe, Fail, Retry, Compute, Deliver, TypeOK
      <3> QED BY <3>1 DEF Fits
    <2>2. CASE e = d
      <3>1. CASE CryptInit(d)
        BY <1>1, <3>1 DEF CryptInit, Start, Silent, TypeOK, Fits
      <3>2. CASE \E part \in DataUpTo(Block) : Update(d, part)
        BY <3>2 DEF Update, Fits
      <3>3. CASE SinglePart(d)
        BY <3>3, CallFits DEF SinglePart
      <3>4. CASE Final(d)
        <4>1. op[d].buf \in Inputs
          BY Unchanged DEF Op
        <4> QED BY <3>4, <4>1, CallFits DEF Final
      <3> QED BY <1>2, <2>2, <3>1, <3>2, <3>3, <3>4 DEF CryptCall
    <2> QED BY <2>1, <2>2
  <1>3. CASE UNCHANGED vars
    BY <1>3 DEF vars, Fits
  <1> QED BY <1>2, <1>3 DEF Next

\* A buffer of the length that a probe or a failed try announced for the same
\* data is never too small for C_Encrypt, C_Decrypt and their Finals.
THEOREM AnnouncedLengthsSuffice == Spec => AnnouncedLengthSuffices
  <1> DEFINE Step == \A d \in Directions :
         /\ answer'[d] # answer[d] /\ answer'[d].rv = "small"
         /\ answer[d].rv \in {"probed", "small"}
         /\ answer[d].input = answer'[d].input
         => answer'[d].room < answer[d].len
  <1>1. IInv /\ [Next]_vars => Step
    BY StepsFit DEF Fits
  <1>2. IInv /\ [Next]_vars => [Step]_vars
    BY <1>1
  <1> QED BY <1>2, InvariantInit, InvariantStep, PTL DEF Spec, AnnouncedLengthSuffices

-----------------------------------------------------------------------------
(* The formats around RSA *)

\* Every set of naturals has a least element.
LEMMA LeastElement ==
    ASSUME NEW S, S \subseteq Nat, S # {}
    PROVE  \E m \in S : \A k \in S : m <= k
<1> DEFINE R == {p \in Nat \X Nat : p[1] < p[2]}
<1> HIDE DEF R
<1>1. IsWellFoundedOn(R, Nat)
  BY NatLessThanWellFounded DEF OpToRel, R
<1>2. PICK m \in S : \A k \in S : ~(<<k, m>> \in R)
  BY <1>1, WFMin
<1>3. ASSUME NEW k \in S PROVE m <= k
  <2>1. <<k, m>> \notin {p \in Nat \X Nat : p[1] < p[2]}
    BY <1>2 DEF R
  <2>2. k \in Nat /\ m \in Nat
    OBVIOUS
  <2> QED BY <2>1, <2>2
<1> QED BY <1>3

\* Sequences of the same length that agree in every place are the same.
LEMMA SameSeq ==
    ASSUME NEW S, NEW s \in Seq(S), NEW t \in Seq(S), Len(s) = Len(t),
           \A i \in 1 .. Len(s) : s[i] = t[i]
    PROVE  s = t
  OBVIOUS

\* A concatenation, place by place.
LEMMA Concat ==
    ASSUME NEW S, NEW s \in Seq(S), NEW t \in Seq(S)
    PROVE  /\ s \o t \in Seq(S) /\ Len(s \o t) = Len(s) + Len(t)
           /\ \A i \in 1 .. Len(s) : (s \o t)[i] = s[i]
           /\ \A i \in 1 .. Len(t) : (s \o t)[Len(s) + i] = t[i]
  OBVIOUS

\* A block comes back from RSA as it was, with its zeros in front.
LEMMA RsaWidth ==
    ASSUME NEW k \in Nat \ {0}, NEW b \in [1 .. k -> Int]
    PROVE  ToWidth(ToBytes(b), k) = b
<1> DEFINE digits == {i \in 1 .. k : b[i] # 0}
           first == CHOOSE i \in digits : \A j \in digits : i <= j
<1>0. b \in Seq(Int) /\ Len(b) = k /\ DOMAIN b = 1 .. k
  OBVIOUS
<1>1. CASE digits = {}
  <2>1. ToBytes(b) = <<0>>
    BY <1>0, <1>1 DEF ToBytes
  <2>2. \A i \in 1 .. k : b[i] = 0
    BY <1>1
  <2>3. ToWidth(<<0>>, k) = Zeros(k - 1) \o <<0>>
    BY DEF ToWidth
  <2>4. /\ Zeros(k - 1) \in Seq(Int) /\ Len(Zeros(k - 1)) = k - 1
        /\ \A i \in 1 .. k - 1 : Zeros(k - 1)[i] = 0
    BY DEF Zeros
  <2> DEFINE z == Zeros(k - 1)
  <2> HIDE DEF z
  <2>5. z \o <<0>> \in Seq(Int) /\ Len(z \o <<0>>) = k /\ \A i \in 1 .. k : (z \o <<0>>)[i] = 0
    <3> DEFINE o == <<0>>
    <3>1. z \in Seq(Int) /\ Len(z) = k - 1 /\ \A i \in 1 .. k - 1 : z[i] = 0
      BY <2>4 DEF z
    <3>2. o \in Seq(Int) /\ Len(o) = 1 /\ o[1] = 0
      OBVIOUS
    <3> HIDE DEF o
    <3>3. /\ z \o o \in Seq(Int) /\ Len(z \o o) = Len(z) + Len(o)
          /\ \A i \in 1 .. Len(z) : (z \o o)[i] = z[i]
          /\ \A i \in 1 .. Len(o) : (z \o o)[Len(z) + i] = o[i]
      <4>1. z \in Seq(Int) /\ o \in Seq(Int)
        BY <3>1, <3>2
      <4> QED BY <4>1, Concat
    <3>4. \A i \in 1 .. k - 1 : (z \o o)[i] = 0
      BY <3>1, <3>3
    <3>5. (z \o o)[k] = 0
      <4>1. (z \o o)[Len(z) + 1] = o[1]
        BY <3>2, <3>3
      <4>2. Len(z) + 1 = k
        BY <3>1
      <4> QED BY <3>2, <4>1, <4>2
    <3>6. Len(z \o o) = k
      BY <3>1, <3>2, <3>3
    <3>7. ASSUME NEW i \in 1 .. k PROVE (z \o o)[i] = 0
      <4>1. i = k \/ i \in 1 .. k - 1
        OBVIOUS
      <4> QED BY <3>4, <3>5, <4>1
    <3> QED BY <3>3, <3>6, <3>7 DEF o
  <2>6. z \o <<0>> = b
    <3>1. Len(z \o <<0>>) = Len(b) /\ \A i \in 1 .. Len(z \o <<0>>) : (z \o <<0>>)[i] = b[i]
      BY <1>0, <2>2, <2>5
    <3> QED BY <1>0, <2>5, <3>1, SameSeq
  <2> QED BY <2>1, <2>3, <2>6 DEF z
<1>2. CASE digits # {}
  <2>1. \E i \in digits : \A j \in digits : i <= j
    <3>1. digits \subseteq Nat
      OBVIOUS
    <3> QED BY <1>2, <3>1, LeastElement
  <2>2. first \in digits /\ \A j \in digits : first <= j
    BY <2>1
  <2>3. ToBytes(b) = SubSeq(b, first, k)
    BY <1>0, <1>2 DEF ToBytes
  <2> HIDE DEF first
  <2> DEFINE t == SubSeq(b, first, k)
             z == Zeros(first - 1)
  <2>4. first \in 1 .. k /\ \A i \in 1 .. first - 1 : b[i] = 0
    BY <2>2
  <2> HIDE DEF digits
  <2>5. /\ t \in Seq(Int) /\ Len(t) = k - first + 1
        /\ \A i \in 1 .. k - first + 1 : t[i] = b[first + i - 1]
    BY <1>0, <2>4
  <2>6. z \in Seq(Int) /\ Len(z) = first - 1 /\ \A i \in 1 .. first - 1 : z[i] = 0
    BY <2>4 DEF Zeros
  <2>7. ToWidth(t, k) = z \o t
    <3>1. k - Len(t) = first - 1
      BY <2>4, <2>5
    <3> QED BY <3>1 DEF ToWidth
  <2> HIDE DEF t, z
  <2>c. /\ z \o t \in Seq(Int) /\ Len(z \o t) = Len(z) + Len(t)
        /\ \A i \in 1 .. Len(z) : (z \o t)[i] = z[i]
        /\ \A i \in 1 .. Len(t) : (z \o t)[Len(z) + i] = t[i]
    <3>1. z \in Seq(Int) /\ t \in Seq(Int)
      BY <2>5, <2>6
    <3> QED BY <3>1, Concat
  <2>8. z \o t \in Seq(Int) /\ Len(z \o t) = k
    <3>1. z \o t \in Seq(Int) /\ Len(z \o t) = Len(z) + Len(t)
      BY <2>c
    <3>2. Len(z) + Len(t) = k
      BY <2>4, <2>5, <2>6
    <3> QED BY <3>1, <3>2
  <2>9. ASSUME NEW i \in 1 .. k PROVE (z \o t)[i] = b[i]
    <3>1. CASE i < first
      <4>1. i \in 1 .. Len(z)
        BY <2>4, <2>6, <3>1
      <4> QED BY <2>4, <2>6, <2>c, <4>1
    <3>2. CASE i >= first
      <4> DEFINE l == i - first + 1
      <4>1. l \in 1 .. Len(t) /\ Len(z) + l = i /\ first + l - 1 = i
        BY <2>4, <2>5, <2>6, <3>2
      <4> HIDE DEF l
      <4>2. (z \o t)[Len(z) + l] = t[l]
        BY <2>c, <4>1
      <4>3. t[l] = b[first + l - 1]
        BY <2>5, <4>1
      <4> QED BY <4>1, <4>2, <4>3
    <3>3. i < first \/ i >= first
      BY <2>4
    <3> QED BY <3>1, <3>2, <3>3
  <2>10. z \o t = b
    BY <1>0, <2>8, <2>9, SameSeq
  <2> QED BY <2>3, <2>7, <2>10 DEF t
<1> QED BY <1>1, <1>2

\* Concatenations of three and of four sequences, place by place.
LEMMA ThreeParts ==
    ASSUME NEW S, NEW s \in Seq(S), NEW t \in Seq(S), NEW u \in Seq(S)
    PROVE  /\ s \o t \o u \in Seq(S) /\ Len(s \o t \o u) = Len(s) + Len(t) + Len(u)
           /\ \A i \in 1 .. Len(s) : (s \o t \o u)[i] = s[i]
           /\ \A i \in 1 .. Len(t) : (s \o t \o u)[Len(s) + i] = t[i]
           /\ \A i \in 1 .. Len(u) : (s \o t \o u)[Len(s) + Len(t) + i] = u[i]
<1> DEFINE p == s \o t
<1>1. /\ p \in Seq(S) /\ Len(p) = Len(s) + Len(t)
      /\ \A i \in 1 .. Len(s) : p[i] = s[i]
      /\ \A i \in 1 .. Len(t) : p[Len(s) + i] = t[i]
  BY Concat
<1> HIDE DEF p
<1>2. /\ p \o u \in Seq(S) /\ Len(p \o u) = Len(p) + Len(u)
      /\ \A i \in 1 .. Len(p) : (p \o u)[i] = p[i]
      /\ \A i \in 1 .. Len(u) : (p \o u)[Len(p) + i] = u[i]
  <2>1. p \in Seq(S)
    BY <1>1
  <2> QED BY <2>1, Concat
<1>3. Len(s) \in Nat /\ Len(t) \in Nat /\ Len(u) \in Nat
  OBVIOUS
<1>4. ASSUME NEW i \in 1 .. Len(s) PROVE (p \o u)[i] = s[i]
  <2>1. i \in 1 .. Len(p)
    BY <1>1, <1>3
  <2> QED BY <1>1, <1>2, <2>1
<1>5. ASSUME NEW i \in 1 .. Len(t) PROVE (p \o u)[Len(s) + i] = t[i]
  <2>1. Len(s) + i \in 1 .. Len(p)
    BY <1>1, <1>3
  <2> QED BY <1>1, <1>2, <2>1
<1> QED BY <1>1, <1>2, <1>4, <1>5 DEF p

LEMMA FourParts ==
    ASSUME NEW S, NEW s \in Seq(S), NEW t \in Seq(S), NEW u \in Seq(S), NEW v \in Seq(S),
           NEW w, w = s \o t \o u \o v
    PROVE  /\ w \in Seq(S) /\ Len(w) = Len(s) + Len(t) + Len(u) + Len(v)
           /\ \A i \in 1 .. Len(s) : w[i] = s[i]
           /\ \A i \in 1 .. Len(t) : w[Len(s) + i] = t[i]
           /\ \A i \in 1 .. Len(u) : w[Len(s) + Len(t) + i] = u[i]
           /\ \A i \in 1 .. Len(v) : w[Len(s) + Len(t) + Len(u) + i] = v[i]
<1> DEFINE p == s \o t \o u
<1>1. /\ p \in Seq(S) /\ Len(p) = Len(s) + Len(t) + Len(u)
      /\ \A i \in 1 .. Len(s) : p[i] = s[i]
      /\ \A i \in 1 .. Len(t) : p[Len(s) + i] = t[i]
      /\ \A i \in 1 .. Len(u) : p[Len(s) + Len(t) + i] = u[i]
  <2>1. s \in Seq(S) /\ t \in Seq(S) /\ u \in Seq(S)
    OBVIOUS
  <2> QED BY <2>1, ThreeParts
<1> HIDE DEF p
<1>2. /\ p \o v \in Seq(S) /\ Len(p \o v) = Len(p) + Len(v)
      /\ \A i \in 1 .. Len(p) : (p \o v)[i] = p[i]
      /\ \A i \in 1 .. Len(v) : (p \o v)[Len(p) + i] = v[i]
  <2>1. p \in Seq(S)
    BY <1>1
  <2> QED BY <2>1, Concat
<1>3. Len(s) \in Nat /\ Len(t) \in Nat /\ Len(u) \in Nat /\ Len(v) \in Nat
  OBVIOUS
<1>4. ASSUME NEW i \in 1 .. Len(s) PROVE (p \o v)[i] = s[i]
  <2>1. i \in 1 .. Len(p)
    BY <1>1, <1>3
  <2> QED BY <1>1, <1>2, <2>1
<1>5. ASSUME NEW i \in 1 .. Len(t) PROVE (p \o v)[Len(s) + i] = t[i]
  <2>1. Len(s) + i \in 1 .. Len(p)
    BY <1>1, <1>3
  <2> QED BY <1>1, <1>2, <2>1
<1>6. ASSUME NEW i \in 1 .. Len(u) PROVE (p \o v)[Len(s) + Len(t) + i] = u[i]
  <2>1. Len(s) + Len(t) + i \in 1 .. Len(p)
    BY <1>1, <1>3
  <2> QED BY <1>1, <1>2, <2>1
<1>7. w = p \o v
  BY DEF p
<1> QED BY <1>1, <1>2, <1>4, <1>5, <1>6, <1>7

\* What a block for encryption looks like, place by place.
PkcsBlock(b, m) ==
    LET k == ModulusLen["PKCS"]
    IN /\ b \in Seq(SomeByte) /\ Len(b) = k /\ Len(m) <= k - 11
       /\ b[1] = 0 /\ b[2] = 2 /\ b[k - Len(m)] = 0
       /\ \A i \in 3 .. k - Len(m) - 1 : b[i] # 0
       /\ \A i \in 1 .. Len(m) : b[k - Len(m) + i] = m[i]

\* pkcs1_v15_encrypt_block makes the blocks of that form and no others.
LEMMA EncryptBlocksAre ==
    ASSUME NEW m \in Seq(SomeByte), NEW b
    PROVE  b \in EncryptBlocks(m) <=> PkcsBlock(b, m)
<1> DEFINE k == ModulusLen["PKCS"]
           n == k - Len(m) - 3
           E(ps) == <<0, 2>> \o ps \o <<0>> \o m
<1>0. k \in Nat /\ Len(m) \in Nat /\ {0, 1, 2} \subseteq SomeByte
  BY ModulusAssumption, BytesAssumption DEF Uses
<1> HIDE DEF k
<1>4. Len(m) <= k - 11 => EncryptBlocks(m) = {E(ps) : ps \in [1 .. n -> SomeByte \ {0}]}
  <2>1. Len(m) <= k - 11 => ~(Len(m) > k - 11)
    BY <1>0
  <2> QED BY <2>1 DEF EncryptBlocks, k
<1>1. ASSUME Len(m) <= k - 11, NEW ps \in [1 .. n -> SomeByte \ {0}]
      PROVE  /\ E(ps) \in Seq(SomeByte) /\ Len(E(ps)) = k
             /\ E(ps)[1] = 0 /\ E(ps)[2] = 2 /\ E(ps)[k - Len(m)] = 0
             /\ \A i \in 3 .. k - Len(m) - 1 : E(ps)[i] = ps[i - 2]
             /\ \A i \in 1 .. Len(m) : E(ps)[k - Len(m) + i] = m[i]
  <2>1. n \in Nat /\ n + 3 = k - Len(m)
    BY <1>0, <1>1
  <2>2. ps \in Seq(SomeByte) /\ Len(ps) = n
    BY <2>1
  <2>3. /\ <<0, 2>> \in Seq(SomeByte) /\ Len(<<0, 2>>) = 2
        /\ <<0>> \in Seq(SomeByte) /\ Len(<<0>>) = 1
        /\ <<0, 2>>[1] = 0 /\ <<0, 2>>[2] = 2 /\ <<0>>[1] = 0
    BY <1>0
  <2> DEFINE s == <<0, 2>>
             u == <<0>>
  <2> HIDE DEF s, u, n
  <2> DEFINE w == s \o ps \o u \o m
  <2> HIDE DEF w
  <2>4. /\ w \in Seq(SomeByte) /\ Len(w) = 2 + n + 1 + Len(m)
        /\ \A i \in 1 .. 2 : w[i] = s[i]
        /\ \A i \in 1 .. n : w[2 + i] = ps[i]
        /\ \A i \in 1 .. 1 : w[2 + n + i] = u[i]
        /\ \A i \in 1 .. Len(m) : w[2 + n + 1 + i] = m[i]
    <3>1. s \in Seq(SomeByte) /\ u \in Seq(SomeByte) /\ ps \in Seq(SomeByte)
      BY <2>2, <2>3 DEF s, u
    <3>2. w = s \o ps \o u \o m
      BY DEF w
    <3> HIDE DEF w
    <3>3. /\ w \in Seq(SomeByte) /\ Len(w) = Len(s) + Len(ps) + Len(u) + Len(m)
          /\ \A i \in 1 .. Len(s) : w[i] = s[i]
          /\ \A i \in 1 .. Len(ps) : w[Len(s) + i] = ps[i]
          /\ \A i \in 1 .. Len(u) : w[Len(s) + Len(ps) + i] = u[i]
          /\ \A i \in 1 .. Len(m) : w[Len(s) + Len(ps) + Len(u) + i] = m[i]
      BY <3>1, <3>2, FourParts
    <3>4. Len(s) = 2 /\ Len(u) = 1 /\ Len(ps) = n
      BY <2>2, <2>3 DEF s, u
    <3> QED BY <3>3, <3>4
  <2>5. /\ w \in Seq(SomeByte) /\ Len(w) = k /\ w[1] = 0 /\ w[2] = 2 /\ w[k - Len(m)] = 0
    <3>1. w \in Seq(SomeByte) /\ Len(w) = 2 + n + 1 + Len(m)
      BY <2>4
    <3>2. w[1] = 0 /\ w[2] = 2
      BY <2>3, <2>4 DEF s
    <3>3. w[2 + n + 1] = 0
      <4>1. u[1] = 0
        BY <2>3 DEF u
      <4> QED BY <2>4, <4>1
    <3> QED BY <1>0, <2>1, <3>1, <3>2, <3>3
  <2>6. ASSUME NEW i \in 3 .. k - Len(m) - 1 PROVE w[i] = ps[i - 2]
    <3>1. i - 2 \in 1 .. n /\ 2 + (i - 2) = i
      BY <1>0, <2>1
    <3> QED BY <2>4, <3>1
  <2>7. ASSUME NEW i \in 1 .. Len(m) PROVE w[k - Len(m) + i] = m[i]
    <3>1. k - Len(m) + i = 2 + n + 1 + i
      BY <1>0, <2>1
    <3> QED BY <2>4, <3>1
  <2> QED BY <2>5, <2>6, <2>7 DEF w, s, u
<1>2. ASSUME b \in EncryptBlocks(m) PROVE PkcsBlock(b, m)
  <2>1. Len(m) <= k - 11
    BY <1>0, <1>2 DEF EncryptBlocks, Fails, k
  <2>2. PICK ps \in [1 .. n -> SomeByte \ {0}] : b = E(ps)
    <3>1. EncryptBlocks(m) = {E(ps) : ps \in [1 .. n -> SomeByte \ {0}]}
      BY <1>0, <2>1, <1>4
    <3> QED BY <1>2, <3>1
  <2> HIDE DEF E
  <2>3. \A i \in 3 .. k - Len(m) - 1 : b[i] # 0
    <3>1. ASSUME NEW i \in 3 .. k - Len(m) - 1 PROVE b[i] # 0
      <4>1. i - 2 \in 1 .. n
        BY <1>0
      <4>2. b[i] = ps[i - 2]
        BY <1>1, <2>1, <2>2
      <4> QED BY <4>1, <4>2
    <3> QED BY <3>1
  <2> QED BY <1>1, <2>1, <2>2, <2>3 DEF PkcsBlock, k
<1>3. ASSUME PkcsBlock(b, m) PROVE b \in EncryptBlocks(m)
  <2> DEFINE ps == [i \in 1 .. n |-> b[i + 2]]
  <2>1. /\ Len(m) <= k - 11 /\ b \in Seq(SomeByte) /\ Len(b) = k
        /\ b[1] = 0 /\ b[2] = 2 /\ b[k - Len(m)] = 0
        /\ \A i \in 3 .. k - Len(m) - 1 : b[i] # 0
        /\ \A i \in 1 .. Len(m) : b[k - Len(m) + i] = m[i]
    BY <1>3 DEF PkcsBlock, k
  <2>2. ps \in [1 .. n -> SomeByte \ {0}]
    <3>1. ASSUME NEW i \in 1 .. n PROVE b[i + 2] \in SomeByte \ {0}
      <4>1. i + 2 \in 3 .. k - Len(m) - 1 /\ i + 2 \in 1 .. Len(b)
        BY <1>0, <2>1
      <4> QED BY <2>1, <4>1
    <3> QED BY <3>1
  <2>3. \A i \in 3 .. k - Len(m) - 1 : ps[i - 2] = b[i]
    BY <1>0, <2>1
  <2> HIDE DEF ps, E
  <2>4. /\ E(ps) \in Seq(SomeByte) /\ Len(E(ps)) = k
        /\ E(ps)[1] = 0 /\ E(ps)[2] = 2 /\ E(ps)[k - Len(m)] = 0
        /\ \A i \in 3 .. k - Len(m) - 1 : E(ps)[i] = ps[i - 2]
        /\ \A i \in 1 .. Len(m) : E(ps)[k - Len(m) + i] = m[i]
    BY <1>1, <2>1, <2>2
  <2>5. ASSUME NEW i \in 1 .. k PROVE E(ps)[i] = b[i]
    <3>1. CASE i <= 2
      BY <2>1, <2>4, <3>1
    <3>2. CASE i \in 3 .. k - Len(m) - 1
      BY <2>3, <2>4, <3>2
    <3>3. CASE i = k - Len(m)
      BY <2>1, <2>4, <3>3
    <3>4. CASE i > k - Len(m)
      <4>1. i - (k - Len(m)) \in 1 .. Len(m) /\ k - Len(m) + (i - (k - Len(m))) = i
        BY <1>0, <2>1, <3>4
      <4> QED BY <2>1, <2>4, <4>1
    <3>5. i <= 2 \/ i \in 3 .. k - Len(m) - 1 \/ i = k - Len(m) \/ i > k - Len(m)
      <4>1. Len(m) <= k - 11
        BY <2>1
      <4> HIDE DEF n
      <4> QED BY <1>0, <4>1
    <3> QED BY <3>1, <3>2, <3>3, <3>4, <3>5
  <2>6. E(ps) = b
    BY <2>1, <2>4, <2>5, SameSeq
  <2>7. EncryptBlocks(m) = {E(qs) : qs \in [1 .. n -> SomeByte \ {0}]}
    BY <1>0, <2>1, <1>4 DEF E
  <2> QED BY <2>2, <2>6, <2>7
<1> QED BY <1>2, <1>3

\* The least zero behind the first two bytes ends the padding.
LEMMA UnpadType2Is ==
    ASSUME NEW b \in Seq(SomeByte), Len(b) = ModulusLen["PKCS"], NEW m \in Seq(SomeByte)
    PROVE  PkcsBlock(b, m) => UnpadType2(b) = {m}
<1> DEFINE k == ModulusLen["PKCS"]
           zeros == {i \in 2 .. Len(b) - 1 : At(b, i) = 0}
           end == CHOOSE i \in zeros : \A j \in zeros : i <= j
           e == k - Len(m) - 1
<1> SUFFICES ASSUME PkcsBlock(b, m) PROVE UnpadType2(b) = {m}
  OBVIOUS
<1>0. k \in Nat /\ Len(m) \in Nat /\ Len(b) = k
  BY ModulusAssumption DEF Uses
<1>1. /\ Len(m) <= k - 11 /\ b[1] = 0 /\ b[2] = 2 /\ b[k - Len(m)] = 0
      /\ \A i \in 3 .. k - Len(m) - 1 : b[i] # 0
      /\ \A i \in 1 .. Len(m) : b[k - Len(m) + i] = m[i]
  BY DEF PkcsBlock
<1> HIDE DEF k
<1>2. e \in 10 .. k - 1 /\ e + 1 = k - Len(m)
  BY <1>0, <1>1
<1> HIDE DEF e
<1>3. e \in zeros
  BY <1>0, <1>1, <1>2 DEF At
<1>4. ASSUME NEW i \in zeros PROVE e <= i
  <2>1. i \in 2 .. k - 1 /\ b[i + 1] = 0
    BY <1>0 DEF At
  <2>2. i + 1 \notin 3 .. k - Len(m) - 1
    BY <1>1, <2>1
  <2> QED BY <1>0, <1>2, <2>1, <2>2
<1>5. zeros \subseteq Int
  OBVIOUS
<1> HIDE DEF zeros
<1>6. end = e
  <2>1. end \in zeros /\ \A j \in zeros : end <= j
    BY <1>3, <1>4
  <2> HIDE DEF end
  <2>2. end <= e /\ e <= end
    BY <1>3, <1>4, <2>1
  <2> QED BY <1>3, <1>5, <2>1, <2>2
<1>7. SubSeq(b, e + 2, k) = m
  <2> DEFINE t == SubSeq(b, e + 2, k)
  <2>1. /\ t \in Seq(SomeByte) /\ Len(t) = k - e - 1
        /\ \A i \in 1 .. k - e - 1 : t[i] = b[e + 1 + i]
    BY <1>0, <1>2
  <2> HIDE DEF t
  <2>2. Len(t) = Len(m)
    BY <1>0, <1>2, <2>1
  <2>3. ASSUME NEW i \in 1 .. Len(m) PROVE t[i] = m[i]
    <3>1. i \in 1 .. k - e - 1 /\ e + 1 + i = k - Len(m) + i
      BY <1>0, <1>2
    <3>2. t[i] = b[k - Len(m) + i]
      BY <2>1, <3>1
    <3> QED BY <1>1, <3>2
  <2> QED BY <2>1, <2>2, <2>3, SameSeq DEF t
<1>8. ~ShortPadding(e) /\ zeros # {}
  BY <1>2, <1>3 DEF ShortPadding
<1>9. At(b, 0) = 0 /\ At(b, 1) = 2
  BY <1>1 DEF At
<1> HIDE DEF end
<1> QED BY <1>0, <1>6, <1>7, <1>8, <1>9 DEF UnpadType2, zeros, end, k

\* What pkcs1_v15_unpad_type2 yields was in a block of that form.
LEMMA Type2Unpads ==
    ASSUME NEW b \in Seq(SomeByte), NEW m, m \in UnpadType2(b)
    PROVE  m \in Seq(SomeByte) /\ PkcsBlock(b, m)
<1> DEFINE k == ModulusLen["PKCS"]
           zeros == {i \in 2 .. Len(b) - 1 : At(b, i) = 0}
           end == CHOOSE i \in zeros : \A j \in zeros : i <= j
<1>0. k \in Nat /\ Len(b) \in Nat
  BY ModulusAssumption DEF Uses
<1>1. /\ Len(b) = k /\ At(b, 0) = 0 /\ At(b, 1) = 2
      /\ zeros # {} /\ ~ShortPadding(end) /\ m = SubSeq(b, end + 2, Len(b))
  BY DEF UnpadType2, Fails
<1>2. end \in zeros /\ \A j \in zeros : end <= j
  <2>1. zeros \subseteq Nat
    BY <1>0
  <2>2. \E i \in zeros : \A j \in zeros : i <= j
    BY <1>1, <2>1, LeastElement
  <2> QED BY <2>2
<1> HIDE DEF end, k
<1>3. end \in 10 .. k - 1 /\ b[end + 1] = 0
  BY <1>0, <1>1, <1>2 DEF At, ShortPadding
<1>4. ASSUME NEW i \in 3 .. end PROVE b[i] # 0
  <2>1. i - 1 \notin zeros
    BY <1>2, <1>3
  <2>2. i - 1 \in 2 .. Len(b) - 1
    BY <1>0, <1>1, <1>3
  <2>3. b[(i - 1) + 1] # 0
    BY <2>1, <2>2 DEF At
  <2> QED BY <2>3
<1> HIDE DEF zeros
<1>5. /\ m \in Seq(SomeByte) /\ Len(m) = k - end - 1
      /\ \A i \in 1 .. k - end - 1 : m[i] = b[end + 1 + i]
  BY <1>0, <1>1, <1>3
<1>6. /\ k - Len(m) = end + 1 /\ Len(m) <= k - 11 /\ k - Len(m) - 1 = end
  BY <1>0, <1>3, <1>5
<1>7. b[1] = 0 /\ b[2] = 2
  BY <1>1 DEF At
<1>8. \A i \in 1 .. Len(m) : b[k - Len(m) + i] = m[i]
  BY <1>0, <1>3, <1>5, <1>6
<1> QED BY <1>1, <1>3, <1>4, <1>5, <1>6, <1>7, <1>8 DEF PkcsBlock, k

\* The hash of OAEP is HashLen bytes long, whatever is hashed.
HashFits == \A s \in Seq(Byte) : Hash(s) \in [1 .. HashLen -> SomeByte]

\* A mask is as long as it is asked to be.
LEMMA MasksFit ==
    ASSUME HashFits, NEW s \in Seq(SomeByte), NEW n \in Nat
    PROVE  Mgf1(s, n) \in [1 .. n -> SomeByte]
<1>1. HashLen \in Nat \ {0} /\ SomeByte \subseteq Byte
  BY ModulusAssumption, BytesAssumption
<1>2. ASSUME NEW i \in 1 .. n
      PROVE  Hash(s \o CounterBytes((i - 1) \div HashLen))[((i - 1) % HashLen) + 1] \in SomeByte
  <2> DEFINE c == (i - 1) \div HashLen
             j == ((i - 1) % HashLen) + 1
  <2>1. c \in Int
    BY <1>1
  <2>2. j \in 1 .. HashLen
    BY <1>1
  <2> HIDE DEF c, j
  <2>3. CounterBytes(c) \in Seq(Byte)
    BY <2>1 DEF CounterBytes, Byte
  <2>4. s \in Seq(Byte)
    BY <1>1
  <2>5. s \o CounterBytes(c) \in Seq(Byte)
    BY <2>3, <2>4
  <2>6. Hash(s \o CounterBytes(c)) \in [1 .. HashLen -> SomeByte]
    BY <2>5 DEF HashFits
  <2>7. Hash(s \o CounterBytes(c))[j] \in SomeByte
    BY <2>2, <2>6
  <2> QED BY <2>7 DEF c, j
<1> QED BY <1>2 DEF Mgf1

\* What is masked twice with the same mask is as it was.
LEMMA MaskedTwice ==
    ASSUME NEW n \in Nat, NEW a \in [1 .. n -> SomeByte], NEW b \in [1 .. n -> SomeByte]
    PROVE  Masked(a, b) \in [1 .. n -> SomeByte] /\ Masked(Masked(a, b), b) = a
<1>1. \A i \in 1 .. n : a[i] \in SomeByte /\ b[i] \in SomeByte
  OBVIOUS
<1>2. \A i \in 1 .. n : /\ ByteXor(a[i], b[i]) \in SomeByte
                        /\ ByteXor(ByteXor(a[i], b[i]), b[i]) = a[i]
  BY <1>1, BytesAssumption
<1>3. Masked(a, b) = [i \in 1 .. n |-> ByteXor(a[i], b[i])]
  BY DEF Masked
<1>4. Masked(a, b) \in [1 .. n -> SomeByte]
  BY <1>2, <1>3
<1>5. Masked(Masked(a, b), b) = [i \in 1 .. n |-> ByteXor(ByteXor(a[i], b[i]), b[i])]
  BY <1>3 DEF Masked
<1>6. Masked(Masked(a, b), b) = a
  BY <1>2, <1>5
<1> QED BY <1>4, <1>6

\* A function on 1 .. n is a sequence of length n, and the other way round.
LEMMA FunSeq ==
    ASSUME NEW S, NEW n \in Nat
    PROVE  /\ \A f \in [1 .. n -> S] : f \in Seq(S) /\ Len(f) = n
           /\ \A s \in Seq(S) : Len(s) = n => s \in [1 .. n -> S]
  OBVIOUS

-----------------------------------------------------------------------------
(* OAEP *)

\* The two halves of a block, without their masks.
OaepSeed(b) == Masked(SubSeq(b, 2, 1 + HashLen), Mgf1(SubSeq(b, 2 + HashLen, Len(b)), HashLen))
OaepDb(b) ==
    LET maskedDb == SubSeq(b, 2 + HashLen, Len(b))
    IN Masked(maskedDb, Mgf1(OaepSeed(b), Len(maskedDb)))

\* The data block of a message, for blocks of length k.
DbOf(m) ==
    Hash(Label) \o Zeros(ModulusLen["OAEP"] - Len(m) - 2 * HashLen - 2) \o <<1>> \o m

OaepFits(m) == Len(m) + 2 * HashLen + 2 <= ModulusLen["OAEP"]

\* What a block of OAEP looks like.
OaepBlock(b, m) ==
    /\ b \in Seq(SomeByte) /\ Len(b) = ModulusLen["OAEP"] /\ OaepFits(m)
    /\ b[1] = 0 /\ OaepDb(b) = DbOf(m)

\* The data block of OAEP, place by place.
LEMMA DbIs ==
    ASSUME HashFits, NEW m \in Seq(SomeByte), OaepFits(m)
    PROVE  LET k == ModulusLen["OAEP"]
               d == DbOf(m)
           IN /\ d \in Seq(SomeByte) /\ Len(d) = k - HashLen - 1
              /\ \A i \in 1 .. HashLen : d[i] = Hash(Label)[i]
              /\ \A i \in HashLen + 1 .. k - Len(m) - HashLen - 2 : d[i] = 0
              /\ d[k - Len(m) - HashLen - 1] = 1
              /\ \A i \in 1 .. Len(m) : d[k - Len(m) - HashLen - 1 + i] = m[i]
<1> DEFINE k == ModulusLen["OAEP"]
           h == HashLen
           n == k - Len(m) - 2 * h - 2
           s == Hash(Label)
           z == Zeros(n)
           o == <<1>>
           d == DbOf(m)
<1>0. k \in Nat /\ h \in Nat \ {0} /\ Len(m) \in Nat
  BY ModulusAssumption DEF Uses
<1>1. n \in Nat
  BY <1>0 DEF OaepFits
<1>2. s \in Seq(SomeByte) /\ Len(s) = h
  <2>1. s \in [1 .. h -> SomeByte]
    BY MessagesAssumption DEF HashFits
  <2> HIDE DEF s, h
  <2> QED BY <1>0, <2>1, FunSeq
<1>3. z \in Seq(SomeByte) /\ Len(z) = n /\ \A i \in 1 .. n : z[i] = 0
  BY <1>1, BytesAssumption DEF Zeros
<1>4. o \in Seq(SomeByte) /\ Len(o) = 1 /\ o[1] = 1
  BY BytesAssumption
<1>5. d = s \o z \o o \o m
  BY DEF DbOf
<1> HIDE DEF d, s, z, o
<1>6. /\ d \in Seq(SomeByte) /\ Len(d) = Len(s) + Len(z) + Len(o) + Len(m)
      /\ \A i \in 1 .. Len(s) : d[i] = s[i]
      /\ \A i \in 1 .. Len(z) : d[Len(s) + i] = z[i]
      /\ \A i \in 1 .. Len(o) : d[Len(s) + Len(z) + i] = o[i]
      /\ \A i \in 1 .. Len(m) : d[Len(s) + Len(z) + Len(o) + i] = m[i]
  <2>1. s \in Seq(SomeByte) /\ z \in Seq(SomeByte) /\ o \in Seq(SomeByte)
    BY <1>2, <1>3, <1>4
  <2> QED BY <1>5, <2>1, FourParts
<1> HIDE DEF n
<1>7. /\ d \in Seq(SomeByte) /\ Len(d) = h + n + 1 + Len(m)
      /\ \A i \in 1 .. h : d[i] = s[i]
      /\ \A i \in 1 .. n : d[h + i] = z[i]
      /\ \A i \in 1 .. 1 : d[h + n + i] = o[i]
      /\ \A i \in 1 .. Len(m) : d[h + n + 1 + i] = m[i]
  BY <1>2, <1>3, <1>4, <1>6
<1>8. h + n + 1 = k - Len(m) - h - 1
  BY <1>0 DEF n
<1> HIDE DEF h, k
<1>9. Len(d) = k - h - 1
  BY <1>0, <1>1, <1>7, <1>8
<1>10. ASSUME NEW i \in h + 1 .. k - Len(m) - h - 2 PROVE d[i] = 0
  <2>1. i - h \in 1 .. n /\ h + (i - h) = i
    BY <1>0, <1>1, <1>8
  <2>2. d[h + (i - h)] = z[i - h]
    BY <1>7, <2>1
  <2> QED BY <1>3, <2>1, <2>2
<1>11. d[k - Len(m) - h - 1] = 1
  BY <1>4, <1>7, <1>8
<1>12. ASSUME NEW i \in 1 .. Len(m) PROVE d[k - Len(m) - h - 1 + i] = m[i]
  <2>1. d[h + n + 1 + i] = m[i]
    BY <1>7
  <2> QED BY <1>8, <2>1
<1> QED BY <1>7, <1>9, <1>10, <1>11, <1>12 DEF d, h, k, s

\* The parts of a block of OAEP.
LEMMA OaepPartsOf ==
    ASSUME NEW h \in Nat, NEW l \in Nat, NEW x \in [1 .. h -> SomeByte],
           NEW d \in [1 .. l -> SomeByte]
    PROVE  LET b == <<0>> \o x \o d
           IN /\ b \in Seq(SomeByte) /\ Len(b) = 1 + h + l /\ b[1] = 0
              /\ SubSeq(b, 2, 1 + h) = x /\ SubSeq(b, 2 + h, Len(b)) = d
<1> DEFINE o == <<0>>
           b == o \o x \o d
<1>1. o \in Seq(SomeByte) /\ Len(o) = 1 /\ o[1] = 0
  BY BytesAssumption
<1>2. x \in Seq(SomeByte) /\ Len(x) = h /\ d \in Seq(SomeByte) /\ Len(d) = l
  BY FunSeq
<1> HIDE DEF o, b
<1>4. /\ b \in Seq(SomeByte) /\ Len(b) = Len(o) + Len(x) + Len(d)
      /\ \A i \in 1 .. Len(o) : b[i] = o[i]
      /\ \A i \in 1 .. Len(x) : b[Len(o) + i] = x[i]
      /\ \A i \in 1 .. Len(d) : b[Len(o) + Len(x) + i] = d[i]
  <2>1. o \in Seq(SomeByte) /\ x \in Seq(SomeByte) /\ d \in Seq(SomeByte)
    BY <1>1, <1>2
  <2> QED BY <2>1, ThreeParts DEF b
<1>5. /\ Len(b) = 1 + h + l /\ b[1] = 0
      /\ \A i \in 1 .. h : b[1 + i] = x[i]
      /\ \A i \in 1 .. l : b[1 + h + i] = d[i]
  BY <1>1, <1>2, <1>4
<1>6. SubSeq(b, 2, 1 + h) = x
  <2> DEFINE t == SubSeq(b, 2, 1 + h)
  <2>1. t \in Seq(SomeByte) /\ Len(t) = h /\ \A i \in 1 .. h : t[i] = b[1 + i]
    BY <1>4, <1>5
  <2> HIDE DEF t
  <2>2. \A i \in 1 .. Len(t) : t[i] = x[i]
    BY <1>5, <2>1
  <2> QED BY <1>2, <2>1, <2>2, SameSeq DEF t
<1>7. SubSeq(b, 2 + h, Len(b)) = d
  <2> DEFINE t == SubSeq(b, 2 + h, Len(b))
  <2>1. t \in Seq(SomeByte) /\ Len(t) = l /\ \A i \in 1 .. l : t[i] = b[1 + h + i]
    <3>1. b \in Seq(SomeByte) /\ Len(b) = 1 + h + l
      BY <1>4, <1>5
    <3> QED BY <3>1
  <2> HIDE DEF t
  <2>2. \A i \in 1 .. Len(t) : t[i] = d[i]
    BY <1>5, <2>1
  <2> QED BY <1>2, <2>1, <2>2, SameSeq DEF t
<1> QED BY <1>4, <1>5, <1>6, <1>7 DEF b, o

\* A block of OAEP is a zero, the masked seed and the masked data block.
LEMMA OaepPartsAre ==
    ASSUME NEW h \in Nat, NEW l \in Nat, NEW b \in Seq(SomeByte), Len(b) = 1 + h + l, b[1] = 0
    PROVE  LET x == SubSeq(b, 2, 1 + h)
               d == SubSeq(b, 2 + h, Len(b))
           IN x \in [1 .. h -> SomeByte] /\ d \in [1 .. l -> SomeByte] /\ b = <<0>> \o x \o d
<1> DEFINE x == SubSeq(b, 2, 1 + h)
           d == SubSeq(b, 2 + h, Len(b))
           o == <<0>>
           w == o \o x \o d
<1>1. o \in Seq(SomeByte) /\ Len(o) = 1 /\ o[1] = 0
  BY BytesAssumption
<1>2. x \in Seq(SomeByte) /\ Len(x) = h /\ \A i \in 1 .. h : x[i] = b[1 + i]
  OBVIOUS
<1>3. d \in Seq(SomeByte) /\ Len(d) = l /\ \A i \in 1 .. l : d[i] = b[1 + h + i]
  OBVIOUS
<1>4. w = o \o x \o d
  OBVIOUS
<1> HIDE DEF o, x, d, w
<1>5. /\ w \in Seq(SomeByte) /\ Len(w) = Len(o) + Len(x) + Len(d)
      /\ \A i \in 1 .. Len(o) : w[i] = o[i]
      /\ \A i \in 1 .. Len(x) : w[Len(o) + i] = x[i]
      /\ \A i \in 1 .. Len(d) : w[Len(o) + Len(x) + i] = d[i]
  <2>1. o \in Seq(SomeByte) /\ x \in Seq(SomeByte) /\ d \in Seq(SomeByte)
    BY <1>1, <1>2, <1>3
  <2> QED BY <1>4, <2>1, ThreeParts
<1>6. /\ Len(w) = 1 + h + l /\ w[1] = 0
      /\ \A i \in 1 .. h : w[1 + i] = x[i]
      /\ \A i \in 1 .. l : w[1 + h + i] = d[i]
  BY <1>1, <1>2, <1>3, <1>5
<1>7. ASSUME NEW i \in 1 .. Len(b) PROVE b[i] = w[i]
  <2>1. CASE i = 1
    BY <1>6, <2>1
  <2>2. CASE i \in 2 .. 1 + h
    <3>1. i - 1 \in 1 .. h /\ 1 + (i - 1) = i
      BY <2>2
    <3>2. w[1 + (i - 1)] = x[i - 1] /\ x[i - 1] = b[1 + (i - 1)]
      BY <1>2, <1>6, <3>1
    <3> QED BY <3>1, <3>2
  <2>3. CASE i > 1 + h
    <3>1. i - h - 1 \in 1 .. l /\ 1 + h + (i - h - 1) = i
      BY <2>3
    <3>2. w[1 + h + (i - h - 1)] = d[i - h - 1] /\ d[i - h - 1] = b[1 + h + (i - h - 1)]
      BY <1>3, <1>6, <3>1
    <3> QED BY <3>1, <3>2
  <2>4. i = 1 \/ i \in 2 .. 1 + h \/ i > 1 + h
    OBVIOUS
  <2> QED BY <2>1, <2>2, <2>3, <2>4
<1>8. b = w
  <2>1. b \in Seq(SomeByte) /\ w \in Seq(SomeByte) /\ Len(b) = Len(w)
    BY <1>5, <1>6
  <2> QED BY <1>7, <2>1, SameSeq
<1>9. x \in [1 .. h -> SomeByte] /\ d \in [1 .. l -> SomeByte]
  BY <1>2, <1>3, FunSeq
<1> QED BY <1>8, <1>9 DEF w, o, x, d

\* oaep_encode makes the blocks that unmask to such a data block, and no others.
LEMMA OaepBlocksAre ==
    ASSUME HashFits, NEW m \in Seq(SomeByte), NEW b
    PROVE  b \in OaepBlocks(m) <=> OaepBlock(b, m)
<1> DEFINE k == ModulusLen["OAEP"]
           h == HashLen
           l == k - h - 1
           db == DbOf(m)
           Sealed(seed) ==
              LET maskedDb == Masked(db, Mgf1(seed, Len(db)))
              IN <<0>> \o Masked(seed, Mgf1(maskedDb, h)) \o maskedDb
<1>0. k \in Nat /\ h \in Nat \ {0} /\ Len(m) \in Nat
  BY ModulusAssumption DEF Uses
<1>1. OaepBlocks(m) # {} => OaepFits(m)
  <2>1. ~(Len(m) + 2 * HashLen + 2 > k) => OaepFits(m)
    BY <1>0 DEF OaepFits
  <2> QED BY <2>1 DEF OaepBlocks, Fails
<1>2. OaepFits(m) => OaepBlocks(m) = {Sealed(seed) : seed \in [1 .. h -> SomeByte]}
  <2>1. OaepFits(m) => ~(Len(m) + 2 * HashLen + 2 > k)
    BY <1>0 DEF OaepFits
  <2> QED BY <2>1 DEF OaepBlocks, DbOf
<1>3. OaepFits(m) => l \in Nat /\ db \in [1 .. l -> SomeByte] /\ Len(db) = l
  <2> SUFFICES ASSUME OaepFits(m)
               PROVE  l \in Nat /\ db \in [1 .. l -> SomeByte] /\ Len(db) = l
    OBVIOUS
  <2>1. l \in Nat
    BY <1>0 DEF OaepFits
  <2>2. db \in Seq(SomeByte) /\ Len(db) = l
    BY DbIs
  <2> HIDE DEF db, l
  <2> QED BY <2>1, <2>2, FunSeq
<1> HIDE DEF db, l, k
<1>4. ASSUME OaepFits(m), NEW seed \in [1 .. h -> SomeByte]
      PROVE  OaepBlock(Sealed(seed), m)
  <2> DEFINE mask == Mgf1(seed, l)
             maskedDb == Masked(db, mask)
             seedMask == Mgf1(maskedDb, h)
             maskedSeed == Masked(seed, seedMask)
             w == Sealed(seed)
  <2>0. l \in Nat /\ db \in [1 .. l -> SomeByte] /\ Len(db) = l
    BY <1>3, <1>4
  <2>1. mask \in [1 .. l -> SomeByte]
    <3>1. seed \in Seq(SomeByte)
      BY <1>0, FunSeq
    <3> QED BY <2>0, <3>1, MasksFit
  <2>2. w = <<0>> \o maskedSeed \o maskedDb
    BY <2>0
  <2> HIDE DEF w, mask
  <2>3. maskedDb \in [1 .. l -> SomeByte] /\ Masked(maskedDb, mask) = db
    BY <2>0, <2>1, MaskedTwice
  <2> HIDE DEF maskedDb
  <2>4. maskedDb \in Seq(SomeByte) /\ Len(maskedDb) = l
    BY <2>0, <2>3, FunSeq
  <2>5. seedMask \in [1 .. h -> SomeByte]
    BY <1>0, <2>4, MasksFit
  <2> HIDE DEF seedMask
  <2>6. maskedSeed \in [1 .. h -> SomeByte] /\ Masked(maskedSeed, seedMask) = seed
    BY <1>0, <2>5, MaskedTwice
  <2> HIDE DEF maskedSeed
  <2>7. /\ w \in Seq(SomeByte) /\ Len(w) = 1 + h + l /\ w[1] = 0
        /\ SubSeq(w, 2, 1 + h) = maskedSeed /\ SubSeq(w, 2 + h, Len(w)) = maskedDb
    <3>1. h \in Nat
      BY <1>0
    <3>2. maskedSeed \in [1 .. h -> SomeByte] /\ maskedDb \in [1 .. l -> SomeByte] /\ l \in Nat
      BY <2>0, <2>3, <2>6
    <3> HIDE DEF h, Sealed
    <3> DEFINE v == <<0>> \o maskedSeed \o maskedDb
    <3>3. /\ v \in Seq(SomeByte) /\ Len(v) = 1 + h + l /\ v[1] = 0
          /\ SubSeq(v, 2, 1 + h) = maskedSeed /\ SubSeq(v, 2 + h, Len(v)) = maskedDb
      BY <3>1, <3>2, OaepPartsOf, SMTT(30)
    <3> QED BY <2>2, <3>3
  <2>8. OaepSeed(w) = seed
    BY <2>6, <2>7 DEF OaepSeed, seedMask
  <2>9. OaepDb(w) = db
    BY <2>3, <2>4, <2>7, <2>8 DEF OaepDb, mask
  <2>10. Len(w) = k
    BY <1>0, <2>0, <2>7 DEF l
  <2> QED BY <1>4, <2>7, <2>9, <2>10 DEF OaepBlock, w, db, k
<1>5. ASSUME OaepBlock(b, m) PROVE OaepFits(m) /\ b \in {Sealed(seed) : seed \in [1 .. h -> SomeByte]}
  <2> DEFINE maskedSeed == SubSeq(b, 2, 1 + h)
             maskedDb == SubSeq(b, 2 + h, Len(b))
             seedMask == Mgf1(maskedDb, h)
             seed == Masked(maskedSeed, seedMask)
             mask == Mgf1(seed, l)
  <2>1. b \in Seq(SomeByte) /\ Len(b) = k /\ OaepFits(m) /\ b[1] = 0 /\ OaepDb(b) = db
    BY <1>5 DEF OaepBlock, k, db
  <2>2. l \in Nat /\ db \in [1 .. l -> SomeByte] /\ Len(db) = l
    BY <1>3, <2>1
  <2>3. Len(b) = 1 + h + l
    BY <1>0, <2>1 DEF l
  <2>4. /\ maskedSeed \in [1 .. h -> SomeByte] /\ maskedDb \in [1 .. l -> SomeByte]
        /\ b = <<0>> \o maskedSeed \o maskedDb
    <3>1. h \in Nat
      BY <1>0
    <3> HIDE DEF h
    <3> QED BY <3>1, <2>1, <2>2, <2>3, OaepPartsAre
  <2>5. OaepSeed(b) = seed
    BY DEF OaepSeed
  <2> HIDE DEF maskedSeed, maskedDb
  <2>6. maskedDb \in Seq(SomeByte) /\ Len(maskedDb) = l
    BY <2>2, <2>4, FunSeq
  <2>7. seedMask \in [1 .. h -> SomeByte]
    BY <1>0, <2>6, MasksFit
  <2> HIDE DEF seedMask
  <2>8. seed \in [1 .. h -> SomeByte] /\ Masked(seed, seedMask) = maskedSeed
    BY <1>0, <2>4, <2>7, MaskedTwice
  <2> HIDE DEF seed
  <2>9. mask \in [1 .. l -> SomeByte]
    <3>1. seed \in Seq(SomeByte)
      BY <1>0, <2>8, FunSeq
    <3> QED BY <2>2, <3>1, MasksFit
  <2>10. db = Masked(maskedDb, mask)
    BY <2>1, <2>5, <2>6 DEF OaepDb, maskedDb
  <2> HIDE DEF mask
  <2>11. Masked(db, mask) = maskedDb
    BY <2>2, <2>4, <2>9, <2>10, MaskedTwice
  <2>12. Sealed(seed) = b
    BY <2>2, <2>4, <2>8, <2>11 DEF mask, seedMask
  <2> HIDE DEF Sealed
  <2> QED BY <2>1, <2>8, <2>12
<1> HIDE DEF Sealed
<1>6. ASSUME b \in OaepBlocks(m) PROVE OaepBlock(b, m)
  <2>1. OaepFits(m)
    BY <1>1, <1>6
  <2>2. PICK seed \in [1 .. h -> SomeByte] : b = Sealed(seed)
    BY <1>2, <1>6, <2>1
  <2> QED BY <1>4, <2>1, <2>2
<1> QED BY <1>2, <1>5, <1>6

\* The first byte behind the hash that is not zero, as oaep_decode looks for it.
Behind(db) == {i \in HashLen .. Len(db) - 1 : At(db, i) # 0}
FirstBehind(db) == CHOOSE i \in Behind(db) : \A j \in Behind(db) : i <= j

\* oaep_decode, with the unmasked data block by its name.
LEMMA OaepDecodeIs ==
    ASSUME NEW b
    PROVE  OaepDecode(b) =
             IF Len(b) < 2 * HashLen + 2 \/ At(b, 0) # 0 THEN {}
             ELSE IF SubSeq(OaepDb(b), 1, HashLen) # Hash(Label) \/ Behind(OaepDb(b)) = {} THEN {}
             ELSE IF Separator(At(OaepDb(b), FirstBehind(OaepDb(b))))
                  THEN {SubSeq(OaepDb(b), FirstBehind(OaepDb(b)) + 2, Len(OaepDb(b)))}
             ELSE {}
  BY Zenon DEF OaepDecode, OaepDb, OaepSeed, Behind, FirstBehind, Fails

\* What oaep_decode unmasks has its length.
LEMMA DbFits ==
    ASSUME HashFits, NEW b \in Seq(SomeByte), Len(b) = ModulusLen["OAEP"], b[1] = 0,
           Len(b) >= 2 * HashLen + 2
    PROVE  OaepDb(b) \in Seq(SomeByte) /\ Len(OaepDb(b)) = ModulusLen["OAEP"] - HashLen - 1
<1> DEFINE k == ModulusLen["OAEP"]
           h == HashLen
           l == k - h - 1
           maskedSeed == SubSeq(b, 2, 1 + h)
           maskedDb == SubSeq(b, 2 + h, Len(b))
           seedMask == Mgf1(maskedDb, h)
           mask == Mgf1(OaepSeed(b), l)
<1>0. k \in Nat /\ h \in Nat \ {0} /\ Len(b) = k
  BY ModulusAssumption DEF Uses
<1>1. l \in Nat /\ Len(b) = 1 + h + l
  BY <1>0
<1> HIDE DEF l, k
<1>2. maskedSeed \in [1 .. h -> SomeByte] /\ maskedDb \in [1 .. l -> SomeByte]
  <2>1. h \in Nat
    BY <1>0
  <2> HIDE DEF h
  <2> QED BY <1>1, <2>1, OaepPartsAre
<1>3. OaepSeed(b) = Masked(maskedSeed, seedMask)
  BY DEF OaepSeed
<1> HIDE DEF maskedSeed, maskedDb
<1>4. maskedDb \in Seq(SomeByte) /\ Len(maskedDb) = l
  BY <1>1, <1>2, FunSeq
<1>5. seedMask \in [1 .. h -> SomeByte]
  BY <1>0, <1>4, MasksFit
<1> HIDE DEF seedMask
<1>6. OaepSeed(b) \in [1 .. h -> SomeByte]
  BY <1>0, <1>2, <1>3, <1>5, MaskedTwice
<1>7. mask \in [1 .. l -> SomeByte]
  <2>1. OaepSeed(b) \in Seq(SomeByte)
    BY <1>0, <1>6, FunSeq
  <2> QED BY <1>1, <2>1, MasksFit
<1>8. OaepDb(b) = Masked(maskedDb, mask)
  BY <1>4 DEF OaepDb, maskedDb
<1> HIDE DEF mask
<1>9. OaepDb(b) \in [1 .. l -> SomeByte]
  BY <1>1, <1>2, <1>7, <1>8, MaskedTwice
<1>10. OaepDb(b) \in Seq(SomeByte) /\ Len(OaepDb(b)) = l
  BY <1>1, <1>9, FunSeq
<1> QED BY <1>10 DEF l, k

\* What was padded is decoded to the same message.
LEMMA OaepDecodes ==
    ASSUME HashFits, NEW m \in Seq(SomeByte), NEW b, OaepBlock(b, m)
    PROVE  OaepDecode(b) = {m}
<1> DEFINE k == ModulusLen["OAEP"]
           h == HashLen
           d == OaepDb(b)
           p == k - Len(m) - h - 1
<1>0. k \in Nat /\ h \in Nat \ {0} /\ Len(m) \in Nat
  BY ModulusAssumption DEF Uses
<1>1. b \in Seq(SomeByte) /\ Len(b) = k /\ OaepFits(m) /\ b[1] = 0 /\ d = DbOf(m)
  BY DEF OaepBlock
<1>2. Len(m) + 2 * h + 2 <= k /\ p > h /\ p < k - h /\ p \in Nat
  BY <1>0, <1>1 DEF OaepFits
<1> DEFINE hash == Hash(Label)
<1>3. /\ d \in Seq(SomeByte) /\ Len(d) = k - h - 1
      /\ \A i \in 1 .. h : d[i] = hash[i]
      /\ \A i \in h + 1 .. k - Len(m) - h - 2 : d[i] = 0
      /\ d[p] = 1
      /\ \A i \in 1 .. Len(m) : d[p + i] = m[i]
  BY <1>1, DbIs
<1>4. hash \in Seq(SomeByte) /\ Len(hash) = h
  <2>1. hash \in [1 .. h -> SomeByte]
    BY MessagesAssumption DEF HashFits
  <2> HIDE DEF hash, h
  <2> QED BY <1>0, <2>1, FunSeq
<1>5. p = k - Len(m) - h - 1
  OBVIOUS
<1> HIDE DEF d, hash, p, k, h
<1>6. SubSeq(d, 1, h) = hash
  <2> DEFINE t == SubSeq(d, 1, h)
  <2>0. h <= Len(d)
    BY <1>0, <1>2, <1>3
  <2>1. t \in Seq(SomeByte) /\ Len(t) = h /\ \A i \in 1 .. h : t[i] = d[i]
    BY <1>0, <1>3, <2>0
  <2> HIDE DEF t
  <2>2. \A i \in 1 .. Len(t) : t[i] = hash[i]
    BY <1>3, <2>1
  <2> QED BY <1>4, <2>1, <2>2, SameSeq DEF t
<1>7. p - 1 \in Behind(d)
  <2>1. p - 1 \in h .. Len(d) - 1 /\ (p - 1) + 1 = p
    BY <1>0, <1>2, <1>3
  <2>2. At(d, p - 1) # 0
    BY <1>3, <2>1 DEF At
  <2> QED BY <2>1, <2>2 DEF Behind, h
<1>8. ASSUME NEW i \in Behind(d) PROVE p - 1 <= i
  <2>1. i \in h .. Len(d) - 1 /\ d[i + 1] # 0
    BY DEF Behind, At, h
  <2>2. i + 1 \notin h + 1 .. k - Len(m) - h - 2
    BY <1>3, <2>1
  <2> QED BY <1>0, <1>2, <1>3, <1>5, <2>1, <2>2
<1>9. Behind(d) \subseteq Int
  BY <1>0, <1>3 DEF Behind, h
<1>10. FirstBehind(d) = p - 1
  <2> DEFINE f == FirstBehind(d)
  <2>1. f \in Behind(d) /\ \A j \in Behind(d) : f <= j
    BY <1>7, <1>8 DEF FirstBehind
  <2> HIDE DEF f
  <2>2. f <= p - 1 /\ p - 1 <= f /\ f \in Int
    BY <1>7, <1>8, <1>9, <2>1
  <2> QED BY <1>2, <2>2 DEF f
<1>11. SubSeq(d, p + 1, Len(d)) = m
  <2> DEFINE t == SubSeq(d, p + 1, Len(d))
  <2>0. Len(d) - p = Len(m) /\ p + 1 >= 1
    BY <1>0, <1>2, <1>3, <1>5
  <2>1. t \in Seq(SomeByte) /\ Len(t) = Len(d) - p /\ \A i \in 1 .. Len(d) - p : t[i] = d[p + i]
    BY <1>2, <1>3, <2>0
  <2> HIDE DEF t
  <2>2. \A i \in 1 .. Len(t) : t[i] = m[i]
    BY <1>3, <2>0, <2>1
  <2>3. Len(t) = Len(m)
    BY <2>0, <2>1
  <2> QED BY <2>1, <2>2, <2>3, SameSeq DEF t
<1>12. Separator(At(d, p - 1))
  BY <1>2, <1>3 DEF Separator, At
<1>13. ~(Len(b) < 2 * h + 2 \/ At(b, 0) # 0)
  BY <1>0, <1>1, <1>2 DEF At
<1>14. OaepDecode(b) = {SubSeq(d, (p - 1) + 2, Len(d))}
  <2>1. Behind(d) # {}
    BY <1>7
  <2> QED BY <1>6, <1>10, <1>12, <1>13, <2>1, OaepDecodeIs, Zenon DEF d, h, hash
<1>15. (p - 1) + 2 = p + 1
  BY <1>2
<1> QED BY <1>11, <1>14, <1>15

\* What is decoded was padded.
LEMMA DecodedIsPadded ==
    ASSUME HashFits, NEW b \in Seq(SomeByte), Len(b) = ModulusLen["OAEP"],
           NEW m \in OaepDecode(b)
    PROVE  m \in Seq(SomeByte) /\ OaepBlock(b, m)
<1> DEFINE k == ModulusLen["OAEP"]
           h == HashLen
           d == OaepDb(b)
           f == FirstBehind(d)
           hash == Hash(Label)
<1>0. k \in Nat /\ h \in Nat \ {0} /\ Len(b) = k
  BY ModulusAssumption DEF Uses
<1>1. /\ ~(Len(b) < 2 * h + 2) /\ At(b, 0) = 0
      /\ SubSeq(d, 1, h) = hash /\ Behind(d) # {}
      /\ Separator(At(d, f)) /\ m = SubSeq(d, f + 2, Len(d))
  <2> HIDE DEF h, d, f, hash
  <2> QED BY OaepDecodeIs, Zenon DEF h, d, f, hash
<1>2. b[1] = 0 /\ Len(b) >= 2 * h + 2
  BY <1>0, <1>1 DEF At
<1>3. d \in Seq(SomeByte) /\ Len(d) = k - h - 1
  BY <1>2, DbFits
<1> HIDE DEF d, hash
<1>4. f \in Behind(d) /\ \A j \in Behind(d) : f <= j
  <2>1. Behind(d) \subseteq Nat
    BY <1>0, <1>3 DEF Behind
  <2>2. \E i \in Behind(d) : \A j \in Behind(d) : i <= j
    BY <1>1, <2>1, LeastElement
  <2> QED BY <2>2 DEF FirstBehind
<1> HIDE DEF f
<1>5. f \in h .. Len(d) - 1 /\ d[f + 1] = 1
  BY <1>1, <1>4 DEF Behind, At, Separator
<1>6. ASSUME NEW i \in h + 1 .. f PROVE d[i] = 0
  <2>1. i - 1 \notin Behind(d)
    BY <1>0, <1>4, <1>5
  <2>2. i - 1 \in h .. Len(d) - 1
    BY <1>0, <1>3, <1>5
  <2>3. d[(i - 1) + 1] = 0
    BY <2>1, <2>2 DEF Behind, At
  <2>4. (i - 1) + 1 = i
    BY <1>0, <1>5
  <2> QED BY <2>3, <2>4
<1>7. /\ m \in Seq(SomeByte) /\ Len(m) = Len(d) - f - 1
      /\ \A i \in 1 .. Len(d) - f - 1 : m[i] = d[f + 1 + i]
  <2>1. f \in Nat /\ f + 2 <= Len(d) + 1 /\ f + 2 >= 1
    BY <1>0, <1>3, <1>5
  <2> QED BY <1>1, <1>3, <2>1
<1> HIDE DEF k, h
<1>8. Len(m) = k - h - 2 - f /\ f + 1 = k - Len(m) - h - 1 /\ f = k - Len(m) - h - 2
  BY <1>0, <1>3, <1>5, <1>7
<1>9. OaepFits(m)
  <2>1. f \in Nat /\ f >= h
    BY <1>0, <1>3, <1>5
  <2>2. Len(m) + 2 * h + 2 <= k
    BY <1>0, <1>8, <2>1
  <2> QED BY <2>2 DEF OaepFits, k, h
<1> DEFINE e == DbOf(m)
<1>10. /\ e \in Seq(SomeByte) /\ Len(e) = k - h - 1
       /\ \A i \in 1 .. h : e[i] = hash[i]
       /\ \A i \in h + 1 .. k - Len(m) - h - 2 : e[i] = 0
       /\ e[k - Len(m) - h - 1] = 1
       /\ \A i \in 1 .. Len(m) : e[k - Len(m) - h - 1 + i] = m[i]
  BY <1>7, <1>9, DbIs DEF hash, k, h
<1> HIDE DEF e
<1>11. \A i \in 1 .. h : d[i] = hash[i]
  <2> DEFINE t == SubSeq(d, 1, h)
  <2>1. h <= Len(d)
    BY <1>0, <1>3, <1>5
  <2>2. \A i \in 1 .. h : t[i] = d[i]
    BY <1>0, <1>3, <2>1
  <2> QED BY <1>1, <2>2
<1>12. ASSUME NEW i \in 1 .. Len(d) PROVE d[i] = e[i]
  <2>1. CASE i \in 1 .. h
    BY <1>10, <1>11, <2>1
  <2>2. CASE i \in h + 1 .. f
    <3>1. i \in h + 1 .. k - Len(m) - h - 2
      BY <1>8, <2>2
    <3> QED BY <1>6, <1>10, <2>2, <3>1
  <2>3. CASE i = f + 1
    BY <1>5, <1>8, <1>10, <2>3
  <2>4. CASE i > f + 1
    <3>1. i - f - 1 \in 1 .. Len(m) /\ f + 1 + (i - f - 1) = i
      BY <1>0, <1>3, <1>5, <1>7, <2>4
    <3>2. m[i - f - 1] = d[f + 1 + (i - f - 1)]
      BY <1>7, <3>1
    <3>3. e[f + 1 + (i - f - 1)] = m[i - f - 1]
      BY <1>8, <1>10, <3>1
    <3> QED BY <3>1, <3>2, <3>3
  <2>5. i \in 1 .. h \/ i \in h + 1 .. f \/ i = f + 1 \/ i > f + 1
    BY <1>0, <1>3, <1>5
  <2> QED BY <2>1, <2>2, <2>3, <2>4, <2>5
<1>13. d = e
  BY <1>3, <1>10, <1>12, SameSeq
<1> QED BY <1>0, <1>2, <1>7, <1>9, <1>13 DEF OaepBlock, d, e, k

\* What a block for a signature looks like, place by place.
SigBlock(b, d) ==
    LET k == ModulusLen["sign"]
    IN /\ b \in Seq(Byte) /\ Len(b) = k /\ Len(d) <= k - 11
       /\ b[1] = 0 /\ b[2] = 1 /\ b[k - Len(d)] = 0
       /\ \A i \in 3 .. k - Len(d) - 1 : b[i] = 255
       /\ \A i \in 1 .. Len(d) : b[k - Len(d) + i] = d[i]

\* There is one such block at most.
LEMMA SigBlockUnique ==
    ASSUME NEW d \in Seq(Byte), NEW b, NEW c, SigBlock(b, d), SigBlock(c, d)
    PROVE  b = c
<1> DEFINE k == ModulusLen["sign"]
<1>0. k \in Nat /\ Len(d) \in Nat
  BY ModulusAssumption DEF Uses
<1>1. /\ b \in Seq(Byte) /\ Len(b) = k /\ Len(d) <= k - 11
      /\ b[1] = 0 /\ b[2] = 1 /\ b[k - Len(d)] = 0
      /\ \A i \in 3 .. k - Len(d) - 1 : b[i] = 255
      /\ \A i \in 1 .. Len(d) : b[k - Len(d) + i] = d[i]
  BY DEF SigBlock
<1>2. /\ c \in Seq(Byte) /\ Len(c) = k
      /\ c[1] = 0 /\ c[2] = 1 /\ c[k - Len(d)] = 0
      /\ \A i \in 3 .. k - Len(d) - 1 : c[i] = 255
      /\ \A i \in 1 .. Len(d) : c[k - Len(d) + i] = d[i]
  BY DEF SigBlock
<1> HIDE DEF k
<1>3. ASSUME NEW i \in 1 .. Len(b) PROVE b[i] = c[i]
  <2>1. CASE i <= 2
    <3>1. i = 1 \/ i = 2
      BY <2>1
    <3> QED BY <1>1, <1>2, <3>1
  <2>2. CASE i \in 3 .. k - Len(d) - 1
    BY <1>1, <1>2, <2>2
  <2>3. CASE i = k - Len(d)
    BY <1>1, <1>2, <2>3
  <2>4. CASE i > k - Len(d)
    <3>1. i - (k - Len(d)) \in 1 .. Len(d) /\ k - Len(d) + (i - (k - Len(d))) = i
      BY <1>0, <1>1, <2>4
    <3> DEFINE j == i - (k - Len(d))
    <3> HIDE DEF j
    <3>2. j \in 1 .. Len(d) /\ k - Len(d) + j = i
      BY <3>1 DEF j
    <3>3. b[k - Len(d) + j] = d[j] /\ c[k - Len(d) + j] = d[j]
      BY <1>1, <1>2, <3>2
    <3> QED BY <3>2, <3>3
  <2>5. i <= 2 \/ i \in 3 .. k - Len(d) - 1 \/ i = k - Len(d) \/ i > k - Len(d)
    <3>1. Len(d) <= k - 11
      BY <1>1
    <3> QED BY <1>0, <3>1
  <2> QED BY <2>1, <2>2, <2>3, <2>4, <2>5
<1>4. b \in Seq(Byte) /\ c \in Seq(Byte) /\ Len(b) = Len(c)
  BY <1>1, <1>2
<1> QED BY <1>3, <1>4, SameSeq

\* Different data make different blocks.
LEMMA SigBlockTellsData ==
    ASSUME NEW d \in Seq(Byte), NEW e \in Seq(Byte), NEW b, SigBlock(b, d), SigBlock(b, e)
    PROVE  d = e
<1> DEFINE k == ModulusLen["sign"]
<1>0. k \in Nat /\ Len(d) \in Nat /\ Len(e) \in Nat
  BY ModulusAssumption DEF Uses
<1>1. /\ Len(d) <= k - 11 /\ b[k - Len(d)] = 0
      /\ \A i \in 3 .. k - Len(d) - 1 : b[i] = 255
      /\ \A i \in 1 .. Len(d) : b[k - Len(d) + i] = d[i]
  BY DEF SigBlock
<1>2. /\ Len(e) <= k - 11 /\ b[k - Len(e)] = 0
      /\ \A i \in 3 .. k - Len(e) - 1 : b[i] = 255
      /\ \A i \in 1 .. Len(e) : b[k - Len(e) + i] = e[i]
  BY DEF SigBlock
<1> HIDE DEF k
<1>3. ~(Len(d) < Len(e))
  <2> SUFFICES ASSUME Len(d) < Len(e) PROVE FALSE
    OBVIOUS
  <2>1. k - Len(e) \in 3 .. k - Len(d) - 1
    BY <1>0, <1>1, <1>2
  <2>2. b[k - Len(e)] = 255 /\ b[k - Len(e)] = 0
    BY <1>1, <1>2, <2>1
  <2> QED BY <2>2
<1>4. ~(Len(e) < Len(d))
  <2> SUFFICES ASSUME Len(e) < Len(d) PROVE FALSE
    OBVIOUS
  <2>1. k - Len(d) \in 3 .. k - Len(e) - 1
    BY <1>0, <1>1, <1>2
  <2>2. b[k - Len(d)] = 255 /\ b[k - Len(d)] = 0
    BY <1>1, <1>2, <2>1
  <2> QED BY <2>2
<1>5. Len(d) = Len(e)
  BY <1>0, <1>3, <1>4
<1>6. \A i \in 1 .. Len(d) : d[i] = e[i]
  BY <1>1, <1>2, <1>5
<1> QED BY <1>5, <1>6, SameSeq

\* The card's side builds this block.
LEMMA SignatureBlockIs ==
    ASSUME NEW d \in Seq(Byte), NEW b
    PROVE  b \in SignatureBlock(d) <=> SigBlock(b, d)
<1> DEFINE k == ModulusLen["sign"]
           sep == k - Len(d) - 1
           F(i) == CASE i = 1 -> 0
                     [] i = 2 -> 1
                     [] i > 2 /\ i < sep + 1 -> 255
                     [] i = sep + 1 -> 0
                     [] i > sep + 1 -> d[i - sep - 1]
           B == [i \in 1 .. k |-> F(i)]
<1>0. k \in Nat /\ Len(d) \in Nat
  BY ModulusAssumption DEF Uses
<1>1. SignatureBlock(d) # {} => Len(d) <= k - 11
  BY <1>0 DEF SignatureBlock, Fails
<1>2. Len(d) <= k - 11 => SignatureBlock(d) = {B}
  <2>1. Len(d) <= k - 11 => ~(Len(d) > k - 11)
    BY <1>0
  <2> QED BY <2>1 DEF SignatureBlock
<1>3. ASSUME Len(d) <= k - 11 PROVE SigBlock(B, d)
  <2>0. sep + 1 = k - Len(d) /\ sep \in Nat /\ sep >= 10 /\ sep < k /\ k \in Nat
    BY <1>0, <1>3
  <2> DEFINE w == B
  <2> HIDE DEF k, sep
  <2>1. ASSUME NEW i \in 1 .. k
        PROVE  /\ i = 1 => w[i] = 0
               /\ i = 2 => w[i] = 1
               /\ (i > 2 /\ i < sep + 1) => w[i] = 255
               /\ i = sep + 1 => w[i] = 0
               /\ i > sep + 1 => w[i] = d[i - sep - 1]
    BY <2>0
  <2> HIDE DEF F
  <2>2. (\A i \in 1 .. k : w[i] \in Byte) => w \in [1 .. k -> Byte]
    OBVIOUS
  <2> HIDE DEF w, B
  <2>3. ASSUME NEW i \in 1 .. k PROVE w[i] \in Byte
    <3>1. CASE i > sep + 1
      <4>1. i - sep - 1 \in 1 .. Len(d)
        BY <1>0, <2>0, <3>1
      <4>2. d[i - sep - 1] \in Byte
        BY <4>1
      <4> QED BY <2>1, <3>1, <4>2
    <3>2. CASE i <= sep + 1
      <4>1. i = 1 \/ i = 2 \/ (i > 2 /\ i < sep + 1) \/ i = sep + 1
        BY <2>0, <3>2
      <4>2. w[i] \in {0, 1, 255}
        BY <2>1, <4>1
      <4> QED BY <4>2 DEF Byte
    <3> QED BY <2>0, <3>1, <3>2
  <2>4. w \in [1 .. k -> Byte]
    BY <2>2, <2>3
  <2>5. w \in Seq(Byte) /\ Len(w) = k
    BY <2>0, <2>4, FunSeq
  <2>6. w[1] = 0 /\ w[2] = 1 /\ w[k - Len(d)] = 0
    <3>1. 1 \in 1 .. k /\ 2 \in 1 .. k /\ sep + 1 \in 1 .. k
      BY <2>0
    <3> QED BY <2>0, <2>1, <3>1
  <2>7. ASSUME NEW i \in 3 .. k - Len(d) - 1 PROVE w[i] = 255
    <3>1. i \in 1 .. k /\ i > 2 /\ i < sep + 1
      BY <1>0, <2>0
    <3> QED BY <2>1, <3>1
  <2>8. ASSUME NEW i \in 1 .. Len(d) PROVE w[k - Len(d) + i] = d[i]
    <3>1. k - Len(d) + i \in 1 .. k /\ k - Len(d) + i > sep + 1 /\ (k - Len(d) + i) - sep - 1 = i
      BY <1>0, <2>0
    <3> QED BY <2>1, <3>1
  <2> QED BY <1>3, <2>5, <2>6, <2>7, <2>8 DEF SigBlock, w, k
<1> HIDE DEF B
<1>4. ASSUME SigBlock(b, d) PROVE b \in SignatureBlock(d)
  <2>1. Len(d) <= k - 11
    BY <1>4 DEF SigBlock
  <2>2. b = B
    BY <1>3, <1>4, <2>1, SigBlockUnique
  <2> QED BY <1>2, <2>1, <2>2
<1>5. ASSUME b \in SignatureBlock(d) PROVE SigBlock(b, d)
  BY <1>1, <1>2, <1>3, <1>5
<1> QED BY <1>4, <1>5

\* And so does the verifier's.
LEMMA EmsaIs ==
    ASSUME NEW d \in Seq(Byte), NEW b
    PROVE  b \in Emsa(d) <=> SigBlock(b, d)
<1> DEFINE k == ModulusLen["sign"]
           n == k - Len(d) - 3
           s == <<0, 1>>
           ff == [i \in 1 .. n |-> 255]
           u == <<0>>
           w == s \o ff \o u \o d
<1>0. k \in Nat /\ Len(d) \in Nat
  BY ModulusAssumption DEF Uses
<1>1. Emsa(d) # {} => Len(d) <= k - 11
  BY <1>0 DEF Emsa, Fails
<1>2. Len(d) <= k - 11 => Emsa(d) = {w}
  <2>1. Len(d) <= k - 11 => ~(Len(d) > k - 11)
    BY <1>0
  <2> QED BY <2>1 DEF Emsa
<1>3. ASSUME Len(d) <= k - 11 PROVE SigBlock(w, d)
  <2>1. n \in Nat /\ 2 + n + 1 = k - Len(d)
    BY <1>0, <1>3
  <2> HIDE DEF n
  <2>2. ff \in Seq(Byte) /\ Len(ff) = n /\ \A i \in 1 .. n : ff[i] = 255
    BY <2>1 DEF Byte
  <2>3. /\ s \in Seq(Byte) /\ Len(s) = 2 /\ s[1] = 0 /\ s[2] = 1
        /\ u \in Seq(Byte) /\ Len(u) = 1 /\ u[1] = 0
    BY DEF Byte
  <2> HIDE DEF s, ff, u
  <2>4. /\ w \in Seq(Byte) /\ Len(w) = Len(s) + Len(ff) + Len(u) + Len(d)
        /\ \A i \in 1 .. Len(s) : w[i] = s[i]
        /\ \A i \in 1 .. Len(ff) : w[Len(s) + i] = ff[i]
        /\ \A i \in 1 .. Len(u) : w[Len(s) + Len(ff) + i] = u[i]
        /\ \A i \in 1 .. Len(d) : w[Len(s) + Len(ff) + Len(u) + i] = d[i]
    <3>1. s \in Seq(Byte) /\ ff \in Seq(Byte) /\ u \in Seq(Byte)
      BY <2>2, <2>3
    <3>2. w = s \o ff \o u \o d
      OBVIOUS
    <3> HIDE DEF w
    <3> QED BY <3>1, <3>2, FourParts, SMTT(30)
  <2> HIDE DEF w
  <2>5. /\ w \in Seq(Byte) /\ Len(w) = 2 + n + 1 + Len(d)
        /\ \A i \in 1 .. 2 : w[i] = s[i]
        /\ \A i \in 1 .. n : w[2 + i] = ff[i]
        /\ \A i \in 1 .. 1 : w[2 + n + i] = u[i]
        /\ \A i \in 1 .. Len(d) : w[2 + n + 1 + i] = d[i]
    BY <2>2, <2>3, <2>4
  <2> HIDE DEF k
  <2>6. Len(w) = k
    BY <1>0, <2>1, <2>5
  <2>7. w[1] = 0 /\ w[2] = 1
    BY <2>3, <2>5
  <2>8. w[k - Len(d)] = 0
    <3>1. w[2 + n + 1] = 0
      BY <2>3, <2>5
    <3> QED BY <2>1, <3>1
  <2>9. ASSUME NEW i \in 3 .. k - Len(d) - 1 PROVE w[i] = 255
    <3>1. i - 2 \in 1 .. n /\ 2 + (i - 2) = i
      BY <1>0, <2>1
    <3>2. w[2 + (i - 2)] = 255
      BY <2>2, <2>5, <3>1
    <3> QED BY <3>1, <3>2
  <2>10. ASSUME NEW i \in 1 .. Len(d) PROVE w[k - Len(d) + i] = d[i]
    <3>1. w[2 + n + 1 + i] = d[i]
      BY <2>5
    <3> QED BY <2>1, <3>1
  <2> QED BY <1>3, <2>5, <2>6, <2>7, <2>8, <2>9, <2>10 DEF SigBlock, k
<1> HIDE DEF w
<1>4. ASSUME SigBlock(b, d) PROVE b \in Emsa(d)
  <2>1. Len(d) <= k - 11
    BY <1>4 DEF SigBlock
  <2>2. b = w
    BY <1>3, <1>4, <2>1, SigBlockUnique
  <2> QED BY <1>2, <2>1, <2>2
<1>5. ASSUME b \in Emsa(d) PROVE SigBlock(b, d)
  BY <1>1, <1>2, <1>3, <1>5
<1> QED BY <1>4, <1>5

\* An element with a tag of one byte that is there.
LEMMA DerNextOk ==
    ASSUME NEW s, NEW off, TagBytes(s, off) = 1, Length(s, off + 1).ok,
           ~(off >= Len(s)), ~(off + 1 >= Len(s)),
           ~(off + (1 + Length(s, off + 1).bytes) + Length(s, off + 1).value > Len(s))
    PROVE  LET l == Length(s, off + 1)
           IN DerNext(s, off) =
                [ok |-> TRUE, tag |-> At(s, off), hdr |-> 1 + l.bytes,
                 val |-> SubSeq(s, off + (1 + l.bytes) + 1, off + (1 + l.bytes) + l.value),
                 next |-> off + (1 + l.bytes) + l.value]
  BY DEF DerNext

\* An element with a tag of one byte and a length of one byte.
ShortForm(tag, val, next) == [ok |-> TRUE, tag |-> tag, hdr |-> 2, val |-> val, next |-> next]

HeadAt(s, off, tag, n) ==
    off + 2 + n <= Len(s) /\ n < 128 /\ s[off + 2] = n /\ s[off + 1] = tag

\* An element with a tag of one byte and a short length.
LEMMA ShortElement ==
    ASSUME NEW s \in Seq(Byte), NEW off \in Nat, NEW n \in Nat, NEW tag \in Byte,
           HeadAt(s, off, tag, n), tag % 32 # 31
    PROVE  DerNext(s, off) = ShortForm(tag, SubSeq(s, off + 3, off + 2 + n), off + 2 + n)
<1>0. off + 2 + n <= Len(s) /\ n < 128 /\ s[off + 2] = n /\ s[off + 1] = tag
  BY DEF HeadAt
<1>1. TagBytes(s, off) = 1
  BY <1>0 DEF TagBytes, At
<1>2. Length(s, off + 1) = [ok |-> TRUE, bytes |-> 1, value |-> n]
  <2>1. At(s, off + 1) = n
    <3>1. (off + 1) + 1 = off + 2
      OBVIOUS
    <3> QED BY <1>0, <3>1 DEF At
  <2> QED BY <1>0, <2>1 DEF Length
<1> DEFINE l == Length(s, off + 1)
<1>3. l.ok /\ l.bytes = 1 /\ l.value = n
  BY <1>2
<1> HIDE DEF l
<1>6. /\ off + (1 + l.bytes) + 1 = off + 3 /\ off + (1 + l.bytes) + l.value = off + 2 + n
      /\ 1 + l.bytes = 2
  BY <1>3
<1>7. /\ ~(off >= Len(s)) /\ ~(off + 1 >= Len(s))
      /\ ~(off + (1 + l.bytes) + l.value > Len(s))
  BY <1>0, <1>6
<1>4. DerNext(s, off) =
        [ok |-> TRUE, tag |-> At(s, off), hdr |-> 1 + l.bytes,
         val |-> SubSeq(s, off + (1 + l.bytes) + 1, off + (1 + l.bytes) + l.value),
         next |-> off + (1 + l.bytes) + l.value]
  BY <1>1, <1>3, <1>7, DerNextOk, Zenon DEF l
<1>5. At(s, off) = tag
  BY <1>0 DEF At
<1> QED BY <1>4, <1>5, <1>6 DEF ShortForm

\* A part of a sequence, place by place.
LEMMA Slice ==
    ASSUME NEW S, NEW s \in Seq(S), NEW a \in Nat \ {0}, NEW b \in Nat, b <= Len(s), a <= b + 1
    PROVE  /\ SubSeq(s, a, b) \in Seq(S) /\ Len(SubSeq(s, a, b)) = b - a + 1
           /\ \A i \in 1 .. b - a + 1 : SubSeq(s, a, b)[i] = s[a - 1 + i]
  OBVIOUS

\* The bytes of an element at off, and those of it that are its contents.
ElementAt(s, off, tag, val, next) ==
    LET n == Len(val)
    IN /\ n < 128 /\ next = off + 2 + n /\ next <= Len(s)
       /\ s[off + 1] = tag /\ s[off + 2] = n
       /\ \A i \in 1 .. n : s[off + 2 + i] = val[i]

\* An element is read with its contents.
LEMMA ElementRead ==
    ASSUME NEW s \in Seq(Byte), NEW off \in Nat, NEW tag \in Byte, NEW val \in Seq(Byte), NEW next,
           tag % 32 # 31, ElementAt(s, off, tag, val, next)
    PROVE  DerNext(s, off) = ShortForm(tag, val, next)
<1> DEFINE n == Len(val)
<1>1. /\ n \in Nat /\ n < 128 /\ next = off + 2 + n /\ next <= Len(s)
      /\ s[off + 1] = tag /\ s[off + 2] = n
      /\ \A i \in 1 .. n : s[off + 2 + i] = val[i]
  BY DEF ElementAt
<1>2. DerNext(s, off) = ShortForm(tag, SubSeq(s, off + 3, off + 2 + n), off + 2 + n)
  <2>1. n \in Nat /\ HeadAt(s, off, tag, n)
    BY <1>1 DEF HeadAt
  <2> HIDE DEF n
  <2> QED BY <2>1, ShortElement
<1> DEFINE t == SubSeq(s, off + 3, next)
<1>3. t \in Seq(Byte) /\ Len(t) = n /\ \A i \in 1 .. n : t[i] = s[off + 2 + i]
  <2> HIDE DEF n
  <2>1. /\ off + 3 \in Nat \ {0} /\ next \in Nat /\ next <= Len(s) /\ off + 3 <= next + 1
        /\ next - (off + 3) + 1 = n /\ off + 3 - 1 = off + 2
    BY <1>1
  <2>2. /\ t \in Seq(Byte) /\ Len(t) = next - (off + 3) + 1
        /\ \A i \in 1 .. next - (off + 3) + 1 : t[i] = s[off + 3 - 1 + i]
    BY <2>1, Slice
  <2> HIDE DEF t
  <2> QED BY <2>1, <2>2
<1> HIDE DEF t
<1>4. t = val
  <2>1. \A i \in 1 .. Len(t) : t[i] = val[i]
    BY <1>1, <1>3
  <2> QED BY <1>3, <2>1, SameSeq
<1> QED BY <1>1, <1>2, <1>4 DEF t

\* DigestInfo: the places of its bytes make it one.
DigestInfoBytes(info, oid, data) ==
    LET n == Len(oid)
        h == Len(data)
    IN /\ n + h + 8 < 128 /\ Len(info) = 10 + n + h
       /\ info[1] = 48 /\ info[2] = n + h + 8 /\ info[3] = 48 /\ info[4] = n + 4
       /\ info[5] = 6 /\ info[6] = n /\ \A i \in 1 .. n : info[6 + i] = oid[i]
       /\ info[7 + n] = 5 /\ info[8 + n] = 0 /\ info[9 + n] = 4 /\ info[10 + n] = h
       /\ \A i \in 1 .. h : info[10 + n + i] = data[i]

\* Such bytes are a DigestInfo.
LEMMA DigestInfoIs ==
    ASSUME NEW info \in Seq(Byte), NEW oid \in Seq(Byte), NEW data \in Seq(Byte), NEW mech,
           Oid[mech] = oid, DigestInfoBytes(info, oid, data)
    PROVE  IsDigestInfo(info, mech, data)
<1> DEFINE n == Len(oid)
           h == Len(data)
<1>a. n \in Nat /\ h \in Nat /\ n + h + 8 < 128 /\ Len(info) = 10 + n + h
  BY DEF DigestInfoBytes
<1>b. /\ info[1] = 48 /\ info[2] = n + h + 8 /\ info[3] = 48 /\ info[4] = n + 4
      /\ info[5] = 6 /\ info[6] = n
      /\ info[7 + n] = 5 /\ info[8 + n] = 0 /\ info[9 + n] = 4 /\ info[10 + n] = h
  BY DEF DigestInfoBytes
<1>c. \A i \in 1 .. n : info[6 + i] = oid[i]
  BY DEF DigestInfoBytes
<1>d. \A i \in 1 .. h : info[10 + n + i] = data[i]
  BY DEF DigestInfoBytes
<1>e. n = Len(oid) /\ h = Len(data)
  OBVIOUS
<1>f. /\ 48 \in Byte /\ 6 \in Byte /\ 5 \in Byte /\ 4 \in Byte
      /\ 48 % 32 # 31 /\ 6 % 32 # 31 /\ 5 % 32 # 31 /\ 4 % 32 # 31
  BY DEF Byte
<1> HIDE DEF n, h
<1> DEFINE v == SubSeq(info, 0 + 3, 0 + 2 + (n + h + 8))
           a == SubSeq(info, 2 + 3, 2 + 2 + (n + 4))
           e == << >>
<1>1. DerNext(info, 0) = ShortForm(48, v, 10 + n + h)
  <2> DEFINE l == n + h + 8
  <2>1. /\ 0 \in Nat /\ l \in Nat /\ l < 128 /\ 0 + 2 + l <= Len(info) /\ 0 + 2 + l = 10 + n + h
        /\ info[0 + 2] = l /\ info[0 + 1] = 48
    BY <1>a, <1>b, SMTT(20)
  <2> HIDE DEF l
  <2>2. DerNext(info, 0) = ShortForm(48, SubSeq(info, 0 + 3, 0 + 2 + l), 0 + 2 + l)
    <3>1. HeadAt(info, 0, 48, l) /\ 0 \in Nat /\ l \in Nat /\ 48 \in Byte /\ 48 % 32 # 31
      BY <1>f, <2>1 DEF HeadAt
    <3> QED BY <3>1, ShortElement
  <2> QED BY <2>1, <2>2 DEF l
<1>2. DerNext(info, 2) = ShortForm(48, a, 8 + n)
  <2> DEFINE l == n + 4
  <2>1. /\ 2 \in Nat /\ l \in Nat /\ l < 128 /\ 2 + 2 + l <= Len(info) /\ 2 + 2 + l = 8 + n
        /\ info[2 + 2] = l /\ info[2 + 1] = 48
    BY <1>a, <1>b, SMTT(20)
  <2> HIDE DEF l
  <2>2. DerNext(info, 2) = ShortForm(48, SubSeq(info, 2 + 3, 2 + 2 + l), 2 + 2 + l)
    <3>1. HeadAt(info, 2, 48, l) /\ 2 \in Nat /\ l \in Nat /\ 48 \in Byte /\ 48 % 32 # 31
      BY <1>f, <2>1 DEF HeadAt
    <3> QED BY <3>1, ShortElement
  <2> QED BY <2>1, <2>2 DEF l
<1> HIDE DEF v, a
<1>3. ElementAt(info, 4, 6, oid, 6 + n)
  <2>1. \A i \in 1 .. Len(oid) : info[4 + 2 + i] = oid[i]
    BY <1>c, <1>e
  <2>2. info[4 + 1] = 6 /\ info[4 + 2] = Len(oid)
    BY <1>b, <1>e
  <2>3. Len(oid) < 128 /\ 6 + n = 4 + 2 + Len(oid) /\ 6 + n <= Len(info)
    BY <1>a, <1>e
  <2> QED BY <2>1, <2>2, <2>3 DEF ElementAt
<1>4. e \in Seq(Byte) /\ Len(e) = 0
  OBVIOUS
<1> HIDE DEF e
<1>5. ElementAt(info, 6 + n, 5, e, 8 + n)
  <2>1. \A i \in 1 .. Len(e) : info[6 + n + 2 + i] = e[i]
    BY <1>4
  <2>2. info[6 + n + 1] = 5 /\ info[6 + n + 2] = Len(e)
    <3>1. 6 + n + 1 = 7 + n /\ 6 + n + 2 = 8 + n
      BY <1>a
    <3> QED BY <1>b, <1>4, <3>1
  <2>3. Len(e) < 128 /\ 8 + n = 6 + n + 2 + Len(e) /\ 8 + n <= Len(info)
    BY <1>a, <1>4
  <2> QED BY <2>1, <2>2, <2>3 DEF ElementAt
<1>6. ElementAt(info, 8 + n, 4, data, 10 + n + h)
  <2>1. ASSUME NEW i \in 1 .. Len(data) PROVE info[8 + n + 2 + i] = data[i]
    <3>1. 8 + n + 2 + i = 10 + n + i
      BY <1>a
    <3>2. info[10 + n + i] = data[i]
      BY <1>d, <1>e
    <3> QED BY <3>1, <3>2
  <2>2. info[8 + n + 1] = 4 /\ info[8 + n + 2] = Len(data)
    <3>1. 8 + n + 1 = 9 + n /\ 8 + n + 2 = 10 + n
      BY <1>a
    <3> QED BY <1>b, <1>e, <3>1
  <2>3. Len(data) < 128 /\ 10 + n + h = 8 + n + 2 + Len(data) /\ 10 + n + h <= Len(info)
    BY <1>a, <1>e
  <2> QED BY <2>1, <2>2, <2>3 DEF ElementAt
<1>7. 4 \in Nat /\ 6 + n \in Nat /\ 8 + n \in Nat
  BY <1>a
<1>8. DerNext(info, 4) = ShortForm(6, oid, 6 + n)
  BY <1>3, <1>7, <1>f, ElementRead
<1>9. DerNext(info, 6 + n) = ShortForm(5, e, 8 + n)
  <2>1. e \in Seq(Byte) /\ 6 + n \in Nat /\ 5 \in Byte /\ 5 % 32 # 31
    BY <1>4, <1>7, <1>f
  <2> QED BY <1>5, <2>1, ElementRead
<1>10. DerNext(info, 8 + n) = ShortForm(4, data, 10 + n + h)
  BY <1>6, <1>7, <1>f, ElementRead
<1> DEFINE element == [off \in 0 .. Len(info) - 1 |-> DerNext(info, off)]
           top == element[0]
           alg == element[2]
           o == element[4]
           null == element[6 + n]
           hash == element[8 + n]
<1>11. /\ top = ShortForm(48, v, 10 + n + h) /\ alg = ShortForm(48, a, 8 + n)
       /\ o = ShortForm(6, oid, 6 + n) /\ null = ShortForm(5, e, 8 + n)
       /\ hash = ShortForm(4, data, 10 + n + h)
  <2>1. /\ 0 \in 0 .. Len(info) - 1 /\ 2 \in 0 .. Len(info) - 1 /\ 4 \in 0 .. Len(info) - 1
        /\ 6 + n \in 0 .. Len(info) - 1 /\ 8 + n \in 0 .. Len(info) - 1
    BY <1>a
  <2> QED BY <1>1, <1>2, <1>8, <1>9, <1>10, <2>1
<1> HIDE DEF element, top, alg, o, null, hash
<1>12. top.ok /\ top.tag = 48 /\ top.next = 10 + n + h /\ top.hdr = 2
  BY <1>11 DEF ShortForm
<1>13. alg.ok /\ alg.tag = 48 /\ alg.next = 8 + n /\ alg.hdr = 2
  BY <1>11 DEF ShortForm
<1>14. o.ok /\ o.tag = 6 /\ o.val = oid /\ o.next = 6 + n
  BY <1>11 DEF ShortForm
<1>15. null.ok /\ null.tag = 5 /\ null.val = e /\ null.next = 8 + n
  BY <1>11 DEF ShortForm
<1>16. hash.ok /\ hash.tag = 4 /\ hash.val = data /\ hash.next = 10 + n + h
  BY <1>11 DEF ShortForm
<1>17. /\ element[0] = top /\ element[top.hdr] = alg /\ element[top.hdr + alg.hdr] = o
       /\ element[o.next] = null /\ element[alg.next] = hash
  BY <1>12, <1>13, <1>14 DEF top, alg, o, null, hash
<1>18. /\ top.next = Len(info) /\ hash.next = top.next /\ null.next = alg.next /\ null.val = <<>>
       /\ o.val = Oid[mech]
  BY <1>a, <1>12, <1>13, <1>14, <1>15, <1>16 DEF e
<1> QED BY <1>12, <1>13, <1>14, <1>15, <1>16, <1>17, <1>18, ZenonT(60) DEF IsDigestInfo, element

\* What stands in front of the hash in DigestInfo.
PrefixBytes(p, oid, h) ==
    LET n == Len(oid)
    IN /\ p \in Seq(Byte) /\ oid \in Seq(Byte) /\ n + h + 8 < 128 /\ Len(p) = 10 + n
       /\ p[1] = 48 /\ p[2] = n + h + 8 /\ p[3] = 48 /\ p[4] = n + 4
       /\ p[5] = 6 /\ p[6] = n /\ \A i \in 1 .. n : p[6 + i] = oid[i]
       /\ p[7 + n] = 5 /\ p[8 + n] = 0 /\ p[9 + n] = 4 /\ p[10 + n] = h

\* So is a hash behind a prefix of this form.
LEMMA PrefixMakesDigestInfo ==
    ASSUME NEW p, NEW oid, NEW data \in Seq(Byte), PrefixBytes(p, oid, Len(data))
    PROVE  p \o data \in Seq(Byte) /\ oid \in Seq(Byte) /\ DigestInfoBytes(p \o data, oid, data)
<1> DEFINE n == Len(oid)
           h == Len(data)
           w == p \o data
<1>1. p \in Seq(Byte) /\ oid \in Seq(Byte) /\ n + h + 8 < 128 /\ Len(p) = 10 + n
  BY DEF PrefixBytes
<1>2. /\ p[1] = 48 /\ p[2] = n + h + 8 /\ p[3] = 48 /\ p[4] = n + 4 /\ p[5] = 6 /\ p[6] = n
      /\ p[7 + n] = 5 /\ p[8 + n] = 0 /\ p[9 + n] = 4 /\ p[10 + n] = h
  BY DEF PrefixBytes
<1>3. \A i \in 1 .. n : p[6 + i] = oid[i]
  BY DEF PrefixBytes
<1>4. n \in Nat /\ h \in Nat
  BY <1>1
<1>5. /\ w \in Seq(Byte) /\ Len(w) = Len(p) + Len(data)
      /\ \A i \in 1 .. Len(p) : w[i] = p[i]
      /\ \A i \in 1 .. Len(data) : w[Len(p) + i] = data[i]
  <2>1. p \in Seq(Byte)
    BY <1>1
  <2> HIDE DEF n, h
  <2> QED BY <2>1, Concat
<1> HIDE DEF n, h, w
<1>6. Len(w) = 10 + n + h
  BY <1>1, <1>4, <1>5 DEF h
<1>7. /\ w[1] = 48 /\ w[2] = n + h + 8 /\ w[3] = 48 /\ w[4] = n + 4 /\ w[5] = 6 /\ w[6] = n
  <2>1. \A i \in 1 .. 6 : w[i] = p[i]
    BY <1>1, <1>4, <1>5
  <2> QED BY <1>2, <2>1
<1>8. /\ w[7 + n] = 5 /\ w[8 + n] = 0 /\ w[9 + n] = 4 /\ w[10 + n] = h
  <2>1. /\ 7 + n \in 1 .. Len(p) /\ 8 + n \in 1 .. Len(p) /\ 9 + n \in 1 .. Len(p)
        /\ 10 + n \in 1 .. Len(p)
    BY <1>1, <1>4
  <2> QED BY <1>2, <1>5, <2>1
<1>9. ASSUME NEW i \in 1 .. n PROVE w[6 + i] = oid[i]
  <2>1. 6 + i \in 1 .. Len(p)
    BY <1>1, <1>4
  <2> QED BY <1>3, <1>5, <2>1
<1>10. ASSUME NEW i \in 1 .. h PROVE w[10 + n + i] = data[i]
  <2>1. w[Len(p) + i] = data[i]
    BY <1>5 DEF h
  <2> QED BY <1>1, <2>1
<1> QED BY <1>1, <1>5, <1>6, <1>7, <1>8, <1>9, <1>10 DEF DigestInfoBytes, n, h, w

\* The prefixes of the code are of this form.
LEMMA PrefixOfMD5 == PrefixBytes(DigestPrefix("MD5"), Oid["MD5"], DigestLen["MD5"])
<1>1. Oid["MD5"] \in Seq(Byte) /\ Len(Oid["MD5"]) = 8
  BY DEF Oid, Byte
<1>2. DigestPrefix("MD5") \in Seq(Byte) /\ Len(DigestPrefix("MD5")) = 18
  BY DEF DigestPrefix, Byte
<1>3. DigestLen["MD5"] = 16
  BY DEF DigestLen
<1>4. \A i \in 1 .. 8 : DigestPrefix("MD5")[6 + i] = Oid["MD5"][i]
  BY DEF DigestPrefix, Oid
<1> DEFINE p == DigestPrefix("MD5")
<1>5. /\ p[1] = 48 /\ p[2] = 32 /\ p[3] = 48 /\ p[4] = 12 /\ p[5] = 6 /\ p[6] = 8
      /\ p[15] = 5 /\ p[16] = 0 /\ p[17] = 4 /\ p[18] = 16
  BY DEF DigestPrefix
<1> QED BY <1>1, <1>2, <1>3, <1>4, <1>5 DEF PrefixBytes

LEMMA PrefixOfSHA1 == PrefixBytes(DigestPrefix("SHA1"), Oid["SHA1"], DigestLen["SHA1"])
<1>1. Oid["SHA1"] \in Seq(Byte) /\ Len(Oid["SHA1"]) = 5
  BY DEF Oid, Byte
<1>2. DigestPrefix("SHA1") \in Seq(Byte) /\ Len(DigestPrefix("SHA1")) = 15
  BY DEF DigestPrefix, Byte
<1>3. DigestLen["SHA1"] = 20
  BY DEF DigestLen
<1>4. \A i \in 1 .. 5 : DigestPrefix("SHA1")[6 + i] = Oid["SHA1"][i]
  BY DEF DigestPrefix, Oid
<1> DEFINE p == DigestPrefix("SHA1")
<1>5. /\ p[1] = 48 /\ p[2] = 33 /\ p[3] = 48 /\ p[4] = 9 /\ p[5] = 6 /\ p[6] = 5
      /\ p[12] = 5 /\ p[13] = 0 /\ p[14] = 4 /\ p[15] = 20
  BY DEF DigestPrefix
<1> QED BY <1>1, <1>2, <1>3, <1>4, <1>5 DEF PrefixBytes

LEMMA PrefixOfSHA256 == PrefixBytes(DigestPrefix("SHA256"), Oid["SHA256"], DigestLen["SHA256"])
<1>1. Oid["SHA256"] \in Seq(Byte) /\ Len(Oid["SHA256"]) = 9
  BY DEF Oid, Byte
<1>2. DigestPrefix("SHA256") \in Seq(Byte) /\ Len(DigestPrefix("SHA256")) = 19
  BY DEF DigestPrefix, Byte
<1>3. DigestLen["SHA256"] = 32
  BY DEF DigestLen
<1>4. \A i \in 1 .. 9 : DigestPrefix("SHA256")[6 + i] = Oid["SHA256"][i]
  BY DEF DigestPrefix, Oid
<1> DEFINE p == DigestPrefix("SHA256")
<1>5. /\ p[1] = 48 /\ p[2] = 49 /\ p[3] = 48 /\ p[4] = 13 /\ p[5] = 6 /\ p[6] = 9
      /\ p[16] = 5 /\ p[17] = 0 /\ p[18] = 4 /\ p[19] = 32
  BY DEF DigestPrefix
<1> QED BY <1>1, <1>2, <1>3, <1>4, <1>5 DEF PrefixBytes

LEMMA PrefixOfSHA384 == PrefixBytes(DigestPrefix("SHA384"), Oid["SHA384"], DigestLen["SHA384"])
<1>1. Oid["SHA384"] \in Seq(Byte) /\ Len(Oid["SHA384"]) = 9
  BY DEF Oid, Byte
<1>2. DigestPrefix("SHA384") \in Seq(Byte) /\ Len(DigestPrefix("SHA384")) = 19
  BY DEF DigestPrefix, Byte
<1>3. DigestLen["SHA384"] = 48
  BY DEF DigestLen
<1>4. \A i \in 1 .. 9 : DigestPrefix("SHA384")[6 + i] = Oid["SHA384"][i]
  BY DEF DigestPrefix, Oid
<1> DEFINE p == DigestPrefix("SHA384")
<1>5. /\ p[1] = 48 /\ p[2] = 65 /\ p[3] = 48 /\ p[4] = 13 /\ p[5] = 6 /\ p[6] = 9
      /\ p[16] = 5 /\ p[17] = 0 /\ p[18] = 4 /\ p[19] = 48
  BY DEF DigestPrefix
<1> QED BY <1>1, <1>2, <1>3, <1>4, <1>5 DEF PrefixBytes

LEMMA PrefixOfSHA512 == PrefixBytes(DigestPrefix("SHA512"), Oid["SHA512"], DigestLen["SHA512"])
<1>1. Oid["SHA512"] \in Seq(Byte) /\ Len(Oid["SHA512"]) = 9
  BY DEF Oid, Byte
<1>2. DigestPrefix("SHA512") \in Seq(Byte) /\ Len(DigestPrefix("SHA512")) = 19
  BY DEF DigestPrefix, Byte
<1>3. DigestLen["SHA512"] = 64
  BY DEF DigestLen
<1>4. \A i \in 1 .. 9 : DigestPrefix("SHA512")[6 + i] = Oid["SHA512"][i]
  BY DEF DigestPrefix, Oid
<1> DEFINE p == DigestPrefix("SHA512")
<1>5. /\ p[1] = 48 /\ p[2] = 81 /\ p[3] = 48 /\ p[4] = 13 /\ p[5] = 6 /\ p[6] = 9
      /\ p[16] = 5 /\ p[17] = 0 /\ p[18] = 4 /\ p[19] = 64
  BY DEF DigestPrefix
<1> QED BY <1>1, <1>2, <1>3, <1>4, <1>5 DEF PrefixBytes

\* What is signed for a hash is its DigestInfo.
LEMMA PayloadIsDigestInfo ==
    ASSUME NEW m \in Messages["sign"]
    PROVE  Payload(m) \in Seq(Byte) /\ (m.mech # "raw" => IsDigestInfo(Payload(m), m.mech, m.data))
<1>1. /\ m.data \in Seq(Byte)
      /\ m.mech # "raw" => m.mech \in DOMAIN DigestLen /\ Len(m.data) = DigestLen[m.mech]
  BY MessagesAssumption
<1>2. CASE m.mech = "raw"
  BY <1>1, <1>2 DEF Payload
<1>3. CASE m.mech # "raw"
  <2>1. m.mech \in {"MD5", "SHA1", "SHA256", "SHA384", "SHA512"}
    BY <1>1, <1>3 DEF DigestLen
  <2>2. PrefixBytes(DigestPrefix(m.mech), Oid[m.mech], Len(m.data))
    BY <1>1, <1>3, <2>1, PrefixOfMD5, PrefixOfSHA1, PrefixOfSHA256, PrefixOfSHA384, PrefixOfSHA512
  <2> DEFINE info == DigestPrefix(m.mech) \o m.data
             oid == Oid[m.mech]
  <2>3. info \in Seq(Byte) /\ oid \in Seq(Byte) /\ DigestInfoBytes(info, oid, m.data)
    BY <1>1, <2>2, PrefixMakesDigestInfo
  <2>4. Payload(m) = info
    BY <1>3 DEF Payload
  <2>5. Oid[m.mech] = oid
    OBVIOUS
  <2> HIDE DEF info, oid
  <2>6. IsDigestInfo(info, m.mech, m.data)
    BY <1>1, <2>3, <2>5, DigestInfoIs
  <2> QED BY <2>3, <2>4, <2>6
<1> QED BY <1>2, <1>3

\* What the other side makes of a block.
Unpadded(use, block, claim) ==
    CASE use = "PKCS" -> UnpadType2(block)
      [] use = "OAEP" -> OaepDecode(block)
      [] use = "sign" -> IF block \in Emsa(Payload(claim)) THEN {claim} ELSE Fails

PadShape ==
    /\ pad = [use |-> pad.use, msg |-> pad.msg, claim |-> pad.claim, own |-> pad.own,
              step |-> pad.step, block |-> pad.block, out |-> pad.out]
    /\ pad.use \in Uses /\ pad.own \in BOOLEAN
    /\ pad.step \in {"message", "block", "done", "refused"}

PadOwn ==
    pad.own => /\ pad.msg \in Messages[pad.use] /\ pad.claim \in Claims(pad.use, pad.msg)
               /\ pad.step \in {"block", "done"} => pad.block \in Blocks(pad.use, pad.msg)
               /\ pad.step = "refused" => Blocks(pad.use, pad.msg) = {}

PadForeign ==
    ~pad.own => pad.step \in {"block", "done"} /\ pad.block \in Foreign[pad.use]

PadOut == pad.step = "done" => pad.out = Unpadded(pad.use, pad.block, pad.claim)

PadInv == PadShape /\ PadOwn /\ PadForeign /\ PadOut

\* Every block of every format goes through RSA and back unchanged.
LEMMA BlocksKeepWidth ==
    ASSUME HashFits, NEW use \in Uses, NEW m \in Messages[use], NEW b \in Blocks(use, m)
    PROVE  ToWidth(ToBytes(b), ModulusLen[use]) = b
<1> DEFINE k == ModulusLen[use]
<1>0. k \in Nat /\ HashLen \in Nat \ {0}
  BY ModulusAssumption
<1>1. k # 0 /\ b \in Seq(Byte) /\ Len(b) = k
  <2>1. CASE use = "PKCS"
    <3>1. m \in Seq(SomeByte) /\ b \in EncryptBlocks(m)
      BY <2>1, MessagesAssumption DEF Blocks
    <3>2. PkcsBlock(b, m)
      BY <3>1, EncryptBlocksAre
    <3>3. b \in Seq(SomeByte) /\ Len(b) = k /\ Len(m) <= k - 11
      BY <2>1, <3>2 DEF PkcsBlock
    <3>4. b \in Seq(Byte)
      BY <3>3, BytesAssumption
    <3>5. Len(m) \in Nat
      BY <3>1
    <3> QED BY <1>0, <3>3, <3>4, <3>5
  <2>2. CASE use = "OAEP"
    <3>1. m \in Seq(SomeByte) /\ b \in OaepBlocks(m)
      BY <2>2, MessagesAssumption DEF Blocks
    <3>2. OaepBlock(b, m)
      BY <3>1, OaepBlocksAre
    <3>3. b \in Seq(SomeByte) /\ Len(b) = k /\ Len(m) + 2 * HashLen + 2 <= k
      BY <2>2, <3>2 DEF OaepBlock, OaepFits
    <3>4. b \in Seq(Byte)
      BY <3>3, BytesAssumption
    <3>5. Len(m) \in Nat
      BY <3>1
    <3> QED BY <1>0, <3>3, <3>4, <3>5
  <2>3. CASE use = "sign"
    <3>1. Payload(m) \in Seq(Byte)
      BY <2>3, PayloadIsDigestInfo
    <3>2. SigBlock(b, Payload(m))
      BY <2>3, <3>1, SignatureBlockIs DEF Blocks
    <3>3. b \in Seq(Byte) /\ Len(b) = k /\ Len(Payload(m)) <= k - 11
      BY <2>3, <3>2 DEF SigBlock
    <3>4. Len(Payload(m)) \in Nat
      BY <3>1
    <3> QED BY <1>0, <3>3, <3>4
  <2> QED BY <2>1, <2>2, <2>3 DEF Uses
<1> HIDE DEF k
<1>2. b \in [1 .. k -> Int]
  <2>1. b \in [1 .. k -> Byte]
    BY <1>0, <1>1, FunSeq
  <2>2. Byte \subseteq Int
    BY DEF Byte
  <2> QED BY <2>1, <2>2
<1> QED BY <1>0, <1>1, <1>2, RsaWidth DEF k

\* A message or a block that comes from outside.
LEMMA PadInitInv == ASSUME PadInit PROVE PadInv
<1>1. PICK use \in Uses :
        \/ \E m \in Messages[use] : \E claim \in Claims(use, m) :
              pad = [use |-> use, msg |-> m, claim |-> claim, own |-> TRUE, step |-> "message",
                     block |-> <<>>, out |-> {}]
        \/ \E b \in Foreign[use] :
              pad = [use |-> use, msg |-> <<>>, claim |-> <<>>, own |-> FALSE, step |-> "block",
                     block |-> b, out |-> {}]
  BY DEF PadInit
<1>2. CASE \E m \in Messages[use] : \E claim \in Claims(use, m) :
              pad = [use |-> use, msg |-> m, claim |-> claim, own |-> TRUE, step |-> "message",
                     block |-> <<>>, out |-> {}]
  <2>1. PICK m \in Messages[use] : \E claim \in Claims(use, m) :
              pad = [use |-> use, msg |-> m, claim |-> claim, own |-> TRUE, step |-> "message",
                     block |-> <<>>, out |-> {}]
    BY <1>2
  <2>2. PICK claim \in Claims(use, m) :
              pad = [use |-> use, msg |-> m, claim |-> claim, own |-> TRUE, step |-> "message",
                     block |-> <<>>, out |-> {}]
    BY <2>1
  <2>3. PadShape
    BY <2>2 DEF PadShape
  <2> QED BY <2>2, <2>3 DEF PadInv, PadOwn, PadForeign, PadOut
<1>3. CASE \E b \in Foreign[use] :
              pad = [use |-> use, msg |-> <<>>, claim |-> <<>>, own |-> FALSE, step |-> "block",
                     block |-> b, out |-> {}]
  <2>1. PICK b \in Foreign[use] :
              pad = [use |-> use, msg |-> <<>>, claim |-> <<>>, own |-> FALSE, step |-> "block",
                     block |-> b, out |-> {}]
    BY <1>3
  <2>2. PadShape
    BY <2>1 DEF PadShape
  <2> QED BY <2>1, <2>2 DEF PadInv, PadOwn, PadForeign, PadOut
<1> QED BY <1>1, <1>2, <1>3

\* Padding, RSA and unpadding keep the invariant.
LEMMA PadStepInv ==
    ASSUME HashFits, PadInv, [PadStep]_pad
    PROVE  PadInv'
<1> USE DEF PadInv
<1>1. CASE PadMessage /\ Blocks(pad.use, pad.msg) = {} /\ pad' = [pad EXCEPT !.step = "refused"]
  <2>1. /\ pad' = [use |-> pad.use, msg |-> pad.msg, claim |-> pad.claim, own |-> pad.own,
                   step |-> "refused", block |-> pad.block, out |-> pad.out]
    BY <1>1 DEF PadShape
  <2>2. pad.own
    BY <1>1 DEF PadMessage, PadForeign
  <2>3. PadShape'
    BY <2>1 DEF PadShape
  <2>4. PadOwn'
    BY <1>1, <2>1, <2>2 DEF PadOwn
  <2> QED BY <2>1, <2>2, <2>3, <2>4 DEF PadForeign, PadOut
<1>2. ASSUME NEW b \in Blocks(pad.use, pad.msg), PadMessage,
             pad' = [pad EXCEPT !.step = "block",
                                !.block = ToWidth(ToBytes(b), ModulusLen[pad.use])]
      PROVE  PadInv'
  <2>1. pad.own
    BY <1>2 DEF PadMessage, PadForeign
  <2>2. ToWidth(ToBytes(b), ModulusLen[pad.use]) = b
    BY <2>1, BlocksKeepWidth DEF PadShape, PadOwn
  <2>3. pad' = [use |-> pad.use, msg |-> pad.msg, claim |-> pad.claim, own |-> pad.own,
                step |-> "block", block |-> b, out |-> pad.out]
    BY <1>2, <2>2 DEF PadShape
  <2>4. PadShape'
    BY <2>3 DEF PadShape
  <2>5. PadOwn'
    BY <2>1, <2>3 DEF PadOwn
  <2> QED BY <2>1, <2>3, <2>4, <2>5 DEF PadForeign, PadOut
<1>3. CASE Unpad
  <2> DEFINE out == Unpadded(pad.use, pad.block, pad.claim)
  <2>1. pad.step = "block" /\ pad' = [pad EXCEPT !.step = "done", !.out = out]
    BY <1>3 DEF Unpad, Unpadded
  <2> HIDE DEF out
  <2>2. pad' = [use |-> pad.use, msg |-> pad.msg, claim |-> pad.claim, own |-> pad.own,
                step |-> "done", block |-> pad.block, out |-> out]
    BY <2>1 DEF PadShape
  <2>3. PadShape'
    BY <2>2 DEF PadShape
  <2>4. PadOwn'
    BY <2>1, <2>2 DEF PadOwn
  <2>5. PadForeign'
    BY <2>1, <2>2 DEF PadForeign
  <2>6. PadOut'
    BY <2>2 DEF PadOut, out
  <2> QED BY <2>3, <2>4, <2>5, <2>6
<1>4. CASE UNCHANGED pad
  BY <1>4 DEF PadShape, PadOwn, PadForeign, PadOut
<1>5. CASE PadMessage
  BY <1>1, <1>2, <1>5 DEF PadMessage
<1> QED BY <1>3, <1>4, <1>5 DEF PadStep

\* PKCS#1 and OAEP: decrypting gives the message back, and a message is refused
\* only if it is longer than the format allows.
LEMMA PaddedComesBack == ASSUME HashFits, PadInv PROVE PaddedMessagesComeBack
<1> SUFFICES ASSUME pad.own, pad.use # "sign"
             PROVE  /\ pad.step = "done" => pad.out = {pad.msg}
                    /\ pad.step = "refused" =>
                         Len(pad.msg) + (IF pad.use = "PKCS" THEN 11 ELSE 2 * HashLen + 2)
                           > ModulusLen[pad.use]
  BY DEF PaddedMessagesComeBack
<1> DEFINE m == pad.msg
           b == pad.block
           k == ModulusLen[pad.use]
<1>0. k \in Nat /\ HashLen \in Nat \ {0} /\ {0, 1, 2} \subseteq SomeByte
  BY ModulusAssumption, BytesAssumption DEF PadInv, PadShape
<1>1. CASE pad.use = "PKCS"
  <2>1. m \in Seq(SomeByte)
    BY <1>1, MessagesAssumption DEF PadInv, PadOwn
  <2>2. ASSUME pad.step = "done" PROVE pad.out = {m}
    <3>1. b \in EncryptBlocks(m)
      BY <1>1, <2>2 DEF PadInv, PadOwn, Blocks
    <3>2. PkcsBlock(b, m)
      BY <2>1, <3>1, EncryptBlocksAre
    <3>3. b \in Seq(SomeByte) /\ Len(b) = ModulusLen["PKCS"]
      BY <3>2 DEF PkcsBlock
    <3>4. UnpadType2(b) = {m}
      BY <2>1, <3>2, <3>3, UnpadType2Is
    <3> QED BY <1>1, <2>2, <3>4 DEF PadInv, PadOut, Unpadded
  <2>3. ASSUME pad.step = "refused" PROVE Len(m) + 11 > k
    <3>1. EncryptBlocks(m) = {}
      BY <1>1, <2>3 DEF PadInv, PadOwn, Blocks
    <3> SUFFICES ASSUME Len(m) + 11 <= k PROVE FALSE
      BY <1>0, <2>1
    <3>2. ~(Len(m) > ModulusLen["PKCS"] - 11)
      BY <1>0, <1>1, <2>1
    <3> DEFINE ps == [i \in 1 .. k - Len(m) - 3 |-> 1]
    <3>3. ps \in [1 .. ModulusLen["PKCS"] - Len(m) - 3 -> SomeByte \ {0}]
      BY <1>0, <1>1
    <3>4. <<0, 2>> \o ps \o <<0>> \o m \in EncryptBlocks(m)
      BY <3>2, <3>3 DEF EncryptBlocks
    <3> QED BY <3>1, <3>4
  <2> QED BY <1>1, <2>2, <2>3
<1>2. CASE pad.use = "OAEP"
  <2>1. m \in Seq(SomeByte)
    BY <1>2, MessagesAssumption DEF PadInv, PadOwn
  <2>2. ASSUME pad.step = "done" PROVE pad.out = {m}
    <3>1. b \in OaepBlocks(m)
      BY <1>2, <2>2 DEF PadInv, PadOwn, Blocks
    <3>2. OaepBlock(b, m)
      BY <2>1, <3>1, OaepBlocksAre
    <3>3. OaepDecode(b) = {m}
      BY <2>1, <3>2, OaepDecodes
    <3> QED BY <1>2, <2>2, <3>3 DEF PadInv, PadOut, Unpadded
  <2>3. ASSUME pad.step = "refused" PROVE Len(m) + (2 * HashLen + 2) > k
    <3>1. OaepBlocks(m) = {}
      BY <1>2, <2>3 DEF PadInv, PadOwn, Blocks
    <3>0. Len(m) \in Nat /\ k \in Nat /\ 2 * HashLen \in Nat /\ k = ModulusLen["OAEP"]
      BY <1>0, <1>2, <2>1
    <3> SUFFICES ASSUME Len(m) + (2 * HashLen + 2) <= k PROVE FALSE
      BY <3>0
    <3>2. ~(Len(m) + 2 * HashLen + 2 > ModulusLen["OAEP"])
      BY <3>0
    <3>3. [i \in 1 .. HashLen |-> 0] \in [1 .. HashLen -> SomeByte]
      BY <1>0
    <3>4. OaepBlocks(m) # {}
      BY <3>2, <3>3 DEF OaepBlocks
    <3> QED BY <3>1, <3>4
  <2> QED BY <1>2, <2>2, <2>3
<1> QED BY <1>1, <1>2 DEF PadInv, PadShape, Uses

\* A block that is unpadded is one of the format.
LEMMA OnlyPaddedIsRead == ASSUME HashFits, PadInv PROVE OnlyPaddedBlocksAreRead
<1> SUFFICES ASSUME ~pad.own, pad.step = "done", NEW m \in pad.out
             PROVE  pad.block \in Blocks(pad.use, m)
  BY DEF OnlyPaddedBlocksAreRead
<1> DEFINE b == pad.block
<1>1. b \in Foreign[pad.use] /\ pad.out = Unpadded(pad.use, b, pad.claim)
  BY DEF PadInv, PadForeign, PadOut
<1>2. CASE pad.use = "PKCS"
  <2>1. b \in Seq(SomeByte) /\ Len(b) = ModulusLen["PKCS"]
    BY <1>1, <1>2, MessagesAssumption
  <2>2. m \in UnpadType2(b)
    BY <1>1, <1>2 DEF Unpadded
  <2> HIDE DEF b
  <2>3. m \in Seq(SomeByte) /\ PkcsBlock(b, m)
    BY <2>1, <2>2, Type2Unpads
  <2>4. b \in EncryptBlocks(m)
    BY <2>3, EncryptBlocksAre
  <2> QED BY <1>2, <2>4 DEF Blocks, b
<1>3. CASE pad.use = "OAEP"
  <2>1. b \in Seq(SomeByte) /\ Len(b) = ModulusLen["OAEP"]
    BY <1>1, <1>3, MessagesAssumption
  <2>2. m \in OaepDecode(b)
    BY <1>1, <1>3 DEF Unpadded
  <2> HIDE DEF b
  <2>3. m \in Seq(SomeByte) /\ OaepBlock(b, m)
    BY <2>1, <2>2, DecodedIsPadded
  <2>4. b \in OaepBlocks(m)
    BY <2>3, OaepBlocksAre
  <2> QED BY <1>3, <2>4 DEF Blocks, b
<1>4. pad.use # "sign"
  BY <1>1, MessagesAssumption
<1> QED BY <1>2, <1>3, <1>4 DEF PadInv, PadShape, Uses

\* Signer and verifier agree, and on nothing but the same data.
LEMMA SignersAgree == ASSUME PadInv PROVE SignaturesVerify
<1> SUFFICES ASSUME pad.use = "sign", pad.step = "done"
             PROVE  /\ pad.out # {} <=> Payload(pad.claim) = Payload(pad.msg)
                    /\ pad.msg.mech # "raw" =>
                          IsDigestInfo(Payload(pad.msg), pad.msg.mech, pad.msg.data)
  BY DEF SignaturesVerify
<1> DEFINE b == pad.block
           p == Payload(pad.msg)
           c == Payload(pad.claim)
<1>1. pad.own
  BY MessagesAssumption DEF PadInv, PadForeign
<1>2. pad.msg \in Messages["sign"] /\ pad.claim \in Messages["sign"]
  BY <1>1 DEF PadInv, PadOwn, Claims
<1>3. p \in Seq(Byte) /\ c \in Seq(Byte)
  BY <1>2, PayloadIsDigestInfo
<1>4. b \in SignatureBlock(p)
  BY <1>1 DEF PadInv, PadOwn, Blocks
<1>5. pad.out = IF b \in Emsa(c) THEN {pad.claim} ELSE {}
  BY DEF PadInv, PadOut, Unpadded, Fails
<1>6. pad.msg.mech # "raw" => IsDigestInfo(p, pad.msg.mech, pad.msg.data)
  BY <1>2, PayloadIsDigestInfo
<1> HIDE DEF b, p, c
<1>7. SigBlock(b, p)
  BY <1>3, <1>4, SignatureBlockIs
<1>8. b \in Emsa(c) <=> SigBlock(b, c)
  BY <1>3, EmsaIs
<1>9. SigBlock(b, c) <=> c = p
  BY <1>3, <1>7, SigBlockTellsData
<1> QED BY <1>5, <1>6, <1>8, <1>9 DEF b, p, c

\* For every length of modulus and hash, every message, padding and seed:
\* pkcs1_v15_unpad_type2 and oaep_decode yield what pkcs1_v15_encrypt_block and
\* oaep_encode padded, and only messages too long for the format are refused.
THEOREM PaddedMessagesReturn == ASSUME HashFits PROVE PadSpec => []PaddedMessagesComeBack
<1>1. PadInit => PadInv
  BY PadInitInv
<1>2. PadInv /\ [PadStep]_pad => PadInv'
  BY PadStepInv
<1>3. PadInv => PaddedMessagesComeBack
  BY PaddedComesBack
<1> QED BY <1>1, <1>2, <1>3, PTL DEF PadSpec

\* A block of any bytes is unpadded only to a message that can be padded to it.
THEOREM NothingElseIsUnpadded == ASSUME HashFits PROVE PadSpec => []OnlyPaddedBlocksAreRead
<1>1. PadInit => PadInv
  BY PadInitInv
<1>2. PadInv /\ [PadStep]_pad => PadInv'
  BY PadStepInv
<1>3. PadInv => OnlyPaddedBlocksAreRead
  BY OnlyPaddedIsRead
<1> QED BY <1>1, <1>2, <1>3, PTL DEF PadSpec

\* verify_rsa_pkcs1_v15 accepts what the card's block for the same payload signed
\* and nothing else, and payloads of hash mechanisms are DigestInfos, which the
\* DER reader takes apart into the algorithm and the hash.
THEOREM SignaturesAgree == ASSUME HashFits PROVE PadSpec => []SignaturesVerify
<1>1. PadInit => PadInv
  BY PadInitInv
<1>2. PadInv /\ [PadStep]_pad => PadInv'
  BY PadStepInv
<1>3. PadInv => SignaturesVerify
  BY SignersAgree
<1> QED BY <1>1, <1>2, <1>3, PTL DEF PadSpec

=============================================================================
