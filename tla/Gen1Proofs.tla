----------------------------- MODULE Gen1Proofs -----------------------------
(***************************************************************************)
(* Operations on a Gen1 card, for any number of hosts, any assignment of   *)
(* mutexes and any block length: what an operation returns is the answer   *)
(* to its own input as long as no other host's exchange comes in between,  *)
(* and hosts that take the same mutex never come in between.               *)
(***************************************************************************)
EXTENDS Gen1, SequenceTheorems, TLAPS

LEMMA BlockIsNat == Chunk \in Nat /\ Chunk > 0 /\ Block \in Nat /\ Block > Chunk /\ MaxOps \in Nat
  BY ChunkAssumption DEF Block

-----------------------------------------------------------------------------
(* Units of a result *)

AnyUnit == [first : Ops, second : Ops, at : Nat]

LEMMA UnitsAre ==
    ASSUME NEW out \in Ops \X Ops, NEW offset \in Nat, NEW n \in Nat
    PROVE  /\ Units(out, offset, n) \in Seq(AnyUnit) /\ Len(Units(out, offset, n)) = n
           /\ offset + n <= Block => Units(out, offset, n) \in Seq(Unit)
<1> DEFINE u == Units(out, offset, n)
<1>1. u = [i \in 1 .. n |-> [first |-> out[1], second |-> out[2], at |-> offset + i]]
  BY DEF Units
<1>2. out[1] \in Ops /\ out[2] \in Ops
  OBVIOUS
<1>3. \A i \in 1 .. n : [first |-> out[1], second |-> out[2], at |-> offset + i] \in AnyUnit
  BY <1>2 DEF AnyUnit
<1>4. u \in [1 .. n -> AnyUnit]
  BY <1>1, <1>3
<1>5. u \in Seq(AnyUnit) /\ Len(u) = n
  BY <1>4
<1>6. ASSUME offset + n <= Block PROVE u \in Seq(Unit)
  <2>1. \A i \in 1 .. n : offset + i \in 1 .. Block
    BY <1>6, BlockIsNat
  <2>2. \A i \in 1 .. n : [first |-> out[1], second |-> out[2], at |-> offset + i] \in Unit
    BY <1>2, <2>1 DEF Unit
  <2>3. u \in [1 .. n -> Unit]
    BY <1>1, <2>2
  <2> QED BY <2>3
<1> QED BY <1>5, <1>6

\* What is read behind the first m units continues them.
LEMMA UnitsJoin ==
    ASSUME NEW out \in Ops \X Ops, NEW m \in Nat, NEW n \in Nat
    PROVE  Units(out, 0, m) \o Units(out, m, n) = Units(out, 0, m + n)
<1> DEFINE u == Units(out, 0, m)
           v == Units(out, m, n)
           w == Units(out, 0, m + n)
<1>1. /\ u \in Seq(AnyUnit) /\ Len(u) = m /\ v \in Seq(AnyUnit) /\ Len(v) = n
      /\ w \in Seq(AnyUnit) /\ Len(w) = m + n
  <2>1. /\ 0 \in Nat /\ m + n \in Nat
    OBVIOUS
  <2> QED BY <2>1, UnitsAre
<1>2. /\ \A i \in 1 .. m : u[i] = [first |-> out[1], second |-> out[2], at |-> 0 + i]
      /\ \A i \in 1 .. n : v[i] = [first |-> out[1], second |-> out[2], at |-> m + i]
      /\ \A i \in 1 .. m + n : w[i] = [first |-> out[1], second |-> out[2], at |-> 0 + i]
  BY DEF Units
<1>3. u \o v \in Seq(AnyUnit) /\ Len(u \o v) = m + n
  <2> HIDE DEF u, v
  <2> QED BY <1>1, ConcatProperties
<1>4. ASSUME NEW i \in 1 .. m + n PROVE (u \o v)[i] = w[i]
  <2>1. CASE i \in 1 .. m
    <3>1. (u \o v)[i] = u[i]
      <4> HIDE DEF u, v
      <4> QED BY <1>1, <2>1
    <3> QED BY <1>2, <2>1, <3>1
  <2>2. CASE i \notin 1 .. m
    <3>1. i - m \in 1 .. n /\ m + (i - m) = 0 + i
      BY <2>2
    <3>2. (u \o v)[i] = v[i - m]
      <4> HIDE DEF u, v
      <4> QED BY <1>1, <2>2, <3>1
    <3> HIDE DEF u, v, w
    <3> QED BY <1>2, <3>1, <3>2
  <2> QED BY <2>1, <2>2
<1> HIDE DEF u, v, w
<1>5. Len(u \o v) = Len(w) /\ \A i \in 1 .. Len(u \o v) : (u \o v)[i] = w[i]
  BY <1>1, <1>3, <1>4
<1>6. u \o v = w
  BY <1>1, <1>3, <1>5, SeqEqual
<1> QED BY <1>6 DEF u, v, w

-----------------------------------------------------------------------------
(* What the card answers. *)

CardTypeOK == card \in CardRecord

LEMMA SelectsAnswer ==
    ASSUME NEW k \in CardRecord, NEW a \in Selects(k)
    PROVE  /\ a.ok /\ a.units = <<>> /\ a.card \in CardRecord
           /\ a.card.at = k.at /\ a.card.file = k.file /\ a.card.verified = k.verified
<1>1. a.ok /\ a.units = <<>> /\ (a.card = k \/ a.card = [k EXCEPT !.chain = 0])
  BY DEF Selects, Answer
<1>2. 0 \in Ops
  BY BlockIsNat DEF Ops
<1> QED BY <1>1, <1>2 DEF CardRecord

\* Every answer leaves a card, and a refusal leaves it as it was.
LEMMA RefusedIs ==
    ASSUME NEW a \in {Refused}
    PROVE  a.ok = FALSE /\ a.units = <<>> /\ a.card = card
  BY DEF Refused

LEMMA SelectKeyFileAnswer ==
    ASSUME CardTypeOK, NEW a \in SelectKeyFile
    PROVE  /\ a.ok \in BOOLEAN /\ a.units = <<>> /\ a.card \in CardRecord
           /\ a.card.verified = card.verified
           /\ a.ok <=> card.at # "mf"
           /\ a.ok => a.card.at = "keyef"
<1>1. CASE card.at = "mf"
  <2>1. a \in {Refused}
    BY <1>1 DEF SelectKeyFile
  <2> QED BY <1>1, <2>1, RefusedIs DEF CardTypeOK
<1>2. CASE card.at # "mf"
  <2> DEFINE k == [card EXCEPT !.at = "keyef"]
  <2>1. k \in CardRecord /\ k.at = "keyef" /\ k.verified = card.verified
    BY DEF CardTypeOK, CardRecord
  <2>2. a \in Selects(k)
    BY <1>2 DEF SelectKeyFile
  <2> HIDE DEF k
  <2> QED BY <1>2, <2>1, <2>2, SelectsAnswer
<1> QED BY <1>1, <1>2

LEMMA SelectFileAnswer ==
    ASSUME CardTypeOK, NEW op \in Ops, NEW a \in SelectFile(op)
    PROVE  /\ a.ok \in BOOLEAN /\ a.units = <<>> /\ a.card \in CardRecord
           /\ a.card.verified = card.verified
           /\ a.ok <=> card.at # "mf"
           /\ a.ok => a.card.at = "file" /\ a.card.file = op
<1>1. CASE card.at = "mf"
  <2>1. a \in {Refused}
    BY <1>1 DEF SelectFile
  <2> QED BY <1>1, <2>1, RefusedIs DEF CardTypeOK
<1>2. CASE card.at # "mf"
  <2> DEFINE k == [card EXCEPT !.at = "file", !.file = op]
  <2>1. k \in CardRecord /\ k.at = "file" /\ k.verified = card.verified /\ k.file = op
    BY DEF CardTypeOK, CardRecord
  <2>2. a \in Selects(k)
    BY <1>2 DEF SelectFile
  <2> HIDE DEF k
  <2> QED BY <1>2, <2>1, <2>2, SelectsAnswer
<1> QED BY <1>1, <1>2

\* select_mf and select_df.
LEMMA SelectUpAnswer ==
    ASSUME CardTypeOK, NEW p \in {"mf", "df"}, NEW a \in Selects([card EXCEPT !.at = p])
    PROVE  /\ a.ok /\ a.units = <<>> /\ a.card \in CardRecord
           /\ a.card.verified = card.verified /\ a.card.at = p
<1> DEFINE k == [card EXCEPT !.at = p]
<1>1. k \in CardRecord /\ k.at = p /\ k.verified = card.verified
  BY DEF CardTypeOK, CardRecord
<1> HIDE DEF k
<1> QED BY <1>1, SelectsAnswer DEF k

LEMMA VerifyAnswer ==
    ASSUME CardTypeOK, NEW right \in BOOLEAN, NEW a \in Verify(right)
    PROVE  /\ a.ok \in BOOLEAN /\ a.units = <<>> /\ a.card \in CardRecord
           /\ a.ok <=> card.at = "keyef" /\ right
<1>1. CASE card.at # "keyef"
  <2>1. a \in {Refused}
    BY <1>1 DEF Verify
  <2> QED BY <1>1, <2>1, RefusedIs DEF CardTypeOK
<1>2. CASE card.at = "keyef"
  BY <1>2 DEF Verify, CardTypeOK, CardRecord
<1> QED BY <1>1, <1>2

LEMMA FirstHalfAnswer ==
    ASSUME CardTypeOK, NEW op \in Ops, NEW a \in FirstHalf(op)
    PROVE  /\ a.ok \in BOOLEAN /\ a.units = <<>> /\ a.card \in CardRecord
           /\ a.ok <=> Usable
           /\ a.ok => /\ a.card.chain = op /\ a.card.at = "keyef" /\ a.card.verified
<1>1. CASE ~Usable
  <2>1. a \in {Refused}
    BY <1>1 DEF FirstHalf
  <2> QED BY <1>1, <2>1, RefusedIs DEF CardTypeOK
<1>2. CASE Usable
  <2> DEFINE k == [card EXCEPT !.chain = op]
  <2>1. a = Answer(<<>>, k)
    BY <1>2 DEF FirstHalf
  <2>2. /\ k \in CardRecord /\ k.chain = op /\ k.at = "keyef"
        /\ k.verified = card.verified /\ card.verified
    BY <1>2 DEF CardTypeOK, CardRecord, Usable
  <2>3. a.ok = TRUE /\ a.units = <<>> /\ a.card = k
    BY <2>1 DEF Answer
  <2> HIDE DEF k
  <2> QED BY <1>2, <2>2, <2>3
<1> QED BY <1>1, <1>2

LEMMA SecondHalfAnswer ==
    ASSUME CardTypeOK, NEW op \in Ops, NEW a \in SecondHalf(op)
    PROVE  /\ a.ok \in BOOLEAN /\ a.card \in CardRecord
           /\ a.ok <=> Usable /\ card.chain # 0
           /\ a.ok => /\ a.card.verified
                      /\ a.card.out = <<card.chain, op>>
                      /\ \E n \in 0 .. Chunk : a.units = Units(<<card.chain, op>>, 0, n)
<1>1. CASE ~Usable \/ card.chain = 0
  <2>1. a \in {Refused}
    BY <1>1 DEF SecondHalf
  <2> QED BY <1>1, <2>1, RefusedIs DEF CardTypeOK
<1>2. CASE Usable /\ card.chain # 0
  <2> DEFINE out == <<card.chain, op>>
             k == [card EXCEPT !.chain = 0, !.out = out]
  <2>1. PICK n \in 0 .. Chunk : a = Answer(Units(out, 0, n), k)
    BY <1>2 DEF SecondHalf
  <2>2. out \in Ops \X Ops /\ 0 \in Ops
    BY BlockIsNat DEF CardTypeOK, CardRecord, Ops
  <2>3. k \in CardRecord /\ k.verified = card.verified /\ k.out = out
    BY <2>2 DEF CardTypeOK, CardRecord
  <2>4. a.ok = TRUE /\ a.card = k /\ a.units = Units(out, 0, n)
    BY <2>1 DEF Answer
  <2> HIDE DEF k
  <2> QED BY <1>2, <2>3, <2>4 DEF Usable
<1> QED BY <1>1, <1>2

LEMMA ReadResultAnswer ==
    ASSUME CardTypeOK, NEW offset \in Nat, NEW odd \in BOOLEAN, NEW a \in ReadResult(offset, odd)
    PROVE  /\ a.ok \in BOOLEAN /\ a.card \in CardRecord /\ a.card = card
           /\ a.ok <=> card.out # <<0, 0>>
           /\ a.ok => \E n \in 0 .. Chunk :
                         /\ odd <=> n = 0 \/ offset + n > Block
                         /\ a.units = Units(card.out, offset, n)
<1>1. CASE card.out = <<0, 0>>
  <2>1. a \in {Refused}
    BY <1>1 DEF ReadResult
  <2> QED BY <1>1, <2>1, RefusedIs DEF CardTypeOK
<1>2. CASE card.out # <<0, 0>>
  <2>1. PICK n \in 0 .. Chunk : /\ odd <=> n = 0 \/ offset + n > Block
                                /\ a = Answer(Units(card.out, offset, n), card)
    BY <1>2 DEF ReadResult
  <2>2. a.ok = TRUE /\ a.units = Units(card.out, offset, n) /\ a.card = card
    BY <2>1 DEF Answer
  <2> QED BY <1>2, <2>1, <2>2 DEF CardTypeOK
<1> QED BY <1>1, <1>2

LEMMA ReadBinaryAnswer ==
    ASSUME CardTypeOK, NEW a \in ReadBinary
    PROVE  /\ a.ok \in BOOLEAN /\ a.card \in CardRecord /\ a.card = card
           /\ a.ok <=> card.at = "file"
           /\ a.ok => a.units = Units(<<card.file, card.file>>, 0, 1)
<1>1. CASE card.at # "file"
  <2>1. a \in {Refused}
    BY <1>1 DEF ReadBinary
  <2> QED BY <1>1, <2>1, RefusedIs DEF CardTypeOK
<1>2. CASE card.at = "file"
  <2>1. a = Answer(Units(<<card.file, card.file>>, 0, 1), card)
    BY <1>2 DEF ReadBinary
  <2>2. a.ok = TRUE /\ a.units = Units(<<card.file, card.file>>, 0, 1) /\ a.card = card
    BY <2>1 DEF Answer
  <2> QED BY <1>2, <2>2 DEF CardTypeOK
<1> QED BY <1>1, <1>2

-----------------------------------------------------------------------------
(* One exchange of a host that nothing has disturbed *)

\* Whether an operation should succeed.
May(s) ==
    CASE s.kind = "use" -> s.status [] s.kind = "verify" -> s.right [] s.kind = "read" -> TRUE

\* How host and card fit together between the exchanges of an operation that
\* nothing has disturbed: what is selected, which half the card has, and what
\* the part of the result that was read is a part of.
Fit(s, k) ==
    /\ s.op # 0
    /\ s.kind = "use" => (s.status <=> k.verified)
    /\ s.phase # "more" => s.result = <<>>
    /\ s.phase = "direct" => s.kind # "read"
    /\ s.phase = "df" => k.at = "mf"
    /\ s.phase = "file" => k.at = "df"
    /\ s.phase = "verify" => s.kind = "verify" /\ k.at = "keyef"
    /\ s.phase = "first" => s.kind = "use" /\ k.at = "keyef"
    /\ s.phase = "second" => s.kind = "use" /\ s.status /\ k.at = "keyef" /\ k.chain = s.op
    /\ s.phase = "more" =>
          /\ s.kind = "use" /\ s.status /\ k.out = <<s.op, s.op>>
          /\ s.result = Units(<<s.op, s.op>>, 0, Len(s.result))
    /\ s.phase = "binary" => s.kind = "read" /\ k.at = "file" /\ k.file = s.op

\* What holds of an operation that is over.
Done(s) ==
    /\ s.outcome = "ok" => Own(s)
    /\ s.outcome # "none" /\ ~s.faulted => (s.outcome = "ok" <=> May(s))

\* What the host makes of an answer.
Follows(s, k, w) ==
    /\ w \in HostRecord /\ w.disturbed = s.disturbed
    /\ w.phase \notin {"idle", "more"} => s.phase # "more" /\ w.result = s.result
    /\ Fit(s, card) => IF w.phase = "idle" THEN Done(w) ELSE Fit(w, k)

LEMMA ReturnFacts ==
    ASSUME NEW s \in HostRecord, NEW o \in {"none", "ok", "error"}
    PROVE  LET w == Return(s, o)
           IN /\ w \in HostRecord /\ w.phase = "idle" /\ w.outcome = o
              /\ w.kind = s.kind /\ w.op = s.op /\ w.right = s.right /\ w.result = s.result
              /\ w.status = s.status /\ w.faulted = s.faulted /\ w.disturbed = s.disturbed
  BY DEF Return, HostRecord, Phases

\* An operation that was returned from.
LEMMA ReturnFollows ==
    ASSUME NEW s \in HostRecord, NEW o \in {"ok", "error"}, NEW k,
           Fit(s, card) => /\ o = "ok" => Own(s)
                           /\ ~s.faulted => (o = "ok" <=> May(s))
    PROVE  Follows(s, k, Return(s, o))
<1> DEFINE w == Return(s, o)
<1>1. /\ w \in HostRecord /\ w.phase = "idle" /\ w.outcome = o
      /\ w.kind = s.kind /\ w.op = s.op /\ w.right = s.right /\ w.result = s.result
      /\ w.status = s.status /\ w.faulted = s.faulted /\ w.disturbed = s.disturbed
  BY ReturnFacts
<1>2. (Own(w) <=> Own(s)) /\ (May(w) <=> May(s))
  <2> HIDE DEF w
  <2> QED BY <1>1 DEF Own, May
<1> HIDE DEF w
<1>3. Follows(s, k, w)
  BY <1>1, <1>2 DEF Follows, Done
<1> QED BY <1>3 DEF w

\* A host whose exchange failed, in any phase but the first, gives up.
LEMMA FailureFollows ==
    ASSUME NEW s \in HostRecord, s.phase \notin {"idle", "direct"}, NEW k, NEW ok, ~ok, NEW units,
           Fit(s, card) /\ ~s.faulted => ~May(s)
    PROVE  Follows(s, k, After(s, ok, units))
<1>1. After(s, ok, units) = GivesUp(s)
  BY DEF After
<1>2. Follows(s, k, Return(s, "error"))
  BY ReturnFollows
<1> QED BY <1>1, <1>2 DEF GivesUp

\* A host that goes on changes nothing but its phase.
LEMMA GoesOn ==
    ASSUME NEW s \in HostRecord, NEW p \in Phases
    PROVE  LET w == [s EXCEPT !.phase = p]
           IN /\ w \in HostRecord /\ w.phase = p
              /\ w.kind = s.kind /\ w.op = s.op /\ w.right = s.right /\ w.result = s.result
              /\ w.status = s.status /\ w.faulted = s.faulted /\ w.disturbed = s.disturbed
  BY DEF HostRecord

\* An exchange under fault f, which had answer a: what the host sees, ok, and
\* the card it leaves, k.  s knows already that the exchange was faulted.
Exchanged(s, f, a, ok, k) ==
    /\ a \in Answers(s, f)
    /\ f # "none" => s.faulted
    /\ ok <=> a.ok /\ f \in {"none", "odd"}
    /\ k = IF f = "lost" THEN card ELSE a.card

LEMMA DirectFollows ==
    ASSUME CardTypeOK, NEW s \in HostRecord, s.phase = "direct",
           NEW f, NEW a, NEW ok, NEW k, Exchanged(s, f, a, ok, k)
    PROVE  k \in CardRecord /\ Follows(s, k, After(s, ok, a.units))
<1>1. a \in SelectKeyFile
  BY DEF Exchanged, Answers
<1>2. /\ a.ok \in BOOLEAN /\ a.card \in CardRecord /\ a.card.verified = card.verified
      /\ a.ok => a.card.at = "keyef"
  BY <1>1, SelectKeyFileAnswer
<1>3. k \in CardRecord /\ k.verified = card.verified /\ (ok => k.at = "keyef")
  BY <1>2 DEF Exchanged, CardTypeOK
<1>4. CASE ok
  <2> DEFINE p == CASE s.kind = "verify" -> "verify"
                    [] s.kind = "use"    -> "first"
                    [] s.kind = "read"   -> "binary"
             w == [s EXCEPT !.phase = p]
  <2>1. After(s, ok, a.units) = w
    BY <1>4 DEF After, AfterDirectSelect, Selected
  <2>2. s.kind \in Kinds
    BY DEF HostRecord
  <2>3. p \in Phases /\ p # "idle"
    BY <2>2 DEF Phases, Kinds
  <2>4. /\ w \in HostRecord /\ w.phase = p
        /\ w.kind = s.kind /\ w.op = s.op /\ w.right = s.right /\ w.result = s.result
        /\ w.status = s.status /\ w.faulted = s.faulted /\ w.disturbed = s.disturbed
    BY <2>3, GoesOn
  <2>5. ASSUME Fit(s, card) PROVE Fit(w, k)
    <3>1. s.kind # "read" /\ s.result = <<>> /\ s.op # 0
          /\ (s.kind = "use" => (s.status <=> card.verified))
      BY <2>5 DEF Fit
    <3>2. (s.kind = "verify" /\ p = "verify") \/ (s.kind = "use" /\ p = "first")
      BY <2>2, <3>1 DEF Kinds
    <3> HIDE DEF w, p
    <3> QED BY <1>3, <1>4, <2>4, <3>1, <3>2 DEF Fit
  <2> HIDE DEF w, p
  <2> QED BY <1>3, <2>1, <2>3, <2>4, <2>5 DEF Follows
<1>5. CASE ~ok
  <2> DEFINE w == [s EXCEPT !.phase = "mf"]
  <2>1. After(s, ok, a.units) = w
    BY <1>5 DEF After, AfterDirectSelect
  <2>2. /\ w \in HostRecord /\ w.phase = "mf"
        /\ w.kind = s.kind /\ w.op = s.op /\ w.right = s.right /\ w.result = s.result
        /\ w.status = s.status /\ w.faulted = s.faulted /\ w.disturbed = s.disturbed
    BY GoesOn DEF Phases
  <2>3. ASSUME Fit(s, card) PROVE Fit(w, k)
    <3> HIDE DEF w
    <3> QED BY <1>3, <2>2, <2>3 DEF Fit
  <2> HIDE DEF w
  <2> QED BY <1>3, <2>1, <2>2, <2>3 DEF Follows
<1> QED BY <1>4, <1>5, <1>3

\* The SELECTs of the master file and of the card DF.
LEMMA UpFollows ==
    ASSUME CardTypeOK, NEW s \in HostRecord, s.phase \in {"mf", "df"},
           NEW f, NEW a, NEW ok, NEW k, Exchanged(s, f, a, ok, k)
    PROVE  k \in CardRecord /\ Follows(s, k, After(s, ok, a.units))
<1>1. a \in Selects([card EXCEPT !.at = s.phase])
  BY DEF Exchanged, Answers
<1>2. a.ok /\ a.card \in CardRecord /\ a.card.verified = card.verified /\ a.card.at = s.phase
  BY <1>1, SelectUpAnswer
<1>3. k \in CardRecord /\ k.verified = card.verified /\ (ok => k.at = s.phase)
  BY <1>2 DEF Exchanged, CardTypeOK
<1>4. CASE ok
  <2> DEFINE p == IF s.phase = "mf" THEN "df" ELSE "file"
             w == [s EXCEPT !.phase = p]
  <2>1. After(s, ok, a.units) = w
    BY <1>4 DEF After
  <2>2. p \in Phases /\ p # "idle" /\ ((p = "df" /\ s.phase = "mf") \/ (p = "file" /\ s.phase = "df"))
    BY DEF Phases
  <2>3. /\ w \in HostRecord /\ w.phase = p
        /\ w.kind = s.kind /\ w.op = s.op /\ w.right = s.right /\ w.result = s.result
        /\ w.status = s.status /\ w.faulted = s.faulted /\ w.disturbed = s.disturbed
    BY <2>2, GoesOn
  <2>4. ASSUME Fit(s, card) PROVE Fit(w, k)
    <3> HIDE DEF w, p
    <3> QED BY <1>3, <1>4, <2>2, <2>3, <2>4 DEF Fit
  <2> HIDE DEF w, p
  <2> QED BY <1>3, <2>1, <2>2, <2>3, <2>4 DEF Follows
<1>5. CASE ~ok
  <2>1. s.faulted
    BY <1>2, <1>5 DEF Exchanged
  <2> QED BY <1>3, <1>5, <2>1, FailureFollows
<1> QED BY <1>4, <1>5

\* The SELECT of the key file or of the file that is read, from the card DF.
LEMMA FileFollows ==
    ASSUME CardTypeOK, NEW s \in HostRecord, s.phase = "file",
           NEW f, NEW a, NEW ok, NEW k, Exchanged(s, f, a, ok, k)
    PROVE  k \in CardRecord /\ Follows(s, k, After(s, ok, a.units))
<1>0. s.op \in Ops /\ s.kind \in Kinds
  BY DEF HostRecord
<1>1. IF s.kind = "read" THEN a \in SelectFile(s.op) ELSE a \in SelectKeyFile
  BY DEF Exchanged, Answers
<1>2. /\ a.ok \in BOOLEAN /\ a.card \in CardRecord /\ a.card.verified = card.verified
      /\ a.ok <=> card.at # "mf"
      /\ a.ok => IF s.kind = "read" THEN a.card.at = "file" /\ a.card.file = s.op
                                    ELSE a.card.at = "keyef"
  BY <1>0, <1>1, SelectFileAnswer, SelectKeyFileAnswer
<1>3. /\ k \in CardRecord /\ k.verified = card.verified
      /\ ok => IF s.kind = "read" THEN k.at = "file" /\ k.file = s.op ELSE k.at = "keyef"
  BY <1>2 DEF Exchanged, CardTypeOK
<1>4. CASE ok
  <2> DEFINE p == CASE s.kind = "verify" -> "verify"
                    [] s.kind = "use"    -> "first"
                    [] s.kind = "read"   -> "binary"
             w == [s EXCEPT !.phase = p]
  <2>1. After(s, ok, a.units) = w
    BY <1>4 DEF After, Selected
  <2>2. /\ p \in Phases /\ p # "idle"
        /\ \/ p = "verify" /\ s.kind = "verify"
           \/ p = "first" /\ s.kind = "use"
           \/ p = "binary" /\ s.kind = "read"
    BY <1>0 DEF Phases, Kinds
  <2>3. /\ w \in HostRecord /\ w.phase = p
        /\ w.kind = s.kind /\ w.op = s.op /\ w.right = s.right /\ w.result = s.result
        /\ w.status = s.status /\ w.faulted = s.faulted /\ w.disturbed = s.disturbed
    BY <2>2, GoesOn
  <2>4. ASSUME Fit(s, card) PROVE Fit(w, k)
    <3> HIDE DEF w, p
    <3> QED BY <1>3, <1>4, <2>2, <2>3, <2>4 DEF Fit
  <2> HIDE DEF w, p
  <2> QED BY <1>3, <2>1, <2>2, <2>3, <2>4 DEF Follows
<1>5. CASE ~ok
  <2>1. Fit(s, card) => s.faulted
    BY <1>2, <1>5 DEF Exchanged, Fit
  <2> QED BY <1>3, <1>5, <2>1, FailureFollows
<1> QED BY <1>4, <1>5

\* VERIFY: the card's verdict is the answer.
LEMMA VerifyFollows ==
    ASSUME CardTypeOK, NEW s \in HostRecord, s.phase = "verify",
           NEW f, NEW a, NEW ok, NEW k, Exchanged(s, f, a, ok, k)
    PROVE  k \in CardRecord /\ Follows(s, k, After(s, ok, a.units))
<1>0. s.right \in BOOLEAN
  BY DEF HostRecord
<1>1. a \in Verify(s.right)
  BY DEF Exchanged, Answers
<1>2. a.ok \in BOOLEAN /\ a.card \in CardRecord /\ (a.ok <=> card.at = "keyef" /\ s.right)
  BY <1>0, <1>1, VerifyAnswer
<1>3. k \in CardRecord /\ (ok => s.right)
  BY <1>2 DEF Exchanged, CardTypeOK
<1>4. Fit(s, card) => /\ s.kind = "verify" /\ card.at = "keyef"
                      /\ (Own(s) <=> s.right) /\ (May(s) <=> s.right)
  BY DEF Fit, Own, May
<1>5. CASE ok
  <2>1. After(s, ok, a.units) = Return(s, "ok")
    BY <1>5 DEF After
  <2>2. Follows(s, k, Return(s, "ok"))
    BY <1>3, <1>4, <1>5, ReturnFollows
  <2> QED BY <1>3, <2>1, <2>2
<1>6. CASE ~ok
  <2>1. Fit(s, card) /\ ~s.faulted => ~May(s)
    BY <1>2, <1>4, <1>6 DEF Exchanged
  <2> QED BY <1>3, <1>6, <2>1, FailureFollows
<1> QED BY <1>5, <1>6

\* The first EA command.
LEMMA FirstFollows ==
    ASSUME CardTypeOK, NEW s \in HostRecord, s.phase = "first",
           NEW f, NEW a, NEW ok, NEW k, Exchanged(s, f, a, ok, k)
    PROVE  k \in CardRecord /\ Follows(s, k, After(s, ok, a.units))
<1>0. s.op \in Ops
  BY DEF HostRecord
<1>1. a \in FirstHalf(s.op)
  BY DEF Exchanged, Answers
<1>2. /\ a.ok \in BOOLEAN /\ a.card \in CardRecord /\ (a.ok <=> Usable)
      /\ a.ok => a.card.chain = s.op /\ a.card.at = "keyef" /\ a.card.verified
  BY <1>0, <1>1, FirstHalfAnswer
<1>3. /\ k \in CardRecord
      /\ ok => Usable /\ k.chain = s.op /\ k.at = "keyef" /\ k.verified
  BY <1>2 DEF Exchanged, CardTypeOK
<1>4. CASE ok
  <2> DEFINE w == [s EXCEPT !.phase = "second"]
  <2>1. After(s, ok, a.units) = w
    BY <1>4 DEF After
  <2>2. /\ w \in HostRecord /\ w.phase = "second"
        /\ w.kind = s.kind /\ w.op = s.op /\ w.right = s.right /\ w.result = s.result
        /\ w.status = s.status /\ w.faulted = s.faulted /\ w.disturbed = s.disturbed
    BY GoesOn DEF Phases
  <2>3. ASSUME Fit(s, card) PROVE Fit(w, k)
    <3>1. s.kind = "use" /\ s.status /\ k.verified
      BY <1>3, <1>4, <2>3 DEF Fit, Usable
    <3> HIDE DEF w
    <3> QED BY <1>3, <1>4, <2>2, <2>3, <3>1 DEF Fit
  <2> HIDE DEF w
  <2> QED BY <1>3, <2>1, <2>2, <2>3 DEF Follows
<1>5. CASE ~ok
  <2>1. Fit(s, card) /\ ~s.faulted => ~May(s)
    BY <1>2, <1>5 DEF Exchanged, Fit, May, Usable
  <2> QED BY <1>3, <1>5, <2>1, FailureFollows
<1> QED BY <1>4, <1>5

\* READ BINARY of the file that was selected.
LEMMA BinaryFollows ==
    ASSUME CardTypeOK, NEW s \in HostRecord, s.phase = "binary",
           NEW f, NEW a, NEW ok, NEW k, Exchanged(s, f, a, ok, k)
    PROVE  k \in CardRecord /\ Follows(s, k, After(s, ok, a.units))
<1>0. s.op \in Ops /\ card.file \in Ops /\ 0 + 1 <= Block
  BY BlockIsNat DEF HostRecord, CardTypeOK, CardRecord
<1>1. a \in ReadBinary
  BY DEF Exchanged, Answers
<1>2. /\ a.ok \in BOOLEAN /\ a.card \in CardRecord /\ a.card = card /\ (a.ok <=> card.at = "file")
      /\ a.ok => a.units = Units(<<card.file, card.file>>, 0, 1)
  BY <1>1, ReadBinaryAnswer
<1>3. k \in CardRecord /\ (ok => a.units = Units(<<card.file, card.file>>, 0, 1))
  BY <1>2 DEF Exchanged, CardTypeOK
<1>4. CASE ok
  <2> DEFINE u == [s EXCEPT !.result = a.units]
  <2>1. After(s, ok, a.units) = Return(u, "ok")
    BY <1>4 DEF After
  <2>2. a.units \in Seq(Unit)
    BY <1>0, <1>3, <1>4, UnitsAre
  <2>3. /\ u \in HostRecord /\ u.result = a.units
        /\ u.phase = s.phase /\ u.kind = s.kind /\ u.op = s.op /\ u.right = s.right
        /\ u.status = s.status /\ u.faulted = s.faulted /\ u.disturbed = s.disturbed
    BY <2>2 DEF HostRecord
  <2>4. Return(u, "ok") \in HostRecord /\ Return(u, "ok").disturbed = s.disturbed
        /\ Return(u, "ok").phase = "idle"
    <3> HIDE DEF u
    <3> QED BY <2>3, ReturnFacts
  <2>5. ASSUME Fit(s, card) PROVE Done(Return(u, "ok"))
    <3>1. s.kind = "read" /\ card.file = s.op
      BY <2>5 DEF Fit
    <3> DEFINE w == Return(u, "ok")
    <3>2. w.kind = "read" /\ w.op = s.op /\ w.outcome = "ok" /\ w.result = a.units
      <4> HIDE DEF u
      <4> QED BY <2>3, <3>1, ReturnFacts
    <3> HIDE DEF w
    <3>3. Own(w) /\ May(w)
      BY <1>3, <1>4, <3>1, <3>2 DEF Own, May
    <3>4. Done(w)
      BY <3>2, <3>3 DEF Done
    <3> QED BY <3>4 DEF w
  <2> HIDE DEF u
  <2> QED BY <1>3, <2>1, <2>4, <2>5 DEF Follows
<1>5. CASE ~ok
  <2>1. Fit(s, card) => s.faulted
    BY <1>2, <1>5 DEF Exchanged, Fit
  <2> QED BY <1>3, <1>5, <2>1, FailureFollows
<1> QED BY <1>4, <1>5

\* The result grows by an answer that fits, and the operation is over when the
\* block is full.
LEMMA CollectedFollows ==
    ASSUME CardTypeOK, NEW s \in HostRecord, s.phase \in {"second", "more"}, NEW k,
           NEW out \in Ops \X Ops, NEW n \in Nat, n <= Chunk,
           s.phase = "second" => s.result = <<>>,
           s.phase = "more" => n <= Block - Len(s.result),
           Fit(s, card) => /\ s.kind = "use" /\ s.status /\ k.verified
                           /\ k.out = out /\ out = <<s.op, s.op>>
                           /\ s.result = Units(out, 0, Len(s.result))
    PROVE  Follows(s, k, Collected(s, Units(out, Len(s.result), n)))
<1> DEFINE m == Len(s.result)
           s1 == [s EXCEPT !.result = s.result \o Units(out, m, n)]
<1>1. s.result \in Seq(Unit) /\ m \in Nat
  BY DEF HostRecord
<1>2. m + n <= Block
  <2>1. CASE s.phase = "second"
    <3>1. m = 0
      BY <2>1
    <3> HIDE DEF m
    <3> QED BY <3>1, BlockIsNat
  <2>2. CASE s.phase = "more"
    <3>1. n <= Block - m
      BY <2>2
    <3> HIDE DEF m
    <3> QED BY <1>1, <3>1, BlockIsNat
  <2> QED BY <2>1, <2>2
<1>3. Units(out, m, n) \in Seq(Unit) /\ Len(Units(out, m, n)) = n
  BY <1>1, <1>2, UnitsAre
<1>4. s.result \o Units(out, m, n) \in Seq(Unit) /\ Len(s.result \o Units(out, m, n)) = m + n
  <2>1. \A r, v \in Seq(Unit) : r \o v \in Seq(Unit) /\ Len(r \o v) = Len(r) + Len(v)
    BY ConcatProperties
  <2> DEFINE v == Units(out, m, n)
             r == s.result
  <2>2. r \in Seq(Unit) /\ v \in Seq(Unit) /\ Len(v) = n /\ Len(r) = m
    BY <1>1, <1>3
  <2> HIDE DEF r, v
  <2>3. r \o v \in Seq(Unit)
    BY <2>1, <2>2
  <2>4. Len(r \o v) = Len(r) + Len(v)
    BY <2>1, <2>2
  <2>5. Len(r \o v) = m + n
    BY <2>2, <2>4
  <2> QED BY <2>3, <2>5 DEF r, v
<1>5. /\ s1 \in HostRecord /\ s1.result = s.result \o Units(out, m, n) /\ Len(s1.result) = m + n
      /\ s1.phase = s.phase /\ s1.kind = s.kind /\ s1.op = s.op /\ s1.right = s.right
      /\ s1.status = s.status /\ s1.faulted = s.faulted /\ s1.disturbed = s.disturbed
  BY <1>4 DEF HostRecord
<1>6. Fit(s, card) => s1.result = Units(out, 0, m + n)
  <2>1. Fit(s, card) => s.result = Units(out, 0, m)
    OBVIOUS
  <2> HIDE DEF m, s1
  <2>2. Units(out, 0, m) \o Units(out, m, n) = Units(out, 0, m + n)
    BY <1>1, UnitsJoin
  <2> QED BY <1>5, <2>1, <2>2
<1>7. CASE m + n < Block
  <2> DEFINE w == [s1 EXCEPT !.phase = "more"]
  <2>1. Collected(s, Units(out, m, n)) = w
    BY <1>5, <1>7 DEF Collected
  <2>2. /\ w \in HostRecord /\ w.phase = "more"
        /\ w.kind = s1.kind /\ w.op = s1.op /\ w.right = s1.right /\ w.result = s1.result
        /\ w.status = s1.status /\ w.faulted = s1.faulted /\ w.disturbed = s1.disturbed
    <3> HIDE DEF s1
    <3> QED BY <1>5, GoesOn DEF Phases
  <2>3. ASSUME Fit(s, card) PROVE Fit(w, k)
    <3>1. s.op # 0
      BY <2>3 DEF Fit
    <3> HIDE DEF w, s1, m
    <3> QED BY <1>5, <1>6, <2>2, <2>3, <3>1, ZenonT(60) DEF Fit
  <2>4. Follows(s, k, w)
    <3> HIDE DEF w, s1, m
    <3> QED BY <1>5, <2>2, <2>3 DEF Follows
  <2> QED BY <2>1, <2>4
<1>8. CASE ~(m + n < Block)
  <2>1. m + n = Block
    <3> HIDE DEF m
    <3> QED BY <1>1, <1>2, <1>8, BlockIsNat
  <2> DEFINE w == Return(s1, "ok")
  <2>2. Collected(s, Units(out, m, n)) = w
    BY <1>5, <1>8, <2>1 DEF Collected
  <2>3. /\ w \in HostRecord /\ w.phase = "idle" /\ w.outcome = "ok"
        /\ w.kind = s1.kind /\ w.op = s1.op /\ w.right = s1.right /\ w.result = s1.result
        /\ w.status = s1.status /\ w.faulted = s1.faulted /\ w.disturbed = s1.disturbed
    <3> HIDE DEF s1
    <3> QED BY <1>5, ReturnFacts
  <2>4. ASSUME Fit(s, card) PROVE Done(w)
    <3> HIDE DEF w, s1, m
    <3>1. Own(w) /\ May(w)
      BY <1>5, <1>6, <2>1, <2>3, <2>4, ZenonT(60) DEF Own, May
    <3> QED BY <2>3, <3>1 DEF Done
  <2>5. Follows(s, k, w)
    <3> HIDE DEF w, s1, m
    <3> QED BY <1>5, <2>3, <2>4 DEF Follows
  <2> QED BY <2>2, <2>5
<1> QED BY <1>7, <1>8

\* The second EA command, whose answer is the first part of the result.
LEMMA SecondFollows ==
    ASSUME CardTypeOK, NEW s \in HostRecord, s.phase = "second", s.result = <<>>,
           NEW f, NEW a, NEW ok, NEW k, Exchanged(s, f, a, ok, k)
    PROVE  k \in CardRecord /\ Follows(s, k, After(s, ok, a.units))
<1>0. s.op \in Ops /\ card.chain \in Ops /\ Len(s.result) = 0
  BY DEF HostRecord, CardTypeOK, CardRecord
<1>1. a \in SecondHalf(s.op)
  BY DEF Exchanged, Answers
<1> DEFINE out == <<card.chain, s.op>>
<1>2. /\ a.ok \in BOOLEAN /\ a.card \in CardRecord /\ (a.ok <=> Usable /\ card.chain # 0)
      /\ a.ok => /\ a.card.verified /\ a.card.out = out
                 /\ \E n \in 0 .. Chunk : a.units = Units(out, 0, n)
  BY <1>0, <1>1, SecondHalfAnswer
<1>3. /\ k \in CardRecord
      /\ ok => /\ k.verified /\ k.out = out
               /\ \E n \in 0 .. Chunk : a.units = Units(out, 0, n)
  BY <1>2 DEF Exchanged, CardTypeOK
<1>4. CASE ok
  <2>1. PICK n \in 0 .. Chunk : a.units = Units(out, Len(s.result), n)
    BY <1>0, <1>3, <1>4
  <2>2. out \in Ops \X Ops /\ n \in Nat /\ n <= Chunk
    BY <1>0, BlockIsNat
  <2>3. After(s, ok, a.units) = Collected(s, a.units)
    BY <1>4 DEF After
  <2>4. ASSUME Fit(s, card)
        PROVE  /\ s.kind = "use" /\ s.status /\ k.verified
               /\ k.out = out /\ out = <<s.op, s.op>>
               /\ s.result = Units(out, 0, Len(s.result))
    <3>1. Units(out, 0, 0) = <<>>
      BY DEF Units
    <3> QED BY <1>0, <1>3, <1>4, <2>4, <3>1 DEF Fit
  <2> HIDE DEF out
  <2>5. Follows(s, k, Collected(s, Units(out, Len(s.result), n)))
    BY <2>2, <2>4, CollectedFollows
  <2> QED BY <1>3, <2>1, <2>3, <2>5
<1>5. CASE ~ok
  <2>1. Fit(s, card) => s.faulted
    BY <1>2, <1>5 DEF Exchanged, Fit, Usable
  <2> QED BY <1>3, <1>5, <2>1, FailureFollows
<1> QED BY <1>4, <1>5

\* A C1 command for the rest of the result.
LEMMA MoreFollows ==
    ASSUME CardTypeOK, NEW s \in HostRecord, s.phase = "more",
           NEW f, NEW a, NEW ok, NEW k, Exchanged(s, f, a, ok, k)
    PROVE  k \in CardRecord /\ Follows(s, k, After(s, ok, a.units))
<1> DEFINE out == card.out
           m == Len(s.result)
<1>0. s.op \in Ops /\ out \in Ops \X Ops /\ s.result \in Seq(Unit) /\ m \in Nat
  BY DEF HostRecord, CardTypeOK, CardRecord
<1>1. a \in ReadResult(m, f = "odd")
  BY DEF Exchanged, Answers
<1>2. /\ a.ok \in BOOLEAN /\ a.card \in CardRecord /\ a.card = card /\ (a.ok <=> out # <<0, 0>>)
      /\ a.ok => \E n \in 0 .. Chunk :
                    /\ (f = "odd") <=> (n = 0 \/ m + n > Block)
                    /\ a.units = Units(out, m, n)
  BY <1>0, <1>1, ReadResultAnswer
<1>3. k \in CardRecord /\ k = card
  BY <1>2 DEF Exchanged, CardTypeOK
<1>4. CASE ok
  <2>1. a.ok /\ f \in {"none", "odd"}
    BY <1>4 DEF Exchanged
  <2>2. PICK n \in 0 .. Chunk : /\ (f = "odd") <=> (n = 0 \/ m + n > Block)
                                /\ a.units = Units(out, m, n)
    BY <1>2, <2>1
  <2>3. n \in Nat /\ n <= Chunk /\ Len(a.units) = n
    <3>1. n \in Nat /\ n <= Chunk
      BY BlockIsNat
    <3> QED BY <1>0, <2>2, <3>1, UnitsAre
  <2>4. CASE Fits(s, n)
    <3>1. After(s, ok, a.units) = Collected(s, a.units)
      BY <1>4, <2>3, <2>4 DEF After
    <3>2. n <= Block - m
      BY <2>4 DEF Fits
    <3>3. ASSUME Fit(s, card)
          PROVE  /\ s.kind = "use" /\ s.status /\ k.verified
                 /\ k.out = out /\ out = <<s.op, s.op>>
                 /\ s.result = Units(out, 0, Len(s.result))
      BY <1>3, <3>3 DEF Fit
    <3>4. Follows(s, k, Collected(s, Units(out, Len(s.result), n)))
      <4> HIDE DEF out
      <4> QED BY <1>0, <2>3, <3>2, <3>3, CollectedFollows
    <3> QED BY <1>3, <2>2, <3>1, <3>4
  <2>5. CASE ~Fits(s, n)
    <3>1. After(s, ok, a.units) = Return(s, "error")
      BY <1>4, <2>3, <2>5 DEF After
    <3>2. n = 0 \/ m + n > Block
      <4>1. ~(n > 0 /\ n <= Block - m)
        BY <2>5 DEF Fits
      <4> HIDE DEF m
      <4> QED BY <1>0, <2>3, <4>1, BlockIsNat
    <3>3. f # "none"
      BY <2>2, <3>2
    <3>4. s.faulted
      BY <3>3 DEF Exchanged
    <3>5. Follows(s, k, Return(s, "error"))
      BY <3>4, ReturnFollows
    <3> QED BY <1>3, <3>1, <3>5
  <2> QED BY <2>4, <2>5
<1>5. CASE ~ok
  <2>1. Fit(s, card) => s.faulted
    <3>1. Fit(s, card) => out = <<s.op, s.op>> /\ s.op # 0
      BY DEF Fit
    <3>2. Fit(s, card) => a.ok
      BY <1>2, <3>1
    <3> QED BY <1>5, <3>2 DEF Exchanged
  <2> QED BY <1>3, <1>5, <2>1, FailureFollows
<1> QED BY <1>4, <1>5

\* Only a result that is being read is not empty.
NoResultYet(s) == s.phase \notin {"idle", "more"} => s.result = <<>>

LEMMA AnyFollows ==
    ASSUME CardTypeOK, NEW s \in HostRecord, s.phase # "idle", NoResultYet(s),
           NEW f, NEW a, NEW ok, NEW k, Exchanged(s, f, a, ok, k)
    PROVE  k \in CardRecord /\ Follows(s, k, After(s, ok, a.units))
<1>1. s.phase \in {"direct", "mf", "df", "file", "verify", "first", "second", "more", "binary"}
  BY DEF HostRecord, Phases
<1>2. CASE s.phase = "direct"
  BY <1>2, DirectFollows
<1>3. CASE s.phase \in {"mf", "df"}
  BY <1>3, UpFollows
<1>4. CASE s.phase = "file"
  BY <1>4, FileFollows
<1>5. CASE s.phase = "verify"
  BY <1>5, VerifyFollows
<1>6. CASE s.phase = "first"
  BY <1>6, FirstFollows
<1>7. CASE s.phase = "second"
  BY <1>7, SecondFollows DEF NoResultYet
<1>8. CASE s.phase = "more"
  BY <1>8, MoreFollows
<1>9. CASE s.phase = "binary"
  BY <1>9, BinaryFollows
<1> QED BY <1>1, <1>2, <1>3, <1>4, <1>5, <1>6, <1>7, <1>8, <1>9

-----------------------------------------------------------------------------
(* All hosts *)

\* No two hosts are at work under the same mutex.
MutexHolds == \A g, h \in Hosts : g # h /\ Busy(g) /\ Busy(h) => lockOf[g] # lockOf[h]

\* Only a host with another mutex can have come in between.
OnlyOthersDisturb ==
    \A h \in Hosts : host[h].disturbed => \E g \in Hosts \ {h} : lockOf[g] # lockOf[h]

ResultsBeginEmpty == \A h \in Hosts : NoResultYet(host[h])

UndisturbedFit ==
    \A h \in Hosts : ~host[h].disturbed =>
        IF Busy(h) THEN Fit(host[h], card) ELSE Done(host[h])

IInv == TypeOK /\ MutexHolds /\ OnlyOthersDisturb /\ ResultsBeginEmpty /\ UndisturbedFit

LEMMA IdleIs ==
    /\ Idle \in HostRecord /\ Idle.phase = "idle" /\ ~Idle.disturbed /\ Idle.outcome = "none"
    /\ Done(Idle) /\ NoResultYet(Idle)
<1>1. 0 \in Ops /\ <<>> \in Seq(Unit)
  BY BlockIsNat DEF Ops
<1>2. /\ Idle \in HostRecord /\ Idle.phase = "idle" /\ ~Idle.disturbed
      /\ Idle.outcome = "none"
  BY <1>1 DEF Idle, HostRecord, Phases, Kinds
<1> QED BY <1>2 DEF Done, NoResultYet

LEMMA InvInit == Init => IInv
<1> SUFFICES ASSUME Init PROVE IInv
  OBVIOUS
<1>1. TypeOK
  <2>1. 0 \in Ops /\ begun = 0
    BY BlockIsNat DEF Ops, Init
  <2>2. <<0, 0>> \in Ops \X Ops
    BY <2>1
  <2>3. card \in CardRecord
    <3>1. card \in [at : {"mf", "df"}, file : {0}, verified : BOOLEAN, chain : {0}, out : {<<0, 0>>}]
      BY DEF Init
    <3> QED BY <2>1, <2>2, <3>1 DEF CardRecord
  <2> QED BY <2>1, <2>3, IdleIs DEF Init, TypeOK
<1>2. \A h \in Hosts : host[h] = Idle
  BY DEF Init
<1> QED
  BY <1>1, <1>2, IdleIs
     DEF IInv, MutexHolds, OnlyOthersDisturb, ResultsBeginEmpty, UndisturbedFit, Busy

LEMMA NewOperationIs ==
    ASSUME IInv, begun < MaxOps, NEW h, NEW kind \in Kinds, NEW right \in BOOLEAN
    PROVE  LET s == NewOperation(h, kind, right)
           IN /\ s \in HostRecord /\ s.phase # "idle" /\ ~s.disturbed
              /\ NoResultYet(s) /\ Fit(s, card) /\ begun + 1 \in Ops
<1> DEFINE s == NewOperation(h, kind, right)
<1>1. begun \in Ops /\ card.verified \in BOOLEAN
  BY DEF IInv, TypeOK, CardRecord
<1>2. begun + 1 \in Ops /\ begun + 1 # 0
  BY <1>1, BlockIsNat DEF Ops
<1>3. /\ s.phase = IF kind = "read" THEN "mf" ELSE "direct"
      /\ s.kind = kind /\ s.op = begun + 1 /\ s.right = right /\ s.status = card.verified
      /\ s.result = <<>> /\ s.disturbed = FALSE
  BY DEF NewOperation, Idle
<1>4. s \in HostRecord
  BY <1>1, <1>2, IdleIs DEF NewOperation, HostRecord, Phases, Kinds
<1>5. NoResultYet(s) /\ Fit(s, card)
  <2> HIDE DEF s
  <2> QED BY <1>2, <1>3 DEF NoResultYet, Fit
<1> QED BY <1>2, <1>3, <1>4, <1>5

LEMMA StartStep ==
    ASSUME IInv, NEW h \in Hosts, NEW kind \in Kinds, NEW right \in BOOLEAN, Start(h, kind, right)
    PROVE  IInv'
<1> DEFINE s == NewOperation(h, kind, right)
<1>1. /\ s \in HostRecord /\ s.phase # "idle" /\ ~s.disturbed
      /\ NoResultYet(s) /\ Fit(s, card) /\ begun + 1 \in Ops
  BY NewOperationIs DEF Start
<1>2. /\ host' = [host EXCEPT ![h] = s] /\ begun' = begun + 1
      /\ lockOf' = lockOf /\ card' = card
  BY DEF Start
<1>3. host \in [Hosts -> HostRecord]
  BY DEF IInv, TypeOK
<1>4. host'[h] = s /\ \A g \in Hosts \ {h} : host'[g] = host[g]
  BY <1>2, <1>3
<1> HIDE DEF s
<1>5. TypeOK'
  BY <1>1, <1>2, <1>3 DEF IInv, TypeOK
<1>6. MutexHolds'
  <2>1. \A g \in Hosts : Busy(g) => lockOf[g] # lockOf[h]
    BY DEF Start
  <2>2. \A g \in Hosts \ {h} : Busy(g)' => Busy(g)
    BY <1>4 DEF Busy
  <2> QED BY <1>2, <2>1, <2>2 DEF IInv, MutexHolds
<1>7. OnlyOthersDisturb' /\ ResultsBeginEmpty'
  BY <1>1, <1>2, <1>4 DEF IInv, OnlyOthersDisturb, ResultsBeginEmpty
<1>8. UndisturbedFit'
  BY <1>1, <1>2, <1>4 DEF IInv, UndisturbedFit, Busy
<1> QED BY <1>5, <1>6, <1>7, <1>8 DEF IInv

LEMMA ExchangeStep == ASSUME IInv, NEW h \in Hosts, NEW f \in Faults, Exchange(h, f) PROVE IInv'
<1> DEFINE s == [host[h] EXCEPT !.faulted = host[h].faulted \/ f # "none"]
<1>1. host \in [Hosts -> HostRecord] /\ host[h] \in HostRecord /\ CardTypeOK
  BY DEF IInv, TypeOK, CardTypeOK
<1>2. /\ s \in HostRecord /\ (f # "none" => s.faulted)
      /\ s.phase = host[h].phase /\ s.kind = host[h].kind /\ s.op = host[h].op
      /\ s.right = host[h].right /\ s.result = host[h].result /\ s.status = host[h].status
      /\ s.disturbed = host[h].disturbed
  BY <1>1 DEF HostRecord
<1>3. PICK a \in Answers(host[h], f) :
         /\ card' = IF f = "lost" THEN card ELSE a.card
         /\ host' = [g \in Hosts |->
               IF g = h
               THEN After([host[h] EXCEPT !.faulted = @ \/ f # "none"], a.ok /\ f \in {"none", "odd"}, a.units)
               ELSE [host[g] EXCEPT !.disturbed = @ \/ Busy(g)]]
  BY DEF Exchange
<1> DEFINE ok == a.ok /\ f \in {"none", "odd"}
           w == After(s, ok, a.units)
<1>4. host'[h] = w
  BY <1>3
<1>5. lockOf' = lockOf /\ begun' = begun /\ Busy(h)
  BY DEF Exchange
<1>6. Answers(host[h], f) = Answers(s, f)
  <2> HIDE DEF s
  <2> QED BY <1>2 DEF Answers
<1>7. Exchanged(s, f, a, ok, card')
  <2>1. a \in Answers(s, f)
    BY <1>6
  <2> HIDE DEF s
  <2> QED BY <1>2, <1>3, <2>1 DEF Exchanged
<1>8. NoResultYet(s) /\ s.phase # "idle"
  <2> HIDE DEF s
  <2> QED BY <1>2, <1>5 DEF IInv, ResultsBeginEmpty, NoResultYet, Busy
<1>9. card' \in CardRecord /\ Follows(s, card', w)
  <2> HIDE DEF s, ok
  <2> QED BY <1>1, <1>2, <1>7, <1>8, AnyFollows
<1>10. \A g \in Hosts \ {h} :
          /\ host'[g] \in HostRecord
          /\ host'[g].disturbed = (host[g].disturbed \/ Busy(g))
          /\ host'[g].phase = host[g].phase /\ host'[g].result = host[g].result
          /\ ~Busy(g) => host'[g] = host[g]
  <2> SUFFICES ASSUME NEW g \in Hosts \ {h}
               PROVE  /\ host'[g] \in HostRecord
                      /\ host'[g].disturbed = (host[g].disturbed \/ Busy(g))
                      /\ host'[g].phase = host[g].phase /\ host'[g].result = host[g].result
                      /\ ~Busy(g) => host'[g] = host[g]
    OBVIOUS
  <2>1. host'[g] = [host[g] EXCEPT !.disturbed = host[g].disturbed \/ Busy(g)]
    BY <1>3
  <2>2. host[g] \in HostRecord /\ Busy(g) \in BOOLEAN
    BY <1>1 DEF Busy
  <2> QED BY <2>1, <2>2 DEF HostRecord
<1> HIDE DEF s, w, ok
<1>11. TypeOK'
  <2>1. \A g \in Hosts : host'[g] \in HostRecord
    BY <1>4, <1>9, <1>10 DEF Follows
  <2>2. host' \in [Hosts -> HostRecord]
    BY <1>3, <2>1
  <2> QED BY <1>5, <1>9, <2>2 DEF IInv, TypeOK
<1>12. MutexHolds'
  <2>1. \A g \in Hosts : Busy(g)' => Busy(g)
    BY <1>5, <1>10 DEF Busy
  <2> QED BY <1>5, <2>1 DEF IInv, MutexHolds
<1>13. OnlyOthersDisturb'
  <2>1. host'[h].disturbed = host[h].disturbed
    BY <1>2, <1>4, <1>9 DEF Follows
  <2>2. ASSUME NEW g \in Hosts \ {h}, host'[g].disturbed
        PROVE  \E q \in Hosts \ {g} : lockOf[q] # lockOf[g]
    <3>1. host[g].disturbed \/ Busy(g)
      BY <1>10, <2>2
    <3>2. CASE host[g].disturbed
      BY <3>2 DEF IInv, OnlyOthersDisturb
    <3>3. CASE Busy(g)
      BY <1>5, <3>3 DEF IInv, MutexHolds
    <3> QED BY <3>1, <3>2, <3>3
  <2> QED BY <1>5, <2>1, <2>2 DEF IInv, OnlyOthersDisturb
<1>14. ResultsBeginEmpty'
  <2>1. NoResultYet(w)
    BY <1>8, <1>9 DEF Follows, NoResultYet
  <2>2. ASSUME NEW g \in Hosts \ {h} PROVE NoResultYet(host'[g])
    BY <1>10 DEF IInv, ResultsBeginEmpty, NoResultYet
  <2> QED BY <1>4, <2>1, <2>2 DEF ResultsBeginEmpty
<1>15. UndisturbedFit'
  <2>1. ASSUME ~host'[h].disturbed
        PROVE  IF Busy(h)' THEN Fit(host'[h], card') ELSE Done(host'[h])
    <3>1. ~host[h].disturbed
      BY <1>2, <1>4, <1>9, <2>1 DEF Follows
    <3>2. Fit(host[h], card)
      BY <1>5, <3>1 DEF IInv, UndisturbedFit
    <3>3. Fit(s, card)
      BY <1>2, <3>2 DEF Fit
    <3> QED BY <1>4, <1>9, <3>3 DEF Follows, Busy
  <2>2. ASSUME NEW g \in Hosts \ {h}, ~host'[g].disturbed
        PROVE  IF Busy(g)' THEN Fit(host'[g], card') ELSE Done(host'[g])
    <3>1. ~Busy(g) /\ ~host[g].disturbed /\ host'[g] = host[g]
      BY <1>10, <2>2
    <3> QED BY <3>1 DEF IInv, UndisturbedFit, Busy
  <2> QED BY <2>1, <2>2 DEF UndisturbedFit
<1> QED BY <1>11, <1>12, <1>13, <1>14, <1>15 DEF IInv

LEMMA InvStep == IInv /\ [Next]_vars => IInv'
<1> SUFFICES ASSUME IInv, [Next]_vars PROVE IInv'
  OBVIOUS
<1>1. CASE UNCHANGED vars
  BY <1>1 DEF vars, IInv, TypeOK, MutexHolds, OnlyOthersDisturb, ResultsBeginEmpty,
              UndisturbedFit, Busy
<1>2. CASE Next
  BY <1>2, StartStep, ExchangeStep DEF Next, Step
<1> QED BY <1>1, <1>2

\* An operation that returns Ok returns the answer to its own input, whatever
\* broke off before it, if all hosts take its mutex or none came in between.
THEOREM ResultsStayOwn == Spec => []ResultsAreOfTheCall
<1>1. IInv => ResultsAreOfTheCall
  <2> SUFFICES ASSUME IInv, NEW h \in Hosts,
                      (\A g \in Hosts \ {h} : lockOf[g] = lockOf[h]) \/ ~host[h].disturbed,
                      ~Busy(h), host[h].outcome = "ok"
               PROVE  Own(host[h])
    BY DEF ResultsAreOfTheCall, IInv
  <2>1. ~host[h].disturbed
    BY DEF IInv, OnlyOthersDisturb
  <2> QED BY <2>1 DEF IInv, UndisturbedFit, Done
<1> QED BY <1>1, InvInit, InvStep, PTL DEF Spec

\* An operation nothing disturbs succeeds exactly if it may, whatever file was
\* left selected and however operations before it ended.
THEOREM UndisturbedSucceed == Spec => []UndisturbedOperationsSucceed
<1>1. IInv => UndisturbedOperationsSucceed
  BY DEF IInv, UndisturbedFit, Done, May, UndisturbedOperationsSucceed
<1> QED BY <1>1, InvInit, InvStep, PTL DEF Spec
=============================================================================
