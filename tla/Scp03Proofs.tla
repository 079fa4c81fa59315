---------------------------- MODULE Scp03Proofs ----------------------------
(***************************************************************************)
(* The secure channel for any number of hosts, keys, PINs and operations,  *)
(* and any combination of the faults: counters, results, recovery, length. *)
(***************************************************************************)
EXTENDS Scp03, SequenceTheorems, TLAPS

\* What passes through the channel, and what comes back.
Texts == [ins : {"verify"}, pin : Pins \cup {NoPin}]
         \cup [ins : {"select"}, fid : {"5030", "0810"}]
         \cup [ins : {"first", "last"}, key : KeyRefs, chunk : Chunks]
         \cup [ins : {"more"}]

Halves == KeyRefs \X Chunks \X Chunks \X (1 .. 2)

Host == [phase : Phases, op : Ops \cup {NoOp}, known : BOOLEAN, pin : {NoPin, RightPin},
         open : BOOLEAN, key : Nat, chain : Seq(Texts), counter : Nat, result : Seq(Halves),
         outcome : {"none", "ok", "error"}, disturbed : BOOLEAN]

Card == [nonce : Nat, key : Nat, open : BOOLEAN, chain : Seq(Texts), counter : Nat,
         verified : BOOLEAN, dir : {"none", "5030", "0810"}, held : Seq(Chunks),
         output : Seq(Halves)]

\* The result of a private operation.
Out(op) == [i \in 1 .. 2 |-> <<op.key, op.block[1], op.block[2], i>>]

\* The phases that only a private operation comes to.
Private == Secured \ {"verify"}

\* How many commands have gone through the channel at most before this phase's.
Before(o) ==
    CASE o.phase = "verify" -> 0
      [] o.phase = "df" -> 1
      [] o.phase = "keydf" -> 2
      [] o.phase = "first" -> 3
      [] o.phase = "last" -> 4
      [] o.phase = "more" -> 5 + Len(o.result)

-----------------------------------------------------------------------------
(* The invariant: a host for itself, a host and the card, all hosts.        *)

\* A host: its channel fits its phase, its outcome is what the operation
\* deserves.
Good(o) ==
    /\ o \in Host
    /\ o.pin # NoPin \/ o.phase \notin {"idle", "keys"} => o.known
    /\ ~o.open => o.chain = <<>> /\ o.counter = 1
    /\ Len(o.chain) <= 7
    /\ o.phase # "idle" => o.outcome = "none" /\ o.op \in Ops
    /\ o.phase # "idle" /\ o.op.kind = "private" => o.pin = RightPin
    /\ o.phase \in {"keys", "applet", "update"} => o.key = NoKey /\ ~o.open
    /\ o.phase = "authenticate" => o.key # NoKey /\ ~o.open
    /\ o.phase \in Secured => o.key # NoKey /\ o.open /\ Len(o.chain) <= Before(o)
    /\ o.phase \in Private => o.op.kind = "private"
    /\ o.phase \notin {"idle", "more"} => o.result = <<>>
    /\ o.phase = "more" => Len(o.result) <= 1
    /\ o.outcome = "ok" /\ o.op.kind = "private" => o.result = Out(o.op)
    /\ o.outcome = "error" /\ ~o.disturbed => o.op.kind = "login" /\ o.op.pin # RightPin

\* What the card holds of an operation while it is in the channel of its host:
\* what it has still to return completes the result, or nothing does.
Fits(o, c) ==
    c.open /\ c.key = o.key =>
        /\ o.phase = "last" => c.held = <<o.op.block[1]>>
        /\ o.phase = "more" => \/ o.result \o c.output = Out(o.op)
                               \/ Len(o.result) + Len(c.output) < 2

\* The card is where an operation that nothing disturbed expects it.
Tracks(o, c) ==
    ~o.disturbed =>
        /\ o.phase = "authenticate" => c.key = o.key /\ c.chain = <<>> /\ c.counter = 1
        /\ o.phase \in Secured => /\ c.open /\ c.key = o.key
                                  /\ c.chain = o.chain /\ c.counter = o.counter
        /\ o.phase \in Private => c.verified
        /\ o.phase \in {"first", "last"} => c.dir = "0810"
        /\ o.phase = "last" => Len(c.held) = 1
        /\ o.phase = "more" => o.result \o c.output = Out(o.op)

\* A session key belongs to one host.
KeysDiffer ==
    \A g, h \in Hosts : g # h /\ host[g].key # NoKey => host[g].key # host[h].key

\* The commands that were sent, and the counters of their keys.
SentBefore ==
    /\ \A a \in sent : a.key \in Nat /\ a.key # NoKey /\ a.key <= card.nonce /\ a.counter \in Nat
    /\ \A a \in sent, h \in Hosts : a.key = host[h].key => a.counter < host[h].counter
    /\ \A a, b \in sent : a.key = b.key /\ a.counter = b.counter => a.text = b.text

IInv ==
    /\ host \in [Hosts -> Host] /\ card \in Card /\ begun \in 0 .. MaxOps
    /\ \A h \in Hosts :
          /\ Good(host[h]) /\ host[h].key <= card.nonce
          /\ Fits(host[h], card) /\ Tracks(host[h], card)
    /\ KeysDiffer /\ SentBefore

-----------------------------------------------------------------------------
(* Sequences. *)

LEMMA Pairs ==
    ASSUME NEW S, NEW f \in [1 .. 2 -> S]
    PROVE  f \in Seq(S) /\ Len(f) = 2
  <1>1. f \in Seq(S)
    BY SeqDef
  <1>2. f \in [1 .. Len(f) -> S] /\ Len(f) \in Nat /\ DOMAIN f = 1 .. 2
    BY <1>1, LenProperties
  <1> QED BY <1>2

\* What is taken from the front, and what is left.
LEMMA Parted ==
    ASSUME NEW S, NEW s \in Seq(S), NEW n \in 0 .. Len(s)
    PROVE  LET d == SubSeq(s, 1, n)
               r == SubSeq(s, n + 1, Len(s))
           IN d \in Seq(S) /\ r \in Seq(S) /\ Len(d) = n /\ Len(r) = Len(s) - n /\ d \o r = s
  <1>1. Len(s) \in Nat /\ \A i \in 1 .. Len(s) : s[i] \in S
    BY LenProperties, ElementOfSeq
  <1>2. SubSeq(s, 1, n) \in Seq(S) /\ Len(SubSeq(s, 1, n)) = n
    BY <1>1, SubSeqProperties
  <1>3. SubSeq(s, n + 1, Len(s)) \in Seq(S) /\ Len(SubSeq(s, n + 1, Len(s))) = Len(s) - n
    <2>1. \A i \in n + 1 .. Len(s) : s[i] \in S
      BY <1>1
    <2>2. Len(SubSeq(s, n + 1, Len(s))) = IF n + 1 <= Len(s) THEN Len(s) - (n + 1) + 1 ELSE 0
      BY <1>1, <2>1, SubSeqProperties
    <2> QED BY <1>1, <2>1, <2>2, SubSeqProperties
  <1>4. SubSeq(s, 1, n) \o SubSeq(s, n + 1, Len(s)) = SubSeq(s, 1, Len(s))
    <2>1. 1 \in 1 .. Len(s) + 1 /\ n \in 1 - 1 .. Len(s) /\ Len(s) \in n .. Len(s)
      BY <1>1
    <2> QED BY <2>1, ConcatAdjacentSubSeq
  <1> QED BY <1>2, <1>3, <1>4, SubSeqFull

LEMMA SomethingLeft ==
    ASSUME NEW s, Len(s) # 0
    PROVE  s # <<>>
  <1>1. Len(<<>>) = 0
    BY EmptySeq
  <1> QED BY <1>1, Zenon

\* One that is as long as with what follows it has nothing following it.
LEMMA NothingFollows ==
    ASSUME NEW S, NEW s \in Seq(S), NEW t \in Seq(S), Len(s \o t) = Len(s)
    PROVE  s \o t = s
  <1>1. Len(t) = 0
    BY ConcatProperties, LenProperties
  <1>2. t = <<>>
    BY <1>1, EmptySeq
  <1> QED BY <1>2, ConcatEmptySeq

-----------------------------------------------------------------------------
(* The parts of a command and of a result. *)

\* The tables of strings, for the provers.
LEMMA PhaseFacts ==
    /\ "idle" \in Phases /\ "idle" \notin Secured
    /\ {"keys", "applet", "update", "authenticate"} \cap Secured = {}
    /\ Private \subseteq Secured /\ Secured \subseteq Phases
    /\ Private = {"df", "keydf", "first", "last", "more"}
  BY DEF Phases, Secured, Private

LEMMA PrivateOp ==
    ASSUME NEW op \in Ops \cup {NoOp}, op.kind = "private"
    PROVE  op.key \in KeyRefs /\ op.block \in Chunks \X Chunks
           /\ op.block[1] \in Chunks /\ op.block[2] \in Chunks
  BY DEF Ops, NoOp, Blocks

LEMMA LoginOp ==
    ASSUME NEW op \in Ops \cup {NoOp}, op.kind = "login"
    PROVE  op.pin \in Pins
  BY DEF Ops, NoOp

LEMMA OpKinds == \A op \in Ops : op.kind \in {"login", "private"}
  BY DEF Ops

LEMMA OutFacts ==
    ASSUME NEW op \in Ops, op.kind = "private"
    PROVE  Out(op) \in Seq(Halves) /\ Len(Out(op)) = 2
           /\ Out(op)[1] \in Halves /\ Out(op)[2] \in Halves
  <1>1. \A i \in 1 .. 2 : <<op.key, op.block[1], op.block[2], i>> \in Halves
    BY PrivateOp DEF Halves
  <1> DEFINE f == Out(op)
  <1>2. f \in [1 .. 2 -> Halves]
    BY <1>1 DEF Out
  <1> HIDE DEF f
  <1>3. f \in Seq(Halves) /\ Len(f) = 2 /\ f[1] \in Halves /\ f[2] \in Halves
    BY <1>2, Pairs
  <1> QED BY <1>3 DEF f

\* What a host sends in the channel.
LEMMA TextFacts ==
    ASSUME NEW o, Good(o), o.phase \in Secured
    PROVE  Text(o) \in Texts
  <1>1. o.op \in Ops /\ o.pin \in {NoPin, RightPin} /\ (o.phase \in Private => o.op.kind = "private")
    BY PhaseFacts DEF Good, Host
  <1>2. CASE o.phase = "verify"
    <2>1. o.op.kind = "login" => o.op.pin \in Pins
      BY <1>1, LoginOp
    <2> QED BY <1>1, <1>2, <2>1, PinAssumption DEF Text, Texts
  <1>3. CASE o.phase \in {"df", "keydf", "more"}
    BY <1>3 DEF Text, Texts
  <1>4. CASE o.phase \in {"first", "last"}
    <2>1. o.op.key \in KeyRefs /\ o.op.block[1] \in Chunks /\ o.op.block[2] \in Chunks
      BY <1>1, <1>4, PrivateOp, PhaseFacts
    <2> QED BY <1>4, <2>1 DEF Text, Texts
  <1> QED BY <1>2, <1>3, <1>4 DEF Secured

-----------------------------------------------------------------------------
(* What a delivery does to the card. *)

\* The commands a host sends.
Inss == {"keys", "applet", "update", "authenticate", "secured"}

LEMMA AnswerShape ==
    ASSUME NEW c, NEW m, m.ins \in Inss, NEW b \in Answers(c, m)
    PROVE  \E d, ok, data : b = Answer(d, ok, data)
  <1>1. \A e, t : \A x \in Executed(e, t) : \E d, ok, data : x = Answer(d, ok, data)
    <2> TAKE e, t
    <2> TAKE x \in Executed(e, t)
    <2>1. CASE t.ins = "verify"
      BY <2>1 DEF Executed
    <2>2. CASE t.ins = "select"
      BY <2>2 DEF Executed
    <2>3. CASE t.ins = "first" /\ e.verified /\ e.dir = "0810"
      BY <2>3 DEF Executed
    <2>4. CASE t.ins = "last" /\ e.verified /\ e.dir = "0810" /\ Len(e.held) = 1
      BY <2>4 DEF Executed
    <2>5. CASE t.ins = "more"
      BY <2>5 DEF Executed
    <2>6. CASE /\ t.ins \notin {"verify", "select", "more"}
               /\ ~(t.ins = "first" /\ e.verified /\ e.dir = "0810")
               /\ ~(t.ins = "last" /\ e.verified /\ e.dir = "0810" /\ Len(e.held) = 1)
      BY <2>6 DEF Executed, Refused
    <2> QED BY <2>1, <2>2, <2>3, <2>4, <2>5, <2>6
  <1>2. CASE m.ins = "keys"
    BY <1>2 DEF Answers
  <1>3. CASE m.ins = "applet"
    BY <1>3 DEF Answers
  <1>4. CASE m.ins = "update"
    BY <1>4 DEF Answers
  <1>5. CASE m.ins = "authenticate"
    BY <1>5 DEF Answers, Refused
  <1>6. CASE m.ins = "secured"
    <2>1. b \in Executed(Received(c, m), m.text) \/ b = Refused(c)
      BY <1>6 DEF Answers
    <2>2. CASE b = Refused(c)
      BY <2>2 DEF Refused
    <2>3. CASE b \in Executed(Received(c, m), m.text)
      BY <1>1, <2>3
    <2> QED BY <2>1, <2>2, <2>3
  <1> QED BY <1>2, <1>3, <1>4, <1>5, <1>6 DEF Inss

LEMMA Delivered ==
    ASSUME NEW c, NEW m, m.ins \in Inss, NEW fault \in Faults, NEW a \in Deliveries(c, m, fault)
    PROVE  /\ fault = "none" => a \in Answers(c, m)
           /\ a.card = c \/ a.card = Deselected(c) \/ \E b \in Answers(c, m) : a.card = b.card
           /\ a.ok => \E b \in Answers(c, m) :
                         /\ b.ok /\ a.card = b.card
                         /\ a.data = b.data \/ (fault # "none" /\ a.data = <<>>)
  <1>1. CASE fault = "none"
    BY <1>1 DEF Deliveries
  <1>2. CASE fault = "lost"
    BY <1>2 DEF Deliveries, Answer
  <1>3. CASE fault \in {"unanswered", "short"}
    <2>1. PICK b \in Answers(c, m) :
              a = [b EXCEPT !.ok = FALSE, !.data = <<>>] \/ a = [b EXCEPT !.data = <<>>]
      BY <1>3 DEF Deliveries
    <2>2. PICK d, ok, data : b = Answer(d, ok, data)
      BY AnswerShape
    <2>3. /\ a.card = b.card
          /\ a.ok => b.ok /\ (a.data = b.data \/ a.data = <<>>)
      BY <2>1, <2>2 DEF Answer
    <2> QED BY <2>3, <1>3
  <1>4. CASE fault = "resent"
    BY <1>4 DEF Deliveries, Refused, Answer
  <1> QED BY <1>1, <1>2, <1>3, <1>4, FaultAssumption

\* The parts of a command.
LEMMA CommandFacts ==
    ASSUME NEW o, Good(o), o.phase # "idle"
    PROVE  LET m == Command(o)
           IN /\ m.key = o.key /\ m.ins \in Inss
              /\ o.phase \notin Secured => m.ins = o.phase
              /\ o.phase \in Secured =>
                    /\ m.ins = "secured" /\ m.counter = o.counter /\ m.text = Text(o)
                    /\ m.chain = Append(o.chain, Text(o)) /\ m.enc = (o.phase # "more")
  <1>1. o.phase \in Phases
    BY DEF Good, Host
  <1>2. CASE o.phase \in Secured
    BY <1>2 DEF Command, InChannel, Encrypted, Inss
  <1>3. CASE o.phase \notin Secured
    BY <1>1, <1>3 DEF Command, InChannel, Inss, Phases
  <1> QED BY <1>2, <1>3

LEMMA DeselectedFacts ==
    ASSUME NEW c \in Card
    PROVE  Deselected(c) \in Card /\ Deselected(c).nonce = c.nonce /\ ~Deselected(c).open
           /\ c.nonce \in Nat
  <1>1. <<>> \in Seq(Texts) /\ <<>> \in Seq(Chunks) /\ <<>> \in Seq(Halves)
    BY EmptySeq
  <1>2. FreshCard \in Card /\ ~FreshCard.open
    BY <1>1 DEF FreshCard, Card, NoKey
  <1>3. c.nonce \in Nat
    BY DEF Card
  <1> HIDE DEF FreshCard
  <1> QED BY <1>2, <1>3 DEF Deselected, Card

\* A command that passed works on the card of its channel.
LEMMA Executes ==
    ASSUME NEW c \in Card, NEW t \in Texts, NEW b \in Executed(c, t)
    PROVE  /\ b.card \in Card /\ b.card.nonce = c.nonce
           /\ b.card.open => b.card.key = c.key
  <1>0. Deselected(c) \in Card /\ Deselected(c).nonce = c.nonce /\ ~Deselected(c).open
    BY DeselectedFacts
  <1>1. CASE t.ins = "verify"
    <2> DEFINE v == t.pin = RightPin
    <2>1. b = Answer([c EXCEPT !.verified = v], v, <<>>) /\ v \in BOOLEAN
      BY <1>1 DEF Executed
    <2> HIDE DEF v
    <2> QED BY <2>1 DEF Answer, Card
  <1>2. CASE t.ins = "select"
    <2>1. t.fid \in {"5030", "0810"}
      BY <1>2 DEF Texts
    <2>2. b = Answer([c EXCEPT !.dir = t.fid], TRUE, <<>>)
      BY <1>2 DEF Executed
    <2>3. b.card = [c EXCEPT !.dir = t.fid]
      BY <2>2 DEF Answer
    <2> QED BY <2>1, <2>3, SMTT(30) DEF Card
  <1>3. CASE t.ins = "first" /\ c.verified /\ c.dir = "0810"
    <2>1. t.chunk \in Chunks
      BY <1>3 DEF Texts
    <2> DEFINE held == <<t.chunk>>
               none == <<>>
    <2>2. held \in Seq(Chunks) /\ none \in Seq(Halves)
      BY <2>1
    <2>3. b = Answer([c EXCEPT !.held = held, !.output = none], TRUE, <<>>)
      BY <1>3 DEF Executed
    <2> HIDE DEF held, none
    <2> QED BY <2>2, <2>3 DEF Answer, Card
  <1>4. CASE t.ins = "last" /\ c.verified /\ c.dir = "0810" /\ Len(c.held) = 1
    <2> DEFINE out == [i \in 1 .. 2 |-> <<t.key, c.held[1], t.chunk, i>>]
    <2>1. t.key \in KeyRefs /\ t.chunk \in Chunks
      BY <1>4 DEF Texts
    <2>2. c.held \in Seq(Chunks) /\ c.held[1] \in Chunks
      BY <1>4, ElementOfSeq DEF Card
    <2>3. out \in [1 .. 2 -> Halves]
      BY <2>1, <2>2 DEF Halves
    <2>4. PICK n \in 0 .. 1 :
              b = Answer([c EXCEPT !.held = <<>>, !.output = SubSeq(out, n + 1, 2)], TRUE,
                         SubSeq(out, 1, n))
      BY <1>4 DEF Executed
    <2> HIDE DEF out
    <2>5. SubSeq(out, n + 1, 2) \in Seq(Halves)
      BY <2>3, Pairs, Parted
    <2>6. <<>> \in Seq(Chunks)
      OBVIOUS
    <2> QED BY <2>4, <2>5, <2>6 DEF Answer, Card
  <1>5. CASE t.ins = "more"
    <2> DEFINE n == IF c.output = <<>> THEN 0 ELSE 1
               rest == SubSeq(c.output, n + 1, Len(c.output))
    <2>1. c.output \in Seq(Halves) /\ n \in 0 .. Len(c.output)
      BY EmptySeq DEF Card
    <2>2. rest \in Seq(Halves)
      BY <2>1, Parted
    <2>3. b = Answer([c EXCEPT !.output = rest], TRUE, SubSeq(c.output, 1, n))
      BY <1>5 DEF Executed
    <2> HIDE DEF rest
    <2> QED BY <2>2, <2>3 DEF Answer, Card
  <1>6. CASE b = Refused(c)
    BY <1>0, <1>6 DEF Refused, Answer
  <1>7. b = Refused(c) \/ t.ins \in {"verify", "select", "more"}
        \/ (t.ins = "first" /\ c.verified /\ c.dir = "0810")
        \/ (t.ins = "last" /\ c.verified /\ c.dir = "0810" /\ Len(c.held) = 1)
    BY DEF Executed
  <1> QED BY <1>1, <1>2, <1>3, <1>4, <1>5, <1>6, <1>7

\* A card that has received a command of its channel.
LEMMA Receives ==
    ASSUME NEW c \in Card, NEW o, Good(o), o.phase \in Secured
    PROVE  LET m == Command(o)
               r == Received(c, m)
           IN /\ r = [c EXCEPT !.chain = Append(o.chain, Text(o)),
                               !.counter = o.counter + (IF o.phase # "more" THEN 1 ELSE 0)]
              /\ r \in Card
  <1>1. Text(o) \in Texts /\ o.chain \in Seq(Texts) /\ o.counter \in Nat
    BY TextFacts DEF Good, Host
  <1>2. Append(o.chain, Text(o)) \in Seq(Texts)
    BY <1>1, AppendProperties
  <1>3. o.phase # "idle"
    BY PhaseFacts
  <1>4. Received(c, Command(o)) =
            [c EXCEPT !.chain = Append(o.chain, Text(o)),
                      !.counter = o.counter + (IF o.phase # "more" THEN 1 ELSE 0)]
    BY <1>3, CommandFacts DEF Received
  <1>5. Received(c, Command(o)) \in Card
    <2> DEFINE chain == Append(o.chain, Text(o))
               counter == o.counter + (IF o.phase # "more" THEN 1 ELSE 0)
    <2>1. chain \in Seq(Texts) /\ counter \in Nat
      BY <1>1, <1>2
    <2>2. Received(c, Command(o)) = [c EXCEPT !.chain = chain, !.counter = counter]
      BY <1>4
    <2> HIDE DEF chain, counter
    <2> QED BY <2>1, <2>2 DEF Card
  <1> QED BY <1>4, <1>5

\* What a command does to the card: it keeps its shape and the count of its
\* keys, and only the channel of whoever sent the command may be open.
LEMMA CardKept ==
    ASSUME NEW c \in Card, NEW o, Good(o), o.phase # "idle", NEW b \in Answers(c, Command(o))
    PROVE  /\ b.card \in Card
           /\ b.card.nonce = IF o.phase = "update" THEN c.nonce + 1 ELSE c.nonce
           /\ b.card.open => b.card.key = o.key
  <1>0. /\ Deselected(c) \in Card /\ Deselected(c).nonce = c.nonce /\ ~Deselected(c).open
        /\ c.nonce \in Nat
    BY DeselectedFacts
  <1>1. o.phase \in Phases
    BY DEF Good, Host
  <1>2. CASE b = Refused(c) /\ o.phase # "update"
    BY <1>0, <1>2 DEF Refused, Answer
  <1>3. CASE o.phase \in {"keys", "applet"}
    <2>1. Command(o).ins = o.phase
      BY <1>3, CommandFacts, PhaseFacts
    <2>2. b.card = Deselected(c)
      BY <1>3, <2>1 DEF Answers, Answer
    <2> QED BY <1>0, <1>3, <2>2
  <1>4. CASE o.phase = "update"
    <2>1. Command(o).ins = "update"
      BY <1>4, CommandFacts, PhaseFacts
    <2>2. b.card = [Deselected(c) EXCEPT !.nonce = c.nonce + 1, !.key = c.nonce + 1]
      BY <2>1 DEF Answers, Answer, SessionKey
    <2> DEFINE d == Deselected(c)
               n == c.nonce + 1
    <2>3. d \in Card /\ n \in Nat /\ ~d.open /\ b.card = [d EXCEPT !.nonce = n, !.key = n]
      BY <1>0, <2>2
    <2> HIDE DEF d, n
    <2>4. b.card \in Card /\ b.card.nonce = n /\ ~b.card.open
      BY <2>3 DEF Card
    <2> QED BY <1>4, <2>4 DEF n
  <1>5. CASE o.phase = "authenticate" /\ b # Refused(c)
    <2>0. Command(o).ins = "authenticate" /\ Command(o).key = o.key
      BY <1>5, CommandFacts, PhaseFacts
    <2>1. c.key = o.key /\ b = Answer([c EXCEPT !.open = TRUE], TRUE, <<>>)
      BY <1>5, <2>0 DEF Answers
    <2>2. b.card = [c EXCEPT !.open = TRUE]
      BY <2>1 DEF Answer
    <2> QED BY <1>5, <2>1, <2>2 DEF Card
  <1>6. CASE o.phase \in Secured /\ b # Refused(c)
    <2>1. Passes(c, Command(o)) /\ b \in Executed(Received(c, Command(o)), Text(o))
      BY <1>6, CommandFacts DEF Answers
    <2>2. c.key = o.key
      BY <2>1, CommandFacts DEF Passes
    <2>3. /\ b.card \in Card /\ b.card.nonce = Received(c, Command(o)).nonce
          /\ b.card.open => b.card.key = Received(c, Command(o)).key
      <3>1. Received(c, Command(o)) \in Card /\ Text(o) \in Texts
        BY <1>6, Receives, TextFacts
      <3> QED BY <2>1, <3>1, Executes
    <2>4. Received(c, Command(o)).nonce = c.nonce /\ Received(c, Command(o)).key = c.key
      BY DEF Received, Card
    <2> QED BY <1>6, <2>2, <2>3, <2>4, PhaseFacts
  <1> QED BY <1>1, <1>2, <1>3, <1>4, <1>5, <1>6, PhaseFacts DEF Phases

-----------------------------------------------------------------------------
(* What an exchange does to its host. *)

LEMMA Disturbing ==
    ASSUME NEW o, Good(o), NEW d \in {o, [o EXCEPT !.disturbed = TRUE]}
    PROVE  /\ Good(d) /\ d.phase = o.phase /\ d.op = o.op /\ d.key = o.key
           /\ d.chain = o.chain /\ d.counter = o.counter
           /\ Command(d) = Command(o)
           /\ \A c : (Fits(o, c) => Fits(d, c)) /\ (Tracks(o, c) => Tracks(d, c))
  <1>1. CASE d = o
    BY <1>1
  <1>2. CASE d = [o EXCEPT !.disturbed = TRUE]
    <2>1. d \in Host /\ d.disturbed /\ d.phase = o.phase /\ d.op = o.op /\ d.known = o.known
          /\ d.pin = o.pin /\ d.open = o.open /\ d.key = o.key /\ d.chain = o.chain
          /\ d.counter = o.counter /\ d.result = o.result /\ d.outcome = o.outcome
      BY <1>2 DEF Good, Host
    <2>2. Good(d)
      BY <2>1, ZenonT(60) DEF Good, Before
    <2>3. Text(d) = Text(o) /\ Command(d) = Command(o)
      BY <2>1 DEF Text, Command, InChannel, Encrypted
    <2>4. \A c : (Fits(o, c) => Fits(d, c)) /\ (Tracks(o, c) => Tracks(d, c))
      BY <2>1 DEF Fits, Tracks
    <2> QED BY <2>1, <2>2, <2>3, <2>4
  <1> QED BY <1>1, <1>2

LEMMA WrappedFacts ==
    ASSUME NEW o, Good(o), o.phase # "idle"
    PROVE  LET w == Wrapped(o)
           IN /\ w \in Host
              /\ w.phase = o.phase /\ w.op = o.op /\ w.known = o.known /\ w.pin = o.pin
              /\ w.open = o.open /\ w.key = o.key /\ w.result = o.result
              /\ w.outcome = o.outcome /\ w.disturbed = o.disturbed
              /\ o.phase \notin Secured => w = o
              /\ o.phase \in Secured =>
                    /\ w.chain = Append(o.chain, Text(o)) /\ Len(w.chain) = Len(o.chain) + 1
                    /\ w.counter = o.counter + (IF o.phase # "more" THEN 1 ELSE 0)
  <1>1. CASE o.phase \notin Secured
    BY <1>1 DEF Wrapped, InChannel, Good
  <1>2. CASE o.phase \in Secured
    <2> DEFINE chain == Append(o.chain, Text(o))
               counter == IF Encrypted(o) THEN o.counter + 1 ELSE o.counter
    <2>1. Text(o) \in Texts /\ o.chain \in Seq(Texts) /\ o.counter \in Nat
      BY <1>2, TextFacts DEF Good, Host
    <2>2. chain \in Seq(Texts) /\ Len(chain) = Len(o.chain) + 1 /\ counter \in Nat
      BY <2>1, AppendProperties
    <2>3. counter = o.counter + (IF o.phase # "more" THEN 1 ELSE 0)
      BY <1>2, <2>1 DEF Encrypted, InChannel
    <2>4. Wrapped(o) = [o EXCEPT !.chain = chain, !.counter = counter]
      BY <1>2 DEF Wrapped, InChannel
    <2> HIDE DEF chain, counter
    <2>5. o \in Host
      BY DEF Good
    <2>6. LET w == Wrapped(o)
          IN /\ w \in Host
             /\ w.phase = o.phase /\ w.op = o.op /\ w.known = o.known /\ w.pin = o.pin
             /\ w.open = o.open /\ w.key = o.key /\ w.result = o.result
             /\ w.outcome = o.outcome /\ w.disturbed = o.disturbed
             /\ w.chain = chain /\ w.counter = counter
      BY <2>2, <2>4, <2>5 DEF Host
    <2> QED BY <1>2, <2>2, <2>3, <2>6 DEF chain
  <1> QED BY <1>1, <1>2

LEMMA WrappedCounter ==
    ASSUME NEW o, Good(o), o.phase # "idle"
    PROVE  Wrapped(o).counter = o.counter + (IF Encrypted(o) THEN 1 ELSE 0)
  <1>1. CASE o.phase \in Secured
    <2>1. Encrypted(o) <=> o.phase # "more"
      BY <1>1 DEF Encrypted, InChannel
    <2>2. Wrapped(o).counter = o.counter + (IF o.phase # "more" THEN 1 ELSE 0)
      BY <1>1, WrappedFacts
    <2> QED BY <2>1, <2>2
  <1>2. CASE o.phase \notin Secured
    <2>1. Wrapped(o) = o /\ ~Encrypted(o)
      BY <1>2, WrappedFacts DEF Encrypted, InChannel
    <2>2. o.counter \in Nat
      BY DEF Good, Host
    <2> QED BY <2>1, <2>2
  <1> QED BY <1>1, <1>2

\* An operation that fails for a reason leaves its host in order.
LEMMA Failing ==
    ASSUME NEW o, Good(o), o.phase # "idle",
           o.disturbed \/ (o.op.kind = "login" /\ o.op.pin # RightPin)
    PROVE  LET n == Fails(Wrapped(o))
           IN /\ Good(n) /\ n.phase = "idle"
              /\ n.key = NoKey \/ (n.key = o.key /\ n.counter = Wrapped(o).counter)
  <1> DEFINE w == Wrapped(o)
             n == Fails(w)
             e == Over(w, "error")
  <1>1. /\ w \in Host
        /\ w.phase = o.phase /\ w.op = o.op /\ w.known = o.known /\ w.pin = o.pin
        /\ w.open = o.open /\ w.key = o.key /\ w.result = o.result
        /\ w.outcome = o.outcome /\ w.disturbed = o.disturbed
        /\ o.phase \notin Secured => w = o
        /\ o.phase \in Secured => Len(w.chain) = Len(o.chain) + 1
    BY WrappedFacts
  <1> SUFFICES /\ Good(n) /\ n.phase = "idle"
               /\ n.key = NoKey \/ (n.key = o.key /\ n.counter = w.counter)
    OBVIOUS
  <1> HIDE DEF w
  <1>2. /\ e \in Host /\ e.phase = "idle" /\ e.outcome = "error" /\ e.op = w.op
        /\ e.known = w.known /\ e.pin = w.pin /\ e.open = w.open /\ e.key = w.key
        /\ e.chain = w.chain /\ e.counter = w.counter /\ e.disturbed = w.disturbed
    BY <1>1 DEF Over, Host, Phases
  <1> HIDE DEF e
  <1>3. CASE o.phase \in Secured /\ o.phase # "verify"
    <2>1. n = e
      BY <1>1, <1>3 DEF Fails, InChannel, e
    <2>2. Len(o.chain) <= 6 /\ o.open /\ (o.pin # NoPin => o.known)
      BY <1>3 DEF Good, Before, Secured, Host
    <2>3. Good(e)
      BY <1>1, <1>2, <1>3, <2>2, PhaseFacts DEF Good
    <2> QED BY <1>1, <1>2, <2>1, <2>3
  <1>4. CASE o.phase = "keys"
    <2>1. n = e
      BY <1>1, <1>4, PhaseFacts DEF Fails, InChannel, e
    <2>2. Good(e)
      BY <1>1, <1>2, <1>4, PhaseFacts DEF Good
    <2> QED BY <1>1, <1>2, <2>1, <2>2
  <1>5. CASE o.phase \notin Secured \ {"verify"} /\ o.phase # "keys"
    <2>1. n = Closed(e)
      BY <1>1, <1>5 DEF Fails, InChannel, e
    <2> DEFINE none == <<>>
    <2>2. none \in Seq(Texts) /\ Len(none) = 0
      BY EmptySeq
    <2>0. n = [e EXCEPT !.open = FALSE, !.key = NoKey, !.chain = none, !.counter = 1]
      BY <2>1 DEF Closed
    <2> HIDE DEF none
    <2>3. /\ n \in Host /\ n.phase = "idle" /\ n.outcome = "error" /\ n.op = o.op
          /\ n.known = o.known /\ n.pin = o.pin /\ ~n.open /\ n.key = NoKey
          /\ n.chain = none /\ n.counter = 1 /\ n.disturbed = o.disturbed
      <3> HIDE DEF n
      <3> QED BY <1>1, <1>2, <2>0, <2>2 DEF Host, NoKey
    <2>4. Good(n)
      <3> HIDE DEF n
      <3> QED BY <1>1, <2>2, <2>3, PhaseFacts DEF Good, none
    <2> QED BY <2>3, <2>4
  <1> QED BY <1>3, <1>4, <1>5

\* The card that a command of an open channel is executed on.
LEMMA Ran ==
    ASSUME NEW c \in Card, NEW o, Good(o), o.phase \in Secured,
           NEW b \in Answers(c, Command(o)), b.ok
    PROVE  LET r == Received(c, Command(o))
           IN /\ c.open /\ c.key = o.key /\ b \in Executed(r, Text(o))
              /\ r \in Card /\ r.open /\ r.key = o.key
              /\ r.chain = Wrapped(o).chain /\ r.counter = Wrapped(o).counter
              /\ r.verified = c.verified /\ r.dir = c.dir /\ r.held = c.held
              /\ r.output = c.output
  <1>1. o.phase # "idle" /\ Command(o).ins = "secured"
    BY CommandFacts, PhaseFacts
  <1>2. Passes(c, Command(o))
    BY <1>1 DEF Answers, Refused, Answer
  <1>3. b \in Executed(Received(c, Command(o)), Text(o))
    BY <1>1, <1>2, CommandFacts DEF Answers
  <1>4. c.open /\ c.key = o.key
    BY <1>1, <1>2, CommandFacts DEF Passes
  <1> DEFINE r == Received(c, Command(o))
             chain == Append(o.chain, Text(o))
             counter == o.counter + (IF o.phase # "more" THEN 1 ELSE 0)
  <1>5. r = [c EXCEPT !.chain = chain, !.counter = counter] /\ r \in Card
    BY Receives
  <1>6. Wrapped(o).chain = chain /\ Wrapped(o).counter = counter
    BY <1>1, WrappedFacts
  <1> HIDE DEF chain, counter, r
  <1>7. /\ r.open = c.open /\ r.key = c.key /\ r.chain = chain /\ r.counter = counter
        /\ r.verified = c.verified /\ r.dir = c.dir /\ r.held = c.held
        /\ r.output = c.output
    BY <1>5 DEF Card
  <1> QED BY <1>3, <1>4, <1>5, <1>6, <1>7 DEF r

\* What was not disturbed is answered.
LEMMA Answered ==
    ASSUME NEW c \in Card, NEW o, Good(o), o.phase # "idle", Tracks(o, c), ~o.disturbed,
           NEW b \in Answers(c, Command(o))
    PROVE  \/ o.op.kind = "login" /\ o.op.pin # RightPin
           \/ b.ok /\ (o.phase \in {"keys", "update", "more"} => b.data # <<>>)
  <1>0. o.phase \in Phases /\ o.op \in Ops
    BY DEF Good, Host
  <1>1. CASE o.phase \in {"keys", "applet", "update"}
    <2>1. Command(o).ins = o.phase
      BY <1>1, CommandFacts, PhaseFacts
    <2> QED BY <1>1, <2>1 DEF Answers, Answer
  <1>2. CASE o.phase = "authenticate"
    <2>1. Command(o).ins = "authenticate" /\ Command(o).key = o.key
      BY <1>2, CommandFacts, PhaseFacts
    <2>2. c.key = o.key /\ o.key # NoKey
      BY <1>2 DEF Tracks, Good
    <2>3. b = Answer([c EXCEPT !.open = TRUE], TRUE, <<>>)
      BY <2>1, <2>2 DEF Answers
    <2> QED BY <1>2, <2>3 DEF Answer
  <1>3. CASE o.phase \in Secured
    <2> DEFINE m == Command(o)
               r == Received(c, m)
    <2>1. m.ins = "secured" /\ m.key = o.key /\ m.chain = Append(o.chain, Text(o))
          /\ m.text = Text(o) /\ m.counter = o.counter
      BY <1>3, CommandFacts
    <2>2. c.open /\ c.key = o.key /\ c.chain = o.chain /\ c.counter = o.counter
      BY <1>3 DEF Tracks
    <2>3. Passes(c, m)
      BY <2>1, <2>2 DEF Passes
    <2>4. b \in Executed(r, Text(o))
      BY <2>1, <2>3 DEF Answers
    <2>5. r.verified = c.verified /\ r.dir = c.dir /\ r.held = c.held /\ r.output = c.output
      BY DEF Received, Card
    <2> HIDE DEF m, r
    <2>6. CASE o.phase = "verify"
      <3>1. Text(o).ins = "verify"
            /\ Text(o).pin = IF o.op.kind = "login" THEN o.op.pin ELSE o.pin
        BY <2>6 DEF Text
      <3>2. o.op.kind = "private" => o.pin = RightPin
        BY <1>3, PhaseFacts DEF Good
      <3>3. Text(o).pin = RightPin \/ (o.op.kind = "login" /\ o.op.pin # RightPin)
        BY <1>0, <3>1, <3>2, OpKinds
      <3>4. Text(o).pin = RightPin => b.ok
        <4> DEFINE v == Text(o).pin = RightPin
        <4>1. b = Answer([r EXCEPT !.verified = v], v, <<>>)
          BY <2>4, <3>1 DEF Executed
        <4> HIDE DEF v
        <4>2. b.ok = v
          BY <4>1 DEF Answer
        <4> QED BY <4>2 DEF v
      <3> QED BY <2>6, <3>3, <3>4
    <2>7. CASE o.phase \in {"df", "keydf"}
      <3>1. Text(o).ins = "select"
        BY <2>7 DEF Text
      <3> QED BY <2>4, <2>7, <3>1 DEF Executed, Answer
    <2>8. CASE o.phase = "first"
      <3>1. Text(o).ins = "first" /\ r.verified /\ r.dir = "0810"
        BY <2>5, <2>8, PhaseFacts DEF Text, Tracks
      <3> QED BY <2>4, <2>8, <3>1 DEF Executed, Answer
    <2>9. CASE o.phase = "last"
      <3>1. Text(o).ins = "last" /\ r.verified /\ r.dir = "0810" /\ Len(r.held) = 1
        BY <2>5, <2>9, PhaseFacts DEF Text, Tracks
      <3> DEFINE out == [i \in 1 .. 2 |-> <<Text(o).key, r.held[1], Text(o).chunk, i>>]
      <3>0. PICK n \in 0 .. 1 :
              b = Answer([r EXCEPT !.held = <<>>, !.output = SubSeq(out, n + 1, 2)], TRUE,
                         SubSeq(out, 1, n))
        BY <2>4, <3>1 DEF Executed
      <3>2. b.ok
        BY <3>0 DEF Answer
      <3> QED BY <2>9, <3>2
    <2>10. CASE o.phase = "more"
      <3>1. Text(o).ins = "more"
        BY <2>10 DEF Text
      <3>2. o.op.kind = "private" /\ Len(o.result) <= 1 /\ o.result \in Seq(Halves)
            /\ c.output \in Seq(Halves)
        BY <2>10, PhaseFacts DEF Good, Host, Card
      <3>3. o.result \o c.output = Out(o.op) /\ Len(Out(o.op)) = 2
        BY <1>0, <2>10, <3>2, OutFacts DEF Tracks
      <3>4. Len(c.output) \in Nat /\ Len(c.output) >= 1
        <4>1. Len(o.result \o c.output) = Len(o.result) + Len(c.output)
          BY <3>2, ConcatProperties
        <4>2. Len(o.result) \in Nat /\ Len(c.output) \in Nat
          BY <3>2, LenProperties
        <4>3. Len(o.result \o c.output) = 2
          BY <3>3, Zenon
        <4>4. Len(o.result) <= 1
          BY <3>2
        <4> DEFINE i == Len(o.result)
                   j == Len(c.output)
        <4>5. i \in Nat /\ j \in Nat /\ i <= 1 /\ i + j = 2
          BY <4>1, <4>2, <4>3, <4>4, Zenon
        <4> HIDE DEF i, j
        <4>6. j \in Nat /\ j >= 1
          BY <4>5
        <4> QED BY <4>6 DEF j
      <3>5. c.output # <<>>
        BY <3>4, EmptySeq
      <3>6. b = Answer([r EXCEPT !.output = SubSeq(r.output, 1 + 1, Len(r.output))], TRUE,
                       SubSeq(r.output, 1, 1))
        BY <2>4, <2>5, <3>1, <3>5 DEF Executed
      <3>7. Len(SubSeq(r.output, 1, 1)) = 1
        BY <2>5, <3>2, <3>4, Parted
      <3>8. SubSeq(r.output, 1, 1) # <<>>
        <4>1. Len(SubSeq(r.output, 1, 1)) # 0
          BY <3>7
        <4> QED BY <4>1, SomethingLeft, Zenon
      <3> QED BY <2>10, <3>6, <3>8 DEF Answer
    <2> QED BY <1>3, <2>6, <2>7, <2>8, <2>9, <2>10 DEF Secured
  <1> QED BY <1>0, <1>1, <1>2, <1>3 DEF Phases

-----------------------------------------------------------------------------
(* An exchange that was answered, phase by phase. *)

\* What becomes of the key of a host.
KeyMoves(o, n, c) ==
    \/ n.key = NoKey
    \/ n.key = o.key /\ n.counter = Wrapped(o).counter
    \/ o.phase = "update" /\ n.key = c.nonce + 1

Moves(o, n, c, d) == Good(n) /\ Fits(n, d) /\ Tracks(n, d) /\ KeyMoves(o, n, c)

\* A host that has nothing to do expects nothing of the card.
LEMMA IdleMoves ==
    ASSUME NEW n, n.phase = "idle", NEW d
    PROVE  Fits(n, d) /\ Tracks(n, d)
  BY PhaseFacts DEF Fits, Tracks

LEMMA Opening ==
    ASSUME NEW c \in Card, NEW o, Good(o), Tracks(o, c),
           o.phase \in {"keys", "applet", "update", "authenticate"},
           NEW b \in Answers(c, Command(o)), b.ok,
           NEW data, data = b.data \/ (o.disturbed /\ data = <<>>)
    PROVE  Moves(o, GoesOn(Wrapped(o), data), c, b.card)
  <1> DEFINE n == GoesOn(o, data)
  <1>0. o \in Host /\ Wrapped(o) = o /\ o.phase # "idle"
    BY WrappedFacts, PhaseFacts DEF Good
  <1> SUFFICES Moves(o, n, c, b.card)
    BY <1>0
  <1>1. CASE o.phase \in {"keys", "update"} /\ data = <<>>
    <2>1. Command(o).ins = o.phase
      BY <1>1, CommandFacts, PhaseFacts
    <2>2. b.data # <<>>
      BY <1>1, <2>1 DEF Answers, Answer
    <2>3. o.disturbed
      BY <1>1, <2>2
    <2>4. n = Fails(o)
      BY <1>1 DEF GoesOn
    <2> QED BY <1>0, <2>3, <2>4, Failing, IdleMoves DEF Moves, KeyMoves
  <1>2. CASE o.phase = "keys" /\ data # <<>>
    <2> DEFINE none == <<>>
    <2>1. none \in Seq(Texts) /\ Len(none) = 0
      BY EmptySeq
    <2>2. n = [o EXCEPT !.open = FALSE, !.key = NoKey, !.chain = none, !.counter = 1,
                        !.phase = "applet", !.known = TRUE]
      BY <1>2 DEF GoesOn, Closed
    <2> HIDE DEF none, n
    <2>3. /\ n \in Host /\ n.phase = "applet" /\ n.op = o.op /\ n.known /\ n.pin = o.pin
          /\ ~n.open /\ n.key = NoKey /\ n.chain = none /\ n.counter = 1
          /\ n.result = o.result /\ n.outcome = o.outcome /\ n.disturbed = o.disturbed
      BY <1>0, <2>1, <2>2 DEF Host, NoKey, Phases
    <2>4. Good(n)
      BY <1>2, <2>1, <2>3, PhaseFacts DEF Good, none
    <2>5. Fits(n, b.card) /\ Tracks(n, b.card)
      BY <2>3, PhaseFacts DEF Fits, Tracks
    <2> QED BY <2>3, <2>4, <2>5 DEF Moves, KeyMoves
  <1>3. CASE o.phase = "applet"
    <2>1. n = [o EXCEPT !.phase = "update"]
      BY <1>3 DEF GoesOn, Following
    <2> HIDE DEF n
    <2>2. /\ n \in Host /\ n.phase = "update" /\ n.op = o.op /\ n.known = o.known
          /\ n.pin = o.pin /\ n.open = o.open /\ n.key = o.key /\ n.chain = o.chain
          /\ n.counter = o.counter
          /\ n.result = o.result /\ n.outcome = o.outcome /\ n.disturbed = o.disturbed
      BY <1>0, <2>1 DEF Host, Phases
    <2>3. Good(n) /\ o.key = NoKey
      BY <1>3, <2>2, PhaseFacts DEF Good
    <2>4. Fits(n, b.card) /\ Tracks(n, b.card)
      BY <2>2, PhaseFacts DEF Fits, Tracks
    <2> QED BY <2>2, <2>3, <2>4 DEF Moves, KeyMoves
  <1>4. CASE o.phase = "update" /\ data # <<>>
    <2> DEFINE k == c.nonce + 1
    <2>1. Command(o).ins = "update"
      BY <1>4, CommandFacts, PhaseFacts
    <2>2. /\ b.card = [Deselected(c) EXCEPT !.nonce = k, !.key = k]
          /\ b.data = <<k>>
      BY <2>1 DEF Answers, Answer, SessionKey
    <2>3. k \in Nat /\ k # NoKey
      BY DeselectedFacts DEF NoKey
    <2>4. n = [o EXCEPT !.phase = "authenticate", !.key = k]
      <3>1. data = b.data
        BY <1>4
      <3>2. data[1] = k
        BY <2>2, <3>1
      <3> HIDE DEF k
      <3> QED BY <1>4, <3>2 DEF GoesOn
    <2>5. b.card.key = k /\ b.card.chain = <<>> /\ b.card.counter = 1
      BY <2>2 DEF Deselected, FreshCard
    <2> HIDE DEF n, k
    <2>6. /\ n \in Host /\ n.phase = "authenticate" /\ n.op = o.op /\ n.known = o.known
          /\ n.pin = o.pin /\ n.open = o.open /\ n.key = k /\ n.chain = o.chain
          /\ n.counter = o.counter
          /\ n.result = o.result /\ n.outcome = o.outcome /\ n.disturbed = o.disturbed
      BY <1>0, <2>3, <2>4 DEF Host, Phases
    <2>7. Good(n)
      BY <1>4, <2>3, <2>6, PhaseFacts DEF Good
    <2>8. Fits(n, b.card) /\ Tracks(n, b.card)
      BY <2>5, <2>6, PhaseFacts DEF Fits, Tracks
    <2> QED BY <1>4, <2>6, <2>7, <2>8 DEF Moves, KeyMoves, k
  <1>5. CASE o.phase = "authenticate"
    <2>1. Command(o).ins = "authenticate" /\ Command(o).key = o.key
      BY <1>5, CommandFacts, PhaseFacts
    <2>2. c.key = o.key /\ b = Answer([c EXCEPT !.open = TRUE], TRUE, <<>>)
      BY <2>1 DEF Answers, Refused, Answer
    <2>3. b.card.open /\ b.card.key = c.key /\ b.card.chain = c.chain
          /\ b.card.counter = c.counter
      BY <2>2 DEF Answer, Card
    <2>4. n = [o EXCEPT !.phase = "verify", !.open = TRUE]
      BY <1>5 DEF GoesOn
    <2> HIDE DEF n
    <2>5. /\ n \in Host /\ n.phase = "verify" /\ n.op = o.op /\ n.known = o.known
          /\ n.pin = o.pin /\ n.open /\ n.key = o.key /\ n.chain = o.chain
          /\ n.counter = o.counter
          /\ n.result = o.result /\ n.outcome = o.outcome /\ n.disturbed = o.disturbed
      BY <1>0, <2>4 DEF Host, Phases, Secured
    <2>6. o.chain = <<>> /\ o.counter = 1 /\ Len(o.chain) = 0
      BY <1>5, EmptySeq DEF Good
    <2>7. Good(n)
      BY <1>5, <2>5, <2>6, PhaseFacts DEF Good, Before
    <2>8. Fits(n, b.card)
      BY <2>5 DEF Fits
    <2>9. Tracks(n, b.card)
      BY <1>5, <2>2, <2>3, <2>5, <2>6, PhaseFacts, ZenonT(60) DEF Tracks
    <2> QED BY <1>0, <2>5, <2>7, <2>8, <2>9 DEF Moves, KeyMoves
  <1> QED BY <1>1, <1>2, <1>3, <1>4, <1>5

\* From the PIN to the last half of the block a private operation goes on step
\* by step.
LEMMA GoingOn ==
    ASSUME NEW o, Good(o), o.phase \in {"verify", "df", "keydf", "first"},
           o.op.kind = "private", NEW data
    PROVE  LET w == Wrapped(o)
               n == GoesOn(w, data)
           IN /\ Good(n) /\ n.phase = Following[o.phase] /\ n.op = o.op /\ n.key = o.key
              /\ n.chain = w.chain /\ n.counter = w.counter /\ n.disturbed = o.disturbed
              /\ n.result = <<>>
  <1> DEFINE w == Wrapped(o)
             n == GoesOn(w, data)
  <1>0. o.phase # "idle" /\ o.phase \in Secured
    BY PhaseFacts DEF Secured
  <1>1. /\ w \in Host
        /\ w.phase = o.phase /\ w.op = o.op /\ w.known = o.known /\ w.pin = o.pin
        /\ w.open = o.open /\ w.key = o.key /\ w.result = o.result
        /\ w.outcome = o.outcome /\ w.disturbed = o.disturbed
        /\ Len(w.chain) = Len(o.chain) + 1
    BY <1>0, WrappedFacts
  <1> SUFFICES /\ Good(n) /\ n.phase = Following[o.phase] /\ n.op = o.op /\ n.key = o.key
               /\ n.chain = w.chain /\ n.counter = w.counter /\ n.disturbed = o.disturbed
               /\ n.result = <<>>
    OBVIOUS
  <1> HIDE DEF w
  <1> DEFINE q == Following[o.phase]
  <1>2. /\ o.phase = "verify" => q = "df"
        /\ o.phase = "df" => q = "keydf"
        /\ o.phase = "keydf" => q = "first"
        /\ o.phase = "first" => q = "last"
    BY DEF Following
  <1> HIDE DEF q
  <1>3. /\ q \in Private /\ q \in Phases /\ q \in Secured
        /\ q \notin {"idle", "keys", "applet", "update", "authenticate", "more"}
    BY <1>2 DEF Private, Secured, Phases
  <1>4. n = [w EXCEPT !.phase = q]
    BY <1>1 DEF GoesOn, q
  <1> HIDE DEF n
  <1>5. /\ n \in Host /\ n.phase = q /\ n.op = w.op /\ n.known = w.known
        /\ n.pin = w.pin /\ n.open = w.open /\ n.key = w.key /\ n.chain = w.chain
        /\ n.counter = w.counter
        /\ n.result = w.result /\ n.outcome = w.outcome /\ n.disturbed = w.disturbed
    BY <1>1, <1>3, <1>4 DEF Host
  <1>6. Len(o.chain) \in Nat /\ Len(o.chain) <= Before(o)
    BY <1>0, LenProperties DEF Good, Host
  <1>7. Len(n.chain) <= Before(n)
    BY <1>1, <1>2, <1>5, <1>6 DEF Before
  <1>8. Before(n) <= 7
    BY <1>2, <1>5 DEF Before
  <1>9. o.open /\ o.key # NoKey /\ o.result = <<>> /\ o.pin = RightPin /\ o.outcome = "none"
        /\ o.op \in Ops /\ o.known
    BY <1>0 DEF Good
  <1>10. Good(n)
    <2>1. Len(n.chain) <= 7
      <3>1. n.chain \in Seq(Texts)
        BY <1>5 DEF Host
      <3>2. Len(n.chain) \in Nat
        BY <3>1, LenProperties
      <3>3. Before(n) \in Nat
        BY <1>2, <1>5 DEF Before
      <3> QED BY <1>7, <1>8, <3>2, <3>3
    <2>2. /\ n \in Host /\ n.phase = q /\ n.op = o.op /\ n.known /\ n.pin = RightPin
          /\ n.open /\ n.key # NoKey /\ n.result = <<>> /\ n.outcome = "none"
      BY <1>1, <1>5, <1>9
    <2> QED BY <1>3, <1>7, <1>9, <2>1, <2>2 DEF Good
  <1> QED BY <1>1, <1>5, <1>9, <1>10 DEF q

LEMMA Verifying ==
    ASSUME NEW c \in Card, NEW o, Good(o), Tracks(o, c), o.phase = "verify",
           NEW b \in Answers(c, Command(o)), b.ok, NEW data
    PROVE  Moves(o, GoesOn(Wrapped(o), data), c, b.card)
  <1> DEFINE w == Wrapped(o)
             n == GoesOn(w, data)
             r == Received(c, Command(o))
  <1>0. o.phase # "idle" /\ o.phase \in Secured /\ o.op \in Ops /\ o.outcome = "none"
        /\ o.known /\ o.open
    BY DEF Secured, Good
  <1>1. /\ b \in Executed(r, Text(o)) /\ r \in Card
        /\ r.open /\ r.key = o.key /\ r.chain = w.chain /\ r.counter = w.counter
    BY <1>0, Ran
  <1>2. Text(o).ins = "verify"
        /\ Text(o).pin = IF o.op.kind = "login" THEN o.op.pin ELSE o.pin
    BY DEF Text
  <1>3. Text(o).pin = RightPin /\ b = Answer([r EXCEPT !.verified = TRUE], TRUE, <<>>)
    <2> DEFINE v == Text(o).pin = RightPin
    <2> HIDE DEF r
    <2>1. b = Answer([r EXCEPT !.verified = v], v, <<>>)
      BY <1>1, <1>2 DEF Executed
    <2> HIDE DEF v
    <2>2. b.ok = v
      BY <2>1 DEF Answer
    <2>3. v = TRUE
      BY <2>2 DEF v
    <2>4. b = Answer([r EXCEPT !.verified = TRUE], TRUE, <<>>)
      BY <2>1, <2>3
    <2> QED BY <2>3, <2>4 DEF v
  <1>4. /\ b.card.open /\ b.card.key = o.key /\ b.card.chain = w.chain
        /\ b.card.counter = w.counter /\ b.card.verified
    <2> HIDE DEF r, w
    <2> QED BY <1>1, <1>3 DEF Answer, Card
  <1>5. CASE o.op.kind = "private"
    <2>1. /\ Good(n) /\ n.phase = "df" /\ n.key = o.key
          /\ n.chain = w.chain /\ n.counter = w.counter /\ n.disturbed = o.disturbed
      BY <1>5, GoingOn DEF Following
    <2> HIDE DEF n, w
    <2>2. Fits(n, b.card) /\ Tracks(n, b.card)
      BY <1>4, <2>1, PhaseFacts DEF Fits, Tracks
    <2> QED BY <2>1, <2>2 DEF Moves, KeyMoves, w, n
  <1>6. CASE o.op.kind = "login"
    <2>1. /\ w \in Host
          /\ w.phase = o.phase /\ w.op = o.op /\ w.known = o.known /\ w.pin = o.pin
          /\ w.open = o.open /\ w.key = o.key /\ w.result = o.result
          /\ w.outcome = o.outcome /\ w.disturbed = o.disturbed
          /\ Len(w.chain) = Len(o.chain) + 1
      BY <1>0, WrappedFacts
    <2>2. o.op.pin = RightPin
      BY <1>2, <1>3, <1>6
    <2> HIDE DEF w
    <2>3. n = [w EXCEPT !.pin = RightPin, !.phase = "idle", !.outcome = "ok"]
      BY <1>6, <2>1, <2>2 DEF GoesOn, Over
    <2> HIDE DEF n
    <2>4. /\ n \in Host /\ n.phase = "idle" /\ n.op = o.op /\ n.known = o.known
          /\ n.pin = RightPin /\ n.open = o.open /\ n.key = o.key /\ n.chain = w.chain
          /\ n.counter = w.counter /\ n.result = o.result /\ n.outcome = "ok"
          /\ n.disturbed = o.disturbed
      BY <2>1, <2>3 DEF Host, Phases
    <2>5. Len(n.chain) <= 7
      <3>1. Len(o.chain) \in Nat /\ Len(o.chain) <= Before(o)
        BY <1>0, LenProperties DEF Good, Host
      <3> QED BY <2>1, <2>4, <3>1 DEF Before
    <2>6. Good(n)
      BY <1>0, <1>6, <2>4, <2>5, PhaseFacts DEF Good
    <2> QED BY <2>4, <2>6, IdleMoves DEF Moves, KeyMoves, w, n
  <1> QED BY <1>0, <1>5, <1>6, OpKinds

LEMMA Stepping ==
    ASSUME NEW c \in Card, NEW o, Good(o), Tracks(o, c), o.phase \in {"df", "keydf", "first"},
           NEW b \in Answers(c, Command(o)), b.ok, NEW data
    PROVE  Moves(o, GoesOn(Wrapped(o), data), c, b.card)
  <1> DEFINE w == Wrapped(o)
             n == GoesOn(w, data)
             r == Received(c, Command(o))
             t == Text(o)
  <1>0. o.phase # "idle" /\ o.phase \in Secured /\ o.phase \in Private
        /\ o.op.kind = "private"
    BY PhaseFacts DEF Secured, Good
  <1>1. /\ b \in Executed(r, t) /\ r \in Card
        /\ r.open /\ r.key = o.key /\ r.chain = w.chain /\ r.counter = w.counter
        /\ r.verified = c.verified
    BY <1>0, Ran
  <1>2. /\ Good(n) /\ n.phase = Following[o.phase] /\ n.op = o.op /\ n.key = o.key
        /\ n.chain = w.chain /\ n.counter = w.counter /\ n.disturbed = o.disturbed
        /\ n.result = <<>>
    BY <1>0, GoingOn
  <1>3. ~o.disturbed => c.verified
    BY <1>0 DEF Tracks
  <1> SUFFICES Fits(n, b.card) /\ Tracks(n, b.card)
    BY <1>2 DEF Moves, KeyMoves
  <1> HIDE DEF n, w, r
  <1>4. CASE o.phase \in {"df", "keydf"}
    <2>1. t.ins = "select" /\ t.fid = IF o.phase = "df" THEN "5030" ELSE "0810"
      BY <1>4 DEF Text
    <2> HIDE DEF t
    <2>2. b = Answer([r EXCEPT !.dir = t.fid], TRUE, <<>>)
      BY <1>1, <2>1 DEF Executed
    <2>3. /\ b.card.open /\ b.card.key = o.key /\ b.card.chain = w.chain
          /\ b.card.counter = w.counter /\ b.card.verified = c.verified
          /\ b.card.dir = t.fid
      BY <1>1, <2>2 DEF Answer, Card
    <2>4. n.phase = IF o.phase = "df" THEN "keydf" ELSE "first"
      BY <1>2, <1>4 DEF Following
    <2> QED BY <1>2, <1>3, <1>4, <2>1, <2>3, <2>4, PhaseFacts DEF Fits, Tracks
  <1>5. CASE o.phase = "first"
    <2> DEFINE held == <<t.chunk>>
               none == <<>>
    <2>1. t.ins = "first" /\ t.chunk = o.op.block[1]
      BY <1>5 DEF Text
    <2>2. r.verified /\ r.dir = "0810"
      <3>1. CASE ~(r.verified /\ r.dir = "0810")
        <4>1. b = Refused(r)
          BY <1>1, <2>1, <3>1 DEF Executed
        <4> QED BY <4>1 DEF Refused, Answer
      <3> QED BY <3>1
    <2> HIDE DEF t
    <2>3. b = Answer([r EXCEPT !.held = held, !.output = none], TRUE, <<>>)
      BY <1>1, <2>1, <2>2 DEF Executed
    <2> HIDE DEF held, none
    <2>4. /\ b.card.open /\ b.card.key = o.key /\ b.card.chain = w.chain
          /\ b.card.counter = w.counter /\ b.card.verified
          /\ b.card.dir = "0810" /\ b.card.held = held
      BY <1>1, <2>2, <2>3 DEF Answer, Card
    <2>5. held = <<n.op.block[1]>> /\ Len(held) = 1
      BY <1>2, <2>1 DEF held
    <2>6. n.phase = "last"
      BY <1>2, <1>5 DEF Following
    <2> QED BY <1>2, <2>4, <2>5, <2>6, PhaseFacts DEF Fits, Tracks
  <1> QED BY <1>4, <1>5

\* One more answer to what was asked for: nothing is left when two halves are there.
LEMMA Collecting ==
    ASSUME NEW o, Good(o), o.phase \in {"last", "more"}, NEW data \in Seq(Halves),
           Len(data) <= 1, o.phase = "more" => data # <<>>,
           NEW rest \in Seq(Halves),
           \/ o.result \o data \o rest = Out(o.op)
           \/ o.disturbed /\ Len(o.result) + Len(data) + Len(rest) < 2
    PROVE  LET w == Wrapped(o)
               n == GoesOn(w, data)
           IN /\ Good(n) /\ n.op = o.op /\ n.key = o.key /\ n.disturbed = o.disturbed
              /\ n.chain = w.chain /\ n.counter = w.counter
              /\ n.result = o.result \o data
              /\ n.phase \in {"idle", "more"}
  <1> DEFINE w == Wrapped(o)
             n == GoesOn(w, data)
             res == o.result \o data
  <1>0. /\ o.phase # "idle" /\ o.phase \in Secured /\ o.phase \in Private
        /\ o.op.kind = "private" /\ o.op \in Ops /\ o.open /\ o.key # NoKey
        /\ o.pin = RightPin /\ o.known /\ o.outcome = "none"
        /\ o.result \in Seq(Halves) /\ Len(o.result) <= 1
        /\ o.phase = "last" => o.result = <<>>
    BY PhaseFacts, EmptySeq DEF Secured, Good, Host
  <1>1. /\ w \in Host
        /\ w.phase = o.phase /\ w.op = o.op /\ w.known = o.known /\ w.pin = o.pin
        /\ w.open = o.open /\ w.key = o.key /\ w.result = o.result
        /\ w.outcome = o.outcome /\ w.disturbed = o.disturbed
        /\ Len(w.chain) = Len(o.chain) + 1
    BY <1>0, WrappedFacts
  <1>2. res \in Seq(Halves) /\ Len(res) = Len(o.result) + Len(data)
    BY <1>0, ConcatProperties
  <1>3. Len(o.result) \in Nat /\ Len(data) \in Nat /\ Len(rest) \in Nat
        /\ Len(o.chain) \in Nat /\ Len(o.chain) <= Before(o)
    BY <1>0, LenProperties DEF Good, Host
  <1>4. o.phase = "more" => Len(data) = 1
    <2> DEFINE i == Len(data)
    <2>1. o.phase = "more" => i # 0
      BY EmptySeq
    <2>2. i \in Nat /\ i <= 1
      BY <1>3
    <2> HIDE DEF i
    <2>3. o.phase = "more" => i = 1
      BY <2>1, <2>2
    <2> QED BY <2>3 DEF i
  <1>5. Len(w.chain) <= 5 + Len(res) /\ Len(res) <= 2 /\ Len(w.chain) <= 7
    <2>1. o.phase = "last" => Before(o) = 4
      BY DEF Before
    <2>2. o.phase = "more" => Before(o) = 5 + Len(o.result)
      BY DEF Before
    <2>3. o.phase = "last" => Len(o.result) = 0
      BY <1>0, EmptySeq
    <2> QED BY <1>0, <1>1, <1>2, <1>3, <1>4, <2>1, <2>2, <2>3, SMTT(30)
  <1>6. Len(res) = 2 => res = Out(o.op)
    <2> SUFFICES ASSUME Len(res) = 2
                 PROVE  res = Out(o.op)
      OBVIOUS
    <2>1. res \o rest = Out(o.op)
      BY <1>2, <1>3
    <2>2. Len(res \o rest) = Len(res)
      BY <1>0, <2>1, OutFacts
    <2> QED BY <1>2, <2>1, <2>2, NothingFollows
  <1>7. n = IF Len(res) = 2 THEN [w EXCEPT !.result = res, !.phase = "idle", !.outcome = "ok"]
            ELSE [w EXCEPT !.result = res, !.phase = "more"]
    <2>1. n = Collected(w, data)
      BY <1>1 DEF GoesOn
    <2>2. ~(w.phase = "more" /\ data = <<>>)
      BY <1>1
    <2> HIDE DEF n, w
    <2> QED BY <1>1, <2>1, <2>2 DEF Collected, Over, Host
  <1> SUFFICES /\ Good(n) /\ n.op = o.op /\ n.key = o.key /\ n.disturbed = o.disturbed
               /\ n.chain = w.chain /\ n.counter = w.counter
               /\ n.result = res
               /\ n.phase \in {"idle", "more"}
    OBVIOUS
  <1> HIDE DEF n, w, res
  <1>8. CASE Len(res) = 2
    <2>1. /\ n \in Host /\ n.phase = "idle" /\ n.op = o.op /\ n.known /\ n.pin = RightPin
          /\ n.open /\ n.key = o.key /\ n.chain = w.chain /\ n.counter = w.counter
          /\ n.result = res /\ n.outcome = "ok" /\ n.disturbed = o.disturbed
      BY <1>0, <1>1, <1>2, <1>7, <1>8 DEF Host, Phases
    <2>2. Good(n)
      BY <1>0, <1>5, <1>6, <1>8, <2>1, PhaseFacts DEF Good
    <2> QED BY <2>1, <2>2
  <1>9. CASE Len(res) # 2
    <2>1. /\ n \in Host /\ n.phase = "more" /\ n.op = o.op /\ n.known /\ n.pin = RightPin
          /\ n.open /\ n.key = o.key /\ n.chain = w.chain /\ n.counter = w.counter
          /\ n.result = res /\ n.outcome = "none" /\ n.disturbed = o.disturbed
      BY <1>0, <1>1, <1>2, <1>7, <1>9, PhaseFacts DEF Host
    <2>2. Len(n.chain) <= Before(n)
      BY <1>5, <2>1 DEF Before
    <2>3. Len(n.result) <= 1
      BY <1>2, <1>3, <1>5, <1>9, <2>1
    <2>4. Good(n)
      BY <1>0, <1>5, <2>1, <2>2, <2>3, PhaseFacts DEF Good
    <2> QED BY <2>1, <2>4
  <1> QED BY <1>8, <1>9

LEMMA LastHalf ==
    ASSUME NEW c \in Card, NEW o, Good(o), Fits(o, c), Tracks(o, c), o.phase = "last",
           NEW b \in Answers(c, Command(o)), b.ok,
           NEW data, data = b.data \/ (o.disturbed /\ data = <<>>)
    PROVE  Moves(o, GoesOn(Wrapped(o), data), c, b.card)
  <1> DEFINE w == Wrapped(o)
             n == GoesOn(w, data)
             r == Received(c, Command(o))
             t == Text(o)
             out == Out(o.op)
  <1>0. /\ o.phase # "idle" /\ o.phase \in Secured /\ o.phase \in Private
        /\ o.op.kind = "private" /\ o.op \in Ops /\ o.result = <<>>
    BY PhaseFacts DEF Secured, Good
  <1>1. /\ c.open /\ c.key = o.key /\ b \in Executed(r, t) /\ r \in Card
        /\ r.open /\ r.key = o.key /\ r.chain = w.chain /\ r.counter = w.counter
        /\ r.held = c.held
    BY <1>0, Ran
  <1>2. t.ins = "last" /\ t.key = o.op.key /\ t.chunk = o.op.block[2]
    BY DEF Text
  <1>3. c.held = <<o.op.block[1]>>
    BY <1>1 DEF Fits
  <1>4. r.verified /\ r.dir = "0810" /\ Len(r.held) = 1
    <2> HIDE DEF r, t
    <2>1. CASE ~(r.verified /\ r.dir = "0810" /\ Len(r.held) = 1)
      <3>1. b = Refused(r)
        BY <1>1, <1>2, <2>1 DEF Executed
      <3> QED BY <3>1 DEF Refused, Answer
    <2> QED BY <2>1
  <1>5. out = [i \in 1 .. 2 |-> <<t.key, r.held[1], t.chunk, i>>]
    BY <1>1, <1>2, <1>3 DEF Out
  <1> HIDE DEF r, t, w, out
  <1>6. PICK k \in 0 .. 1 :
            b = Answer([r EXCEPT !.held = <<>>, !.output = SubSeq(out, k + 1, 2)], TRUE,
                       SubSeq(out, 1, k))
    BY <1>1, <1>2, <1>4, <1>5 DEF Executed
  <1>7. out \in Seq(Halves) /\ Len(out) = 2
    BY <1>0, OutFacts DEF out
  <1> DEFINE front == SubSeq(out, 1, k)
             rest == SubSeq(out, k + 1, 2)
  <1>8. /\ front \in Seq(Halves) /\ rest \in Seq(Halves) /\ Len(front) = k
        /\ Len(rest) = 2 - k /\ front \o rest = out
    <2>1. k \in 0 .. Len(out)
      BY <1>7
    <2>2. LET rs == SubSeq(out, k + 1, Len(out))
          IN front \in Seq(Halves) /\ rs \in Seq(Halves) /\ Len(front) = k
             /\ Len(rs) = Len(out) - k /\ front \o rs = out
      BY <1>7, <2>1, Parted, Zenon
    <2> QED BY <1>7, <2>2
  <1>9. /\ b.data = front /\ b.card.output = rest
        /\ b.card.open /\ b.card.key = o.key /\ b.card.chain = w.chain
        /\ b.card.counter = w.counter /\ b.card.verified
    <2> HIDE DEF front, rest
    <2>1. b = Answer([r EXCEPT !.held = <<>>, !.output = rest], TRUE, front)
      BY <1>6 DEF front, rest
    <2> QED BY <1>1, <1>4, <2>1 DEF Answer, Card
  <1> HIDE DEF front, rest
  <1>10. /\ data \in Seq(Halves) /\ Len(data) <= 1
         /\ \/ data \o rest = out
            \/ o.disturbed /\ Len(data) + Len(rest) < 2
    <2>1. CASE data = b.data
      BY <1>8, <1>9, <2>1
    <2>2. CASE o.disturbed /\ data = <<>>
      <3>1. Len(data) = 0 /\ data \in Seq(Halves)
        BY <2>2, EmptySeq
      <3>2. CASE k = 0
        <4>1. front = <<>>
          BY <1>8, <3>2, EmptySeq
        <4> QED BY <1>8, <2>2, <3>1, <4>1
      <3>3. CASE k = 1
        BY <1>8, <2>2, <3>1, <3>3
      <3> QED BY <3>1, <3>2, <3>3
    <2> QED BY <2>1, <2>2
  <1>11. o.result \o data \o rest = data \o rest
    <2>1. <<>> \o data = data
      BY <1>10, ConcatEmptySeq
    <2> QED BY <1>0, <2>1
  <1>12. Len(o.result) = 0
    BY <1>0, EmptySeq
  <1>13. /\ Good(n) /\ n.op = o.op /\ n.key = o.key /\ n.disturbed = o.disturbed
         /\ n.chain = w.chain /\ n.counter = w.counter
         /\ n.result = o.result \o data
         /\ n.phase \in {"idle", "more"}
    <2>1. Len(data) \in Nat /\ Len(rest) \in Nat
      BY <1>8, <1>10, LenProperties
    <2>2. \/ o.result \o data \o rest = Out(o.op)
          \/ o.disturbed /\ Len(o.result) + Len(data) + Len(rest) < 2
      BY <1>10, <1>11, <1>12, <2>1 DEF out
    <2> QED BY <1>8, <1>10, <2>2, Collecting DEF w
  <1>14. n.result = data
    BY <1>0, <1>10, <1>13, ConcatEmptySeq
  <1> HIDE DEF n
  <1>15. CASE n.phase = "idle"
    BY <1>13, <1>15, IdleMoves DEF Moves, KeyMoves, w, n
  <1>16. CASE n.phase = "more"
    <2>1. Fits(n, b.card)
      BY <1>9, <1>10, <1>13, <1>14, <1>16 DEF Fits, out
    <2>2. Tracks(n, b.card)
      <3>1. ~n.disturbed => n.result \o b.card.output = Out(n.op)
        BY <1>9, <1>10, <1>13, <1>14 DEF out
      <3> QED BY <1>9, <1>13, <1>16, <3>1, PhaseFacts DEF Tracks
    <2> QED BY <1>13, <2>1, <2>2 DEF Moves, KeyMoves, w, n
  <1> QED BY <1>13, <1>15, <1>16

LEMMA More ==
    ASSUME NEW c \in Card, NEW o, Good(o), Fits(o, c), Tracks(o, c), o.phase = "more",
           NEW b \in Answers(c, Command(o)), b.ok,
           NEW data, data = b.data \/ (o.disturbed /\ data = <<>>)
    PROVE  Moves(o, GoesOn(Wrapped(o), data), c, b.card)
  <1> DEFINE w == Wrapped(o)
             n == GoesOn(w, data)
             r == Received(c, Command(o))
             t == Text(o)
  <1>0. /\ o.phase # "idle" /\ o.phase \in Secured /\ o.phase \in Private
        /\ o.op.kind = "private" /\ o.op \in Ops /\ o.result \in Seq(Halves)
        /\ c.output \in Seq(Halves)
    BY PhaseFacts DEF Secured, Good, Host, Card
  <1>1. /\ c.open /\ c.key = o.key /\ b \in Executed(r, t) /\ r \in Card
        /\ r.open /\ r.key = o.key /\ r.chain = w.chain /\ r.counter = w.counter
        /\ r.verified = c.verified /\ r.output = c.output
    BY <1>0, Ran
  <1>2. t.ins = "more"
    BY DEF Text
  <1> DEFINE k == IF r.output = <<>> THEN 0 ELSE 1
             front == SubSeq(r.output, 1, k)
             rest == SubSeq(r.output, k + 1, Len(r.output))
  <1>3. k \in 0 .. Len(r.output) /\ k <= 1
    BY <1>0, <1>1, EmptySeq
  <1>4. /\ front \in Seq(Halves) /\ rest \in Seq(Halves) /\ Len(front) = k
        /\ Len(rest) = Len(r.output) - k /\ front \o rest = r.output
    <2> HIDE DEF k, r
    <2>1. r.output \in Seq(Halves)
      BY <1>0, <1>1
    <2>2. k \in 0 .. Len(r.output)
      BY <1>3
    <2>3. \A s \in Seq(Halves) : \A m \in 0 .. Len(s) :
             /\ SubSeq(s, 1, m) \in Seq(Halves) /\ SubSeq(s, m + 1, Len(s)) \in Seq(Halves)
             /\ Len(SubSeq(s, 1, m)) = m /\ Len(SubSeq(s, m + 1, Len(s))) = Len(s) - m
             /\ SubSeq(s, 1, m) \o SubSeq(s, m + 1, Len(s)) = s
      BY Parted
    <2> QED BY <2>1, <2>2, <2>3
  <1>5. /\ b.data = front /\ b.card.output = rest
        /\ b.card.open /\ b.card.key = o.key /\ b.card.chain = w.chain
        /\ b.card.counter = w.counter /\ b.card.verified = c.verified
    <2> HIDE DEF r, t, w
    <2>1. b = Answer([r EXCEPT !.output = rest], TRUE, front)
      BY <1>1, <1>2 DEF Executed
    <2> HIDE DEF front, rest
    <2> QED BY <1>1, <2>1 DEF Answer, Card
  <1> HIDE DEF k, front, rest, w, r
  <1>6. CASE data = <<>>
    <2>1. o.disturbed
      <3>1. CASE ~o.disturbed
        <4>1. b.data # <<>>
          BY <1>0, <3>1, Answered
        <4> QED BY <1>6, <3>1, <4>1
      <3> QED BY <3>1
    <2>2. w.phase = "more" /\ n = Fails(w)
      BY <1>0, <1>6, WrappedFacts DEF GoesOn, Collected, w
    <2> QED BY <1>0, <2>1, <2>2, Failing, IdleMoves DEF Moves, KeyMoves, w
  <1>7. CASE data # <<>>
    <2>1. data = front
      BY <1>5, <1>7
    <2>2. o.result \o front \o rest = o.result \o c.output
      <3>1. o.result \o front \o rest = o.result \o (front \o rest)
        <4>1. o.result \in Seq(Halves) /\ front \in Seq(Halves) /\ rest \in Seq(Halves)
          BY <1>0, <1>4
        <4> DEFINE q == o.result
        <4>2. q \in Seq(Halves)
          BY <4>1
        <4> HIDE DEF q
        <4>3. (q \o front) \o rest = q \o (front \o rest)
          BY <4>1, <4>2, ConcatAssociative, SMTT(30)
        <4> QED BY <4>3 DEF q
      <3> QED BY <1>1, <1>4, <3>1, Zenon
    <2>3. Len(o.result) + Len(front) + Len(rest) = Len(o.result) + Len(c.output)
      <3>1. Len(o.result) \in Nat /\ Len(front) \in Nat /\ Len(rest) \in Nat
            /\ Len(c.output) \in Nat
        BY <1>0, <1>4, LenProperties
      <3>2. Len(front) = k /\ Len(rest) = Len(c.output) - k
        BY <1>1, <1>4, Zenon
      <3> DEFINE x == Len(o.result)
                 y == Len(c.output)
      <3>3. x \in Nat /\ y \in Nat /\ k \in Int
        BY <1>3, <3>1
      <3> HIDE DEF x, y
      <3>4. x + k + (y - k) = x + y
        BY <3>3
      <3> QED BY <3>2, <3>4, Zenon DEF x, y
    <2>4. \/ o.result \o front \o rest = Out(o.op)
          \/ o.disturbed /\ Len(o.result) + Len(front) + Len(rest) < 2
      BY <1>1, <2>2, <2>3 DEF Fits, Tracks
    <2>5. Len(front) <= 1
      BY <1>3, <1>4
    <2>6. /\ Good(n) /\ n.op = o.op /\ n.key = o.key /\ n.disturbed = o.disturbed
          /\ n.chain = w.chain /\ n.counter = w.counter
          /\ n.result = o.result \o front
          /\ n.phase \in {"idle", "more"}
      BY <1>4, <1>7, <2>1, <2>4, <2>5, Collecting DEF w
    <2> HIDE DEF n
    <2>7. CASE n.phase = "idle"
      BY <2>6, <2>7, IdleMoves DEF Moves, KeyMoves, w, n
    <2>8. CASE n.phase = "more"
      <3>1. Len(n.result) = Len(o.result) + Len(front)
        <4>1. o.result \in Seq(Halves) /\ front \in Seq(Halves)
          BY <1>0, <1>4
        <4>2. Len(o.result \o front) = Len(o.result) + Len(front)
          BY <4>1, ConcatProperties
        <4> QED BY <2>6, <4>2, Zenon
      <3>2. \/ n.result \o b.card.output = Out(n.op)
            \/ Len(n.result) + Len(b.card.output) < 2
        BY <1>5, <2>4, <2>6, <3>1
      <3>3. Fits(n, b.card)
        BY <2>8, <3>2 DEF Fits
      <3>4. ~n.disturbed => n.result \o b.card.output = Out(n.op)
        BY <1>5, <2>4, <2>6
      <3>5. ~n.disturbed => b.card.verified
        BY <1>0, <1>5, <2>6 DEF Tracks
      <3>6. Tracks(n, b.card)
        BY <1>5, <2>6, <2>8, <3>4, <3>5, PhaseFacts DEF Tracks
      <3> QED BY <2>6, <3>3, <3>6 DEF Moves, KeyMoves, w, n
    <2> QED BY <2>6, <2>7, <2>8
  <1> QED BY <1>6, <1>7

LEMMA Advancing ==
    ASSUME NEW c \in Card, NEW o, Good(o), Fits(o, c), Tracks(o, c), o.phase # "idle",
           NEW b \in Answers(c, Command(o)), b.ok,
           NEW data, data = b.data \/ (o.disturbed /\ data = <<>>)
    PROVE  Moves(o, GoesOn(Wrapped(o), data), c, b.card)
  <1>1. o.phase \in Phases
    BY DEF Good, Host
  <1>2. CASE o.phase \in {"keys", "applet", "update", "authenticate"}
    BY <1>2, Opening
  <1>3. CASE o.phase = "verify"
    BY <1>3, Verifying
  <1>4. CASE o.phase \in {"df", "keydf", "first"}
    BY <1>4, Stepping
  <1>5. CASE o.phase = "last"
    BY <1>5, LastHalf
  <1>6. CASE o.phase = "more"
    BY <1>6, More
  <1> QED BY <1>1, <1>2, <1>3, <1>4, <1>5, <1>6 DEF Phases, Secured

-----------------------------------------------------------------------------
(* The steps. *)

LEMMA Parts ==
    ASSUME IInv
    PROVE  /\ card \in Card /\ card.nonce \in Nat
           /\ \A h \in Hosts : /\ Good(host[h]) /\ host[h] \in Host
                               /\ host[h].key \in Nat /\ host[h].counter \in Nat
                               /\ host[h].key <= card.nonce
                               /\ Fits(host[h], card) /\ Tracks(host[h], card)
  BY DEF IInv, Card, Host

LEMMA InitHolds == Init => IInv
  <1> SUFFICES ASSUME Init
               PROVE  IInv
    OBVIOUS
  <1>1. <<>> \in Seq(Texts) /\ <<>> \in Seq(Chunks) /\ <<>> \in Seq(Halves) /\ Len(<<>>) = 0
    BY EmptySeq
  <1> DEFINE empty == <<>>
  <1>2. FreshCard \in Card /\ FreshCard.nonce = 0
    BY <1>1 DEF FreshCard, Card, NoKey
  <1>3. FreshHost \in Host /\ FreshHost.phase = "idle" /\ FreshHost.key = NoKey
        /\ FreshHost.pin = NoPin /\ FreshHost.chain = <<>> /\ FreshHost.counter = 1
        /\ FreshHost.outcome = "none"
    BY <1>1 DEF FreshHost, Host, NoKey, NoPin, NoOp, Phases
  <1> HIDE DEF FreshHost, FreshCard
  <1>4. Good(FreshHost)
    BY <1>1, <1>3, PhaseFacts DEF Good
  <1>5. Fits(FreshHost, FreshCard) /\ Tracks(FreshHost, FreshCard)
    BY <1>3, IdleMoves
  <1>6. \A h \in Hosts : host[h] = FreshHost
    BY DEF Init
  <1>7. host \in [Hosts -> Host] /\ card \in Card /\ begun \in 0 .. MaxOps
    BY <1>2, <1>3, OpsAssumption DEF Init
  <1>8. \A h \in Hosts : /\ Good(host[h]) /\ host[h].key <= card.nonce
                         /\ Fits(host[h], card) /\ Tracks(host[h], card)
    <2>1. card = FreshCard
      BY DEF Init
    <2>2. FreshHost.key <= FreshCard.nonce
      BY <1>2, <1>3 DEF NoKey
    <2> QED BY <1>4, <1>5, <1>6, <2>1, <2>2
  <1>9. KeysDiffer
    BY <1>3, <1>6 DEF KeysDiffer
  <1>10. SentBefore
    BY DEF SentBefore, Init
  <1> QED BY <1>7, <1>8, <1>9, <1>10 DEF IInv

\* A step of one host alone, after which it has no key and expects nothing of
\* the card.
LEMMA Alone ==
    ASSUME IInv, NEW h \in Hosts, NEW n, Good(n), n.key = NoKey,
           n.phase \in {"idle", "keys", "applet"},
           host' = [host EXCEPT ![h] = n], UNCHANGED <<card, sent>>, begun' \in 0 .. MaxOps
    PROVE  IInv'
  <1>1. n \in Host
    BY DEF Good
  <1>2. host' \in [Hosts -> Host] /\ card' \in Card
    BY <1>1 DEF IInv
  <1>3. \A g \in Hosts : host'[g] = IF g = h THEN n ELSE host[g]
    BY DEF IInv
  <1>4. Fits(n, card) /\ Tracks(n, card)
    BY PhaseFacts DEF Fits, Tracks
  <1>5. n.key <= card.nonce
    BY Parts DEF NoKey
  <1>6. \A g \in Hosts : /\ Good(host'[g]) /\ host'[g].key <= card.nonce
                         /\ Fits(host'[g], card) /\ Tracks(host'[g], card)
    BY <1>3, <1>4, <1>5, Parts
  <1>7. KeysDiffer'
    BY <1>3 DEF IInv, KeysDiffer
  <1>8. SentBefore'
    <2>1. sent' = sent /\ card' = card
      OBVIOUS
    <2>2. \A e \in sent, g \in Hosts : e.key = host'[g].key => e.counter < host'[g].counter
      BY <1>3 DEF IInv, SentBefore
    <2> QED BY <2>1, <2>2 DEF IInv, SentBefore
  <1> QED BY <1>2, <1>6, <1>7, <1>8 DEF IInv

LEMMA BeginKeeps ==
    ASSUME IInv, NEW h \in Hosts, NEW op \in Ops, Begin(h, op)
    PROVE  IInv'
  <1> DEFINE o == host[h]
             n == Entered(o, op)
             none == <<>>
             pin == IF op.kind = "login" THEN NoPin ELSE o.pin
             phase == IF o.known THEN "applet" ELSE "keys"
  <1>1. Good(o) /\ o \in Host /\ o.phase = "idle"
    BY Parts DEF Begin
  <1>2. op.kind = "private" => o.pin = RightPin /\ o.known
    BY <1>1 DEF Begin, Good, Host
  <1>3. none \in Seq(Texts) /\ none \in Seq(Halves) /\ Len(none) = 0
    BY EmptySeq
  <1>4. op.kind = "login" \/ o.known
    BY <1>2, OpKinds
  <1>5. n = [o EXCEPT !.open = FALSE, !.key = NoKey, !.chain = none, !.counter = 1,
                      !.op = op, !.result = none, !.outcome = "none", !.disturbed = FALSE,
                      !.pin = pin, !.phase = phase]
    <2> HIDE DEF o
    <2> QED BY <1>1, <1>4 DEF Entered, Closed, Host
  <1>6. pin \in {NoPin, RightPin} /\ phase \in Phases
    BY <1>1 DEF Host, Phases
  <1>7. /\ phase = "applet" => o.known
        /\ pin # NoPin => o.known
        /\ op.kind = "private" => pin = RightPin
        /\ phase \in {"applet", "keys"}
    BY <1>1, <1>2 DEF Good
  <1> HIDE DEF n, o, none, pin, phase
  <1>8. /\ n \in Host /\ n.phase = phase /\ n.op = op /\ n.known = o.known
        /\ n.pin = pin /\ ~n.open /\ n.key = NoKey /\ n.chain = none /\ n.counter = 1
        /\ n.result = none /\ n.outcome = "none"
    BY <1>1, <1>3, <1>5, <1>6 DEF Host, NoKey
  <1>9. Good(n)
    BY <1>3, <1>7, <1>8, PhaseFacts DEF Good, none
  <1>10. host' = [host EXCEPT ![h] = n] /\ UNCHANGED <<card, sent>>
    BY DEF Begin, n, o
  <1>11. begun' \in 0 .. MaxOps
    BY OpsAssumption DEF Begin, IInv
  <1> QED BY <1>7, <1>8, <1>9, <1>10, <1>11, Alone

LEMMA ClearKeeps ==
    ASSUME IInv, NEW h \in Hosts, Clear(h)
    PROVE  IInv'
  <1> DEFINE o == host[h]
             n == [Closed(o) EXCEPT !.pin = NoPin, !.known = FALSE]
             none == <<>>
  <1>1. Good(o) /\ o \in Host /\ o.phase = "idle"
    BY Parts DEF Clear
  <1>2. none \in Seq(Texts) /\ Len(none) = 0
    BY EmptySeq
  <1>3. n = [o EXCEPT !.open = FALSE, !.key = NoKey, !.chain = none, !.counter = 1,
                      !.pin = NoPin, !.known = FALSE]
    BY DEF Closed
  <1>4. host' = [host EXCEPT ![h] = n] /\ UNCHANGED <<card, sent, begun>>
    BY DEF Clear
  <1> HIDE DEF n, o, none
  <1>5. /\ n \in Host /\ n.phase = "idle" /\ n.op = o.op
        /\ n.pin = NoPin /\ ~n.open /\ n.key = NoKey /\ n.chain = none /\ n.counter = 1
        /\ n.result = o.result /\ n.outcome = o.outcome /\ n.disturbed = o.disturbed
    BY <1>1, <1>2, <1>3 DEF Host, NoKey
  <1>6. Good(n)
    BY <1>1, <1>2, <1>5, PhaseFacts DEF Good, none
  <1>7. begun' \in 0 .. MaxOps
    BY <1>4 DEF IInv
  <1> QED BY <1>4, <1>5, <1>6, <1>7, Alone

\* What an exchange makes of the card and of its own host.
LEMMA OwnHost ==
    ASSUME NEW c \in Card, NEW o, Good(o), Fits(o, c), Tracks(o, c), o.phase # "idle",
           NEW fault \in Faults,
           NEW d, d = IF fault = "none" THEN o ELSE [o EXCEPT !.disturbed = TRUE],
           NEW a \in Deliveries(c, Command(o), fault),
           NEW n, n = IF a.ok THEN GoesOn(Wrapped(d), a.data) ELSE Fails(Wrapped(d))
    PROVE  /\ Good(n) /\ Fits(n, a.card) /\ Tracks(n, a.card)
           /\ \/ n.key = NoKey
              \/ /\ n.key = o.key
                 /\ n.counter = o.counter + (IF Encrypted(o) THEN 1 ELSE 0)
              \/ n.key = c.nonce + 1 /\ a.card.nonce = c.nonce + 1
           /\ a.card \in Card /\ a.card.nonce \in {c.nonce, c.nonce + 1}
           /\ a.card = c \/ (a.card.open => a.card.key = o.key)
  <1>1. /\ Good(d) /\ d.phase = o.phase /\ d.op = o.op /\ d.key = o.key
        /\ d.chain = o.chain /\ d.counter = o.counter /\ Command(d) = Command(o)
        /\ Fits(d, c) /\ Tracks(d, c)
    <2>1. d \in {o, [o EXCEPT !.disturbed = TRUE]}
      OBVIOUS
    <2> QED BY <2>1, Disturbing
  <1>2. d.disturbed \/ (fault = "none" /\ d = o)
    BY DEF Good, Host
  <1>3. Command(o).ins \in Inss
    BY CommandFacts
  <1>4. /\ fault = "none" => a \in Answers(c, Command(o))
        /\ a.card = c \/ a.card = Deselected(c)
           \/ \E b \in Answers(c, Command(o)) : a.card = b.card
        /\ a.ok => \E b \in Answers(c, Command(o)) :
                      /\ b.ok /\ a.card = b.card
                      /\ a.data = b.data \/ (fault # "none" /\ a.data = <<>>)
    BY <1>3, Delivered
  <1>5. /\ a.card \in Card /\ a.card.nonce \in {c.nonce, c.nonce + 1}
        /\ a.card = c \/ (a.card.open => a.card.key = o.key)
    <2>1. CASE a.card = c
      BY <2>1
    <2>2. CASE a.card = Deselected(c)
      BY <2>2, DeselectedFacts
    <2>3. CASE \E b \in Answers(c, Command(o)) : a.card = b.card
      BY <2>3, CardKept
    <2> QED BY <1>4, <2>1, <2>2, <2>3
  <1>6. Wrapped(d).counter = o.counter + (IF Encrypted(o) THEN 1 ELSE 0)
    <2>1. Encrypted(d) <=> Encrypted(o)
      BY <1>1 DEF Encrypted, InChannel
    <2>2. Wrapped(d).counter = d.counter + (IF Encrypted(d) THEN 1 ELSE 0)
      BY <1>1, WrappedCounter, Zenon
    <2> QED BY <1>1, <2>1, <2>2
  <1>7. CASE a.ok
    <2>1. PICK b \in Answers(c, Command(d)) :
              /\ b.ok /\ a.card = b.card
              /\ a.data = b.data \/ (fault # "none" /\ a.data = <<>>)
      BY <1>1, <1>4, <1>7
    <2>2. a.data = b.data \/ (d.disturbed /\ a.data = <<>>)
      BY <1>2, <2>1
    <2>3. Moves(d, n, c, a.card)
      BY <1>1, <1>7, <2>1, <2>2, Advancing
    <2>4. d.phase = "update" => a.card.nonce = c.nonce + 1
      BY <1>1, <2>1, CardKept
    <2> QED BY <1>1, <1>5, <1>6, <2>3, <2>4 DEF Moves, KeyMoves
  <1>8. CASE ~a.ok
    <2>1. d.disturbed \/ (d.op.kind = "login" /\ d.op.pin # RightPin)
      BY <1>1, <1>2, <1>4, <1>8, Answered
    <2>2. /\ Good(n) /\ n.phase = "idle"
          /\ n.key = NoKey \/ (n.key = d.key /\ n.counter = Wrapped(d).counter)
      BY <1>1, <1>8, <2>1, Failing
    <2>3. Fits(n, a.card) /\ Tracks(n, a.card)
      BY <2>2, IdleMoves
    <2> QED BY <1>1, <1>5, <1>6, <2>2, <2>3
  <1> QED BY <1>7, <1>8

\* And of the others, whose key is another one.
LEMMA OtherHost ==
    ASSUME NEW c \in Card, NEW o, Good(o), Fits(o, c), NEW e, NEW k,
           e = c \/ (e.open => e.key = k), o.key # NoKey => o.key # k,
           NEW n, n = [o EXCEPT !.disturbed = TRUE] \/ (n = o /\ o.phase = "idle")
    PROVE  /\ Good(n) /\ Fits(n, e) /\ Tracks(n, e)
           /\ n.key = o.key /\ n.counter = o.counter
  <1>1. o \in Host
    BY DEF Good
  <1>2. CASE n = [o EXCEPT !.disturbed = TRUE]
    <2>1. n.disturbed
      BY <1>1, <1>2 DEF Host
    <2>2. /\ Good(n) /\ n.phase = o.phase /\ n.key = o.key /\ n.counter = o.counter
          /\ Fits(n, c)
      BY <1>2, Disturbing
    <2>3. n.phase \in {"last", "more"} => n.key # NoKey
      BY <2>2, PhaseFacts DEF Good
    <2>4. Fits(n, e)
      BY <2>2, <2>3 DEF Fits
    <2>5. Tracks(n, e)
      BY <2>1 DEF Tracks
    <2> QED BY <2>2, <2>4, <2>5
  <1>3. CASE n = o /\ o.phase = "idle"
    BY <1>3, IdleMoves
  <1> QED BY <1>2, <1>3

LEMMA ExchangeKeeps ==
    ASSUME IInv, NEW h \in Hosts, NEW fault \in Faults, Exchange(h, fault)
    PROVE  IInv'
  <1> DEFINE o == host[h]
             m == Command(o)
             d == IF fault = "none" THEN o ELSE [o EXCEPT !.disturbed = TRUE]
             n == host'[h]
  <1>1. o.phase # "idle"
    BY DEF Exchange
  <1>2. PICK a \in Deliveries(card, m, fault) :
            /\ card' = a.card
            /\ host' = [g \in Hosts |->
                  IF g # h THEN [host[g] EXCEPT !.disturbed = @ \/ host[g].phase # "idle"]
                  ELSE IF a.ok THEN GoesOn(Wrapped(d), a.data) ELSE Fails(Wrapped(d))]
    BY DEF Exchange
  <1>3. /\ Good(o) /\ Fits(o, card) /\ Tracks(o, card) /\ card \in Card
        /\ o.key \in Nat /\ o.counter \in Nat /\ card.nonce \in Nat /\ o.key <= card.nonce
    BY Parts
  <1>4. n = IF a.ok THEN GoesOn(Wrapped(d), a.data) ELSE Fails(Wrapped(d))
    BY <1>2
  <1>5. /\ Good(n) /\ Fits(n, card') /\ Tracks(n, card')
        /\ \/ n.key = NoKey
           \/ /\ n.key = o.key
              /\ n.counter = o.counter + (IF Encrypted(o) THEN 1 ELSE 0)
           \/ n.key = card.nonce + 1 /\ card'.nonce = card.nonce + 1
        /\ card' \in Card /\ card'.nonce \in {card.nonce, card.nonce + 1}
        /\ card' = card \/ (card'.open => card'.key = o.key)
    <2> HIDE DEF d, n, o
    <2>1. d = IF fault = "none" THEN o ELSE [o EXCEPT !.disturbed = TRUE]
      BY DEF d
    <2>2. n = IF a.ok THEN GoesOn(Wrapped(d), a.data) ELSE Fails(Wrapped(d))
      BY <1>4
    <2>3. o.phase # "idle"
      BY <1>1 DEF o
    <2> QED BY <1>2, <1>3, <2>1, <2>2, <2>3, OwnHost
  <1>6. \A g \in Hosts : g # h =>
            /\ Good(host'[g]) /\ Fits(host'[g], card') /\ Tracks(host'[g], card')
            /\ host'[g].key = host[g].key /\ host'[g].counter = host[g].counter
    <2> TAKE g \in Hosts
    <2> HAVE g # h
    <2>1. host'[g] = [host[g] EXCEPT !.disturbed = @ \/ host[g].phase # "idle"]
      BY <1>2
    <2>2. host[g].key # NoKey => host[g].key # o.key
      BY DEF IInv, KeysDiffer
    <2>3. Good(host[g]) /\ Fits(host[g], card)
      BY Parts
    <2> HIDE DEF o
    <2>4. card' = card \/ (card'.open => card'.key = o.key)
      BY <1>5
    <2> DEFINE q == host[g]
               f == host'[g]
               k == o.key
    <2>5. f = [q EXCEPT !.disturbed = TRUE] \/ (f = q /\ q.phase = "idle")
      <3>1. CASE q.disturbed \/ q.phase # "idle"
        BY <2>1, <3>1
      <3>2. CASE ~q.disturbed /\ q.phase = "idle"
        <4>1. q \in Host
          BY <2>3 DEF Good
        <4>2. f = [q EXCEPT !.disturbed = FALSE]
          BY <2>1, <3>2
        <4>3. f = q
          <5> HIDE DEF f, q
          <5> QED BY <3>2, <4>1, <4>2 DEF Host
        <4> QED BY <3>2, <4>3
      <3> QED BY <3>1, <3>2
    <2>6. /\ card \in Card /\ Good(q) /\ Fits(q, card)
          /\ card' = card \/ (card'.open => card'.key = k)
          /\ q.key # NoKey => q.key # k
      BY <1>3, <2>2, <2>3, <2>4
    <2> HIDE DEF q, f, k
    <2>7. /\ Good(f) /\ Fits(f, card') /\ Tracks(f, card')
          /\ f.key = q.key /\ f.counter = q.counter
      BY <2>5, <2>6, OtherHost
    <2> QED BY <2>7 DEF q, f
  <1> HIDE DEF n, o, d
  <1>7. n.key \in Nat /\ n.counter \in Nat /\ n.key <= card'.nonce
    BY <1>3, <1>5 DEF Good, Host, NoKey
  <1>8. \A g \in Hosts : /\ Good(host'[g]) /\ host'[g].key <= card'.nonce
                         /\ Fits(host'[g], card') /\ Tracks(host'[g], card')
    <2> TAKE g \in Hosts
    <2>1. CASE g = h
      BY <1>5, <1>7, <2>1 DEF n
    <2>2. CASE g # h
      <3>1. host[g].key \in Nat /\ host[g].key <= card.nonce
        BY Parts
      <3>2. host'[g].key <= card'.nonce
        BY <1>3, <1>5, <1>6, <2>2, <3>1
      <3> QED BY <1>6, <2>2, <3>2
    <2> QED BY <2>1, <2>2
  <1>9. host' \in [Hosts -> Host]
    <2>1. \A g \in Hosts : host'[g] \in Host
      BY <1>8 DEF Good
    <2> QED BY <1>2, <2>1
  <1>10. n.key = NoKey \/ n.key = o.key \/ n.key = card.nonce + 1
    BY <1>5
  <1>11. KeysDiffer'
    <2> SUFFICES ASSUME NEW f \in Hosts, NEW g \in Hosts, f # g, host'[f].key # NoKey
                 PROVE  host'[f].key # host'[g].key
      BY DEF KeysDiffer
    <2>1. \A i \in Hosts : host[i].key \in Nat /\ host[i].key <= card.nonce
      BY Parts
    <2>2. \A i, j \in Hosts : i # j /\ host[i].key # NoKey => host[i].key # host[j].key
      BY DEF IInv, KeysDiffer
    <2>3. \A i \in Hosts : i # h => host'[i].key = host[i].key
      BY <1>6
    <2>4. CASE f = h
      BY <1>3, <1>10, <2>1, <2>2, <2>3, <2>4 DEF n, o
    <2>5. CASE g = h
      BY <1>3, <1>10, <2>1, <2>2, <2>3, <2>5 DEF n, o
    <2>6. CASE f # h /\ g # h
      BY <2>2, <2>3, <2>6
    <2> QED BY <2>4, <2>5, <2>6
  <1> DEFINE new == [key |-> m.key, counter |-> m.counter, text |-> m.text]
  <1>12. sent' = IF Encrypted(o) THEN sent \cup {new} ELSE sent
    BY DEF Exchange, o
  <1>13. Encrypted(o) => /\ new.key = o.key /\ new.counter = o.counter /\ o.key # NoKey
                         /\ n.key = NoKey
                            \/ (n.key = o.key /\ n.counter = o.counter + 1)
                            \/ n.key = card.nonce + 1
    <2> HAVE Encrypted(o)
    <2>1. o.phase \in Secured
      BY DEF Encrypted, InChannel
    <2>2. m.key = o.key /\ m.counter = o.counter
      BY <1>3, <2>1, PhaseFacts, CommandFacts
    <2> QED BY <1>3, <1>5, <2>1, <2>2 DEF Good
  <1> HIDE DEF new, m
  <1>14. SentBefore'
    <2>1. \A e \in sent : /\ e.key \in Nat /\ e.key # NoKey /\ e.key <= card.nonce
                          /\ e.counter \in Nat
      BY DEF IInv, SentBefore
    <2>2. \A e \in sent, g \in Hosts : e.key = host[g].key => e.counter < host[g].counter
      BY DEF IInv, SentBefore
    <2>3. \A e \in sent' : /\ e.key \in Nat /\ e.key # NoKey /\ e.key <= card'.nonce
                           /\ e.counter \in Nat
      <3> TAKE e \in sent'
      <3>1. CASE e \in sent
        BY <1>3, <1>5, <2>1, <3>1
      <3>2. CASE e = new /\ Encrypted(o)
        BY <1>3, <1>5, <1>13, <3>2
      <3> QED BY <1>12, <3>1, <3>2
    <2>4. \A e \in sent', g \in Hosts : e.key = host'[g].key => e.counter < host'[g].counter
      <3> TAKE e \in sent', g \in Hosts
      <3> HAVE e.key = host'[g].key
      <3>1. CASE e \in sent /\ g # h
        BY <1>6, <2>2, <3>1
      <3>2. CASE e \in sent /\ g = h
        <4>1. n.key = o.key /\ n.counter = o.counter + (IF Encrypted(o) THEN 1 ELSE 0)
          BY <1>3, <1>5, <2>1, <3>2 DEF n
        <4>2. e.counter < o.counter /\ e.counter \in Nat
          BY <2>1, <2>2, <3>2, <4>1 DEF n, o
        <4>3. o.counter <= n.counter
          BY <1>3, <4>1
        <4>4. e.counter < n.counter
          BY <1>3, <1>7, <4>2, <4>3
        <4> QED BY <3>2, <4>4 DEF n
      <3>3. CASE e = new /\ Encrypted(o) /\ g # h
        <4>1. host[g].key = o.key /\ o.key # NoKey
          BY <1>6, <1>13, <3>3
        <4> QED BY <3>3, <4>1 DEF IInv, KeysDiffer, o
      <3>4. CASE e = new /\ Encrypted(o) /\ g = h
        <4>1. e.key = n.key /\ e.key = o.key /\ e.counter = o.counter
          BY <1>13, <3>4 DEF n
        <4>2. n.counter = o.counter + 1
          BY <1>3, <1>13, <3>4, <4>1
        <4>3. e.counter < n.counter
          BY <1>3, <4>1, <4>2
        <4> QED BY <3>4, <4>3 DEF n
      <3> QED BY <1>12, <3>1, <3>2, <3>3, <3>4
    <2>5. \A e, f \in sent' : e.key = f.key /\ e.counter = f.counter => e.text = f.text
      <3>1. \A e, f \in sent : e.key = f.key /\ e.counter = f.counter => e.text = f.text
        BY DEF IInv, SentBefore
      <3>2. Encrypted(o) => \A e \in sent : e.key = new.key => e.counter # new.counter
        <4>1. \A e \in sent : e.key = o.key => e.counter < o.counter /\ e.counter \in Nat
          BY <2>1, <2>2 DEF o
        <4> QED BY <1>3, <1>13, <4>1
      <3> QED BY <1>12, <3>1, <3>2
    <2> QED BY <2>3, <2>4, <2>5 DEF SentBefore
  <1>15. begun' \in 0 .. MaxOps
    BY DEF Exchange, IInv
  <1> QED BY <1>5, <1>8, <1>9, <1>11, <1>14, <1>15 DEF IInv

-----------------------------------------------------------------------------

LEMMA NextKeeps == IInv /\ [Next]_vars => IInv'
  <1> SUFFICES ASSUME IInv, [Next]_vars
               PROVE  IInv'
    OBVIOUS
  <1>1. ASSUME NEW h \in Hosts, NEW op \in Ops, Begin(h, op)
        PROVE  IInv'
    BY <1>1, BeginKeeps
  <1>2. ASSUME NEW h \in Hosts, Clear(h)
        PROVE  IInv'
    BY <1>2, ClearKeeps
  <1>3. ASSUME NEW h \in Hosts, NEW fault \in Faults, Exchange(h, fault)
        PROVE  IInv'
    BY <1>3, ExchangeKeeps
  <1>4. CASE UNCHANGED vars
    BY <1>4 DEF vars, IInv, KeysDiffer, SentBefore
  <1> QED BY <1>1, <1>2, <1>3, <1>4 DEF Next

LEMMA Invariance == Spec => []IInv
  <1> QED BY InitHolds, NextKeeps, PTL DEF Spec

LEMMA ShapeHolds == IInv => TypeOK
  BY Parts DEF IInv, Good, Host, TypeOK

\* No counter is used for two texts under one session key, for any number of
\* hosts and operations and whatever becomes of their exchanges (wrap_command).
THEOREM CountersStayFresh == Spec => []CountersAreFresh
  <1>1. IInv => CountersAreFresh
    BY ShapeHolds DEF IInv, SentBefore, CountersAreFresh
  <1> QED BY <1>1, Invariance, PTL

\* What a private operation returns is the card's answer to its own key and
\* block, whoever else uses the card meanwhile (rsa_private).
THEOREM ResultsBelongToTheCall == Spec => []ResultsAreOfTheCall
  <1>1. IInv => ResultsAreOfTheCall
    BY Parts DEF Good, Out, ResultsAreOfTheCall
  <1> QED BY <1>1, Invariance, PTL

\* An operation that nothing disturbs succeeds whatever went before it, but for a
\* login with a wrong PIN (prepare_for_private_op, verify_pin).
THEOREM OperationsRecover == Spec => []UndisturbedOperationsSucceed
  <1>1. IInv => UndisturbedOperationsSucceed
    BY Parts DEF Good, UndisturbedOperationsSucceed
  <1> QED BY <1>1, Invariance, PTL

\* No card can keep an operation going (the loop of rsa_private): one that has
\* nothing to give ends it, and one that gives whole halves ends it at seven.
THEOREM OperationsEnd == Spec => []OperationsAreBounded
  <1>1. IInv => OperationsAreBounded
    BY Parts DEF Good, OperationsAreBounded
  <1> QED BY <1>1, Invariance, PTL
=============================================================================
