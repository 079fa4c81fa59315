------------------------------- MODULE Scp03 -------------------------------
(***************************************************************************)
(* The secure channel of a Gen2 card (apdu/gen2.rs): how several hosts --  *)
(* threads with their own thread-local channel, or processes that share    *)
(* the reader -- log in and use the private keys of one card, one exchange *)
(* at a time.  No host holds the card for longer than an exchange; an      *)
(* exchange may be lost on its way to the card or back, or be sent twice.  *)
(* MACs, keys and ciphertexts are symbolic: a MAC is the session key and   *)
(* the chain of commands it covers.                                        *)
(***************************************************************************)
EXTENDS Integers, Sequences

CONSTANTS
    Hosts,      \* threads and processes
    Pins, RightPin,
    KeyRefs,    \* private keys on the card
    Chunks,     \* halves of an RSA block
    MaxOps,     \* bound on the operations begun
    Faults      \* what may happen to an exchange: see Deliveries

ASSUME PinAssumption == RightPin \in Pins
ASSUME FaultAssumption == Faults \subseteq {"none", "lost", "unanswered", "short", "resent"}
ASSUME OpsAssumption == MaxOps \in Nat

VARIABLES
    host,   \* the thread-locals of each host and the operation it is in
    card,   \* the card: channel, verification, directory, RSA command
    sent,   \* every encrypted command: its key, its counter, its text
    begun   \* operations begun

vars == <<host, card, sent, begun>>

NoKey == 0
NoPin == "none"
NoOp == [kind |-> "none"]

\* open_scp03 with sm_verify, sm_select_fid and the commands of rsa_private.
Secured == {"verify", "df", "keydf", "first", "last", "more"}
Phases == {"idle", "keys", "applet", "update", "authenticate"} \cup Secured

Blocks == Chunks \X Chunks

Ops == [kind : {"login"}, pin : Pins] \cup [kind : {"private"}, key : KeyRefs, block : Blocks]

\* Scp03Session::closed, as fields of the host.
Closed(o) == [o EXCEPT !.open = FALSE, !.key = NoKey, !.chain = <<>>, !.counter = 1]

FreshHost == [phase |-> "idle", op |-> NoOp, known |-> FALSE, pin |-> NoPin,
              open |-> FALSE, key |-> NoKey, chain |-> <<>>, counter |-> 1,
              result |-> <<>>, outcome |-> "none", disturbed |-> FALSE]

FreshCard == [nonce |-> 0, key |-> NoKey, open |-> FALSE, chain |-> <<>>, counter |-> 1,
              verified |-> FALSE, dir |-> "none", held |-> <<>>, output |-> <<>>]

Init ==
    /\ host = [h \in Hosts |-> FreshHost]
    /\ card = FreshCard
    /\ sent = {}
    /\ begun = 0

-----------------------------------------------------------------------------
\* The card.  An applet that is selected anew has no channel, no verified PIN
\* and no RSA command under way.
Deselected(c) == [FreshCard EXCEPT !.nonce = c.nonce]

\* Faulty variant: the challenges are left out of the derivation.
SessionKeyOfCard(nonce) == 1

\* scp03_kdf over both challenges: every INITIALIZE UPDATE gives a new key.
SessionKey(nonce) == nonce

Answer(c, ok, data) == [card |-> c, ok |-> ok, data |-> data]

Refused(c) == Answer(Deselected(c), FALSE, <<>>)

\* What a command does that came through the channel.  The last EA returns the
\* first half of the result or leaves both to C1, which returns a half at a time.
Executed(c, t) ==
    CASE t.ins = "verify" ->
             {Answer([c EXCEPT !.verified = (t.pin = RightPin)], t.pin = RightPin, <<>>)}
      [] t.ins = "select" -> {Answer([c EXCEPT !.dir = t.fid], TRUE, <<>>)}
      [] t.ins = "first" /\ c.verified /\ c.dir = "0810" ->
             {Answer([c EXCEPT !.held = <<t.chunk>>, !.output = <<>>], TRUE, <<>>)}
      [] t.ins = "last" /\ c.verified /\ c.dir = "0810" /\ Len(c.held) = 1 ->
             LET out == [i \in 1 .. 2 |-> <<t.key, c.held[1], t.chunk, i>>]
             IN {Answer([c EXCEPT !.held = <<>>, !.output = SubSeq(out, n + 1, 2)], TRUE,
                        SubSeq(out, 1, n)) : n \in 0 .. 1}
      [] t.ins = "more" ->
             LET n == IF c.output = <<>> THEN 0 ELSE 1
             IN {Answer([c EXCEPT !.output = SubSeq(@, n + 1, Len(@))], TRUE,
                        SubSeq(c.output, 1, n))}
      [] OTHER -> {Refused(c)}

\* A secured command passes if its MAC covers what the card received in this
\* channel and its counter is the card's.
Passes(c, m) == c.open /\ m.key = c.key /\ m.chain = Append(c.chain, m.text) /\ m.counter = c.counter

Received(c, m) == [c EXCEPT !.chain = m.chain, !.counter = m.counter + (IF m.enc THEN 1 ELSE 0)]

Answers(c, m) ==
    CASE m.ins = "keys"   -> {Answer(Deselected(c), TRUE, <<"id">>)}
      [] m.ins = "applet" -> {Answer(Deselected(c), TRUE, <<>>)}
      [] m.ins = "update" ->
             LET n == c.nonce + 1
             IN {Answer([Deselected(c) EXCEPT !.nonce = n, !.key = SessionKey(n)], TRUE,
                        <<SessionKey(n)>>)}
      [] m.ins = "authenticate" ->
             {IF c.key = m.key /\ c.key # NoKey
              THEN Answer([c EXCEPT !.open = TRUE], TRUE, <<>>) ELSE Refused(c)}
      [] m.ins = "secured" -> IF Passes(c, m) THEN Executed(Received(c, m), m.text) ELSE {Refused(c)}

\* PcscConn::transmit.  Lost: the card does not see the command.  Unanswered:
\* it does, and its answer is lost.  Short: the answer comes without its data.
\* Resent: after a 6C the command goes out
\* again with its last byte replaced -- the Le, or a byte of the MAC; the card
\* may have counted the first.
HasLe(m) == IF m.ins = "secured" THEN m.text.ins \in {"last", "more"}
            ELSE m.ins # "authenticate"

Deliveries(c, m, fault) ==
    CASE fault = "none"       -> Answers(c, m)
      [] fault = "lost"       -> {Answer(c, FALSE, <<>>)}
      [] fault = "unanswered" -> {[a EXCEPT !.ok = FALSE, !.data = <<>>] : a \in Answers(c, m)}
      [] fault = "short"      -> {[a EXCEPT !.data = <<>>] : a \in Answers(c, m)}
      [] fault = "resent"     -> {Refused(c)} \cup IF HasLe(m) THEN Answers(c, m) ELSE {}

-----------------------------------------------------------------------------
\* The host.  What it sends in each phase.
Text(o) ==
    CASE o.phase = "verify" ->
             [ins |-> "verify", pin |-> IF o.op.kind = "login" THEN o.op.pin ELSE o.pin]
      [] o.phase = "df"    -> [ins |-> "select", fid |-> "5030"]
      [] o.phase = "keydf" -> [ins |-> "select", fid |-> "0810"]
      [] o.phase = "first" -> [ins |-> "first", key |-> o.op.key, chunk |-> o.op.block[1]]
      [] o.phase = "last"  -> [ins |-> "last", key |-> o.op.key, chunk |-> o.op.block[2]]
      [] o.phase = "more"  -> [ins |-> "more"]

InChannel(o) == o.phase \in Secured

\* Only a command with data is encrypted.
Encrypted(o) == InChannel(o) /\ o.phase # "more"

Command(o) ==
    IF InChannel(o)
    THEN [ins |-> "secured", key |-> o.key, counter |-> o.counter, text |-> Text(o),
          chain |-> Append(o.chain, Text(o)), enc |-> Encrypted(o)]
    ELSE [ins |-> o.phase, key |-> o.key]

\* wrap_command moves the MAC chain and the counter on before the command is
\* sent, whatever becomes of it.
Wrapped(o) ==
    IF InChannel(o)
    THEN [o EXCEPT !.chain = Append(@, Text(o)), !.counter = IF Encrypted(o) THEN @ + 1 ELSE @]
    ELSE o

Over(o, outcome) ==
    [o EXCEPT !.phase = "idle", !.outcome = outcome]

\* A channel that was not opened stays closed; one in which the PIN was refused
\* is closed; any other is left as it is.
Fails(o) ==
    LET e == Over(o, "error")
    IN IF InChannel(o) /\ o.phase # "verify" THEN e
       ELSE IF o.phase = "keys" THEN e ELSE Closed(e)

Following == [applet |-> "update", verify |-> "df", df |-> "keydf", keydf |-> "first",
              first |-> "last"]

\* Faulty variant: an empty answer to C1 is no error.
CollectedUnchecked(o, data) ==
    LET r == [o EXCEPT !.result = @ \o data]
    IN IF Len(r.result) = 2 THEN Over(r, "ok") ELSE [r EXCEPT !.phase = "more"]

\* Faulty variant: the first answer to C1 is the last.
CollectedOnce(o, data) ==
    LET r == [o EXCEPT !.result = @ \o data]
    IN IF o.phase = "more" /\ data # <<>> THEN Over(r, "ok")
       ELSE IF o.phase = "more" THEN Fails(o) ELSE [r EXCEPT !.phase = "more"]

\* rsa_private collects the answers until it has both halves of the block.  The
\* cards here answer with whole halves, as those in use do, so that a result is
\* never longer than a block and the error for that has no case.
Collected(o, data) ==
    LET r == [o EXCEPT !.result = @ \o data]
    IN IF o.phase = "more" /\ data = <<>> THEN Fails(o)
       ELSE IF Len(r.result) = 2 THEN Over(r, "ok") ELSE [r EXCEPT !.phase = "more"]

GoesOn(o, data) ==
    CASE o.phase \in {"keys", "update"} /\ data = <<>> -> Fails(o)
      [] o.phase \in {"last", "more"} -> Collected(o, data)
      [] o.phase = "keys" /\ data # <<>> ->
             [Closed(o) EXCEPT !.phase = "applet", !.known = TRUE]
      [] o.phase = "update" /\ data # <<>> ->
             [o EXCEPT !.phase = "authenticate", !.key = data[1]]
      [] o.phase = "authenticate" -> [o EXCEPT !.phase = "verify", !.open = TRUE]
      [] o.phase = "verify" /\ o.op.kind = "login" -> Over([o EXCEPT !.pin = o.op.pin], "ok")
      [] OTHER -> [o EXCEPT !.phase = Following[o.phase]]

\* Faulty variant: a channel that is open is used again.
EnteredReusing(o, op) ==
    [o EXCEPT !.op = op, !.result = <<>>, !.outcome = "none", !.disturbed = FALSE,
              !.pin = IF op.kind = "login" THEN NoPin ELSE @,
              !.phase = IF o.open THEN (IF op.kind = "login" THEN "verify" ELSE "df")
                        ELSE IF o.known THEN "applet" ELSE "keys"]

\* verify_pin forgets channel and PIN at once, prepare_for_private_op the channel
\* when it has the static keys.
Entered(o, op) ==
    [IF op.kind = "login" \/ o.known THEN Closed(o) ELSE o EXCEPT
        !.op = op, !.result = <<>>, !.outcome = "none", !.disturbed = FALSE,
        !.pin = IF op.kind = "login" THEN NoPin ELSE @,
        !.phase = IF o.known THEN "applet" ELSE "keys"]

\* A private operation needs the PIN of a login.
Begin(h, op) ==
    /\ host[h].phase = "idle" /\ begun < MaxOps
    /\ op.kind = "private" => host[h].pin # NoPin
    /\ host' = [host EXCEPT ![h] = Entered(@, op)]
    /\ begun' = begun + 1
    /\ UNCHANGED <<card, sent>>

\* clear_auth_state
Clear(h) ==
    /\ host[h].phase = "idle"
    /\ host' = [host EXCEPT ![h] = [Closed(@) EXCEPT !.pin = NoPin, !.known = FALSE]]
    /\ UNCHANGED <<card, sent, begun>>

\* One exchange; what another host does in between disturbs an operation.
Exchange(h, fault) ==
    LET m == Command(host[h])
        disturbs(o) == IF fault = "none" THEN o ELSE [o EXCEPT !.disturbed = TRUE]
    IN /\ host[h].phase # "idle"
       /\ \E a \in Deliveries(card, m, fault) :
             /\ card' = a.card
             /\ host' = [g \in Hosts |->
                   IF g # h THEN [host[g] EXCEPT !.disturbed = @ \/ host[g].phase # "idle"]
                   ELSE IF a.ok THEN GoesOn(Wrapped(disturbs(host[h])), a.data)
                   ELSE Fails(Wrapped(disturbs(host[h])))]
       /\ sent' = IF Encrypted(host[h])
                  THEN sent \cup {[key |-> m.key, counter |-> m.counter, text |-> m.text]}
                  ELSE sent
       /\ UNCHANGED begun

Next ==
    \E h \in Hosts :
        \/ \E op \in Ops : Begin(h, op)
        \/ Clear(h)
        \/ \E fault \in Faults : Exchange(h, fault)

Spec == Init /\ [][Next]_vars

-----------------------------------------------------------------------------
\* The state keeps its shape: a closed channel is as Scp03Session::closed made
\* it, and whoever has a PIN has the static keys.
TypeOK ==
    /\ \A h \in Hosts :
          LET o == host[h]
          IN /\ o.phase \in Phases
             /\ o.op \in Ops \cup {NoOp}
             /\ o.pin \in {NoPin, RightPin}
             /\ o.pin # NoPin => o.known
             /\ ~o.open => o.chain = <<>> /\ o.counter = 1
    /\ card.nonce \in Nat /\ begun \in 0 .. MaxOps

\* The state keeps its shape, and no counter is used for two different texts under one session key, with
\* whatever commands lost, repeated or refused (wrap_command, open_scp03): the
\* initial vector of AES-CBC is made from the counter.
CountersAreFresh ==
    /\ TypeOK
    /\ \A a, b \in sent : a.key = b.key /\ a.counter = b.counter => a.text = b.text

\* A private operation that succeeds returns the two halves, in order, of what
\* the card computed from this call's key and block, however the exchanges of
\* several hosts mix on the card and whatever is lost (rsa_private).
ResultsAreOfTheCall ==
    \A h \in Hosts :
        LET o == host[h]
        IN o.outcome = "ok" /\ o.op.kind = "private" =>
              o.result = [i \in 1 .. 2 |-> <<o.op.key, o.op.block[1], o.op.block[2], i>>]

\* Whatever went wrong before, an operation that nothing disturbs succeeds, but
\* for a login with a wrong PIN: no fault and no other host leaves a channel,
\* a counter or a card behind that the next operation trips over
\* (prepare_for_private_op, verify_pin).
UndisturbedOperationsSucceed ==
    \A h \in Hosts :
        LET o == host[h]
        IN o.outcome = "error" /\ ~o.disturbed => o.op.kind = "login" /\ o.op.pin # RightPin

\* An operation ends after a few commands, whatever the card answers: VERIFY, two
\* SELECTs, two halves in and two out (the loop of rsa_private).  Seven is the
\* number for cards that answer with whole halves; what makes it finite for any
\* card is that the loop gives up when an answer to C1 brings nothing.
OperationsAreBounded == \A h \in Hosts : Len(host[h].chain) <= 7

=============================================================================
