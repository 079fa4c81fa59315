-------------------------------- MODULE Gen1 --------------------------------
(***************************************************************************)
(* Operations on a Gen1 card by the exchange (apdu/gen1.rs; of p15.rs, as  *)
(* far as they move the selected file, the reads): VERIFY, the private     *)
(* operation in two EA commands and as many C1 reads as it takes, and a    *)
(* file read.  Nothing ties the exchanges of an operation together but a   *)
(* mutex of this process: GLOBAL for the PKCS#11 functions, CARD_LOCK for  *)
(* the Rust API.  Hosts are threads that use the card through either.      *)
(***************************************************************************)
EXTENDS Naturals, Sequences, FiniteSets

CONSTANTS
    Hosts,        \* threads that use the card
    LockChoices,  \* which mutex each of them takes
    Chunk,        \* RSA_CHUNK_LEN, units of data in one exchange
    MaxOps,       \* bound on the operations begun by all hosts together
    Faults        \* what may happen to an exchange

ASSUME ChunkAssumption == Chunk \in Nat \ {0} /\ MaxOps \in Nat
ASSUME FaultsAssumption == Faults \subseteq {"none", "lost", "reply", "odd"} /\ "none" \in Faults

VARIABLES
    lockOf,   \* the mutex of each host
    host,     \* the operation of each host
    card,     \* the card
    begun     \* operations begun; the number of an operation stands for its input

vars == <<lockOf, host, card, begun>>

Block == 2 * Chunk   \* RSA_BLOCK_LEN
Ops == 0 .. MaxOps   \* 0: none
Kinds == {"verify", "use", "read"}
Phases == {"idle", "direct", "mf", "df", "file", "verify", "first", "second", "more", "binary"}

\* A unit of a result: the operations whose halves the input was made of, and
\* its place in the block.
Unit == [first : Ops, second : Ops, at : 1 .. Block]

\* status is the card's security status at the beginning of the operation;
\* faulted and disturbed say whether an exchange failed since then and whether
\* another host's exchange came in between.
HostRecord ==
    [phase : Phases, kind : Kinds, op : Ops, right : BOOLEAN, result : Seq(Unit),
     outcome : {"none", "ok", "error"}, status : BOOLEAN, faulted : BOOLEAN, disturbed : BOOLEAN]

\* at is what is selected, the master file, the card DF, its key EF or a file
\* read by operation file; chain is the first half given, out the two halves
\* the result was computed from.
CardRecord ==
    [at : {"mf", "df", "keyef", "file"}, file : Ops, verified : BOOLEAN,
     chain : Ops, out : Ops \X Ops]

-----------------------------------------------------------------------------
(* The card: what it answers and what it is like afterwards. *)

Refused == [ok |-> FALSE, units |-> <<>>, card |-> card]
Answer(units, k) == [ok |-> TRUE, units |-> units, card |-> k]

\* A SELECT may or may not end a command chain.
Selects(k) == {Answer(<<>>, k), Answer(<<>>, [k EXCEPT !.chain = 0])}

\* EF.0810 and the other files are found from anywhere in the card DF.
SelectKeyFile ==
    IF card.at = "mf" THEN {Refused} ELSE Selects([card EXCEPT !.at = "keyef"])
SelectFile(op) ==
    IF card.at = "mf" THEN {Refused} ELSE Selects([card EXCEPT !.at = "file", !.file = op])

Verify(right) ==
    IF card.at # "keyef" THEN {Refused}
    ELSE {[ok |-> right, units |-> <<>>, card |-> [card EXCEPT !.verified = right]]}

\* n units of the result that begin behind the first offset ones.
Units(out, offset, n) ==
    [i \in 1 .. n |-> [first |-> out[1], second |-> out[2], at |-> offset + i]]

Usable == card.at = "keyef" /\ card.verified

FirstHalf(op) ==
    IF ~Usable THEN {Refused} ELSE {Answer(<<>>, [card EXCEPT !.chain = op])}

SecondHalf(op) ==
    IF ~Usable \/ card.chain = 0 THEN {Refused}
    ELSE LET out == <<card.chain, op>>
         IN {Answer(Units(out, 0, n), [card EXCEPT !.chain = 0, !.out = out]) : n \in 0 .. Chunk}

\* C1: as much of what was asked for as the card likes; an odd answer is empty
\* or longer.
ReadResult(offset, odd) ==
    IF card.out = <<0, 0>> THEN {Refused}
    ELSE {Answer(Units(card.out, offset, n), card) :
             n \in {m \in 0 .. Chunk : odd <=> m = 0 \/ offset + m > Block}}

ReadBinary ==
    IF card.at # "file" THEN {Refused}
    ELSE {Answer(Units(<<card.file, card.file>>, 0, 1), card)}

-----------------------------------------------------------------------------
Idle ==
    [phase |-> "idle", kind |-> "read", op |-> 0, right |-> TRUE, result |-> <<>>,
     outcome |-> "none", status |-> FALSE, faulted |-> FALSE, disturbed |-> FALSE]

Init ==
    /\ lockOf \in LockChoices
    /\ host = [h \in Hosts |-> Idle]
    /\ card \in [at : {"mf", "df"}, file : {0}, verified : BOOLEAN, chain : {0}, out : {<<0, 0>>}]
    /\ begun = 0

Busy(h) == host[h].phase # "idle"

\* Faulty variant: the buffer of the last result is used again as it is.
NewOperationKeepsResult(h, kind, right) ==
    [Idle EXCEPT !.phase = IF kind = "read" THEN "mf" ELSE "direct", !.kind = kind,
                 !.op = begun + 1, !.right = right, !.status = card.verified,
                 !.result = host[h].result]

\* A read begins with select_card_df, the others with select_key_ef.
NewOperation(h, kind, right) ==
    [Idle EXCEPT !.phase = IF kind = "read" THEN "mf" ELSE "direct", !.kind = kind,
                 !.op = begun + 1, !.right = right, !.status = card.verified]

\* The host gets its mutex, which nobody else holds.
Start(h, kind, right) ==
    /\ ~Busy(h) /\ \A g \in Hosts : Busy(g) => lockOf[g] # lockOf[h]
    /\ begun < MaxOps
    /\ kind # "verify" => right
    /\ begun' = begun + 1
    /\ host' = [host EXCEPT ![h] = NewOperation(h, kind, right)]
    /\ UNCHANGED <<lockOf, card>>

\* What the card may answer to the exchange of this phase.
Answers(s, f) ==
    CASE s.phase = "mf"     -> Selects([card EXCEPT !.at = "mf"])
      [] s.phase = "df"     -> Selects([card EXCEPT !.at = "df"])
      [] s.phase = "direct" -> SelectKeyFile
      [] s.phase = "file"   -> IF s.kind = "read" THEN SelectFile(s.op) ELSE SelectKeyFile
      [] s.phase = "verify" -> Verify(s.right)
      [] s.phase = "first"  -> FirstHalf(s.op)
      [] s.phase = "second" -> SecondHalf(s.op)
      [] s.phase = "more"   -> ReadResult(Len(s.result), f = "odd")
      [] s.phase = "binary" -> ReadBinary

Return(s, outcome) == [s EXCEPT !.phase = "idle", !.outcome = outcome]

\* Faulty variant: what failed is tried again from the beginning.
StartsOver(s) == [s EXCEPT !.phase = "mf", !.result = <<>>]

\* `?` and map_err: an exchange that failed ends the operation.
GivesUp(s) == Return(s, "error")

\* Behind select_key_ef, or behind the SELECT of a file.
Selected(s) ==
    [s EXCEPT !.phase = CASE s.kind = "verify" -> "verify"
                          [] s.kind = "use"    -> "first"
                          [] s.kind = "read"   -> "binary"]

\* A C1 answer is not empty and not longer than want.
Fits(s, n) == n > 0 /\ n <= Block - Len(s.result)

\* The loop that collects the result ends when the block is full.
Collected(s, units) ==
    LET s1 == [s EXCEPT !.result = @ \o units]
    IN IF Len(s1.result) < Block THEN [s1 EXCEPT !.phase = "more"]
       ELSE Return(s1, IF Len(s1.result) = Block THEN "ok" ELSE "error")

\* Faulty variant: select_key_ef does not start again from the master file.
AfterDirectSelectGivesUp(s, ok) == IF ok THEN Selected(s) ELSE Return(s, "error")

\* The first SELECT may fail; select_key_ef then goes down from the master file.
AfterDirectSelect(s, ok) == IF ok THEN Selected(s) ELSE [s EXCEPT !.phase = "mf"]

\* What the host does with an answer, or with an exchange that failed.
After(s, ok, units) ==
    CASE s.phase = "direct"             -> AfterDirectSelect(s, ok)
      [] s.phase # "direct" /\ ~ok      -> GivesUp(s)
      [] s.phase = "mf" /\ ok           -> [s EXCEPT !.phase = "df"]
      [] s.phase = "df" /\ ok           -> [s EXCEPT !.phase = "file"]
      [] s.phase = "file" /\ ok         -> Selected(s)
      [] s.phase = "verify" /\ ok       -> Return(s, "ok")
      [] s.phase = "first" /\ ok        -> [s EXCEPT !.phase = "second"]
      [] s.phase = "second" /\ ok       -> Collected(s, units)
      [] s.phase = "more" /\ ok         -> IF Fits(s, Len(units)) THEN Collected(s, units)
                                                                  ELSE Return(s, "error")
      [] s.phase = "binary" /\ ok       -> Return([s EXCEPT !.result = units], "ok")

\* One exchange.  A command that is lost does not reach the card; one whose
\* reply is lost does.  To the host both have failed.
Exchange(h, f) ==
    /\ Busy(h)
    /\ f = "odd" => host[h].phase = "more"
    /\ \E a \in Answers(host[h], f) :
          /\ card' = IF f = "lost" THEN card ELSE a.card
          /\ host' = [g \in Hosts |->
                IF g = h
                THEN After([host[h] EXCEPT !.faulted = @ \/ f # "none"], a.ok /\ f \in {"none", "odd"}, a.units)
                ELSE [host[g] EXCEPT !.disturbed = @ \/ Busy(g)]]
    /\ UNCHANGED <<lockOf, begun>>

Step(h) == \E f \in Faults : Exchange(h, f)

Next ==
    \E h \in Hosts : Step(h) \/ \E kind \in Kinds, right \in BOOLEAN : Start(h, kind, right)

Spec == Init /\ [][Next]_vars

\* An operation that has begun goes on: PC/SC answers every exchange or fails it.
FairSpec == Spec /\ \A h \in Hosts : WF_vars(Step(h))

-----------------------------------------------------------------------------
\* The state keeps its shape, and the result buffer its length.
TypeOK ==
    /\ lockOf \in LockChoices /\ begun \in Ops /\ card \in CardRecord
    /\ host \in [Hosts -> HostRecord]

\* The answer an operation should return.
Own(s) ==
    CASE s.kind = "use"    -> s.result = Units(<<s.op, s.op>>, 0, Block)
      [] s.kind = "read"   -> s.result = Units(<<s.op, s.op>>, 0, 1)
      [] s.kind = "verify" -> s.right

\* The state keeps its shape, and an operation that returns Ok returns the answer to its own input:
\* never a half of another's, nothing an operation before it left on the card
\* or in the buffer, whatever broke off when.  For hosts that take the same
\* mutex always; for others as long as nothing comes in between.
ResultsAreOfTheCall ==
    /\ TypeOK
    /\ \A h \in Hosts :
          LET alone == (\A g \in Hosts \ {h} : lockOf[g] = lockOf[h]) \/ ~host[h].disturbed
          IN ~Busy(h) /\ host[h].outcome = "ok" /\ alone => Own(host[h])

\* However operations before it ended, and whatever file they left selected: an
\* operation that nothing disturbs succeeds if it may, and a wrong PIN or a
\* missing security status fails it.
UndisturbedOperationsSucceed ==
    \A h \in Hosts :
        LET s == host[h]
            may == CASE s.kind = "use" -> s.status [] s.kind = "verify" -> s.right
                     [] s.kind = "read" -> TRUE
        IN ~Busy(h) /\ s.outcome # "none" /\ ~s.faulted /\ ~s.disturbed =>
              (s.outcome = "ok" <=> may)

\* Every operation ends, however little the card returns at a time.
OperationsEnd == \A h \in Hosts : Busy(h) ~> ~Busy(h)

\* api/mod.rs:4 "Card APDU traffic is serialized with a process-wide mutex":
\* a call that returns Ok has returned the answer to its own input.
SerializedCallsAreWhole ==
    \A h \in Hosts : ~Busy(h) /\ host[h].outcome = "ok" => Own(host[h])

=============================================================================
