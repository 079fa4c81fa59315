----------------------------- MODULE Transport -----------------------------
(***************************************************************************)
(* transmit (pcsc.rs): one call, an exchange per step.  The command goes   *)
(* out again, once, if the card answers 6Cxx; a response announced by 61xx *)
(* is fetched with GET RESPONSE, part by part.  A part is its data and the *)
(* status word behind it, as they come from PC/SC.                         *)
(***************************************************************************)
EXTENDS Naturals, Sequences

CONSTANTS
    MaxData,   \* units of data in the longest response
    MaxPart    \* units one exchange can carry

ASSUME DataAssumption == MaxData \in Nat /\ MaxPart \in Nat \ {0}

VARIABLES
    tx,     \* the call: what it does next, acc, what it returned
    peer    \* the card and the line

wireVars == <<tx, peer>>

SW == 0              \* stands for the two bytes of a status word
Unit == 1 .. MaxData \* the data of the response, numbered

Message(n) == [i \in 1 .. n |-> i]

\* status is the status word last parsed.  left counts what the card still has
\* of its response, shy says whether it answers 6Cxx to a command, once or
\* always; a line that breaks may fail any exchange.
TxRecord ==
    [phase : {"command", "again", "more", "ok", "error"}, acc : Seq(Unit \cup {SW}),
     status : {"none", "6C", "61", "final"}]
PeerRecord ==
    [total : 0 .. MaxData, left : 0 .. MaxData, shy : {"no", "once", "always"},
     breaks : BOOLEAN]

WireInit ==
    /\ tx = [phase |-> "command", acc |-> <<>>, status |-> "none"]
    /\ peer \in {p \in PeerRecord : p.left = p.total}

-----------------------------------------------------------------------------
(* The card.  It keeps its promises: 61xx only while there is more to come, *)
(* and then GET RESPONSE brings some of it.                                 *)

Fewer(a, b) == IF a < b THEN a ELSE b

\* The next n units, and a status word.
Part(n) == SubSeq(Message(peer.total), peer.total - peer.left + 1, peer.total - peer.left + n) \o <<SW>>

\* Answers a command or GET RESPONSE with at least min units if there are any.
Parts(min) ==
    {[data |-> Part(n), left |-> peer.left - n, shy |-> peer.shy,
      status |-> IF peer.left = n THEN "final" ELSE "61"] :
        n \in {m \in 0 .. Fewer(peer.left, MaxPart) : m >= Fewer(min, peer.left)}}

AnswersToCommand ==
    IF peer.shy # "no"
    THEN {[data |-> <<SW>>, left |-> peer.left, status |-> "6C",
           shy |-> IF peer.shy = "once" THEN "no" ELSE "always"]}
    ELSE Parts(0)

-----------------------------------------------------------------------------
\* The data collected, without the status word behind it.
Data(acc) == SubSeq(acc, 1, Len(acc) - 1)

\* Where transmit goes on: into the loop while sw1 is 61, else it returns.
Phase(status) == IF status = "61" THEN "more" ELSE "ok"

Receives(a, acc) ==
    /\ tx' = [phase |-> Phase(a.status), acc |-> acc, status |-> a.status]
    /\ peer' = [peer EXCEPT !.left = a.left, !.shy = a.shy]

\* The command, and the one time it is sent again.
Send ==
    /\ tx.phase \in {"command", "again"}
    /\ \E a \in AnswersToCommand :
          IF a.status = "6C" /\ tx.phase = "command"
          THEN /\ tx' = [tx EXCEPT !.phase = "again", !.status = "6C"]
               /\ peer' = [peer EXCEPT !.shy = a.shy]
          ELSE Receives(a, a.data)

\* Faulty variant: the status word of the part before stays in the data.
AppendedToAll(acc, part) == acc \o part

\* acc.truncate and acc.extend_from_slice
Appended(acc, part) == Data(acc) \o part

GetResponse ==
    /\ tx.phase = "more"
    /\ \E a \in Parts(1) : Receives(a, Appended(tx.acc, a.data))

\* `?` on an exchange that fails
Breaks ==
    /\ peer.breaks /\ tx.phase \in {"command", "again", "more"}
    /\ tx' = [tx EXCEPT !.phase = "error"]
    /\ UNCHANGED peer

WireStep == Send \/ GetResponse \/ Breaks

WireSpec == WireInit /\ [][WireStep]_wireVars /\ WF_wireVars(WireStep)

-----------------------------------------------------------------------------
\* The call keeps its shape.
WireTypeOK == tx \in TxRecord /\ Len(tx.acc) <= MaxData + 1 /\ peer \in PeerRecord

\* However the card splits a response and whether it asked for the command
\* again: what transmit returns is the response, each unit once and in order
\* and no status word in between.  A second 6Cxx is returned as it is.  The
\* call keeps its shape.
ResponsesAreWhole ==
    /\ WireTypeOK
    /\ tx.phase = "ok" =>
          \/ tx.status = "final" /\ Data(tx.acc) = Message(peer.total)
          \/ tx.status = "6C" /\ Data(tx.acc) = <<>>

=============================================================================
