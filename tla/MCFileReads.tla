---------------------------- MODULE MCFileReads ----------------------------
(* Small instances of FileReads, Records and Transport for TLC.  A         *)
(* behaviour is one call, of a loop that reads a file by length, of         *)
(* read_directory_file by its bytes, or of transmit; the others have ended. *)
EXTENDS FileReads, Transport, Records

\* Every size up to two full chunks beyond the largest offset.
SmallSizes == 0 .. MaxOffset + 5
EveryCard == BOOLEAN
WithFaults == BOOLEAN

\* Padding, a value, OCTET STRING, a tag of two bytes, SEQUENCE, long lengths.
SomeBytes == {0, 1, 4, 31, 48, 129, 130, 255}
ShortBuffers == UNION {[1 .. n -> SomeBytes] : n \in 0 .. 5}

\* SEQUENCE, OCTET STRING, and 5F 31, a tag of two bytes.
Elements == [tag : {48}, len : {0, 1, 127, 128, 255, 256, 300}]
            \cup [tag : {4, 24369}, len : {1, 128}]
SomeContents == UNION {[1 .. n -> Elements] : n \in 0 .. 2}
SomeFiller == {<<>>, <<0>>, <<255, 255, 255>>}

NoRead ==
    /\ file = [size |-> 0, records |-> 0] /\ strict = FALSE
    /\ call = [kind |-> "ef", start |-> 0, want |-> 0]
    /\ got = 0 /\ result = "error" /\ faulted = FALSE
NoTransmit ==
    /\ tx = [phase |-> "ok", acc |-> <<SW>>, status |-> "final"]
    /\ peer = [total |-> 0, left |-> 0, shy |-> "no", breaks |-> FALSE]
NoDirectory == dir = [bytes |-> <<>>, content |-> Unknown, have |-> 0, over |-> TRUE]

MCInit ==
    \/ Init /\ NoTransmit /\ NoDirectory
    \/ NoRead /\ WireInit /\ NoDirectory
    \/ NoRead /\ NoTransmit /\ RecordsInit

ReadFile == Next /\ UNCHANGED <<wireVars, dir>>
Transmit == WireStep /\ UNCHANGED <<vars, dir>>
ReadDirectory == ReadMore /\ UNCHANGED <<vars, wireVars>>

mcVars == <<vars, wireVars, dir>>

MCSpec ==
    /\ MCInit /\ [][ReadFile \/ Transmit \/ ReadDirectory]_mcVars
    /\ WF_mcVars(ReadFile) /\ WF_mcVars(Transmit)

\* Every read and every transmit ends, whatever the card and the faults do, and
\* however a card splits its response or asks for another length.
CallsEnd ==
    /\ result = "none" ~> result # "none"
    /\ tx.phase = "command" ~> tx.phase \in {"ok", "error"}
=============================================================================
