----------------------------- MODULE FileReads -----------------------------
(***************************************************************************)
(* The three loops that read a transparent file of the card with READ      *)
(* BINARY: read_binary_range and read_ef (apdu/mod.rs), and                *)
(* read_directory_file (p15.rs), one exchange per step.  A file is a       *)
(* sequence of DER records and then padding; how much of it has been read  *)
(* is what matters here.  Lengths are scaled, their order is the code's.   *)
(***************************************************************************)
EXTENDS Integers

CONSTANTS
    SafeRead,   \* 16, what every card returns in one exchange
    EfChunk,    \* 0x20, the step of read_ef
    Chunk,      \* CHUNK, 0xC8, the step of the others
    MaxOffset,  \* 0x7FFF, the last offset READ BINARY can name
    EfLimit,    \* 64 KiB, the end of read_ef
    DirLimit,   \* 16 KiB, the end of read_directory_file
    Sizes,      \* sizes of files
    Strict,     \* whether a card refuses to return more than SafeRead at once
    Faults      \* whether an exchange fails

ASSUME LengthsAssumption ==
    /\ SafeRead \in Nat \ {0} /\ EfChunk \in Nat /\ Chunk \in Nat
    /\ SafeRead < EfChunk /\ EfChunk < Chunk
    /\ MaxOffset \in Nat /\ EfLimit \in Nat /\ DirLimit \in Nat
    /\ MaxOffset < EfLimit
ASSUME FilesAssumption == Sizes \subseteq Nat /\ Strict \subseteq BOOLEAN
ASSUME FaultsAssumption == Faults \subseteq BOOLEAN /\ FALSE \in Faults

VARIABLES
    file,     \* the selected file: its size and the length of its records
    strict,   \* 6987 to a longer read
    call,     \* the loop that runs and its arguments
    got,      \* bytes collected
    result,   \* "none" while the loop runs
    faulted   \* an exchange of this call failed

vars == <<file, strict, call, got, result, faulted>>

Kinds == {"range", "ef", "directory"}

File == {f \in [size : Sizes, records : Sizes] : f.records <= f.size}

\* read_ef and read_directory_file start at 0 and have no length.
Calls == [kind : Kinds \ {"range"}, start : {0}, want : {0}]
         \cup [kind : {"range"}, start : Sizes, want : Sizes \ {0}]

Least(a, b) == IF a < b THEN a ELSE b

Init ==
    /\ file \in File /\ strict \in Strict /\ call \in Calls
    /\ got = 0 /\ result = "none" /\ faulted = FALSE

-----------------------------------------------------------------------------
Failed == -1

\* READ BINARY at or beyond the end of the file is an error or returns nothing.
\* read_binary asks again for SafeRead after a 6987.
ReadBinary(offset, length) ==
    IF offset > MaxOffset THEN {Failed}
    ELSE IF offset >= file.size THEN {Failed, 0}
    ELSE {Least(IF strict THEN Least(length, SafeRead) ELSE length, file.size - offset)}

Asked ==
    CASE call.kind = "range"     -> Least(Chunk, call.want - got)
      [] call.kind = "ef"        -> EfChunk
      [] call.kind = "directory" -> Chunk

\* A loop that is left with nothing collected is an error.
Return(n) ==
    /\ got' = n
    /\ result' = IF n > 0 THEN "ok" ELSE "error"

Continue(n) == got' = n /\ UNCHANGED result

RangeTakes(n) ==
    IF n = Failed THEN result' = "error" /\ UNCHANGED got
    ELSE IF n < Asked \/ got + n = call.want THEN Return(got + n)
    ELSE Continue(got + n)

\* read_ef and read_directory_file take a failed exchange for the end.
NothingIfFailed(n) == IF n = Failed THEN 0 ELSE n

EfTakes(n) ==
    LET m == got + NothingIfFailed(n)
    IN IF NothingIfFailed(n) < EfChunk THEN Return(m)
       ELSE IF m > EfLimit THEN result' = "error" /\ got' = m
       ELSE Continue(m)

\* Faulty variant: padding is not looked for in a full chunk.
DirectoryTakesChunks(n) ==
    LET b == NothingIfFailed(n)
        m == got + b
    IN IF b < Chunk \/ m > DirLimit THEN Return(m) ELSE Continue(m)

\* Padding after a record shows as soon as more than the records is read.
DirectoryTakes(n) ==
    LET b == NothingIfFailed(n)
        m == got + b
    IN IF b > 0 /\ m > file.records THEN Return(file.records)
       ELSE IF b < Chunk \/ m > DirLimit THEN Return(m)
       ELSE Continue(m)

Takes(n) ==
    CASE call.kind = "range"     -> RangeTakes(n)
      [] call.kind = "ef"        -> EfTakes(n)
      [] call.kind = "directory" -> DirectoryTakes(n)

\* Faulty variant: a failed exchange is tried again.
ExchangeRepeats(fault) ==
    /\ result = "none"
    /\ faulted' = (faulted \/ fault)
    /\ \E n \in IF fault THEN {Failed} ELSE ReadBinary(call.start + got, Asked) :
          IF n = Failed THEN UNCHANGED <<got, result>> ELSE Takes(n)
    /\ UNCHANGED <<file, strict, call>>

Exchange(fault) ==
    /\ result = "none"
    /\ faulted' = (faulted \/ fault)
    /\ \E n \in IF fault THEN {Failed} ELSE ReadBinary(call.start + got, Asked) : Takes(n)
    /\ UNCHANGED <<file, strict, call>>

\* The behaviour is one call: it stops when the function returns.
Next == \E fault \in Faults : Exchange(fault)

Spec == Init /\ [][Next]_vars

\* A loop that has begun runs on.
FairSpec == Spec /\ WF_vars(Next)

-----------------------------------------------------------------------------
\* The state keeps its shape.
TypeOK ==
    /\ file \in File /\ strict \in Strict /\ call \in Calls
    /\ got \in Nat /\ result \in {"none", "ok", "error"} /\ faulted \in BOOLEAN

\* What a call should return.
Expected ==
    CASE call.kind = "range"     -> Least(call.want, file.size - call.start)
      [] call.kind = "ef"        -> file.size
      [] call.kind = "directory" -> file.records

WithinLimits ==
    /\ call.start + Expected <= MaxOffset + 1
    /\ call.kind = "directory" => file.records <= DirLimit

\* The range goes on behind the end of the file, and the end is where a chunk
\* ends: the next exchange returns nothing from one card and fails on another.
EndsOnAChunk ==
    /\ call.kind = "range" /\ call.want > Expected
    /\ \E k \in 1 .. Expected : k * Chunk = Expected

\* Whatever chunks it takes, whether the file ends in a chunk or at one, and
\* whether padding follows the records or not: a read that nothing disturbs,
\* from a card without the SafeRead limit, returns all it should, and fails
\* only when there is nothing to return (read_binary_range, read_ef,
\* read_directory_file).  A range is never silently cut short by a failed
\* exchange either: what comes back is complete, or the call fails, or the card
\* returns SafeRead at a time.  The state keeps its shape.
UndisturbedReadsAreComplete ==
    /\ TypeOK
    /\ result # "none" /\ ~faulted /\ ~strict /\ WithinLimits /\ ~EndsOnAChunk =>
          IF Expected > 0 THEN result = "ok" /\ got = Expected ELSE result = "error"
    /\ result = "ok" /\ call.kind = "range" /\ ~strict => got = Expected

=============================================================================
