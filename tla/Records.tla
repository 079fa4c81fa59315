------------------------------ MODULE Records ------------------------------
(***************************************************************************)
(* The records of a directory file (p15.rs): the loop of                   *)
(* read_directory_file with records_end, which tells it that it has read   *)
(* enough, and for_each_record, which goes through what was read.  FileReads *)
(* counts bytes; here they are looked at, and a chunk may end anywhere.    *)
(***************************************************************************)
EXTENDS Der

CONSTANTS
    Buffers,    \* files of arbitrary bytes
    Contents,   \* files of DER elements: sequences of [tag, len]
    Filler,     \* what may follow the elements
    ChunkSizes  \* how much an exchange is asked for

ASSUME ChunksAssumption == ChunkSizes \subseteq Nat \ {0}

IsPadding(b) == b \in {0, 255}

TwoBytes == {256 * h + l : h, l \in Byte}

\* Tags of one byte and of two, as TagBytes tells them apart, that are not
\* mistaken for padding.
Tags ==
    {t \in Byte : t % 32 # 31 /\ ~IsPadding(t)}
    \cup {t \in TwoBytes : t > 255 /\ (t \div 256) % 32 = 31 /\ ~IsPadding(t \div 256)}

\* What follows the elements is padding, or nothing.
ASSUME FilesAreBytes ==
    /\ Buffers \subseteq Seq(Byte)
    /\ \A c \in Contents : c \in Seq([tag : Tags, len : TwoBytes])
    /\ \A f \in Filler : f \in Seq(Byte) /\ (f # <<>> => IsPadding(f[1]))

VARIABLE dir    \* the file, its elements if it has any, how much is read

Unknown == [known |-> FALSE]

-----------------------------------------------------------------------------
NoEnd == -1

\* Faulty variant: a record that is cut off is an end of the records.
RecordsEndAnywhere(buf) ==
    LET end[off \in 0 .. Len(buf)] ==
          IF off >= Len(buf) THEN NoEnd
          ELSE IF IsPadding(At(buf, off)) THEN off
          ELSE LET r == DerNext(buf, off) IN IF r.ok THEN end[r.next] ELSE off
    IN end[0]

\* records_end: where padding follows the records, or None.
RecordsEnd(buf) ==
    LET end[off \in 0 .. Len(buf)] ==
          IF off >= Len(buf) THEN NoEnd
          ELSE IF IsPadding(At(buf, off)) THEN off
          ELSE LET r == DerNext(buf, off) IN IF r.ok THEN end[r.next] ELSE NoEnd
    IN end[0]

\* for_each_record: the values of the sequences, other elements are passed over.
ForEachRecord(buf) ==
    LET from[off \in 0 .. Len(buf)] ==
          IF off >= Len(buf) THEN <<>>
          ELSE IF IsPadding(At(buf, off)) THEN <<>>
          ELSE LET r == DerNext(buf, off)
               IN IF ~r.ok THEN <<>>
                  ELSE (IF r.tag = 48 THEN <<r.val>> ELSE <<>>) \o from[r.next]
    IN from[0]

-----------------------------------------------------------------------------
(* The card's files. *)

Value(n) == [i \in 1 .. n |-> i % 251]

\* DER: the shortest form of a length.
LengthField(n) ==
    IF n < 128 THEN <<n>>
    ELSE IF n < 256 THEN <<129, n>>
    ELSE <<130, n \div 256, n % 256>>

TagField(t) == IF t > 255 THEN <<t \div 256, t % 256>> ELSE <<t>>

Encoding(e) == TagField(e.tag) \o LengthField(e.len) \o Value(e.len)

Encoded(elements) ==
    LET upTo[i \in 0 .. Len(elements)] ==
          IF i = 0 THEN <<>> ELSE upTo[i - 1] \o Encoding(elements[i])
    IN upTo[Len(elements)]

RecordsInit ==
    \/ \E b \in Buffers : dir = [bytes |-> b, content |-> Unknown, have |-> 0, over |-> FALSE]
    \/ \E c \in Contents, f \in Filler :
          dir = [bytes |-> Encoded(c) \o f, content |-> [known |-> TRUE, elements |-> c],
                 have |-> 0, over |-> FALSE]

-----------------------------------------------------------------------------
\* What has been read, and what is returned of it: buf.truncate(end).
Read == SubSeq(dir.bytes, 1, dir.have)

Returned == IF RecordsEnd(Read) = NoEnd THEN Read ELSE SubSeq(Read, 1, RecordsEnd(Read))

\* One exchange; a short one is the last.
ReadChunk(n) ==
    LET rest == Len(dir.bytes) - dir.have
        got  == IF n < rest THEN n ELSE rest
    IN /\ ~dir.over
       /\ dir' = [dir EXCEPT !.have = @ + got,
                             !.over = got < n \/ RecordsEnd(SubSeq(dir.bytes, 1, dir.have + got)) # NoEnd]

ReadMore == \E n \in ChunkSizes : ReadChunk(n)

RecordsSpec == RecordsInit /\ [][ReadMore]_dir

-----------------------------------------------------------------------------
\* The values of the sequences among the elements, in their order.
SequenceValues(elements) ==
    LET upTo[i \in 0 .. Len(elements)] ==
          IF i = 0 THEN <<>>
          ELSE upTo[i - 1] \o (IF elements[i].tag = 48 THEN <<Value(elements[i].len)>> ELSE <<>>)
    IN upTo[Len(elements)]

IsPrefixOf(s, t) == Len(s) <= Len(t) /\ SubSeq(t, 1, Len(s)) = s

\* Wherever the chunks end and whatever the bytes are: if an exchange fails at
\* any point the records before it are all there, none of them cut; and the
\* records that end in padding in what has been read so far are all the records
\* of the file, so that read_directory_file may stop.  A file of DER elements is
\* read record by record, with lengths around 128 and 256, tags of one byte and
\* two, and with padding, nothing or a record of another kind behind it.
RecordsAreRead ==
    LET records == ForEachRecord(Returned)
    IN /\ IsPrefixOf(records, ForEachRecord(dir.bytes))
       /\ dir.over => records = ForEachRecord(dir.bytes)
       /\ dir.over /\ dir.content.known =>
             records = SequenceValues(dir.content.elements)

=============================================================================
