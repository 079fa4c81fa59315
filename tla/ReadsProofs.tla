---------------------------- MODULE ReadsProofs ----------------------------
(***************************************************************************)
(* Reads of card files and the transport under them, for any lengths,      *)
(* files and cards: the three loops of READ BINARY return all they should  *)
(* when nothing disturbs them, transmit returns the response whole however *)
(* the card splits it, and the records of a directory file are all read    *)
(* wherever its chunks end and whatever its bytes are.                     *)
(***************************************************************************)
EXTENDS FileReads, Transport, Records, SequenceTheorems, WellFoundedInduction, TLAPS

-----------------------------------------------------------------------------
(* The loops of READ BINARY *)

\* How far a loop that runs can have come.  The chunks a range has taken are
\* full ones, which is what EndsOnAChunk is about.
Collected ==
    /\ call.kind = "range" =>
          /\ got < call.want
          /\ ~strict => \/ got = 0
                        \/ /\ got <= file.size - call.start
                           /\ \E k \in 1 .. got : k * Chunk = got
    /\ call.kind = "ef" /\ ~strict => got <= file.size
    /\ call.kind = "directory" => got <= file.records

IInv ==
    /\ TypeOK
    /\ result = "none" => Collected
    /\ result = "ok" => got > 0
    /\ UndisturbedReadsAreComplete

LEMMA FileShape ==
    ASSUME file \in File
    PROVE  file.size \in Nat /\ file.records \in Nat /\ file.records <= file.size
  BY FilesAssumption DEF File

LEMMA CallShape ==
    ASSUME call \in Calls
    PROVE  /\ call.kind \in Kinds /\ call.start \in Nat /\ call.want \in Nat
           /\ call.kind = "range" => call.want > 0
           /\ call.kind # "range" => call.start = 0
<1>1. CASE call \in [kind : Kinds \ {"range"}, start : {0}, want : {0}]
  BY <1>1 DEF Kinds
<1>2. CASE call \in [kind : {"range"}, start : Sizes, want : Sizes \ {0}]
  <2>1. call.kind = "range" /\ call.start \in Sizes /\ call.want \in Sizes \ {0}
    BY <1>2
  <2>2. call.start \in Nat /\ call.want \in Nat /\ call.want # 0
    <3>1. Sizes \subseteq Nat
      BY FilesAssumption
    <3> QED BY <2>1, <3>1
  <2>3. "range" \in Kinds
    BY DEF Kinds
  <2>4. call.want > 0
    BY <2>2
  <2> QED BY <2>1, <2>2, <2>3, <2>4
<1> QED BY <1>1, <1>2 DEF Calls

LEMMA ReadLengths ==
    /\ SafeRead \in Nat /\ SafeRead > 0 /\ EfChunk \in Nat /\ EfChunk > 0
    /\ Chunk \in Nat /\ Chunk > 0 /\ MaxOffset \in Nat /\ EfLimit \in Nat
    /\ DirLimit \in Nat /\ MaxOffset < EfLimit
  BY LengthsAssumption

LEMMA AskedIsPositive ==
    ASSUME TypeOK, result = "none", Collected
    PROVE  Asked \in Nat /\ Asked > 0
  BY CallShape, ReadLengths DEF TypeOK, Collected, Asked, Least, Kinds

\* What one exchange can bring, and why it brings no more than that.
LEMMA ReadBinaryBrings ==
    ASSUME TypeOK, NEW offset \in Nat, NEW length \in Nat, length > 0,
           NEW n \in ReadBinary(offset, length)
    PROVE  /\ n \in Nat \cup {Failed} /\ n <= length
           /\ n = Failed => \/ offset > MaxOffset
                            \/ offset >= file.size
           /\ n = 0 => offset >= file.size
           /\ n > 0 => offset + n <= file.size
           /\ ~strict /\ n >= 0 /\ n < length => \/ n = 0
                                                \/ offset + n = file.size
  BY FileShape, ReadLengths DEF TypeOK, ReadBinary, Least, Failed

LEMMA InitCollects == Init => IInv
<1> SUFFICES ASSUME Init PROVE IInv
  OBVIOUS
<1>1. TypeOK
  BY DEF Init, TypeOK
<1>2. Collected
  BY <1>1, FileShape, CallShape DEF Init, TypeOK, Collected
<1> QED BY <1>1, <1>2 DEF Init, IInv, UndisturbedReadsAreComplete

\* One more full chunk.
LEMMA ChunksAddUp ==
    ASSUME NEW m \in Nat, \/ m = 0
                          \/ \E k \in 1 .. m : k * Chunk = m
    PROVE  \E k \in 1 .. m + Chunk : k * Chunk = m + Chunk
<1>1. PICK k \in Nat : k <= m /\ k * Chunk = m
  BY ReadLengths
<1>2. (k + 1) * Chunk = k * Chunk + Chunk
  BY ReadLengths
<1>3. k + 1 \in 1 .. m + Chunk /\ (k + 1) * Chunk = m + Chunk
  BY <1>1, <1>2, ReadLengths
<1> QED BY <1>3

\* An exchange hands its bytes to the loop: what a fault or the card brought.
LEMMA ExchangeHands ==
    ASSUME IInv, NEW fault \in BOOLEAN, Exchange(fault)
    PROVE  /\ TypeOK /\ Collected /\ result = "none" /\ call.start + got \in Nat
           /\ faulted' \in BOOLEAN /\ (faulted' = FALSE => fault = FALSE)
           /\ file' = file /\ strict' = strict /\ call' = call
           /\ \E n \in IF fault THEN {Failed} ELSE ReadBinary(call.start + got, Asked) :
                 n \in Nat \cup {Failed} /\ Takes(n)
<1>1. TypeOK /\ Collected /\ result = "none"
  BY DEF IInv, Exchange
<1>2. call.start + got \in Nat
  BY <1>1, CallShape DEF TypeOK
<1>3. file' = file /\ strict' = strict /\ call' = call /\ faulted' = (faulted \/ fault)
  BY DEF Exchange
<1>4. faulted' \in BOOLEAN /\ (faulted' = FALSE => fault = FALSE)
  BY <1>1, <1>3 DEF TypeOK
<1>5. PICK n \in IF fault THEN {Failed} ELSE ReadBinary(call.start + got, Asked) : Takes(n)
  BY DEF Exchange
<1>6. n \in Nat \cup {Failed}
  BY <1>1, <1>2, <1>5, AskedIsPositive, ReadBinaryBrings
<1> QED BY <1>1, <1>2, <1>3, <1>4, <1>5, <1>6

\* What is expected and what limits apply does not change.
LEMMA ExpectedStays ==
    ASSUME file' = file, call' = call
    PROVE  /\ Expected' = Expected /\ WithinLimits' = WithinLimits
           /\ EndsOnAChunk' = EndsOnAChunk
  BY DEF Expected, WithinLimits, EndsOnAChunk, Least

LEMMA RangeCollects ==
    ASSUME IInv, NEW fault \in BOOLEAN, Exchange(fault), call.kind = "range"
    PROVE  IInv'
<1>1. /\ TypeOK /\ Collected /\ result = "none" /\ call.start + got \in Nat
      /\ faulted' \in BOOLEAN /\ (faulted' = FALSE => fault = FALSE)
      /\ file' = file /\ strict' = strict /\ call' = call
  BY ExchangeHands
<1>2. PICK n \in IF fault THEN {Failed} ELSE ReadBinary(call.start + got, Asked) :
         n \in Nat \cup {Failed} /\ Takes(n)
  BY ExchangeHands
<1>3. RangeTakes(n)
  BY <1>2 DEF Takes
<1>4. Asked \in Nat /\ Asked > 0 /\ Asked = Least(Chunk, call.want - got)
  BY <1>1, AskedIsPositive DEF Asked
<1>5. fault = FALSE =>
         /\ n <= Asked
         /\ n = Failed => \/ call.start + got > MaxOffset
                          \/ call.start + got >= file.size
         /\ n = 0 => call.start + got >= file.size
         /\ n > 0 => (call.start + got) + n <= file.size
         /\ ~strict /\ n >= 0 /\ n < Asked => \/ n = 0
                                              \/ (call.start + got) + n = file.size
  BY <1>1, <1>2, <1>4, ReadBinaryBrings
<1>6. n # Failed => fault = FALSE
  BY <1>2
<1>7. /\ call.start \in Nat /\ call.want \in Nat /\ call.want > 0 /\ got \in Nat
      /\ file.size \in Nat /\ got < call.want
  BY <1>1, CallShape, FileShape DEF TypeOK, Collected
<1>8. ~strict => \/ got = 0
                 \/ /\ got <= file.size - call.start
                    /\ \E k \in 1 .. got : k * Chunk = got
  BY <1>1 DEF Collected
<1>9. Expected = Least(call.want, file.size - call.start)
  BY DEF Expected
<1>10. CASE n = Failed
  <2>1. result' = "error" /\ got' = got
    BY <1>3, <1>10 DEF RangeTakes
  <2>2. TypeOK'
    BY <1>1, <2>1 DEF TypeOK
  <2>3. ASSUME ~faulted', ~strict, WithinLimits, ~EndsOnAChunk, Expected > 0
        PROVE  FALSE
    <3>1. fault = FALSE
      BY <1>1, <2>3
    <3>2. /\ call.start + Expected <= MaxOffset + 1
      BY <2>3 DEF WithinLimits
    <3>3. got # 0 /\ got = Expected
      BY <1>5, <1>7, <1>8, <1>9, <1>10, <2>3, <3>1, <3>2, ReadLengths DEF Least
    <3>4. \E k \in 1 .. Expected : k * Chunk = Expected
      BY <1>8, <2>3, <3>3
    <3> QED BY <1>7, <2>3, <3>3, <3>4 DEF EndsOnAChunk
  <2>4. UndisturbedReadsAreComplete'
    BY <1>1, <2>1, <2>2, <2>3, ExpectedStays DEF UndisturbedReadsAreComplete
  <2> QED BY <2>1, <2>2, <2>4 DEF IInv
<1>11. CASE n # Failed /\ (n < Asked \/ got + n = call.want)
  <2>1. got' = got + n /\ result' = (IF got + n > 0 THEN "ok" ELSE "error")
    <3>1. Return(got + n)
      BY <1>3, <1>11 DEF RangeTakes
    <3> QED BY <3>1 DEF Return
  <2>2. n \in Nat /\ fault = FALSE
    BY <1>2, <1>6, <1>11
  <2>3. TypeOK'
    BY <1>1, <1>7, <2>1, <2>2 DEF TypeOK
  <2>4. ASSUME ~strict, got + n > 0
        PROVE  got + n = Expected
    <3>1. CASE n = 0
      BY <1>5, <1>7, <1>8, <1>9, <2>2, <2>4, <3>1 DEF Least
    <3>2. CASE n > 0 /\ n < Asked
      BY <1>4, <1>5, <1>7, <1>8, <1>9, <2>2, <2>4, <3>2 DEF Least
    <3>3. CASE n > 0 /\ got + n = call.want
      BY <1>4, <1>5, <1>7, <1>8, <1>9, <2>2, <2>4, <3>3 DEF Least
    <3> QED BY <1>11, <2>2, <3>1, <3>2, <3>3
  <2>5. ASSUME ~strict, got + n = 0, Expected > 0
        PROVE  FALSE
    BY <1>5, <1>7, <1>9, <2>2, <2>5 DEF Least
  <2>6. UndisturbedReadsAreComplete'
    <3>1. Expected \in Int
      BY <1>7, <1>9 DEF Least
    <3> QED BY <1>1, <1>7, <2>1, <2>2, <2>3, <2>4, <2>5, <3>1, ExpectedStays
            DEF UndisturbedReadsAreComplete
  <2> QED BY <1>7, <2>1, <2>2, <2>3, <2>6 DEF IInv
<1>12. CASE n # Failed /\ ~(n < Asked \/ got + n = call.want)
  <2>1. got' = got + n /\ result' = "none"
    <3>1. Continue(got + n)
      BY <1>3, <1>12 DEF RangeTakes
    <3> QED BY <1>1, <3>1 DEF Continue
  <2>2. n \in Nat /\ n = Asked /\ n > 0
    BY <1>2, <1>4, <1>5, <1>6, <1>12
  <2>3. n = Chunk /\ got + n < call.want
    BY <1>4, <1>7, <1>12, <2>2, ReadLengths DEF Least
  <2>4. TypeOK'
    BY <1>1, <1>7, <2>1, <2>2 DEF TypeOK
  <2>5. ~strict => \E k \in 1 .. got + n : k * Chunk = got + n
    BY <1>7, <1>8, <2>3, ChunksAddUp
  <2>6. got + n <= file.size - call.start
    BY <1>5, <1>6, <1>7, <1>12, <2>2
  <2>7. Collected'
    BY <1>1, <2>1, <2>3, <2>5, <2>6 DEF Collected
  <2> QED BY <2>1, <2>4, <2>7 DEF IInv, UndisturbedReadsAreComplete
<1> QED BY <1>10, <1>11, <1>12

LEMMA EfCollects ==
    ASSUME IInv, NEW fault \in BOOLEAN, Exchange(fault), call.kind = "ef"
    PROVE  IInv'
<1>1. /\ TypeOK /\ Collected /\ result = "none" /\ call.start + got \in Nat
      /\ faulted' \in BOOLEAN /\ (faulted' = FALSE => fault = FALSE)
      /\ file' = file /\ strict' = strict /\ call' = call
  BY ExchangeHands
<1>2. PICK n \in IF fault THEN {Failed} ELSE ReadBinary(call.start + got, Asked) :
         n \in Nat \cup {Failed} /\ Takes(n)
  BY ExchangeHands
<1>3. EfTakes(n)
  BY <1>2 DEF Takes
<1>4. /\ got \in Nat /\ file.size \in Nat /\ call.start = 0
      /\ ~strict => got <= file.size
  BY <1>1, CallShape, FileShape DEF TypeOK, Collected
<1>5. Asked = EfChunk /\ EfChunk \in Nat /\ EfChunk > 0
  BY ReadLengths DEF Asked
<1>6. fault = FALSE =>
         /\ n <= EfChunk
         /\ n = Failed => \/ got > MaxOffset
                          \/ got >= file.size
         /\ n = 0 => got >= file.size
         /\ n > 0 => got + n <= file.size
         /\ ~strict /\ n >= 0 /\ n < EfChunk => \/ n = 0
                                                \/ got + n = file.size
  <2>1. ASSUME fault = FALSE PROVE n \in ReadBinary(got, EfChunk)
    BY <1>2, <1>4, <1>5, <2>1
  <2> QED BY <1>1, <1>4, <1>5, <2>1, ReadBinaryBrings
<1> DEFINE b == NothingIfFailed(n)
           m == got + b
<1>7. b \in Nat /\ m \in Nat /\ (n = Failed => b = 0) /\ (n # Failed => b = n)
  BY <1>2, <1>4 DEF NothingIfFailed, Failed
<1>8. n # Failed => fault = FALSE
  BY <1>2
<1>9. /\ b < EfChunk => Return(m)
      /\ ~(b < EfChunk) /\ m > EfLimit => result' = "error" /\ got' = m
      /\ ~(b < EfChunk) /\ ~(m > EfLimit) => Continue(m)
  BY <1>3 DEF EfTakes
<1>10. Expected = file.size /\ (WithinLimits => file.size <= MaxOffset + 1)
  BY <1>4 DEF Expected, WithinLimits
<1> HIDE DEF b, m
<1>11. m = got + b
  BY DEF m
<1>12. TypeOK'
  BY <1>1, <1>7, <1>9 DEF TypeOK, Return, Continue
<1>13. CASE b < EfChunk
  <2>1. got' = m /\ result' = (IF m > 0 THEN "ok" ELSE "error")
    BY <1>9, <1>13 DEF Return
  <2>2. ASSUME ~faulted', ~strict, WithinLimits
        PROVE  m = file.size
    <3>1. fault = FALSE
      BY <1>1, <2>2
    <3> QED BY <1>4, <1>6, <1>7, <1>10, <1>11, <1>13, <2>2, <3>1, ReadLengths
  <2>3. UndisturbedReadsAreComplete'
    BY <1>1, <1>7, <1>10, <1>12, <2>1, <2>2, ExpectedStays DEF UndisturbedReadsAreComplete
  <2> QED BY <1>7, <1>12, <2>1, <2>3 DEF IInv
<1>14. CASE ~(b < EfChunk)
  <2>1. n # Failed /\ fault = FALSE /\ b = n /\ m <= file.size
    BY <1>5, <1>6, <1>7, <1>8, <1>11, <1>14
  <2>2. CASE m > EfLimit
    <3>1. result' = "error" /\ got' = m
      BY <1>9, <1>14, <2>2
    <3>2. ~WithinLimits
      BY <1>7, <1>4, <1>10, <2>1, <2>2, ReadLengths
    <3>3. UndisturbedReadsAreComplete'
      BY <1>1, <1>12, <3>1, <3>2, ExpectedStays DEF UndisturbedReadsAreComplete
    <3> QED BY <1>12, <3>1, <3>3 DEF IInv
  <2>3. CASE ~(m > EfLimit)
    <3>1. got' = m /\ result' = "none"
      BY <1>1, <1>9, <1>14, <2>3 DEF Continue
    <3>2. Collected'
      BY <1>1, <2>1, <3>1 DEF Collected
    <3> QED BY <1>12, <3>1, <3>2 DEF IInv, UndisturbedReadsAreComplete
  <2> QED BY <2>2, <2>3
<1> QED BY <1>13, <1>14

LEMMA DirectoryCollects ==
    ASSUME IInv, NEW fault \in BOOLEAN, Exchange(fault), call.kind = "directory"
    PROVE  IInv'
<1>1. /\ TypeOK /\ Collected /\ result = "none" /\ call.start + got \in Nat
      /\ faulted' \in BOOLEAN /\ (faulted' = FALSE => fault = FALSE)
      /\ file' = file /\ strict' = strict /\ call' = call
  BY ExchangeHands
<1>2. PICK n \in IF fault THEN {Failed} ELSE ReadBinary(call.start + got, Asked) :
         n \in Nat \cup {Failed} /\ Takes(n)
  BY ExchangeHands
<1>3. DirectoryTakes(n)
  BY <1>2 DEF Takes
<1>4. /\ got \in Nat /\ file.size \in Nat /\ file.records \in Nat
      /\ file.records <= file.size /\ call.start = 0 /\ got <= file.records
  BY <1>1, CallShape, FileShape DEF TypeOK, Collected
<1>5. Asked = Chunk /\ Chunk \in Nat /\ Chunk > 0
  BY ReadLengths DEF Asked
<1>6. fault = FALSE =>
         /\ n = Failed => \/ got > MaxOffset
                          \/ got >= file.size
         /\ n = 0 => got >= file.size
         /\ n > 0 => got + n <= file.size
         /\ ~strict /\ n >= 0 /\ n < Chunk => \/ n = 0
                                              \/ got + n = file.size
  <2>1. ASSUME fault = FALSE PROVE n \in ReadBinary(got, Chunk)
    BY <1>2, <1>4, <1>5, <2>1
  <2> QED BY <1>1, <1>4, <1>5, <2>1, ReadBinaryBrings
<1> DEFINE b == NothingIfFailed(n)
           m == got + b
<1>7. b \in Nat /\ m \in Nat /\ (n = Failed => b = 0) /\ (n # Failed => b = n)
  BY <1>2, <1>4 DEF NothingIfFailed, Failed
<1>8. /\ b > 0 /\ m > file.records => Return(file.records)
      /\ ~(b > 0 /\ m > file.records) /\ (b < Chunk \/ m > DirLimit) => Return(m)
      /\ ~(b > 0 /\ m > file.records) /\ ~(b < Chunk \/ m > DirLimit) => Continue(m)
  BY <1>3 DEF DirectoryTakes
<1>9. /\ Expected = file.records
      /\ WithinLimits => file.records <= MaxOffset + 1 /\ file.records <= DirLimit
  BY <1>1, <1>4 DEF Expected, WithinLimits
<1> HIDE DEF b, m
<1>10. m = got + b
  BY DEF m
<1>11. TypeOK'
  BY <1>1, <1>4, <1>7, <1>8 DEF TypeOK, Return, Continue
<1>12. CASE b > 0 /\ m > file.records
  <2>1. got' = file.records /\ result' = (IF file.records > 0 THEN "ok" ELSE "error")
    BY <1>8, <1>12 DEF Return
  <2>2. UndisturbedReadsAreComplete'
    BY <1>1, <1>4, <1>9, <1>11, <2>1, ExpectedStays DEF UndisturbedReadsAreComplete
  <2> QED BY <1>4, <1>11, <2>1, <2>2 DEF IInv
<1>13. CASE ~(b > 0 /\ m > file.records)
  <2>1. m <= file.records
    BY <1>4, <1>7, <1>10, <1>13
  <2>2. CASE b < Chunk \/ m > DirLimit
    <3>1. got' = m /\ result' = (IF m > 0 THEN "ok" ELSE "error")
      BY <1>8, <1>13, <2>2 DEF Return
    <3>2. ASSUME ~faulted', ~strict, WithinLimits
          PROVE  m = file.records
      <4>1. fault = FALSE
        BY <1>1, <3>2
      <4>2. b < Chunk
        BY <1>4, <1>7, <1>9, <2>1, <2>2, <3>2, ReadLengths
      <4> QED BY <1>4, <1>6, <1>7, <1>9, <1>10, <2>1, <3>2, <4>1, <4>2, ReadLengths
    <3>3. UndisturbedReadsAreComplete'
      BY <1>1, <1>7, <1>9, <1>11, <3>1, <3>2, ExpectedStays DEF UndisturbedReadsAreComplete
    <3> QED BY <1>7, <1>11, <3>1, <3>3 DEF IInv
  <2>3. CASE ~(b < Chunk \/ m > DirLimit)
    <3>1. got' = m /\ result' = "none"
      BY <1>1, <1>8, <1>13, <2>3 DEF Continue
    <3>2. Collected'
      BY <1>1, <2>1, <3>1 DEF Collected
    <3> QED BY <1>11, <3>1, <3>2 DEF IInv, UndisturbedReadsAreComplete
  <2> QED BY <2>2, <2>3
<1> QED BY <1>12, <1>13

LEMMA StepCollects == IInv /\ [Next]_vars => IInv'
<1> SUFFICES ASSUME IInv, [Next]_vars PROVE IInv'
  OBVIOUS
<1>1. CASE Next
  <2>1. PICK fault \in Faults : Exchange(fault)
    BY <1>1 DEF Next
  <2>2. fault \in BOOLEAN
    BY FaultsAssumption
  <2>3. call.kind \in Kinds
    BY CallShape DEF IInv, TypeOK
  <2> QED BY <2>1, <2>2, <2>3, RangeCollects, EfCollects, DirectoryCollects DEF Kinds
<1>2. CASE UNCHANGED vars
  <2>1. file' = file /\ call' = call
    BY <1>2 DEF vars
  <2> QED BY <1>2, <2>1, ExpectedStays
          DEF vars, IInv, TypeOK, Collected, UndisturbedReadsAreComplete
<1> QED BY <1>1, <1>2

\* read_binary_range, read_ef and read_directory_file: a read that no failed
\* exchange disturbs returns all it should, for any chunk sizes and limits, and
\* a range is complete or the call fails.
THEOREM ReadsAreComplete == Spec => []UndisturbedReadsAreComplete
<1>1. IInv => UndisturbedReadsAreComplete
  BY DEF IInv
<1> QED BY InitCollects, StepCollects, <1>1, PTL DEF Spec

-----------------------------------------------------------------------------
(* transmit *)

Sent == peer.total - peer.left

\* What is in acc at each point, and which status word has been seen.
Assembled ==
    CASE tx.phase = "command" -> tx.acc = <<>> /\ peer.left = peer.total
      [] tx.phase = "again"   -> tx.acc = <<>> /\ peer.left = peer.total
      [] tx.phase = "more"    -> tx.acc = Message(Sent) \o <<SW>> /\ peer.left > 0
      [] OTHER                -> TRUE

WireInv ==
    /\ WireTypeOK /\ peer.left <= peer.total
    /\ Assembled
    /\ ResponsesAreWhole

LEMMA MessageIs ==
    ASSUME NEW n \in Nat
    PROVE  /\ Message(n) \in Seq(Nat) /\ Len(Message(n)) = n
           /\ \A i \in 1 .. n : Message(n)[i] = i
           /\ n <= MaxData => Message(n) \in Seq(Unit)
<1>1. Message(n) = [i \in 1 .. n |-> i]
  BY DEF Message
<1>2. Message(n) \in [1 .. n -> Nat]
  BY <1>1
<1>3. ASSUME n <= MaxData PROVE Message(n) \in [1 .. n -> Unit]
  BY <1>1, <1>3, DataAssumption DEF Unit
<1> QED BY <1>1, <1>2, <1>3

\* The part that follows the first k units continues them.
LEMMA MessagesJoin ==
    ASSUME NEW t \in Nat, NEW k \in Nat, NEW n \in Nat, k + n <= t
    PROVE  /\ SubSeq(Message(t), k + 1, k + n) \in Seq(Nat)
           /\ Len(SubSeq(Message(t), k + 1, k + n)) = n
           /\ Message(k) \o SubSeq(Message(t), k + 1, k + n) = Message(k + n)
<1> DEFINE u == Message(t)
           v == SubSeq(u, k + 1, k + n)
           p == Message(k)
           w == Message(k + n)
<1>1. /\ u \in Seq(Nat) /\ Len(u) = t /\ (\A i \in 1 .. t : u[i] = i)
      /\ p \in Seq(Nat) /\ Len(p) = k /\ (\A i \in 1 .. k : p[i] = i)
      /\ w \in Seq(Nat) /\ Len(w) = k + n /\ (\A i \in 1 .. k + n : w[i] = i)
  BY MessageIs
<1> HIDE DEF u, p, w
<1>2. v \in Seq(Nat) /\ Len(v) = n /\ \A i \in 1 .. n : v[i] = i + k
  <2>1. /\ v \in Seq(Nat)
        /\ Len(v) = IF k + 1 <= k + n THEN (k + n) - (k + 1) + 1 ELSE 0
        /\ \A i \in 1 .. (k + n) - (k + 1) + 1 : v[i] = u[(k + 1) + i - 1]
    BY <1>1, SubSeqProperties
  <2>2. \A i \in 1 .. n : v[i] = u[i + k] /\ i + k \in 1 .. t
    <3>1. \A i \in 1 .. n : i \in 1 .. (k + n) - (k + 1) + 1 /\ (k + 1) + i - 1 = i + k
      OBVIOUS
    <3> HIDE DEF v
    <3> QED BY <2>1, <3>1
  <2>3. \A i \in 1 .. n : u[i + k] = i + k
    BY <1>1, <2>2
  <2>4. Len(v) = n
    BY <2>1
  <2> HIDE DEF v
  <2> QED BY <2>1, <2>2, <2>3, <2>4
<1> HIDE DEF v
<1>3. p \o v \in Seq(Nat) /\ Len(p \o v) = k + n
  <2>1. p \in Seq(Nat) /\ v \in Seq(Nat)
    BY <1>1, <1>2
  <2>2. p \o v \in Seq(Nat) /\ Len(p \o v) = Len(p) + Len(v)
    BY <2>1, ConcatProperties
  <2> QED BY <1>1, <1>2, <2>2
<1>4. ASSUME NEW i \in 1 .. k + n PROVE (p \o v)[i] = w[i]
  <2>1. CASE i <= k
    <3>1. i \in 1 .. k
      BY <2>1
    <3>2. (p \o v)[i] = p[i]
      BY <1>1, <1>2, <3>1
    <3> QED BY <1>1, <3>1, <3>2
  <2>2. CASE ~(i <= k)
    <3>1. i - k \in 1 .. n /\ (i - k) + k = i
      BY <2>2
    <3>2. (p \o v)[i] = v[i - k]
      BY <1>1, <1>2, <2>2, <3>1
    <3> QED BY <1>1, <1>2, <3>1, <3>2
  <2> QED BY <2>1, <2>2
<1>5. Len(p \o v) = Len(w) /\ \A i \in 1 .. Len(p \o v) : (p \o v)[i] = w[i]
  BY <1>1, <1>3, <1>4
<1>6. p \o v = w
  BY <1>1, <1>3, <1>5, SeqEqual
<1> QED BY <1>2, <1>6 DEF u, v, p, w

\* Dropping the status word leaves the data.
LEMMA DataIs ==
    ASSUME NEW u \in Seq(Nat)
    PROVE  /\ Data(u \o <<SW>>) = u /\ u \o <<SW>> \in Seq(Nat)
           /\ Len(u \o <<SW>>) = Len(u) + 1
<1> DEFINE s == <<SW>>
           c == u \o s
<1>1. s \in Seq(Nat) /\ Len(s) = 1
  BY DEF SW
<1> HIDE DEF s
<1>2. c \in Seq(Nat) /\ Len(c) = Len(u) + 1 /\ \A i \in 1 .. Len(u) : c[i] = u[i]
  <2>1. c \in Seq(Nat) /\ Len(c) = Len(u) + 1
    <3>1. u \o s \in Seq(Nat) /\ Len(u \o s) = Len(u) + Len(s)
      BY <1>1, ConcatProperties
    <3>2. Len(u) + Len(s) = Len(u) + 1
      BY <1>1
    <3> QED BY <3>1, <3>2
  <2>2. ASSUME NEW i \in 1 .. Len(u) PROVE c[i] = u[i]
    BY <1>1, <2>2
  <2> QED BY <2>1, <2>2
<1> HIDE DEF c
<1>3. Data(c) = SubSeq(c, 1, Len(u))
  BY <1>2 DEF Data
<1>4. /\ SubSeq(c, 1, Len(u)) \in Seq(Nat) /\ Len(SubSeq(c, 1, Len(u))) = Len(u)
      /\ \A i \in 1 .. Len(u) : SubSeq(c, 1, Len(u))[i] = c[i]
  <2>1. /\ SubSeq(c, 1, Len(u)) \in Seq(Nat)
        /\ Len(SubSeq(c, 1, Len(u))) = IF 1 <= Len(u) THEN Len(u) - 1 + 1 ELSE 0
        /\ \A i \in 1 .. Len(u) - 1 + 1 : SubSeq(c, 1, Len(u))[i] = c[1 + i - 1]
    BY <1>2, SubSeqProperties
  <2>2. \A i \in 1 .. Len(u) : i \in 1 .. Len(u) - 1 + 1 /\ 1 + i - 1 = i
    OBVIOUS
  <2> QED BY <2>1, <2>2
<1>5. SubSeq(c, 1, Len(u)) = u
  BY <1>2, <1>4, SeqEqual
<1> QED BY <1>2, <1>3, <1>5 DEF c, s

LEMMA PeerShape ==
    ASSUME peer \in PeerRecord
    PROVE  /\ peer.total \in Nat /\ peer.total <= MaxData /\ peer.left \in Nat
           /\ peer.shy \in {"no", "once", "always"} /\ peer.breaks \in BOOLEAN
  BY DataAssumption DEF PeerRecord

\* A part continues what was sent before it, and says whether more is to come.
LEMMA PartsContinue ==
    ASSUME peer \in PeerRecord, peer.left <= peer.total, NEW min \in Nat, NEW a \in Parts(min)
    PROVE  /\ a.left \in Nat /\ a.left <= peer.left /\ a.shy = peer.shy
           /\ a.status \in {"final", "61"} /\ (a.status = "final" <=> a.left = 0)
           /\ \E v \in Seq(Nat) : /\ a.data = v \o <<SW>>
                                  /\ Message(Sent) \o v = Message(peer.total - a.left)
<1>1. peer.total \in Nat /\ peer.left \in Nat /\ MaxPart \in Nat
  BY PeerShape, DataAssumption
<1>2. PICK n \in {m \in 0 .. Fewer(peer.left, MaxPart) : m >= Fewer(min, peer.left)} :
         a = [data |-> Part(n), left |-> peer.left - n, shy |-> peer.shy,
              status |-> IF peer.left = n THEN "final" ELSE "61"]
  BY DEF Parts
<1>3. n \in Nat /\ n <= peer.left
  BY <1>1, <1>2 DEF Fewer
<1> DEFINE v == SubSeq(Message(peer.total), Sent + 1, Sent + n)
<1>4. a.data = v \o <<SW>>
  BY <1>2 DEF Part, Sent
<1>5. Sent \in Nat /\ Sent + n <= peer.total /\ Sent + n = peer.total - (peer.left - n)
  BY <1>1, <1>3 DEF Sent
<1>6. v \in Seq(Nat) /\ Message(Sent) \o v = Message(Sent + n)
  BY <1>1, <1>3, <1>5, MessagesJoin
<1>7. a.left = peer.left - n /\ a.shy = peer.shy
      /\ a.status = (IF peer.left = n THEN "final" ELSE "61")
  BY <1>2
<1> HIDE DEF v
<1>8. Message(Sent) \o v = Message(peer.total - a.left)
  BY <1>5, <1>6, <1>7
<1>9. \E w \in Seq(Nat) : /\ a.data = w \o <<SW>>
                          /\ Message(Sent) \o w = Message(peer.total - a.left)
  BY <1>4, <1>6, <1>8
<1>10. /\ a.left \in Nat /\ a.left <= peer.left /\ a.shy = peer.shy
       /\ a.status \in {"final", "61"} /\ (a.status = "final" <=> a.left = 0)
  BY <1>1, <1>3, <1>7
<1> QED BY <1>9, <1>10

LEMMA CollectedIsTyped ==
    ASSUME NEW k \in Nat, k <= MaxData
    PROVE  /\ Message(k) \o <<SW>> \in Seq(Unit \cup {SW})
           /\ Len(Message(k) \o <<SW>>) = k + 1
<1> DEFINE s == <<SW>>
           p == Message(k)
           A == Unit \cup {SW}
<1>1. p \in Seq(A) /\ Len(p) = k
  BY MessageIs
<1>2. s \in Seq(A) /\ Len(s) = 1
  OBVIOUS
<1> HIDE DEF s, p, A
<1>3. p \o s \in Seq(A) /\ Len(p \o s) = Len(p) + Len(s)
  BY <1>1, <1>2, ConcatProperties
<1>4. Len(p \o s) = k + 1
  BY <1>1, <1>2, <1>3
<1> QED BY <1>3, <1>4 DEF s, p, A

LEMMA NothingIsTyped == <<>> \in Seq(Unit \cup {SW}) /\ Len(<<>>) = 0 /\ Message(0) = <<>>
<1>1. Message(0) \in Seq(Nat) /\ Len(Message(0)) = 0
  BY MessageIs
<1> QED BY <1>1

LEMMA InitWire == WireInit => WireInv
<1> SUFFICES ASSUME WireInit PROVE WireInv
  OBVIOUS
<1>1. tx = [phase |-> "command", acc |-> <<>>, status |-> "none"] /\ peer \in PeerRecord
      /\ peer.left = peer.total
  BY DEF WireInit
<1>2. WireTypeOK
  BY <1>1, NothingIsTyped, DataAssumption DEF WireTypeOK, TxRecord
<1> QED BY <1>1, <1>2, PeerShape DEF WireInv, Assembled, ResponsesAreWhole

\* The response as far as the card has sent it is what the next step finds.
LEMMA ReceivesWhole ==
    ASSUME peer \in PeerRecord, peer.left <= peer.total,
           NEW a, NEW acc, Receives(a, acc),
           a.left \in Nat, a.left <= peer.left, a.shy = peer.shy,
           a.status \in {"final", "61"}, a.status = "final" <=> a.left = 0,
           acc = Message(peer.total - a.left) \o <<SW>>
    PROVE  WireInv'
<1> DEFINE k == peer.total - a.left
<1>1. /\ peer.total \in Nat /\ peer.total <= MaxData /\ peer.left \in Nat
      /\ peer.shy \in {"no", "once", "always"} /\ peer.breaks \in BOOLEAN
  BY PeerShape
<1>2. tx' = [phase |-> Phase(a.status), acc |-> acc, status |-> a.status]
  BY DEF Receives
<1>3. tx'.phase = Phase(a.status) /\ tx'.acc = acc /\ tx'.status = a.status
  BY <1>2
<1>4. /\ peer' \in PeerRecord /\ peer'.left = a.left /\ peer'.total = peer.total
      /\ peer'.breaks = peer.breaks
  <2>1. peer' = [peer EXCEPT !.left = a.left, !.shy = peer.shy]
    BY DEF Receives
  <2>2. a.left \in 0 .. MaxData
    BY <1>1, DataAssumption
  <2> QED BY <1>1, <2>1, <2>2 DEF PeerRecord
<1>5. k \in Nat /\ k <= MaxData
  BY <1>1, DataAssumption
<1>6. acc \in Seq(Unit \cup {SW}) /\ Len(acc) = k + 1
  BY <1>5, CollectedIsTyped
<1>7. Data(acc) = Message(k)
  BY <1>5, MessageIs, DataIs
<1>8. Phase(a.status) \in {"more", "ok"} /\ (Phase(a.status) = "more" <=> a.status = "61")
  BY DEF Phase
<1>9. tx' \in TxRecord
  BY <1>2, <1>6, <1>8 DEF TxRecord
<1>10. Len(tx'.acc) <= MaxData + 1
  BY <1>3, <1>5, <1>6, DataAssumption
<1>11. WireTypeOK'
  BY <1>4, <1>9, <1>10 DEF WireTypeOK
<1>12. peer'.left <= peer'.total
  BY <1>1, <1>4
<1>13. Assembled'
  <2>1. CASE a.status = "61"
    <3>1. tx'.phase = "more" /\ peer'.left > 0
      BY <1>3, <1>4, <1>8, <2>1
    <3>2. Sent' = k
      BY <1>4 DEF Sent
    <3> QED BY <1>3, <3>1, <3>2 DEF Assembled
  <2>2. CASE a.status = "final"
    BY <1>3, <1>8, <2>2 DEF Assembled
  <2> QED BY <2>1, <2>2
<1>14. tx'.phase = "ok" => tx'.status = "final" /\ Data(tx'.acc) = Message(peer'.total)
  <2>1. ASSUME tx'.phase = "ok" PROVE a.status = "final" /\ k = peer.total
    BY <1>1, <1>3, <1>8, <2>1
  <2>2. Data(tx'.acc) = Message(k)
    BY <1>3, <1>7
  <2> HIDE DEF k
  <2> QED BY <1>3, <1>4, <2>1, <2>2
<1>15. Data(tx.acc)' = Data(tx'.acc) /\ Message(peer.total)' = Message(peer'.total)
  BY DEF Data, Message
<1> QED BY <1>11, <1>12, <1>13, <1>14, <1>15 DEF WireInv, ResponsesAreWhole

LEMMA SendAssembles ==
    ASSUME WireInv, Send
    PROVE  WireInv'
<1>1. /\ WireTypeOK /\ peer \in PeerRecord /\ tx \in TxRecord /\ peer.left <= peer.total
      /\ tx.phase \in {"command", "again"} /\ tx.acc = <<>> /\ peer.left = peer.total
  BY DEF WireInv, WireTypeOK, Assembled, Send
<1>2. /\ peer.total \in Nat /\ peer.total <= MaxData /\ peer.left \in Nat
      /\ peer.shy \in {"no", "once", "always"} /\ peer.breaks \in BOOLEAN
  BY <1>1, PeerShape
<1>3. PICK a \in AnswersToCommand :
         IF a.status = "6C" /\ tx.phase = "command"
         THEN /\ tx' = [tx EXCEPT !.phase = "again", !.status = "6C"]
              /\ peer' = [peer EXCEPT !.shy = a.shy]
         ELSE Receives(a, a.data)
  BY DEF Send
<1>4. CASE peer.shy # "no"
  <2>1. a = [data |-> <<SW>>, left |-> peer.left, status |-> "6C",
             shy |-> IF peer.shy = "once" THEN "no" ELSE "always"]
    BY <1>3, <1>4 DEF AnswersToCommand
  <2>2. /\ a.data = <<SW>> /\ a.left = peer.left /\ a.status = "6C"
        /\ a.shy \in {"no", "always"}
    BY <2>1
  <2>3. CASE tx.phase = "command"
    <3>1. tx' = [tx EXCEPT !.phase = "again", !.status = "6C"]
          /\ peer' = [peer EXCEPT !.shy = a.shy]
      BY <1>3, <2>2, <2>3
    <3>2. tx' \in TxRecord /\ tx'.phase = "again" /\ tx'.acc = <<>>
      BY <1>1, <3>1 DEF TxRecord
    <3>3. peer' \in PeerRecord /\ peer'.left = peer.left /\ peer'.total = peer.total
      BY <1>1, <2>2, <3>1 DEF PeerRecord
    <3>4. WireTypeOK'
      BY <3>2, <3>3, NothingIsTyped, DataAssumption DEF WireTypeOK
    <3> QED BY <1>1, <3>2, <3>3, <3>4 DEF WireInv, Assembled, ResponsesAreWhole
  <2>4. CASE tx.phase = "again"
    <3>1. Receives(a, a.data)
      BY <1>3, <2>4
    <3>2. tx' = [phase |-> "ok", acc |-> <<SW>>, status |-> "6C"]
      BY <2>2, <3>1 DEF Receives, Phase
    <3>3. peer' \in PeerRecord /\ peer'.left = peer.left /\ peer'.total = peer.total
      BY <1>1, <2>2, <3>1 DEF Receives, PeerRecord
    <3>4. <<SW>> \in Seq(Unit \cup {SW}) /\ Len(<<SW>>) = 1
      OBVIOUS
    <3>5. tx' \in TxRecord
      BY <3>2, <3>4 DEF TxRecord
    <3>6. WireTypeOK'
      BY <3>2, <3>3, <3>4, <3>5, DataAssumption DEF WireTypeOK
    <3>7. Data(tx.acc)' = <<>>
      BY <3>2, <3>4 DEF Data
    <3>8. ResponsesAreWhole'
      BY <3>2, <3>6, <3>7 DEF ResponsesAreWhole
    <3> QED BY <1>1, <3>2, <3>3, <3>6, <3>8 DEF WireInv, Assembled
  <2> QED BY <1>1, <2>3, <2>4
<1>5. CASE peer.shy = "no"
  <2>1. a \in Parts(0)
    BY <1>3, <1>5 DEF AnswersToCommand
  <2>2. /\ a.left \in Nat /\ a.left <= peer.left /\ a.shy = peer.shy
        /\ a.status \in {"final", "61"} /\ (a.status = "final" <=> a.left = 0)
    BY <1>1, <2>1, PartsContinue
  <2>3. PICK v \in Seq(Nat) : /\ a.data = v \o <<SW>>
                              /\ Message(Sent) \o v = Message(peer.total - a.left)
    BY <1>1, <2>1, PartsContinue
  <2>4. v = Message(peer.total - a.left)
    <3>1. Sent = 0
      BY <1>1, <1>2 DEF Sent
    <3>2. Message(Sent) = <<>>
      BY <3>1, NothingIsTyped
    <3>3. <<>> \o v = v
      BY <2>3
    <3> QED BY <2>3, <3>2, <3>3
  <2>5. Receives(a, a.data)
    BY <1>3, <2>2
  <2>6. a.data = Message(peer.total - a.left) \o <<SW>>
    BY <2>3, <2>4
  <2> QED BY <1>1, <2>2, <2>5, <2>6, ReceivesWhole
<1> QED BY <1>4, <1>5

LEMMA GetResponseAssembles ==
    ASSUME WireInv, GetResponse
    PROVE  WireInv'
<1>1. /\ peer \in PeerRecord /\ peer.left <= peer.total
      /\ tx.acc = Message(Sent) \o <<SW>>
  BY DEF WireInv, WireTypeOK, Assembled, GetResponse
<1>2. PICK a \in Parts(1) : Receives(a, Appended(tx.acc, a.data))
  BY DEF GetResponse
<1>3. /\ a.left \in Nat /\ a.left <= peer.left /\ a.shy = peer.shy
      /\ a.status \in {"final", "61"} /\ (a.status = "final" <=> a.left = 0)
  BY <1>1, PartsContinue
<1>4. PICK v \in Seq(Nat) : /\ a.data = v \o <<SW>>
                            /\ Message(Sent) \o v = Message(peer.total - a.left)
  BY <1>1, PartsContinue
<1>5. Sent \in Nat
  BY <1>1, PeerShape DEF Sent
<1> DEFINE p == Message(Sent)
           s == <<SW>>
<1>6. p \in Seq(Nat) /\ s \in Seq(Nat)
  BY <1>5, MessageIs DEF SW
<1>7. Data(tx.acc) = p
  <2>1. tx.acc = p \o s
    BY <1>1
  <2>2. Data(p \o s) = p
    BY <1>6, DataIs
  <2> HIDE DEF p, s
  <2> QED BY <2>1, <2>2
<1>8. p \o (v \o s) = (p \o v) \o s
  <2>1. p \in Seq(Nat) /\ v \in Seq(Nat) /\ s \in Seq(Nat)
    BY <1>6
  <2> HIDE DEF p, s
  <2>2. (p \o v) \o s = p \o (v \o s)
    BY <2>1, ConcatAssociative, SMTT(30)
  <2> QED BY <2>2
<1>9. Appended(tx.acc, a.data) = Message(peer.total - a.left) \o <<SW>>
  <2>1. a.data = v \o s /\ p \o v = Message(peer.total - a.left)
    BY <1>4
  <2>2. Appended(tx.acc, a.data) = p \o (v \o s)
    BY <1>7, <2>1 DEF Appended
  <2>3. Appended(tx.acc, a.data) = (p \o v) \o s
    <3> HIDE DEF p, s
    <3> QED BY <1>8, <2>2
  <2>4. Appended(tx.acc, a.data) = Message(peer.total - a.left) \o s
    <3> HIDE DEF p, s
    <3> QED BY <2>1, <2>3
  <2> QED BY <2>4
<1> QED BY <1>1, <1>2, <1>3, <1>9, ReceivesWhole

LEMMA BreaksAssembles ==
    ASSUME WireInv, Breaks
    PROVE  WireInv'
<1>1. tx' = [tx EXCEPT !.phase = "error"] /\ peer' = peer /\ tx \in TxRecord
  BY DEF WireInv, WireTypeOK, Breaks
<1>2. tx' \in TxRecord /\ tx'.phase = "error" /\ tx'.acc = tx.acc
  BY <1>1 DEF TxRecord
<1>3. WireTypeOK'
  BY <1>1, <1>2 DEF WireInv, WireTypeOK
<1> QED BY <1>1, <1>2, <1>3 DEF WireInv, Assembled, ResponsesAreWhole

LEMMA WireStepAssembles == WireInv /\ [WireStep]_wireVars => WireInv'
<1> SUFFICES ASSUME WireInv, [WireStep]_wireVars PROVE WireInv'
  OBVIOUS
<1>1. CASE Send
  BY <1>1, SendAssembles
<1>2. CASE GetResponse
  BY <1>2, GetResponseAssembles
<1>3. CASE Breaks
  BY <1>3, BreaksAssembles
<1>4. CASE UNCHANGED wireVars
  BY <1>4 DEF wireVars, WireInv, WireTypeOK, Assembled, Sent, ResponsesAreWhole, Data, Message
<1> QED BY <1>1, <1>2, <1>3, <1>4 DEF WireStep

\* transmit: however the card splits its response, asks for the command again
\* or stops answering, what is returned is the response, whole and in order and
\* without the status words in between.
THEOREM TransmitsAreWhole == WireSpec => []ResponsesAreWhole
<1>1. WireInv => ResponsesAreWhole
  BY DEF WireInv
<1> QED BY InitWire, WireStepAssembles, <1>1, PTL DEF WireSpec

-----------------------------------------------------------------------------
(* The records of directory files.  What a recursive function computes is      *)
(* proved by its least counterexample: the least place for which it fails.     *)

\* Every set of naturals has a least element.
LEMMA LeastElement ==
    ASSUME NEW S, S \subseteq Nat, S # {}
    PROVE  \E m \in S : \A k \in S : m <= k
<1> DEFINE R == {p \in Nat \X Nat : p[1] < p[2]}
<1> HIDE DEF R
<1>1. IsWellFoundedOn(R, Nat)
  BY NatLessThanWellFounded DEF OpToRel, R
<1>2. PICK m \in S : \A k \in S : ~(<<k, m>> \in R)
  BY <1>1, WFMin
<1>3. ASSUME NEW k \in S PROVE m <= k
  <2>1. <<k, m>> \notin {p \in Nat \X Nat : p[1] < p[2]}
    BY <1>2 DEF R
  <2>2. k \in Nat /\ m \in Nat
    OBVIOUS
  <2> QED BY <2>1, <2>2
<1> QED BY <1>3

\* Sequences of the same length that agree in every place are the same.
LEMMA SameSeq ==
    ASSUME NEW S, NEW s \in Seq(S), NEW t \in Seq(S), Len(s) = Len(t),
           \A i \in 1 .. Len(s) : s[i] = t[i]
    PROVE  s = t
  OBVIOUS

\* A concatenation, place by place.
LEMMA Concat ==
    ASSUME NEW S, NEW s \in Seq(S), NEW t \in Seq(S)
    PROVE  /\ s \o t \in Seq(S) /\ Len(s \o t) = Len(s) + Len(t)
           /\ \A i \in 1 .. Len(s) : (s \o t)[i] = s[i]
           /\ \A i \in 1 .. Len(t) : (s \o t)[Len(s) + i] = t[i]
  OBVIOUS

-----------------------------------------------------------------------------
(* Lengths *)

\* One byte more of a length.
LengthStep(data, v, b) == IF v > Len(data) THEN v ELSE 256 * v + b

\* BigEndian takes the bytes one after the other.
LEMMA BigEndianSteps ==
    ASSUME NEW data, NEW off \in Nat, NEW n \in 1 .. 4
    PROVE  LET v1 == LengthStep(data, 0, At(data, off))
               v2 == LengthStep(data, v1, At(data, off + 1))
               v3 == LengthStep(data, v2, At(data, off + 2))
               v4 == LengthStep(data, v3, At(data, off + 3))
           IN BigEndian(data, off, n) = CASE n = 1 -> v1 [] n = 2 -> v2 [] n = 3 -> v3 [] n = 4 -> v4
<1> DEFINE v1 == LengthStep(data, 0, At(data, off))
           v2 == LengthStep(data, v1, At(data, off + 1))
           v3 == LengthStep(data, v2, At(data, off + 2))
           v4 == LengthStep(data, v3, At(data, off + 3))
           v == [i \in 0 .. n |-> CASE i = 0 -> 0 [] i = 1 -> v1 [] i = 2 -> v2
                                    [] i = 3 -> v3 [] i = 4 -> v4]
           l == CHOOSE l : l = [i \in 0 .. n |-> IF i = 0 THEN 0
                                                 ELSE IF l[i - 1] > Len(data) THEN l[i - 1]
                                                 ELSE 256 * l[i - 1] + At(data, off + i - 1)]
<1>0. off + 1 - 1 = off /\ off + 2 - 1 = off + 1 /\ off + 3 - 1 = off + 2 /\ off + 4 - 1 = off + 3
  OBVIOUS
<1>1. v = [i \in 0 .. n |-> IF i = 0 THEN 0
                            ELSE IF v[i - 1] > Len(data) THEN v[i - 1]
                            ELSE 256 * v[i - 1] + At(data, off + i - 1)]
  <2>1. /\ v[0] = 0 /\ (n >= 1 => v[1] = v1) /\ (n >= 2 => v[2] = v2)
        /\ (n >= 3 => v[3] = v3) /\ (n >= 4 => v[4] = v4)
    <3> HIDE DEF v1, v2, v3, v4
    <3> QED OBVIOUS
  <2>2. DOMAIN v = 0 .. n /\ v = [i \in 0 .. n |-> v[i]]
    <3> HIDE DEF v1, v2, v3, v4
    <3> QED OBVIOUS
  <2> HIDE DEF v
  <2>3. ASSUME NEW i \in 0 .. n
        PROVE  v[i] = IF i = 0 THEN 0
                      ELSE IF v[i - 1] > Len(data) THEN v[i - 1]
                      ELSE 256 * v[i - 1] + At(data, off + i - 1)
    <3>1. i = 0 \/ i = 1 \/ i = 2 \/ i = 3 \/ i = 4
      OBVIOUS
    <3>2. CASE i = 0
      BY <2>1, <3>2
    <3>3. CASE i = 1
      <4>1. v[1] = LengthStep(data, v[0], At(data, off))
        BY <2>1, <3>3
      <4> QED BY <1>0, <3>3, <4>1 DEF LengthStep
    <3>4. CASE i = 2
      <4>1. v[2] = LengthStep(data, v[1], At(data, off + 1))
        BY <2>1, <3>4
      <4> QED BY <1>0, <3>4, <4>1 DEF LengthStep
    <3>5. CASE i = 3
      <4>1. v[3] = LengthStep(data, v[2], At(data, off + 2))
        BY <2>1, <3>5
      <4> QED BY <1>0, <3>5, <4>1 DEF LengthStep
    <3>6. CASE i = 4
      <4>1. v[4] = LengthStep(data, v[3], At(data, off + 3))
        BY <2>1, <3>6
      <4> QED BY <1>0, <3>6, <4>1 DEF LengthStep
    <3> QED BY <3>1, <3>2, <3>3, <3>4, <3>5, <3>6
  <2> QED BY <2>2, <2>3
<1> HIDE DEF v
<1>2. l = [i \in 0 .. n |-> IF i = 0 THEN 0
                            ELSE IF l[i - 1] > Len(data) THEN l[i - 1]
                            ELSE 256 * l[i - 1] + At(data, off + i - 1)]
  BY <1>1, ZenonT(60)
<1>3. BigEndian(data, off, n) = l[n]
  BY Zenon DEF BigEndian
<1> HIDE DEF l
<1>4. l[0] = 0
  BY <1>2
<1>5. ASSUME NEW i \in 1 .. n PROVE l[i] = LengthStep(data, l[i - 1], At(data, off + i - 1))
  <2>1. i \in 0 .. n /\ i # 0
    OBVIOUS
  <2> QED BY <1>2, <2>1 DEF LengthStep
<1>6. l[1] = v1
  <2>1. 1 \in 1 .. n /\ 1 - 1 = 0
    OBVIOUS
  <2>2. l[1] = LengthStep(data, l[1 - 1], At(data, off + 1 - 1))
    BY <1>5, <2>1
  <2> QED BY <1>0, <1>4, <2>1, <2>2
<1>7. n >= 2 => l[2] = v2
  <2> SUFFICES ASSUME n >= 2 PROVE l[2] = v2
    OBVIOUS
  <2>1. 2 \in 1 .. n /\ 2 - 1 = 1
    OBVIOUS
  <2>2. l[2] = LengthStep(data, l[2 - 1], At(data, off + 2 - 1))
    BY <1>5, <2>1
  <2> HIDE DEF v1
  <2> QED BY <1>0, <1>6, <2>1, <2>2
<1>8. n >= 3 => l[3] = v3
  <2> SUFFICES ASSUME n >= 3 PROVE l[3] = v3
    OBVIOUS
  <2>1. 3 \in 1 .. n /\ 3 - 1 = 2 /\ n >= 2
    OBVIOUS
  <2>2. l[3] = LengthStep(data, l[3 - 1], At(data, off + 3 - 1))
    BY <1>5, <2>1
  <2> HIDE DEF v2
  <2> QED BY <1>0, <1>7, <2>1, <2>2
<1>9. n >= 4 => l[4] = v4
  <2> SUFFICES ASSUME n >= 4 PROVE l[4] = v4
    OBVIOUS
  <2>1. 4 \in 1 .. n /\ 4 - 1 = 3 /\ n >= 3
    OBVIOUS
  <2>2. l[4] = LengthStep(data, l[4 - 1], At(data, off + 4 - 1))
    BY <1>5, <2>1
  <2> HIDE DEF v3
  <2> QED BY <1>0, <1>8, <2>1, <2>2
<1> HIDE DEF v1, v2, v3, v4
<1>10. n = 1 \/ n = 2 \/ n = 3 \/ n = 4
  OBVIOUS
<1>11. l[n] = CASE n = 1 -> v1 [] n = 2 -> v2 [] n = 3 -> v3 [] n = 4 -> v4
  BY <1>6, <1>7, <1>8, <1>9, <1>10
<1> QED BY <1>3, <1>11 DEF v1, v2, v3, v4

\* The number in n bytes.
Number(data, off, n) ==
    CASE n = 1 -> At(data, off)
      [] n = 2 -> 256 * At(data, off) + At(data, off + 1)
      [] n = 3 -> 256 * (256 * At(data, off) + At(data, off + 1)) + At(data, off + 2)
      [] n = 4 -> 256 * (256 * (256 * At(data, off) + At(data, off + 1)) + At(data, off + 2))
                    + At(data, off + 3)

\* BigEndian yields the number, or something longer than the buffer instead.
LEMMA BigEndianIs ==
    ASSUME NEW data \in Seq(Byte), NEW off \in Nat, NEW n \in 1 .. 4, off + n <= Len(data)
    PROVE  /\ Number(data, off, n) \in Nat /\ BigEndian(data, off, n) \in Nat
           /\ Number(data, off, n) <= Len(data) =>
                 BigEndian(data, off, n) = Number(data, off, n)
           /\ BigEndian(data, off, n) <= Len(data) =>
                 BigEndian(data, off, n) = Number(data, off, n)
<1> DEFINE b1 == At(data, off)
           b2 == At(data, off + 1)
           b3 == At(data, off + 2)
           b4 == At(data, off + 3)
           len == Len(data)
           v1 == LengthStep(data, 0, b1)
           v2 == LengthStep(data, v1, b2)
           v3 == LengthStep(data, v2, b3)
           v4 == LengthStep(data, v3, b4)
           w2 == 256 * b1 + b2
           w3 == 256 * w2 + b3
           w4 == 256 * w3 + b4
           Good(v, w) == v \in Nat /\ w \in Nat /\ (w <= len => v = w) /\ (v <= len => v = w)
<1>0. len \in Nat /\ off + n <= len
  OBVIOUS
<1>1. BigEndian(data, off, n) = CASE n = 1 -> v1 [] n = 2 -> v2 [] n = 3 -> v3 [] n = 4 -> v4
  BY BigEndianSteps
<1>2. Number(data, off, n) = CASE n = 1 -> b1 [] n = 2 -> w2 [] n = 3 -> w3 [] n = 4 -> w4
  BY DEF Number
<1>3. \A i \in 1 .. n : At(data, off + i - 1) \in Byte
  <2> SUFFICES ASSUME NEW i \in 1 .. n PROVE At(data, off + i - 1) \in Byte
    OBVIOUS
  <2>1. off + i - 1 + 1 \in 1 .. Len(data)
    BY <1>0
  <2> QED BY <2>1 DEF At
<1>4. /\ b1 \in Byte /\ (n >= 2 => b2 \in Byte) /\ (n >= 3 => b3 \in Byte)
      /\ (n >= 4 => b4 \in Byte)
  <2>1. off + 1 - 1 = off /\ off + 2 - 1 = off + 1 /\ off + 3 - 1 = off + 2 /\ off + 4 - 1 = off + 3
    OBVIOUS
  <2>2. At(data, off + 1 - 1) \in Byte
    <3>1. 1 \in 1 .. n
      OBVIOUS
    <3> QED BY <1>3, <3>1, Zenon
  <2>6. (n >= 2 => 2 \in 1 .. n) /\ (n >= 3 => 3 \in 1 .. n) /\ (n >= 4 => 4 \in 1 .. n)
    OBVIOUS
  <2>3. n >= 2 => At(data, off + 2 - 1) \in Byte
    BY <1>3, <2>6, Zenon
  <2>4. n >= 3 => At(data, off + 3 - 1) \in Byte
    BY <1>3, <2>6, Zenon
  <2>5. n >= 4 => At(data, off + 4 - 1) \in Byte
    BY <1>3, <2>6, Zenon
  <2> QED BY <2>1, <2>2, <2>3, <2>4, <2>5
<1> HIDE DEF b1, b2, b3, b4, len
<1>5. Good(v1, b1)
  BY <1>0, <1>4 DEF LengthStep, Byte, len
<1>6. ASSUME NEW v, NEW w, Good(v, w), NEW b \in Byte
      PROVE  Good(LengthStep(data, v, b), 256 * w + b)
  BY <1>0, <1>6 DEF LengthStep, Byte, len
<1> HIDE DEF Good, v1
<1>7. n >= 2 => Good(v2, w2)
  BY <1>4, <1>5, <1>6
<1> HIDE DEF v2, w2
<1>8. n >= 3 => Good(v3, w3)
  BY <1>4, <1>6, <1>7
<1> HIDE DEF v3, w3
<1>9. n >= 4 => Good(v4, w4)
  BY <1>4, <1>6, <1>8
<1> HIDE DEF v4, w4
<1>10. n = 1 \/ n = 2 \/ n = 3 \/ n = 4
  OBVIOUS
<1>11. Good(BigEndian(data, off, n), Number(data, off, n))
  BY <1>1, <1>2, <1>5, <1>7, <1>8, <1>9, <1>10
<1> QED BY <1>11 DEF Good, len

\* What Length returns.
LEMMA LengthIs ==
    ASSUME NEW data \in Seq(Byte), NEW off \in Nat, off < Len(data)
    PROVE  LET b == At(data, off)
               n == b % 128
           IN /\ b \in Byte
              /\ b < 128 => Length(data, off) = [ok |-> TRUE, bytes |-> 1, value |-> b]
              /\ b >= 128 /\ (n = 0 \/ n > 4 \/ off + 1 + n > Len(data)) => Length(data, off) = Bad
              /\ b >= 128 /\ n \in 1 .. 4 /\ off + 1 + n <= Len(data) =>
                    Length(data, off) =
                      [ok |-> TRUE, bytes |-> 1 + n, value |-> BigEndian(data, off + 1, n)]
              /\ b >= 128 => n \in 0 .. 127
<1> DEFINE b == At(data, off)
           n == b % 128
<1>1. b \in Byte
  <2>1. off + 1 \in 1 .. Len(data)
    OBVIOUS
  <2> QED BY <2>1 DEF At
<1> HIDE DEF b
<1>2. b \in 0 .. 255 /\ n \in 0 .. 127 /\ (b >= 128 => ~(b < 128))
  <2>1. b \in 0 .. 255
    BY <1>1 DEF Byte
  <2> QED BY <2>1
<1> HIDE DEF n
<1>3. b < 128 => Length(data, off) = [ok |-> TRUE, bytes |-> 1, value |-> b]
  BY DEF Length, b
<1>4. b >= 128 /\ (n = 0 \/ n > 4 \/ off + 1 + n > Len(data)) => Length(data, off) = Bad
  BY <1>2 DEF Length, n, b
<1>5. b >= 128 /\ n \in 1 .. 4 /\ off + 1 + n <= Len(data) =>
        Length(data, off) = [ok |-> TRUE, bytes |-> 1 + n, value |-> BigEndian(data, off + 1, n)]
  <2> SUFFICES ASSUME b >= 128, n \in 1 .. 4, off + 1 + n <= Len(data)
               PROVE  Length(data, off) =
                        [ok |-> TRUE, bytes |-> 1 + n, value |-> BigEndian(data, off + 1, n)]
    OBVIOUS
  <2>1. ~(b < 128) /\ ~(n = 0 \/ n > 4 \/ off + 1 + n > Len(data))
    BY <1>2
  <2> QED BY <2>1 DEF Length, n, b
<1> QED BY <1>1, <1>2, <1>3, <1>4, <1>5 DEF n, b

\* What DerNext returns.
LEMMA DerNextIs ==
    ASSUME NEW data, NEW off
    PROVE  LET t == TagBytes(data, off)
               l == Length(data, off + t)
               end == off + (t + l.bytes) + l.value
               there == ~(off >= Len(data) \/ off + t >= Len(data)) /\ l.ok /\ ~(end > Len(data))
           IN /\ ~there => DerNext(data, off) = Bad
              /\ there => DerNext(data, off) =
                   [ok |-> TRUE,
                    tag |-> IF t = 1 THEN At(data, off) ELSE 256 * At(data, off) + At(data, off + 1),
                    hdr |-> t + l.bytes,
                    val |-> SubSeq(data, off + (t + l.bytes) + 1, end), next |-> end]
<1> DEFINE t == TagBytes(data, off)
           l == Length(data, off + t)
           tag == IF t = 1 THEN At(data, off) ELSE 256 * At(data, off) + At(data, off + 1)
           hdr == t + l.bytes
           end == off + hdr + l.value
           out == off >= Len(data) \/ off + t >= Len(data)
           r == [ok |-> TRUE, tag |-> tag, hdr |-> hdr, val |-> SubSeq(data, off + hdr + 1, end),
                 next |-> end]
<1>1. DerNext(data, off) = IF out THEN Bad
                           ELSE IF ~l.ok THEN Bad ELSE IF end > Len(data) THEN Bad ELSE r
  BY Zenon DEF DerNext
<1>2. r = [ok |-> TRUE, tag |-> tag, hdr |-> t + l.bytes,
           val |-> SubSeq(data, off + (t + l.bytes) + 1, end), next |-> end]
  BY Zenon
<1> HIDE DEF r, out
<1>3. ~(~out /\ l.ok /\ ~(end > Len(data))) => DerNext(data, off) = Bad
  BY <1>1
<1>4. ~out /\ l.ok /\ ~(end > Len(data)) => DerNext(data, off) = r
  BY <1>1
<1> QED BY <1>2, <1>3, <1>4, Zenon DEF out

\* The same without the bound on the number: a length field at off, the element
\* at off, and whether they are there.
ExactBytes(data, off) == LET b == At(data, off) IN IF b < 128 THEN 1 ELSE 1 + (b % 128)

ExactValue(data, off) ==
    LET b == At(data, off) IN IF b < 128 THEN b ELSE Number(data, off + 1, b % 128)

LengthFits(data, off) ==
    /\ off < Len(data)
    /\ \/ At(data, off) < 128
       \/ /\ At(data, off) >= 128 /\ At(data, off) % 128 \in 1 .. 4
          /\ off + 1 + (At(data, off) % 128) <= Len(data)

\* Length yields the field where it fits, and nothing where it does not.
LEMMA LengthExact ==
    ASSUME NEW data \in Seq(Byte), NEW off \in Nat
    PROVE  LET l == Length(data, off)
           IN /\ off < Len(data) /\ ~LengthFits(data, off) => l = Bad
              /\ LengthFits(data, off) =>
                    /\ l.ok /\ l.bytes = ExactBytes(data, off) /\ ExactBytes(data, off) \in 1 .. 5
                    /\ l.value \in Nat /\ ExactValue(data, off) \in Nat
                    /\ l.value <= Len(data) => l.value = ExactValue(data, off)
                    /\ ExactValue(data, off) <= Len(data) => l.value = ExactValue(data, off)
<1> DEFINE l == Length(data, off)
           b == At(data, off)
           n == b % 128
           len == Len(data)
<1>0. len \in Nat
  OBVIOUS
<1>1. CASE ~(off < len)
  BY <1>1 DEF LengthFits
<1>2. CASE off < len
  <2>1. /\ b \in Byte
        /\ b < 128 => l = [ok |-> TRUE, bytes |-> 1, value |-> b]
        /\ b >= 128 /\ (n = 0 \/ n > 4 \/ off + 1 + n > len) => l = Bad
        /\ b >= 128 /\ n \in 1 .. 4 /\ off + 1 + n <= len =>
              l = [ok |-> TRUE, bytes |-> 1 + n, value |-> BigEndian(data, off + 1, n)]
        /\ b >= 128 => n \in 0 .. 127
    BY <1>2, LengthIs
  <2> HIDE DEF b, n, l, len
  <2>2. b \in 0 .. 255
    BY <2>1 DEF Byte
  <2>3. CASE b < 128
    <3>1. l.ok /\ l.bytes = 1 /\ l.value = b
      BY <2>1, <2>3
    <3>2. ExactBytes(data, off) = 1 /\ ExactValue(data, off) = b
      BY <2>3 DEF ExactBytes, ExactValue, b
    <3>3. LengthFits(data, off)
      BY <1>2, <2>3 DEF LengthFits, b, len
    <3> QED BY <2>2, <3>1, <3>2, <3>3 DEF l
  <2>4. CASE b >= 128 /\ n \in 1 .. 4 /\ off + 1 + n <= len
    <3>1. l.ok /\ l.bytes = 1 + n /\ l.value = BigEndian(data, off + 1, n)
      BY <2>1, <2>4
    <3>2. ExactBytes(data, off) = 1 + n /\ ExactValue(data, off) = Number(data, off + 1, n)
      <4>1. ~(b < 128)
        BY <2>2, <2>4
      <4> QED BY <4>1 DEF ExactBytes, ExactValue, b, n
    <3>3. LengthFits(data, off)
      BY <1>2, <2>4, Zenon DEF LengthFits, b, n, len
    <3>4. /\ Number(data, off + 1, n) \in Nat /\ BigEndian(data, off + 1, n) \in Nat
          /\ Number(data, off + 1, n) <= len =>
                BigEndian(data, off + 1, n) = Number(data, off + 1, n)
          /\ BigEndian(data, off + 1, n) <= len =>
                BigEndian(data, off + 1, n) = Number(data, off + 1, n)
      <4>1. off + 1 \in Nat /\ n \in 1 .. 4 /\ off + 1 + n <= Len(data)
        BY <2>4 DEF len
      <4> QED BY <4>1, BigEndianIs DEF len
    <3>5. 1 + n \in 1 .. 5
      BY <2>4
    <3> QED BY <3>1, <3>2, <3>3, <3>4, <3>5 DEF l, len
  <2>5. CASE b >= 128 /\ ~(n \in 1 .. 4 /\ off + 1 + n <= len)
    <3>1. n \in 0 .. 127
      BY <2>1, <2>5
    <3>2. n = 0 \/ n > 4 \/ off + 1 + n > len
      BY <1>0, <2>5, <3>1
    <3>3. l = Bad
      BY <2>1, <2>5, <3>2
    <3>4. ~LengthFits(data, off)
      <4>1. ~(b < 128)
        BY <2>2, <2>5
      <4> QED BY <2>5, <4>1, Zenon DEF LengthFits, b, n, len
    <3> QED BY <3>3, <3>4 DEF l
  <2>6. b < 128 \/ b >= 128
    BY <2>2
  <2> QED BY <2>3, <2>4, <2>5, <2>6
<1> QED BY <1>1, <1>2

ElementEnd(data, off) ==
    LET t == TagBytes(data, off)
    IN off + (t + ExactBytes(data, off + t)) + ExactValue(data, off + t)

ElementFits(data, off) ==
    /\ off < Len(data) /\ LengthFits(data, off + TagBytes(data, off))
    /\ ElementEnd(data, off) <= Len(data)

Element(data, off) ==
    LET t == TagBytes(data, off)
        hdr == t + ExactBytes(data, off + t)
    IN [ok |-> TRUE,
        tag |-> IF t = 1 THEN At(data, off) ELSE 256 * At(data, off) + At(data, off + 1),
        hdr |-> hdr, val |-> SubSeq(data, off + hdr + 1, ElementEnd(data, off)),
        next |-> ElementEnd(data, off)]

\* DerNext yields the element where it fits, and nothing where it does not.
LEMMA DerNextExact ==
    ASSUME NEW data \in Seq(Byte), NEW off \in Nat
    PROVE  /\ ElementFits(data, off) => /\ DerNext(data, off) = Element(data, off)
                                        /\ ElementEnd(data, off) \in off + 2 .. Len(data)
           /\ ~ElementFits(data, off) => DerNext(data, off) = Bad
<1> DEFINE t == TagBytes(data, off)
           l == Length(data, off + t)
           end == off + (t + l.bytes) + l.value
           there == ~(off >= Len(data) \/ off + t >= Len(data)) /\ l.ok /\ ~(end > Len(data))
           tag == IF t = 1 THEN At(data, off) ELSE 256 * At(data, off) + At(data, off + 1)
           len == Len(data)
           bytes == ExactBytes(data, off + t)
           value == ExactValue(data, off + t)
<1>1. /\ ~there => DerNext(data, off) = Bad
      /\ there => DerNext(data, off) =
                   [ok |-> TRUE, tag |-> tag, hdr |-> t + l.bytes,
                    val |-> SubSeq(data, off + (t + l.bytes) + 1, end), next |-> end]
  BY DerNextIs, Zenon
<1>2. t \in {1, 2} /\ len \in Nat
  BY DEF TagBytes
<1>3. /\ off + t < len /\ ~LengthFits(data, off + t) => l = Bad
      /\ LengthFits(data, off + t) =>
            /\ l.ok /\ l.bytes = bytes /\ bytes \in 1 .. 5 /\ l.value \in Nat /\ value \in Nat
            /\ l.value <= len => l.value = value
            /\ value <= len => l.value = value
  <2>1. off + t \in Nat
    BY <1>2
  <2> HIDE DEF t
  <2> QED BY <2>1, LengthExact
<1>4. LengthFits(data, off + t) => off + t < len
  BY DEF LengthFits
<1>5. ElementEnd(data, off) = off + (t + bytes) + value
  BY DEF ElementEnd
<1> HIDE DEF t, l, len, bytes, value
<1>6. ASSUME ElementFits(data, off)
      PROVE  DerNext(data, off) = Element(data, off) /\ ElementEnd(data, off) \in off + 2 .. len
  <2>1. off < len /\ LengthFits(data, off + t) /\ off + (t + bytes) + value <= len
    BY <1>5, <1>6 DEF ElementFits, t, len
  <2>2. l.ok /\ l.bytes = bytes /\ bytes \in 1 .. 5 /\ value \in Nat
    BY <1>3, <2>1
  <2>3. value <= len
    BY <1>2, <2>1, <2>2
  <2>4. l.value = value
    BY <1>3, <2>1, <2>3
  <2>5. there
    <3>1. ~(off >= len \/ off + t >= len)
      BY <1>2, <1>4, <2>1
    <3>2. ~(end > len)
      BY <1>2, <2>1, <2>2, <2>4
    <3> QED BY <2>2, <3>1, <3>2 DEF len
  <2>6. DerNext(data, off) =
          [ok |-> TRUE, tag |-> tag, hdr |-> t + l.bytes,
           val |-> SubSeq(data, off + (t + l.bytes) + 1, end), next |-> end]
    BY <1>1, <2>5
  <2>7. DerNext(data, off) = Element(data, off)
    BY <1>5, <2>2, <2>4, <2>6 DEF Element, t, bytes
  <2>8. off + (t + bytes) + value \in off + 2 .. len
    BY <1>2, <2>1, <2>2
  <2> QED BY <1>5, <2>7, <2>8
<1>7. ASSUME ~ElementFits(data, off) PROVE DerNext(data, off) = Bad
  <2> SUFFICES ASSUME there PROVE FALSE
    BY <1>1
  <2>1. ~(off >= len \/ off + t >= len) /\ l.ok /\ ~(end > len)
    BY DEF len
  <2>2. off < len /\ off + t < len
    BY <1>2, <2>1
  <2>3. LengthFits(data, off + t)
    <3>1. Bad.ok = FALSE
      BY DEF Bad
    <3> QED BY <1>3, <2>1, <2>2, <3>1
  <2>4. l.bytes = bytes /\ bytes \in 1 .. 5 /\ l.value \in Nat
    BY <1>3, <2>3
  <2>5. l.value <= len
    BY <1>2, <2>1, <2>4
  <2>6. l.value = value
    BY <1>3, <2>3, <2>5
  <2>7. off + (t + bytes) + value <= len
    BY <1>2, <2>1, <2>4, <2>6
  <2> QED BY <1>5, <1>7, <2>2, <2>3, <2>7 DEF ElementFits, t, len
<1> QED BY <1>6, <1>7 DEF len

\* s is how t starts.
Starts(s, t) == Len(s) <= Len(t) /\ \A o \in 0 .. Len(s) - 1 : At(s, o) = At(t, o)

\* A length field is the same in a buffer that goes on.
LEMMA LengthStarts ==
    ASSUME NEW s \in Seq(Byte), NEW t \in Seq(Byte), Starts(s, t), NEW off \in Nat
    PROVE  /\ LengthFits(s, off) =>
                 /\ LengthFits(t, off) /\ ExactBytes(s, off) = ExactBytes(t, off)
                 /\ ExactValue(s, off) = ExactValue(t, off)
           /\ LengthFits(t, off) /\ off + ExactBytes(t, off) <= Len(s) => LengthFits(s, off)
<1>0. Len(s) \in Nat /\ Len(t) \in Nat /\ Len(s) <= Len(t)
  BY DEF Starts
<1>1. \A o \in 0 .. Len(s) - 1 : At(s, o) = At(t, o)
  BY DEF Starts
<1>2. \A o \in 0 .. Len(t) - 1 : At(t, o) \in 0 .. 255
  <2> SUFFICES ASSUME NEW o \in 0 .. Len(t) - 1 PROVE At(t, o) \in 0 .. 255
    OBVIOUS
  <2>1. o + 1 \in 1 .. Len(t)
    BY <1>0
  <2>2. At(t, o) \in Byte
    BY <2>1 DEF At
  <2> QED BY <2>2 DEF Byte
<1> DEFINE b == At(t, off)
           n == b % 128
<1>3. ASSUME LengthFits(s, off)
      PROVE  /\ LengthFits(t, off) /\ ExactBytes(s, off) = ExactBytes(t, off)
             /\ ExactValue(s, off) = ExactValue(t, off)
  <2>1. off < Len(s) /\ off < Len(t)
    BY <1>0, <1>3 DEF LengthFits
  <2>2. At(s, off) = b
    BY <1>0, <1>1, <2>1
  <2>3. b \in 0 .. 255
    <3>1. off \in 0 .. Len(t) - 1
      BY <1>0, <2>1
    <3> QED BY <1>2, <3>1
  <2>4. b < 128 \/ (b >= 128 /\ n \in 1 .. 4 /\ off + 1 + n <= Len(s))
    BY <1>3, <2>2 DEF LengthFits
  <2> HIDE DEF b, n
  <2>5. LengthFits(t, off)
    <3>1. b < 128 \/ (b >= 128 /\ n \in 1 .. 4 /\ off + 1 + n <= Len(t))
      BY <1>0, <2>4
    <3> QED BY <2>1, <3>1 DEF LengthFits, b, n
  <2>6. ExactBytes(s, off) = ExactBytes(t, off)
    BY <2>2 DEF ExactBytes, b
  <2>7. ExactValue(s, off) = ExactValue(t, off)
    <3>1. CASE b < 128
      BY <2>2, <3>1 DEF ExactValue, b
    <3>2. CASE ~(b < 128)
      <4>1. n \in 1 .. 4 /\ off + 1 + n <= Len(s)
        BY <2>4, <3>2
      <4>2. /\ At(s, off + 1) = At(t, off + 1)
            /\ n >= 2 => At(s, off + 1 + 1) = At(t, off + 1 + 1)
            /\ n >= 3 => At(s, off + 1 + 2) = At(t, off + 1 + 2)
            /\ n >= 4 => At(s, off + 1 + 3) = At(t, off + 1 + 3)
        <5>1. /\ off + 1 \in 0 .. Len(s) - 1
              /\ n >= 2 => off + 1 + 1 \in 0 .. Len(s) - 1
              /\ n >= 3 => off + 1 + 2 \in 0 .. Len(s) - 1
              /\ n >= 4 => off + 1 + 3 \in 0 .. Len(s) - 1
          BY <1>0, <4>1
        <5> QED BY <1>1, <5>1, Zenon
      <4>3. n = 1 \/ n = 2 \/ n = 3 \/ n = 4
        BY <4>1
      <4>4. Number(s, off + 1, n) = Number(t, off + 1, n)
        BY <4>2, <4>3 DEF Number
      <4>5. ExactValue(s, off) = Number(s, off + 1, n) /\ ExactValue(t, off) = Number(t, off + 1, n)
        BY <2>2, <3>2 DEF ExactValue, b, n
      <4> QED BY <4>4, <4>5
    <3> QED BY <3>1, <3>2
  <2> QED BY <2>5, <2>6, <2>7
<1>4. ASSUME LengthFits(t, off), off + ExactBytes(t, off) <= Len(s) PROVE LengthFits(s, off)
  <2>1. off < Len(t)
    BY <1>4 DEF LengthFits
  <2>2. b \in 0 .. 255
    <3>1. off \in 0 .. Len(t) - 1
      BY <1>0, <2>1
    <3> QED BY <1>2, <3>1
  <2>3. b < 128 \/ (b >= 128 /\ n \in 1 .. 4)
    BY <1>4 DEF LengthFits
  <2>4. (b < 128 => off + 1 <= Len(s)) /\ (~(b < 128) => off + (1 + n) <= Len(s))
    BY <1>4 DEF ExactBytes
  <2> HIDE DEF b, n
  <2>5. off < Len(s)
    BY <1>0, <2>3, <2>4, <2>2
  <2>6. At(s, off) = b
    BY <1>0, <1>1, <2>5 DEF b
  <2>7. b < 128 \/ (b >= 128 /\ n \in 1 .. 4 /\ off + 1 + n <= Len(s))
    BY <1>0, <2>2, <2>3, <2>4
  <2> QED BY <2>5, <2>6, <2>7 DEF LengthFits, n
<1> QED BY <1>3, <1>4

\* An element is the same in a buffer that goes on.
LEMMA ElementStarts ==
    ASSUME NEW s \in Seq(Byte), NEW t \in Seq(Byte), Starts(s, t), NEW off \in Nat
    PROVE  /\ ElementFits(s, off) =>
                 ElementFits(t, off) /\ Element(t, off) = Element(s, off)
                 /\ ElementEnd(t, off) = ElementEnd(s, off)
           /\ ElementFits(t, off) /\ ElementEnd(t, off) <= Len(s) => ElementFits(s, off)
<1>0. Len(s) \in Nat /\ Len(t) \in Nat /\ Len(s) <= Len(t)
  BY DEF Starts
<1>1. \A o \in 0 .. Len(s) - 1 : At(s, o) = At(t, o)
  BY DEF Starts
<1>2. TagBytes(t, off) \in {1, 2} /\ TagBytes(s, off) \in {1, 2}
  BY DEF TagBytes
<1> DEFINE k == TagBytes(t, off)
           hdr == k + ExactBytes(t, off + k)
           value == ExactValue(t, off + k)
<1>3. off < Len(s) => TagBytes(s, off) = k
  <2> SUFFICES ASSUME off < Len(s) PROVE TagBytes(s, off) = k
    OBVIOUS
  <2>1. At(s, off) = At(t, off)
    BY <1>0, <1>1
  <2> QED BY <2>1 DEF TagBytes
<1>4. off + k \in Nat /\ k \in {1, 2}
  BY <1>2
<1>5. ElementEnd(t, off) = off + hdr + value
  BY DEF ElementEnd
<1> HIDE DEF k
<1>6. /\ LengthFits(s, off + k) =>
            /\ LengthFits(t, off + k) /\ ExactBytes(s, off + k) = ExactBytes(t, off + k)
            /\ ExactValue(s, off + k) = ExactValue(t, off + k)
      /\ LengthFits(t, off + k) /\ off + k + ExactBytes(t, off + k) <= Len(s) =>
            LengthFits(s, off + k)
  BY <1>4, LengthStarts
<1>7. LengthFits(t, off + k) => ExactBytes(t, off + k) \in 1 .. 5 /\ value \in Nat
  BY <1>4, LengthExact
<1>8. ASSUME ElementFits(s, off)
      PROVE  ElementFits(t, off) /\ Element(t, off) = Element(s, off)
             /\ ElementEnd(t, off) = ElementEnd(s, off)
  <2>1. off < Len(s) /\ TagBytes(s, off) = k
    BY <1>3, <1>8 DEF ElementFits
  <2>2. LengthFits(s, off + k) /\ ElementEnd(s, off) <= Len(s)
    BY <1>8, <2>1 DEF ElementFits
  <2>3. /\ LengthFits(t, off + k) /\ ExactBytes(s, off + k) = ExactBytes(t, off + k)
        /\ ExactValue(s, off + k) = value
    BY <1>6, <2>2
  <2>4. ElementEnd(s, off) = off + hdr + value
    BY <2>1, <2>3 DEF ElementEnd
  <2>5. ExactBytes(t, off + k) \in 1 .. 5 /\ value \in Nat
    BY <1>7, <2>3
  <2> HIDE DEF value
  <2>6. off + hdr + value <= Len(t) /\ off < Len(t)
    BY <1>0, <2>1, <2>2, <2>4, <2>5, <1>4, SMTT(30)
  <2>7. ElementFits(t, off)
    BY <1>5, <2>3, <2>6 DEF ElementFits, k
  <2>8. At(t, off) = At(s, off) /\ (k = 2 => At(t, off + 1) = At(s, off + 1))
    <3>1. off \in 0 .. Len(s) - 1
      BY <1>0, <2>1
    <3>2. k = 2 => off + 1 \in 0 .. Len(s) - 1
      BY <1>0, <2>2, <2>4, <2>5, <1>4
    <3> QED BY <1>1, <3>1, <3>2
  <2>9. SubSeq(t, off + hdr + 1, off + hdr + value) = SubSeq(s, off + hdr + 1, off + hdr + value)
    <3> DEFINE lo == off + hdr + 1
               hi == off + hdr + value
    <3>1. lo \in 1 .. hi + 1 /\ hi \in Nat /\ hi <= Len(s) /\ hi <= Len(t)
      <4>1. hdr \in 2 .. 7 /\ value \in Nat /\ off + hdr + value <= Len(s)
        BY <1>4, <2>2, <2>4, <2>5
      <4> HIDE DEF hdr
      <4> QED BY <1>0, <4>1
    <3> HIDE DEF lo, hi
    <3>2. \A i \in 1 .. Len(s) : s[i] = t[i]
      <4> SUFFICES ASSUME NEW i \in 1 .. Len(s) PROVE s[i] = t[i]
        OBVIOUS
      <4>1. i - 1 \in 0 .. Len(s) - 1 /\ i - 1 + 1 = i
        BY <1>0
      <4>2. At(s, i - 1) = At(t, i - 1)
        BY <1>1, <4>1
      <4> QED BY <4>1, <4>2 DEF At
    <3>3. \A i \in lo .. hi : s[i] = t[i]
      BY <1>0, <3>1, <3>2
    <3>4. SubSeq(s, lo, hi) = [i \in 1 .. hi - lo + 1 |-> s[i + lo - 1]]
      BY <3>1
    <3>5. SubSeq(t, lo, hi) = [i \in 1 .. hi - lo + 1 |-> t[i + lo - 1]]
      BY <3>1
    <3>6. \A i \in 1 .. hi - lo + 1 : s[i + lo - 1] = t[i + lo - 1]
      BY <3>1, <3>3
    <3> QED BY <3>4, <3>5, <3>6 DEF lo, hi
  <2>10. Element(t, off) = Element(s, off)
    <3>1. Element(t, off) =
            [ok |-> TRUE,
             tag |-> IF k = 1 THEN At(t, off) ELSE 256 * At(t, off) + At(t, off + 1),
             hdr |-> hdr, val |-> SubSeq(t, off + hdr + 1, off + hdr + value),
             next |-> off + hdr + value]
      BY <1>5 DEF Element, k
    <3>2. Element(s, off) =
            [ok |-> TRUE,
             tag |-> IF k = 1 THEN At(s, off) ELSE 256 * At(s, off) + At(s, off + 1),
             hdr |-> hdr, val |-> SubSeq(s, off + hdr + 1, off + hdr + value),
             next |-> off + hdr + value]
      BY <2>1, <2>3, <2>4, ZenonT(40) DEF Element
    <3>3. (IF k = 1 THEN At(t, off) ELSE 256 * At(t, off) + At(t, off + 1))
            = IF k = 1 THEN At(s, off) ELSE 256 * At(s, off) + At(s, off + 1)
      BY <1>4, <2>8
    <3> DEFINE t1 == IF k = 1 THEN At(t, off) ELSE 256 * At(t, off) + At(t, off + 1)
               s1 == IF k = 1 THEN At(s, off) ELSE 256 * At(s, off) + At(s, off + 1)
               t2 == SubSeq(t, off + hdr + 1, off + hdr + value)
               s2 == SubSeq(s, off + hdr + 1, off + hdr + value)
    <3>4. t1 = s1 /\ t2 = s2
      BY <2>9, <3>3
    <3> HIDE DEF hdr, t1, s1, t2, s2
    <3>5. /\ Element(t, off) = [ok |-> TRUE, tag |-> t1, hdr |-> hdr, val |-> t2,
                               next |-> off + hdr + value]
          /\ Element(s, off) = [ok |-> TRUE, tag |-> s1, hdr |-> hdr, val |-> s2,
                               next |-> off + hdr + value]
      BY <3>1, <3>2 DEF t1, s1, t2, s2
    <3> QED BY <3>4, <3>5
  <2> QED BY <1>5, <2>4, <2>7, <2>10
<1>9. ASSUME ElementFits(t, off), ElementEnd(t, off) <= Len(s) PROVE ElementFits(s, off)
  <2>1. LengthFits(t, off + k)
    BY <1>9 DEF ElementFits, k
  <2>2. ExactBytes(t, off + k) \in 1 .. 5 /\ value \in Nat /\ off + hdr + value <= Len(s)
    BY <1>5, <1>7, <1>9, <2>1
  <2> HIDE DEF value
  <2>3. off < Len(s) /\ off + k + ExactBytes(t, off + k) <= Len(s)
    BY <1>0, <1>4, <2>2, SMTT(30)
  <2>4. LengthFits(s, off + k) /\ TagBytes(s, off) = k
    BY <1>3, <1>6, <2>1, <2>3
  <2>5. ElementEnd(s, off) = off + hdr + value
    BY <1>6, <2>4 DEF ElementEnd, value
  <2> QED BY <2>2, <2>3, <2>4, <2>5 DEF ElementFits
<1> QED BY <1>8, <1>9

\* What holds for a place once it holds for all behind it holds for every place.
LEMMA FromTheEnd ==
    ASSUME NEW n \in Nat, NEW S,
           \A k \in 0 .. n : (\A j \in k + 1 .. n : j \in S) => k \in S
    PROVE  \A k \in 0 .. n : k \in S
<1> DEFINE D == {n - k : k \in {i \in 0 .. n : i \notin S}}
<1> SUFFICES ASSUME NEW k \in 0 .. n, k \notin S PROVE FALSE
  OBVIOUS
<1>1. D \subseteq Nat /\ D # {}
  OBVIOUS
<1>2. PICK m \in D : \A d \in D : m <= d
  <2> HIDE DEF D
  <2> QED BY <1>1, LeastElement
<1>3. PICK i \in 0 .. n : i \notin S /\ m = n - i
  OBVIOUS
<1>4. ASSUME NEW j \in i + 1 .. n PROVE j \in S
  <2> SUFFICES ASSUME j \notin S PROVE FALSE
    OBVIOUS
  <2>1. j \in 0 .. n /\ n - j < n - i
    BY <1>3
  <2>2. n - j \in D
    BY <2>1
  <2>3. m <= n - j
    BY <1>2, <2>2
  <2> QED BY <1>3, <2>1, <2>3
<1> QED BY <1>3, <1>4

\* What holds for a place once it holds for all before it holds for every place.
LEMMA FromTheStart ==
    ASSUME NEW n \in Nat, NEW S,
           \A k \in 0 .. n : (\A j \in 0 .. k - 1 : j \in S) => k \in S
    PROVE  \A k \in 0 .. n : k \in S
<1> DEFINE D == {i \in 0 .. n : i \notin S}
<1> SUFFICES ASSUME NEW k \in 0 .. n, k \notin S PROVE FALSE
  OBVIOUS
<1>1. D \subseteq Nat /\ D # {}
  OBVIOUS
<1>2. PICK m \in D : \A d \in D : m <= d
  <2> HIDE DEF D
  <2> QED BY <1>1, LeastElement
<1>3. ASSUME NEW j \in 0 .. m - 1 PROVE j \in S
  <2>1. j \in 0 .. n /\ ~(m <= j)
    OBVIOUS
  <2> QED BY <1>2, <2>1
<1> QED BY <1>2, <1>3

-----------------------------------------------------------------------------
(* The two loops over a buffer *)

EndBody(buf, f, off) ==
    IF off >= Len(buf) THEN NoEnd
    ELSE IF IsPadding(At(buf, off)) THEN off
    ELSE LET r == DerNext(buf, off) IN IF r.ok THEN f[r.next] ELSE NoEnd

FromBody(buf, f, off) ==
    IF off >= Len(buf) THEN <<>>
    ELSE IF IsPadding(At(buf, off)) THEN <<>>
    ELSE LET r == DerNext(buf, off)
         IN IF ~r.ok THEN <<>>
            ELSE (IF r.tag = 48 THEN <<r.val>> ELSE <<>>) \o f[r.next]

\* The functions the two operators take at 0.
Ends(buf) == CHOOSE f : f = [off \in 0 .. Len(buf) |-> EndBody(buf, f, off)]

Froms(buf) == CHOOSE f : f = [off \in 0 .. Len(buf) |-> FromBody(buf, f, off)]

\* records_end and for_each_record start at 0.
LEMMA Loops ==
    ASSUME NEW buf
    PROVE  RecordsEnd(buf) = Ends(buf)[0] /\ ForEachRecord(buf) = Froms(buf)[0]
<1>1. RecordsEnd(buf) = Ends(buf)[0]
  BY Zenon DEF RecordsEnd, Ends, EndBody
<1>2. ForEachRecord(buf) = Froms(buf)[0]
  BY Zenon DEF ForEachRecord, Froms, FromBody
<1> QED BY <1>1, <1>2

\* The next record is further on.
LEMMA NextIsFurther ==
    ASSUME NEW buf \in Seq(Byte), NEW off \in Nat, off < Len(buf), DerNext(buf, off).ok
    PROVE  /\ ElementFits(buf, off) /\ DerNext(buf, off) = Element(buf, off)
           /\ DerNext(buf, off).next = ElementEnd(buf, off)
           /\ ElementEnd(buf, off) \in off + 1 .. Len(buf)
<1>1. ElementFits(buf, off)
  <2> SUFFICES ASSUME ~ElementFits(buf, off) PROVE FALSE
    OBVIOUS
  <2>1. DerNext(buf, off) = Bad
    BY DerNextExact
  <2> QED BY <2>1 DEF Bad
<1>2. DerNext(buf, off) = Element(buf, off) /\ ElementEnd(buf, off) \in off + 2 .. Len(buf)
  BY <1>1, DerNextExact
<1>3. Element(buf, off).next = ElementEnd(buf, off)
  BY DEF Element
<1>4. ElementEnd(buf, off) \in off + 1 .. Len(buf)
  BY <1>2
<1> QED BY <1>1, <1>2, <1>3, <1>4

\* The loops come to their end.
LEMMA EndsExist ==
    ASSUME NEW buf \in Seq(Byte)
    PROVE  Ends(buf) = [off \in 0 .. Len(buf) |-> EndBody(buf, Ends(buf), off)]
<1> DEFINE n == Len(buf)
           S == {k \in 0 .. n : \E f : f = [off \in k .. n |-> EndBody(buf, f, off)]}
<1>0. n \in Nat
  OBVIOUS
<1>1. ASSUME NEW k \in 0 .. n, \A j \in k + 1 .. n : j \in S PROVE k \in S
  <2>1. \E g : \A off \in k + 1 .. n : g[off] = EndBody(buf, g, off)
    <3>1. CASE k = n
      <4>1. \A off \in k + 1 .. n : FALSE
        BY <1>0, <3>1
      <4> QED BY <4>1
    <3>2. CASE k < n
      <4>1. k + 1 \in S
        BY <1>0, <1>1, <3>2
      <4>2. PICK g : g = [off \in k + 1 .. n |-> EndBody(buf, g, off)]
        BY <4>1
      <4> QED BY <4>2
    <3>3. k = n \/ k < n
      BY <1>0
    <3> QED BY <3>1, <3>2, <3>3
  <2>2. PICK g : \A off \in k + 1 .. n : g[off] = EndBody(buf, g, off)
    BY <2>1
  <2> DEFINE f == [off \in k .. n |-> IF off = k THEN EndBody(buf, g, k) ELSE g[off]]
  <2>3. \A off \in k .. n : off # k => off \in k + 1 .. n
    BY <1>0
  <2>4. \A off \in k + 1 .. n : f[off] = g[off]
    BY <1>0
  <2>5. ASSUME NEW off \in k .. n PROVE EndBody(buf, f, off) = EndBody(buf, g, off)
    <3>1. CASE off < n /\ DerNext(buf, off).ok
      <4>1. DerNext(buf, off).next \in off + 1 .. n
        <5>1. off \in Nat
          BY <1>0
        <5> QED BY <3>1, <5>1, NextIsFurther
      <4>2. DerNext(buf, off).next \in k + 1 .. n
        BY <1>0, <4>1
      <4>3. f[DerNext(buf, off).next] = g[DerNext(buf, off).next]
        BY <2>4, <4>2
      <4> HIDE DEF f
      <4> QED BY <4>3 DEF EndBody
    <3>2. CASE ~(off < n)
      <4>1. off >= Len(buf)
        BY <1>0, <3>2
      <4> QED BY <4>1, Zenon DEF EndBody
    <3>3. CASE ~DerNext(buf, off).ok
      BY <3>3, Zenon DEF EndBody
    <3> QED BY <3>1, <3>2, <3>3
  <2>6. ASSUME NEW off \in k .. n PROVE f[off] = EndBody(buf, f, off)
    <3>1. f[off] = IF off = k THEN EndBody(buf, g, k) ELSE g[off]
      BY Zenon
    <3> HIDE DEF f
    <3>2. f[off] = EndBody(buf, g, off)
      BY <2>2, <2>3, <3>1
    <3> QED BY <2>5, <3>2
  <2>7. f = [off \in k .. n |-> f[off]]
    BY Zenon
  <2> HIDE DEF f
  <2>8. f = [off \in k .. n |-> EndBody(buf, f, off)]
    BY <2>6, <2>7
  <2> QED BY <2>8
<1>2. 0 \in S
  <2>1. \A k \in 0 .. n : (\A j \in k + 1 .. n : j \in S) => k \in S
    BY <1>1
  <2>2. 0 \in 0 .. n
    BY <1>0
  <2> HIDE DEF S, n
  <2>3. \A k \in 0 .. n : k \in S
    BY <1>0, <2>1, FromTheEnd
  <2> QED BY <2>2, <2>3
<1>3. \E f : f = [off \in 0 .. n |-> EndBody(buf, f, off)]
  BY <1>2
<1> QED BY <1>3, Zenon DEF Ends

\* Likewise for for_each_record.
LEMMA FromsExist ==
    ASSUME NEW buf \in Seq(Byte)
    PROVE  Froms(buf) = [off \in 0 .. Len(buf) |-> FromBody(buf, Froms(buf), off)]
<1> DEFINE n == Len(buf)
           S == {k \in 0 .. n : \E f : f = [off \in k .. n |-> FromBody(buf, f, off)]}
<1>0. n \in Nat
  OBVIOUS
<1>1. ASSUME NEW k \in 0 .. n, \A j \in k + 1 .. n : j \in S PROVE k \in S
  <2>1. \E g : \A off \in k + 1 .. n : g[off] = FromBody(buf, g, off)
    <3>1. CASE k = n
      <4>1. \A off \in k + 1 .. n : FALSE
        BY <1>0, <3>1
      <4> QED BY <4>1
    <3>2. CASE k < n
      <4>1. k + 1 \in S
        BY <1>0, <1>1, <3>2
      <4>2. PICK g : g = [off \in k + 1 .. n |-> FromBody(buf, g, off)]
        BY <4>1
      <4> QED BY <4>2
    <3>3. k = n \/ k < n
      BY <1>0
    <3> QED BY <3>1, <3>2, <3>3
  <2>2. PICK g : \A off \in k + 1 .. n : g[off] = FromBody(buf, g, off)
    BY <2>1
  <2> DEFINE f == [off \in k .. n |-> IF off = k THEN FromBody(buf, g, k) ELSE g[off]]
  <2>3. \A off \in k .. n : off # k => off \in k + 1 .. n
    BY <1>0
  <2>4. \A off \in k + 1 .. n : f[off] = g[off]
    BY <1>0
  <2>5. ASSUME NEW off \in k .. n PROVE FromBody(buf, f, off) = FromBody(buf, g, off)
    <3>1. CASE off < n /\ DerNext(buf, off).ok
      <4>1. DerNext(buf, off).next \in off + 1 .. n
        <5>1. off \in Nat
          BY <1>0
        <5> QED BY <3>1, <5>1, NextIsFurther
      <4>2. DerNext(buf, off).next \in k + 1 .. n
        BY <1>0, <4>1
      <4>3. f[DerNext(buf, off).next] = g[DerNext(buf, off).next]
        BY <2>4, <4>2
      <4> HIDE DEF f
      <4> QED BY <4>3 DEF FromBody
    <3>2. CASE ~(off < n)
      <4>1. off >= Len(buf)
        BY <1>0, <3>2
      <4> QED BY <4>1, Zenon DEF FromBody
    <3>3. CASE ~DerNext(buf, off).ok
      BY <3>3, Zenon DEF FromBody
    <3> QED BY <3>1, <3>2, <3>3
  <2>6. ASSUME NEW off \in k .. n PROVE f[off] = FromBody(buf, f, off)
    <3>1. f[off] = IF off = k THEN FromBody(buf, g, k) ELSE g[off]
      BY Zenon
    <3> HIDE DEF f
    <3>2. f[off] = FromBody(buf, g, off)
      BY <2>2, <2>3, <3>1
    <3> QED BY <2>5, <3>2
  <2>7. f = [off \in k .. n |-> f[off]]
    BY Zenon
  <2> HIDE DEF f
  <2>8. f = [off \in k .. n |-> FromBody(buf, f, off)]
    BY <2>6, <2>7
  <2> QED BY <2>8
<1>2. 0 \in S
  <2>1. \A k \in 0 .. n : (\A j \in k + 1 .. n : j \in S) => k \in S
    BY <1>1
  <2>2. 0 \in 0 .. n
    BY <1>0
  <2> HIDE DEF S, n
  <2>3. \A k \in 0 .. n : k \in S
    BY <1>0, <2>1, FromTheEnd
  <2> QED BY <2>2, <2>3
<1>3. \E f : f = [off \in 0 .. n |-> FromBody(buf, f, off)]
  BY <1>2
<1> QED BY <1>3, Zenon DEF Froms

\* One round of records_end.
LEMMA EndsSteps ==
    ASSUME NEW buf \in Seq(Byte), NEW off \in 0 .. Len(buf)
    PROVE  /\ off = Len(buf) => Ends(buf)[off] = NoEnd
           /\ off < Len(buf) /\ IsPadding(At(buf, off)) => Ends(buf)[off] = off
           /\ off < Len(buf) /\ ~IsPadding(At(buf, off)) /\ ~ElementFits(buf, off) =>
                 Ends(buf)[off] = NoEnd
           /\ off < Len(buf) /\ ~IsPadding(At(buf, off)) /\ ElementFits(buf, off) =>
                 Ends(buf)[off] = Ends(buf)[ElementEnd(buf, off)]
<1>1. Ends(buf)[off] = EndBody(buf, Ends(buf), off)
  <2> DEFINE f == Ends(buf)
  <2>1. f = [o \in 0 .. Len(buf) |-> EndBody(buf, f, o)]
    BY EndsExist
  <2> HIDE DEF f
  <2>2. f[off] = EndBody(buf, f, off)
    BY <2>1
  <2> QED BY <2>2 DEF f
<1>2. Len(buf) \in Nat /\ off \in Nat /\ off <= Len(buf)
  OBVIOUS
<1>3. off = Len(buf) => Ends(buf)[off] = NoEnd
  BY <1>1, <1>2 DEF EndBody
<1>4. off < Len(buf) => ~(off >= Len(buf))
  BY <1>2
<1>5. off < Len(buf) /\ IsPadding(At(buf, off)) => Ends(buf)[off] = off
  BY <1>1, <1>4, Zenon DEF EndBody
<1>6. off < Len(buf) /\ ~IsPadding(At(buf, off)) /\ ~DerNext(buf, off).ok => Ends(buf)[off] = NoEnd
  BY <1>1, <1>4, Zenon DEF EndBody
<1>7. off < Len(buf) /\ ~IsPadding(At(buf, off)) /\ DerNext(buf, off).ok =>
         Ends(buf)[off] = Ends(buf)[DerNext(buf, off).next]
  BY <1>1, <1>4, Zenon DEF EndBody
<1>8. off < Len(buf) /\ ElementFits(buf, off) => 
         DerNext(buf, off).ok /\ DerNext(buf, off).next = ElementEnd(buf, off)
  BY <1>2, DerNextExact DEF Element
<1>9. off < Len(buf) /\ ~ElementFits(buf, off) => ~DerNext(buf, off).ok
  BY <1>2, DerNextExact DEF Bad
<1> QED BY <1>3, <1>5, <1>6, <1>7, <1>8, <1>9, Zenon

\* What an element adds to the records.
Item(buf, off) == IF Element(buf, off).tag = 48 THEN <<Element(buf, off).val>> ELSE <<>>

\* One round of for_each_record.
LEMMA FromsSteps ==
    ASSUME NEW buf \in Seq(Byte), NEW off \in 0 .. Len(buf)
    PROVE  /\ off = Len(buf) => Froms(buf)[off] = <<>>
           /\ off < Len(buf) /\ IsPadding(At(buf, off)) => Froms(buf)[off] = <<>>
           /\ off < Len(buf) /\ ~ElementFits(buf, off) => Froms(buf)[off] = <<>>
           /\ off < Len(buf) /\ ~IsPadding(At(buf, off)) /\ ElementFits(buf, off) =>
                 Froms(buf)[off] = Item(buf, off) \o Froms(buf)[ElementEnd(buf, off)]
<1>1. Froms(buf)[off] = FromBody(buf, Froms(buf), off)
  <2> DEFINE f == Froms(buf)
  <2>1. f = [o \in 0 .. Len(buf) |-> FromBody(buf, f, o)]
    BY FromsExist
  <2> HIDE DEF f
  <2>2. f[off] = FromBody(buf, f, off)
    BY <2>1
  <2> QED BY <2>2 DEF f
<1>2. Len(buf) \in Nat /\ off \in Nat /\ off <= Len(buf)
  OBVIOUS
<1>3. off = Len(buf) => Froms(buf)[off] = <<>>
  BY <1>1, <1>2 DEF FromBody
<1>4. off < Len(buf) => ~(off >= Len(buf))
  BY <1>2
<1>5. off < Len(buf) /\ IsPadding(At(buf, off)) => Froms(buf)[off] = <<>>
  BY <1>1, <1>4, Zenon DEF FromBody
<1>6. off < Len(buf) /\ ~DerNext(buf, off).ok => Froms(buf)[off] = <<>>
  BY <1>1, <1>4, Zenon DEF FromBody
<1>7. off < Len(buf) /\ ~IsPadding(At(buf, off)) /\ DerNext(buf, off).ok =>
         Froms(buf)[off] =
           (IF DerNext(buf, off).tag = 48 THEN <<DerNext(buf, off).val>> ELSE <<>>)
             \o Froms(buf)[DerNext(buf, off).next]
  BY <1>1, <1>4, Zenon DEF FromBody
<1>8. off < Len(buf) /\ ElementFits(buf, off) => 
         /\ DerNext(buf, off).ok /\ DerNext(buf, off) = Element(buf, off)
         /\ DerNext(buf, off).next = ElementEnd(buf, off)
  BY <1>2, DerNextExact DEF Element
<1>9. off < Len(buf) /\ ~ElementFits(buf, off) => ~DerNext(buf, off).ok
  BY <1>2, DerNextExact DEF Bad
<1>10. off < Len(buf) /\ ~IsPadding(At(buf, off)) /\ ElementFits(buf, off) =>
          Froms(buf)[off] = Item(buf, off) \o Froms(buf)[ElementEnd(buf, off)]
  <2> SUFFICES ASSUME off < Len(buf), ~IsPadding(At(buf, off)), ElementFits(buf, off)
               PROVE  Froms(buf)[off] = Item(buf, off) \o Froms(buf)[ElementEnd(buf, off)]
    OBVIOUS
  <2> DEFINE r == DerNext(buf, off)
  <2>1. Froms(buf)[off] = (IF r.tag = 48 THEN <<r.val>> ELSE <<>>) \o Froms(buf)[r.next]
    BY <1>7, <1>8
  <2>2. r = Element(buf, off) /\ r.next = ElementEnd(buf, off)
    BY <1>8
  <2> HIDE DEF r
  <2> QED BY <2>1, <2>2 DEF Item
<1> QED BY <1>3, <1>5, <1>6, <1>9, <1>10, Zenon

\* Concatenation is associative, for records and for bytes.
LEMMA Joins ==
    \A a, b, u \in Seq(Seq(Byte)) : a \o (b \o u) = (a \o b) \o u
<1> DEFINE S == Seq(Byte)
<1> HIDE DEF S
<1>1. ASSUME NEW a \in Seq(S), NEW b \in Seq(S), NEW u \in Seq(S)
      PROVE  a \o (b \o u) = (a \o b) \o u
  BY ConcatAssociative, SMTT(30)
<1> QED BY <1>1 DEF S

\* What an element adds are strings of bytes.
LEMMA ItemType ==
    ASSUME NEW buf \in Seq(Byte), NEW off \in Nat, ElementFits(buf, off)
    PROVE  Item(buf, off) \in Seq(Seq(Byte)) /\ ElementEnd(buf, off) \in off + 1 .. Len(buf)
<1> DEFINE t == TagBytes(buf, off)
           b == ExactBytes(buf, off + t)
           v == ExactValue(buf, off + t)
<1>1. t \in {1, 2} /\ off + t \in Nat /\ Len(buf) \in Nat
  BY DEF TagBytes
<1> HIDE DEF t
<1>2. b \in 1 .. 5 /\ v \in Nat
  <2>1. LengthFits(buf, off + t)
    BY DEF ElementFits, t
  <2> QED BY <1>1, <2>1, LengthExact
<1>3. ElementEnd(buf, off) = off + (t + b) + v /\ ElementEnd(buf, off) <= Len(buf)
  BY DEF ElementEnd, ElementFits, t
<1> HIDE DEF b, v
<1>4. /\ off + (t + b) + 1 \in 1 .. ElementEnd(buf, off) + 1
      /\ ElementEnd(buf, off) \in off + 1 .. Len(buf)
  BY <1>1, <1>2, <1>3
<1>5. Element(buf, off).val = SubSeq(buf, off + (t + b) + 1, ElementEnd(buf, off))
  BY DEF Element, t, b
<1>6. Element(buf, off).val \in Seq(Byte)
  BY <1>1, <1>4, <1>5
<1> QED BY <1>4, <1>6 DEF Item

\* So are the records.
LEMMA FromsType ==
    ASSUME NEW buf \in Seq(Byte)
    PROVE  \A off \in 0 .. Len(buf) : Froms(buf)[off] \in Seq(Seq(Byte))
<1> DEFINE n == Len(buf)
           S == {off \in 0 .. n : Froms(buf)[off] \in Seq(Seq(Byte))}
<1>0. n \in Nat
  OBVIOUS
<1>1. ASSUME NEW k \in 0 .. n, \A j \in k + 1 .. n : j \in S PROVE k \in S
  <2>1. CASE k < n /\ ~IsPadding(At(buf, k)) /\ ElementFits(buf, k)
    <3>1. k \in Nat
      BY <1>0
    <3>2. Item(buf, k) \in Seq(Seq(Byte)) /\ ElementEnd(buf, k) \in k + 1 .. n
      BY <2>1, <3>1, ItemType
    <3>3. Froms(buf)[ElementEnd(buf, k)] \in Seq(Seq(Byte))
      BY <1>1, <3>2
    <3>4. Froms(buf)[k] = Item(buf, k) \o Froms(buf)[ElementEnd(buf, k)]
      BY <2>1, FromsSteps
    <3> QED BY <3>2, <3>3, <3>4, Concat, ZenonT(40)
  <2>2. CASE ~(k < n /\ ~IsPadding(At(buf, k)) /\ ElementFits(buf, k))
    <3>1. k = n \/ k < n
      BY <1>0
    <3>2. Froms(buf)[k] = <<>>
      BY <2>2, <3>1, FromsSteps
    <3>3. <<>> \in Seq(Seq(Byte))
      OBVIOUS
    <3> QED BY <3>2, <3>3
  <2> QED BY <2>1, <2>2
<1>2. \A k \in 0 .. n : (\A j \in k + 1 .. n : j \in S) => k \in S
  BY <1>1
<1> HIDE DEF S, n
<1>3. \A k \in 0 .. n : k \in S
  BY <1>0, <1>2, FromTheEnd
<1> QED BY <1>3 DEF S, n

\* An end of the records is not before the place it is looked for from.
LEMMA EndsType ==
    ASSUME NEW buf \in Seq(Byte)
    PROVE  \A off \in 0 .. Len(buf) : Ends(buf)[off] = NoEnd \/ Ends(buf)[off] \in off .. Len(buf)
<1> DEFINE n == Len(buf)
           S == {off \in 0 .. n : Ends(buf)[off] = NoEnd \/ Ends(buf)[off] \in off .. n}
<1>0. n \in Nat
  OBVIOUS
<1>1. ASSUME NEW k \in 0 .. n, \A j \in k + 1 .. n : j \in S PROVE k \in S
  <2>1. k = n \/ k < n
    BY <1>0
  <2>2. CASE k < n /\ ~IsPadding(At(buf, k)) /\ ElementFits(buf, k)
    <3>1. k \in Nat
      BY <1>0
    <3>2. ElementEnd(buf, k) \in k + 1 .. n
      BY <2>2, <3>1, ItemType
    <3> DEFINE e == ElementEnd(buf, k)
    <3>3. Ends(buf)[e] = NoEnd \/ Ends(buf)[e] \in e .. n
      BY <1>1, <3>2
    <3>4. Ends(buf)[k] = Ends(buf)[e]
      BY <2>2, EndsSteps
    <3> HIDE DEF e
    <3>5. e \in k + 1 .. n
      BY <3>2 DEF e
    <3>6. Ends(buf)[e] \in e .. n => Ends(buf)[e] \in k .. n
      BY <1>0, <3>5
    <3> QED BY <3>3, <3>4, <3>6
  <2>3. CASE k = n
    BY <2>3, EndsSteps
  <2>4. CASE k < n /\ IsPadding(At(buf, k))
    <3>1. k \in k .. n
      BY <1>0
    <3> QED BY <2>4, <3>1, EndsSteps
  <2>5. CASE k < n /\ ~IsPadding(At(buf, k)) /\ ~ElementFits(buf, k)
    BY <2>5, EndsSteps
  <2> QED BY <2>1, <2>2, <2>3, <2>4, <2>5
<1>2. \A k \in 0 .. n : (\A j \in k + 1 .. n : j \in S) => k \in S
  BY <1>1
<1> HIDE DEF S, n
<1>3. \A k \in 0 .. n : k \in S
  BY <1>0, <1>2, FromTheEnd
<1> QED BY <1>3 DEF S, n

-----------------------------------------------------------------------------
(* A buffer and how it starts *)

\* What is read of a buffer is how the records of the whole begin.
LEMMA FromsStart ==
    ASSUME NEW s \in Seq(Byte), NEW t \in Seq(Byte), Starts(s, t)
    PROVE  \A off \in 0 .. Len(s) :
              \E u \in Seq(Seq(Byte)) : Froms(t)[off] = Froms(s)[off] \o u
<1> DEFINE n == Len(s)
           S == {off \in 0 .. n :
                   \E u \in Seq(Seq(Byte)) : Froms(t)[off] = Froms(s)[off] \o u}
<1>0. n \in Nat /\ Len(t) \in Nat /\ n <= Len(t)
  BY DEF Starts
<1>1. ASSUME NEW k \in 0 .. n, \A j \in k + 1 .. n : j \in S PROVE k \in S
  <2>0. k \in Nat /\ k \in 0 .. Len(t) /\ (k = n \/ k < n) /\ (k < n => k < Len(t))
    BY <1>0
  <2>1. CASE k < n /\ ~IsPadding(At(s, k)) /\ ElementFits(s, k)
    <3> DEFINE e == ElementEnd(s, k)
    <3>1. /\ ElementFits(t, k) /\ Element(t, k) = Element(s, k) /\ ElementEnd(t, k) = e
      BY <2>0, <2>1, ElementStarts
    <3>2. Item(s, k) \in Seq(Seq(Byte)) /\ e \in k + 1 .. n
      BY <2>0, <2>1, ItemType
    <3>3. Item(t, k) = Item(s, k)
      BY <3>1 DEF Item
    <3>4. At(t, k) = At(s, k)
      <4>1. k \in 0 .. n - 1
        BY <1>0, <2>1
      <4> QED BY <4>1 DEF Starts
    <3>5. Froms(s)[k] = Item(s, k) \o Froms(s)[e]
      BY <2>1, FromsSteps
    <3>6. Froms(t)[k] = Item(s, k) \o Froms(t)[e]
      <4>1. k < Len(t) /\ ~IsPadding(At(t, k)) /\ ElementFits(t, k)
        BY <2>0, <2>1, <3>1, <3>4
      <4>2. Froms(t)[k] = Item(t, k) \o Froms(t)[ElementEnd(t, k)]
        BY <2>0, <4>1, FromsSteps
      <4> QED BY <3>1, <3>3, <4>2
    <3> HIDE DEF e
    <3>7. PICK u \in Seq(Seq(Byte)) : Froms(t)[e] = Froms(s)[e] \o u
      BY <1>1, <3>2
    <3>8. Froms(s)[e] \in Seq(Seq(Byte))
      <4>1. e \in 0 .. n
        BY <1>0, <3>2
      <4> QED BY <4>1, FromsType
    <3> DEFINE a == Item(s, k)
               b == Froms(s)[e]
    <3>9. a \in Seq(Seq(Byte)) /\ b \in Seq(Seq(Byte))
      BY <3>2, <3>8
    <3>10. Froms(t)[k] = a \o (b \o u) /\ Froms(s)[k] = a \o b
      BY <3>5, <3>6, <3>7
    <3> HIDE DEF a, b
    <3>11. a \o (b \o u) = (a \o b) \o u
      <4>1. u \in Seq(Seq(Byte))
        BY <3>7
      <4> QED BY <3>9, <4>1, Joins
    <3> QED BY <3>10, <3>11
  <2>2. CASE ~(k < n /\ ~IsPadding(At(s, k)) /\ ElementFits(s, k))
    <3>1. Froms(s)[k] = <<>>
      BY <2>0, <2>2, FromsSteps
    <3>2. Froms(t)[k] \in Seq(Seq(Byte))
      BY <2>0, FromsType
    <3>3. Froms(t)[k] = <<>> \o Froms(t)[k]
      BY <3>2
    <3> QED BY <3>1, <3>2, <3>3
  <2> QED BY <2>1, <2>2
<1>2. \A k \in 0 .. n : (\A j \in k + 1 .. n : j \in S) => k \in S
  BY <1>1
<1> HIDE DEF S, n
<1>3. \A k \in 0 .. n : k \in S
  BY <1>0, <1>2, FromTheEnd
<1> QED BY <1>3 DEF S, n

\* Where padding ends the records in s, they are all the records there are in
\* every buffer that starts with s.
LEMMA FromsEnd ==
    ASSUME NEW r \in Seq(Byte), NEW s \in Seq(Byte), NEW t \in Seq(Byte),
           Starts(r, s), Starts(s, t)
    PROVE  \A off \in 0 .. Len(r) : Ends(s)[off] = Len(r) => Froms(r)[off] = Froms(t)[off]
<1> DEFINE n == Len(r)
           S == {off \in 0 .. n : Ends(s)[off] = n => Froms(r)[off] = Froms(t)[off]}
<1>0. n \in Nat /\ Len(s) \in Nat /\ Len(t) \in Nat /\ n <= Len(s) /\ Len(s) <= Len(t) /\ n # NoEnd
  BY DEF Starts, NoEnd
<1>1. ASSUME NEW k \in 0 .. n, \A j \in k + 1 .. n : j \in S, Ends(s)[k] = n
      PROVE  Froms(r)[k] = Froms(t)[k]
  <2>0. /\ k \in Nat /\ k \in 0 .. Len(s) /\ k \in 0 .. Len(t) 
        /\ (k = Len(s) \/ k < Len(s)) /\ (k < Len(s) => k < Len(t))
    BY <1>0
  <2>1. k < Len(s)
    BY <1>0, <1>1, <2>0, EndsSteps
  <2>2. At(s, k) = At(t, k)
    <3>1. k \in 0 .. Len(s) - 1
      BY <1>0, <2>1
    <3> QED BY <3>1 DEF Starts
  <2>3. CASE IsPadding(At(s, k))
    <3>1. k = n
      BY <1>1, <2>0, <2>1, <2>3, EndsSteps
    <3>2. Froms(r)[k] = <<>>
      BY <3>1, FromsSteps
    <3>3. Froms(t)[k] = <<>>
      BY <2>0, <2>1, <2>2, <2>3, FromsSteps
    <3> QED BY <3>2, <3>3
  <2>4. CASE ~IsPadding(At(s, k))
    <3> DEFINE e == ElementEnd(s, k)
    <3>1. ElementFits(s, k)
      BY <1>0, <1>1, <2>0, <2>1, <2>4, EndsSteps
    <3>2. Ends(s)[e] = n
      BY <1>1, <2>0, <2>1, <2>4, <3>1, EndsSteps
    <3>3. e \in k + 1 .. Len(s)
      BY <2>0, <3>1, ItemType
    <3>4. e \in k + 1 .. n
      <4> HIDE DEF e
      <4>1. e \in 0 .. Len(s)
        BY <2>0, <3>3
      <4>2. n \in e .. Len(s)
        BY <1>0, <3>2, <4>1, EndsType
      <4> QED BY <3>3, <4>2
    <3>5. ElementFits(r, k) /\ Element(s, k) = Element(r, k) /\ ElementEnd(r, k) = e
      <4>1. e <= Len(r)
        <5> HIDE DEF e
        <5> QED BY <3>4
      <4>2. ElementFits(r, k)
        BY <2>0, <3>1, <4>1, ElementStarts
      <4> QED BY <2>0, <4>2, ElementStarts
    <3>6. ElementFits(t, k) /\ Element(t, k) = Element(s, k) /\ ElementEnd(t, k) = e
      BY <2>0, <3>1, ElementStarts
    <3>7. Item(t, k) = Item(r, k)
      BY <3>5, <3>6 DEF Item
    <3>8. k < n
      <4> HIDE DEF e
      <4> QED BY <1>0, <2>0, <3>4
    <3>9. At(r, k) = At(s, k)
      <4>1. k \in 0 .. n - 1
        BY <1>0, <2>0, <3>8
      <4> QED BY <4>1 DEF Starts
    <3>10. Froms(r)[k] = Item(r, k) \o Froms(r)[e]
      <4>1. ~IsPadding(At(r, k)) /\ ElementFits(r, k) /\ k < Len(r)
        BY <2>4, <3>5, <3>8, <3>9
      <4>2. Froms(r)[k] = Item(r, k) \o Froms(r)[ElementEnd(r, k)]
        BY <4>1, FromsSteps
      <4> QED BY <3>5, <4>2
    <3>11. Froms(t)[k] = Item(t, k) \o Froms(t)[e]
      <4>1. ~IsPadding(At(t, k)) /\ ElementFits(t, k) /\ k < Len(t)
        BY <2>0, <2>1, <2>2, <2>4, <3>6
      <4>2. Froms(t)[k] = Item(t, k) \o Froms(t)[ElementEnd(t, k)]
        BY <2>0, <4>1, FromsSteps
      <4> QED BY <3>6, <4>2
    <3>12. Froms(r)[e] = Froms(t)[e]
      <4> HIDE DEF e
      <4> QED BY <1>1, <3>2, <3>4
    <3> QED BY <3>7, <3>10, <3>11, <3>12
  <2> QED BY <2>3, <2>4
<1>2. \A k \in 0 .. n : (\A j \in k + 1 .. n : j \in S) => k \in S
  BY <1>1
<1> HIDE DEF S, n
<1>3. \A k \in 0 .. n : k \in S
  BY <1>0, <1>2, FromTheEnd
<1> QED BY <1>3 DEF S, n

\* Encoded and SequenceValues add up a sequence: there is such a function.
LEMMA SumsExist ==
    ASSUME NEW n \in Nat, NEW add
    PROVE  \E f : f = [i \in 0 .. n |-> IF i = 0 THEN <<>> ELSE f[i - 1] \o add[i]]
<1> DEFINE Body(f, i) == IF i = 0 THEN <<>> ELSE f[i - 1] \o add[i]
           S == {k \in 0 .. n : \E f : f = [i \in 0 .. k |-> Body(f, i)]}
<1>1. ASSUME NEW k \in 0 .. n, \A j \in 0 .. k - 1 : j \in S PROVE k \in S
  <2>1. \E g : \A i \in 0 .. k - 1 : g[i] = Body(g, i)
    <3>1. CASE k = 0
      <4>1. \A i \in 0 .. k - 1 : FALSE
        BY <3>1
      <4> HIDE DEF Body
      <4> QED BY <4>1
    <3>2. CASE k > 0
      <4>1. k - 1 \in 0 .. k - 1
        BY <3>2
      <4>2. k - 1 \in S
        BY <1>1, <4>1
      <4>3. PICK g : g = [i \in 0 .. k - 1 |-> Body(g, i)]
        BY <4>2
      <4> HIDE DEF Body
      <4> QED BY <4>3
    <3>3. k = 0 \/ k > 0
      OBVIOUS
    <3> QED BY <3>1, <3>2, <3>3
  <2>2. PICK g : \A i \in 0 .. k - 1 : g[i] = Body(g, i)
    BY <2>1
  <2> DEFINE f == [i \in 0 .. k |-> IF i = k THEN Body(g, k) ELSE g[i]]
  <2>3. \A i \in 0 .. k - 1 : f[i] = g[i]
    <3> HIDE DEF Body
    <3> QED OBVIOUS
  <2>4. ASSUME NEW i \in 0 .. k PROVE Body(f, i) = Body(g, i)
    <3>1. i = 0 \/ i - 1 \in 0 .. k - 1
      OBVIOUS
    <3>2. i - 1 \in 0 .. k - 1 => f[i - 1] = g[i - 1]
      BY <2>3
    <3> HIDE DEF f
    <3> QED BY <3>1, <3>2
  <2>5. ASSUME NEW i \in 0 .. k PROVE f[i] = Body(f, i)
    <3>1. f[i] = IF i = k THEN Body(g, k) ELSE g[i]
      <4> HIDE DEF Body
      <4> QED OBVIOUS
    <3>2. i = k \/ i \in 0 .. k - 1
      OBVIOUS
    <3> HIDE DEF f, Body
    <3>3. f[i] = Body(g, i)
      BY <2>2, <3>1, <3>2
    <3> QED BY <2>4, <3>3
  <2>6. f = [i \in 0 .. k |-> f[i]]
    <3> HIDE DEF Body
    <3> QED OBVIOUS
  <2> HIDE DEF f, Body
  <2>7. f = [i \in 0 .. k |-> Body(f, i)]
    BY <2>5, <2>6
  <2> QED BY <2>7 DEF S
<1>2. n \in S
  <2>1. \A k \in 0 .. n : (\A j \in 0 .. k - 1 : j \in S) => k \in S
    BY <1>1
  <2>2. n \in 0 .. n
    OBVIOUS
  <2> HIDE DEF S
  <2>3. \A k \in 0 .. n : k \in S
    BY <2>1, FromTheStart
  <2> QED BY <2>2, <2>3
<1> QED BY <1>2

\* What Encoded and SequenceValues take at the end.
Encodings(c) == CHOOSE f : f = [i \in 0 .. Len(c) |->
                                  IF i = 0 THEN <<>> ELSE f[i - 1] \o Encoding(c[i])]

ItemOf(e) == IF e.tag = 48 THEN <<Value(e.len)>> ELSE <<>>

Values(c) == CHOOSE f : f = [i \in 0 .. Len(c) |->
                               IF i = 0 THEN <<>> ELSE f[i - 1] \o ItemOf(c[i])]

\* The encoding of the first i elements.
LEMMA EncodedSteps ==
    ASSUME NEW c, Len(c) \in Nat
    PROVE  /\ Encoded(c) = Encodings(c)[Len(c)] /\ Encodings(c)[0] = <<>>
           /\ \A i \in 1 .. Len(c) : Encodings(c)[i] = Encodings(c)[i - 1] \o Encoding(c[i])
<1> DEFINE f == Encodings(c)
           n == Len(c)
           add == [i \in 1 .. n |-> Encoding(c[i])]
<1>1. Encoded(c) = f[n]
  BY Zenon DEF Encoded, Encodings
<1>2. \E g : g = [i \in 0 .. n |-> IF i = 0 THEN <<>> ELSE g[i - 1] \o Encoding(c[i])]
  <2>1. \A i \in 0 .. n : i = 0 \/ add[i] = Encoding(c[i])
    OBVIOUS
  <2> HIDE DEF add
  <2>2. PICK g : g = [i \in 0 .. n |-> IF i = 0 THEN <<>> ELSE g[i - 1] \o add[i]]
    BY SumsExist
  <2>3. g = [i \in 0 .. n |-> IF i = 0 THEN <<>> ELSE g[i - 1] \o Encoding(c[i])]
    BY <2>1, <2>2
  <2> QED BY <2>3
<1>3. f = [i \in 0 .. n |-> IF i = 0 THEN <<>> ELSE f[i - 1] \o Encoding(c[i])]
  BY <1>2, Zenon DEF Encodings
<1> HIDE DEF f
<1>4. f[0] = <<>>
  BY <1>3
<1>5. ASSUME NEW i \in 1 .. n PROVE f[i] = f[i - 1] \o Encoding(c[i])
  <2>1. i \in 0 .. n /\ i # 0
    OBVIOUS
  <2> QED BY <1>3, <2>1
<1> QED BY <1>1, <1>4, <1>5 DEF f

\* The values among the first i elements.
LEMMA ValuesSteps ==
    ASSUME NEW c, Len(c) \in Nat
    PROVE  /\ SequenceValues(c) = Values(c)[Len(c)] /\ Values(c)[0] = <<>>
           /\ \A i \in 1 .. Len(c) : Values(c)[i] = Values(c)[i - 1] \o ItemOf(c[i])
<1> DEFINE f == Values(c)
           n == Len(c)
           add == [i \in 1 .. n |-> ItemOf(c[i])]
<1>1. SequenceValues(c) = f[n]
  BY Zenon DEF SequenceValues, Values, ItemOf
<1>2. \E g : g = [i \in 0 .. n |-> IF i = 0 THEN <<>> ELSE g[i - 1] \o ItemOf(c[i])]
  <2>1. \A i \in 0 .. n : i = 0 \/ add[i] = ItemOf(c[i])
    OBVIOUS
  <2> HIDE DEF add
  <2>2. PICK g : g = [i \in 0 .. n |-> IF i = 0 THEN <<>> ELSE g[i - 1] \o add[i]]
    BY SumsExist
  <2>3. g = [i \in 0 .. n |-> IF i = 0 THEN <<>> ELSE g[i - 1] \o ItemOf(c[i])]
    BY <2>1, <2>2
  <2> QED BY <2>3
<1>3. f = [i \in 0 .. n |-> IF i = 0 THEN <<>> ELSE f[i - 1] \o ItemOf(c[i])]
  BY <1>2, Zenon DEF Values
<1> HIDE DEF f
<1>4. f[0] = <<>>
  BY <1>3
<1>5. ASSUME NEW i \in 1 .. n PROVE f[i] = f[i - 1] \o ItemOf(c[i])
  <2>1. i \in 0 .. n /\ i # 0
    OBVIOUS
  <2> QED BY <1>3, <2>1
<1> QED BY <1>1, <1>4, <1>5 DEF f

-----------------------------------------------------------------------------
(* An element in the middle of a file *)

\* f is made of five parts, as an element between what surrounds it.
Joined(f, p, a, b, v, r) == f = p \o (((a \o b) \o v) \o r)

LEMMA FiveParts ==
    ASSUME NEW S, NEW p \in Seq(S), NEW a \in Seq(S), NEW b \in Seq(S), NEW v \in Seq(S),
           NEW r \in Seq(S), NEW f, Joined(f, p, a, b, v, r)
    PROVE  /\ f \in Seq(S) /\ Len(f) = Len(p) + Len(a) + Len(b) + Len(v) + Len(r)
           /\ \A i \in 1 .. Len(a) : f[Len(p) + i] = a[i]
           /\ \A i \in 1 .. Len(b) : f[Len(p) + Len(a) + i] = b[i]
           /\ \A i \in 1 .. Len(v) : f[Len(p) + Len(a) + Len(b) + i] = v[i]
<1> DEFINE ab == a \o b
           abv == ab \o v
           q == abv \o r
           F == p \o q
<1>0. Len(p) \in Nat /\ Len(a) \in Nat /\ Len(b) \in Nat /\ Len(v) \in Nat /\ Len(r) \in Nat
  OBVIOUS
<1>1. /\ ab \in Seq(S) /\ Len(ab) = Len(a) + Len(b)
      /\ \A i \in 1 .. Len(a) : ab[i] = a[i]
      /\ \A i \in 1 .. Len(b) : ab[Len(a) + i] = b[i]
  <2>1. a \in Seq(S) /\ b \in Seq(S)
    OBVIOUS
  <2> QED BY <2>1, Concat
<1> HIDE DEF ab
<1>2. /\ abv \in Seq(S) /\ Len(abv) = Len(ab) + Len(v)
      /\ \A i \in 1 .. Len(ab) : abv[i] = ab[i]
      /\ \A i \in 1 .. Len(v) : abv[Len(ab) + i] = v[i]
  <2>1. ab \in Seq(S) /\ v \in Seq(S)
    BY <1>1
  <2> QED BY <2>1, Concat
<1> HIDE DEF abv
<1>3. /\ q \in Seq(S) /\ Len(q) = Len(abv) + Len(r)
      /\ \A i \in 1 .. Len(abv) : q[i] = abv[i]
  <2>1. abv \in Seq(S) /\ r \in Seq(S)
    BY <1>2
  <2> QED BY <2>1, Concat
<1> HIDE DEF q
<1>4. /\ F \in Seq(S) /\ Len(F) = Len(p) + Len(q)
      /\ \A i \in 1 .. Len(q) : F[Len(p) + i] = q[i]
  <2>1. p \in Seq(S) /\ q \in Seq(S)
    BY <1>3
  <2> QED BY <2>1, Concat
<1> HIDE DEF F
<1>5. Len(F) = Len(p) + Len(a) + Len(b) + Len(v) + Len(r)
  BY <1>0, <1>1, <1>2, <1>3, <1>4
<1>6. ASSUME NEW i \in 1 .. Len(a) PROVE F[Len(p) + i] = a[i]
  <2>1. i \in 1 .. Len(ab) /\ i \in 1 .. Len(abv) /\ i \in 1 .. Len(q)
    BY <1>0, <1>1, <1>2, <1>3
  <2> QED BY <1>1, <1>2, <1>3, <1>4, <2>1
<1>7. ASSUME NEW i \in 1 .. Len(b) PROVE F[Len(p) + Len(a) + i] = b[i]
  <2> DEFINE j == Len(a) + i
  <2>1. j \in 1 .. Len(ab) /\ j \in 1 .. Len(abv) /\ j \in 1 .. Len(q)
    BY <1>0, <1>1, <1>2, <1>3
  <2>2. Len(p) + Len(a) + i = Len(p) + j /\ ab[j] = b[i]
    BY <1>0, <1>1
  <2> HIDE DEF j
  <2> QED BY <1>2, <1>3, <1>4, <2>1, <2>2
<1>8. ASSUME NEW i \in 1 .. Len(v) PROVE F[Len(p) + Len(a) + Len(b) + i] = v[i]
  <2> DEFINE j == Len(ab) + i
  <2>1. j \in 1 .. Len(abv) /\ j \in 1 .. Len(q)
    BY <1>0, <1>1, <1>2, <1>3
  <2>2. Len(p) + Len(a) + Len(b) + i = Len(p) + j /\ abv[j] = v[i]
    BY <1>0, <1>1, <1>2
  <2> HIDE DEF j
  <2> QED BY <1>3, <1>4, <2>1, <2>2
<1>9. f = F
  BY DEF Joined, F, q, abv, ab
<1> QED BY <1>4, <1>5, <1>6, <1>7, <1>8, <1>9

Kind == [tag : Tags, len : TwoBytes]

\* A number of two bytes, byte by byte.
LEMMA HighAndLow ==
    ASSUME NEW n \in TwoBytes
    PROVE  /\ n \in Nat /\ n \div 256 \in 0 .. 255 /\ n % 256 \in 0 .. 255
           /\ 256 * (n \div 256) + (n % 256) = n
<1>1. PICK h \in Byte, l \in Byte : n = 256 * h + l
  BY DEF TwoBytes
<1>2. h \in 0 .. 255 /\ l \in 0 .. 255
  BY DEF Byte
<1>3. n \div 256 = h /\ n % 256 = l
  BY <1>1, <1>2
<1> QED BY <1>1, <1>2, <1>3

\* A tag field as the reader takes it.
LEMMA TagFieldIs ==
    ASSUME NEW t \in Tags
    PROVE  /\ t \in Nat /\ TagField(t) \in Seq(Byte)
           /\ ~IsPadding(TagField(t)[1])
           /\ t < 256 => /\ Len(TagField(t)) = 1 /\ TagField(t)[1] = t /\ t % 32 # 31
           /\ t >= 256 => /\ Len(TagField(t)) = 2 /\ TagField(t)[1] % 32 = 31
                          /\ TagField(t)[1] \in Nat /\ TagField(t)[2] \in Nat
                          /\ 256 * TagField(t)[1] + TagField(t)[2] = t
<1>1. CASE t \in Byte /\ t % 32 # 31 /\ ~IsPadding(t)
  <2>1. t \in 0 .. 255
    BY <1>1 DEF Byte
  <2>2. ~(t > 255) /\ t < 256 /\ ~(t >= 256) /\ t \in Nat
    BY <2>1
  <2>3. TagField(t) = <<t>>
    BY <2>2 DEF TagField
  <2> QED BY <1>1, <2>2, <2>3
<1>2. CASE t \in TwoBytes /\ t > 255 /\ (t \div 256) % 32 = 31 /\ ~IsPadding(t \div 256)
  <2> DEFINE h == t \div 256
             l == t % 256
  <2>1. t > 255 /\ ~(t < 256) /\ t >= 256 /\ t \in Nat
    <3>1. t \in Nat /\ t > 255
      BY <1>2, HighAndLow
    <3> QED BY <3>1
  <2>2. h \in 0 .. 255 /\ l \in 0 .. 255 /\ 256 * h + l = t
    BY <1>2, HighAndLow
  <2>3. TagField(t) = <<h, l>>
    BY <2>1 DEF TagField
  <2>4. h % 32 = 31 /\ ~IsPadding(h)
    BY <1>2
  <2> HIDE DEF h, l
  <2>5. TagField(t) \in Seq(Byte)
    BY <2>2, <2>3 DEF Byte
  <2> QED BY <2>1, <2>2, <2>3, <2>4, <2>5
<1>3. \/ t \in Byte /\ t % 32 # 31 /\ ~IsPadding(t)
      \/ t \in TwoBytes /\ t > 255 /\ (t \div 256) % 32 = 31 /\ ~IsPadding(t \div 256)
  BY SMT DEF Tags
<1> QED BY <1>1, <1>2, <1>3

\* A length field as the reader takes it.
LEMMA LengthFieldIs ==
    ASSUME NEW n \in TwoBytes
    PROVE  LET f == LengthField(n)
           IN /\ f \in Seq(Byte)
              /\ n < 128 => Len(f) = 1 /\ f[1] = n
              /\ n >= 128 /\ n < 256 => Len(f) = 2 /\ f[1] = 129 /\ f[2] = n
              /\ n >= 256 => /\ Len(f) = 3 /\ f[1] = 130 /\ f[2] \in Nat /\ f[3] \in Nat
                             /\ 256 * f[2] + f[3] = n
<1>0. n \in Nat
  BY HighAndLow
<1>1. CASE n < 128
  <2>1. LengthField(n) = <<n>>
    BY <1>1, Zenon DEF LengthField
  <2>2. n \in 0 .. 255 /\ ~(n >= 128) /\ ~(n >= 256)
    BY <1>0, <1>1
  <2> QED BY <1>1, <2>1, <2>2 DEF Byte
<1>2. CASE n >= 128 /\ n < 256
  <2>1. n \in 0 .. 255 /\ ~(n < 128) /\ ~(n >= 256)
    BY <1>0, <1>2
  <2>2. LengthField(n) = <<129, n>>
    BY <1>2, <2>1 DEF LengthField
  <2> QED BY <1>2, <2>1, <2>2 DEF Byte
<1>3. CASE n >= 256
  <2> DEFINE h == n \div 256
             l == n % 256
  <2>1. h \in 0 .. 255 /\ l \in 0 .. 255 /\ 256 * h + l = n
    BY HighAndLow
  <2>4. ~(n < 128) /\ ~(n < 256)
    BY <1>0, <1>3
  <2>2. LengthField(n) = <<130, h, l>>
    BY <2>4, Zenon DEF LengthField
  <2> HIDE DEF h, l
  <2>3. LengthField(n) \in Seq(Byte)
    BY <2>1, <2>2 DEF Byte
  <2> QED BY <1>3, <2>1, <2>2, <2>3, <2>4
<1>4. n < 128 \/ (n >= 128 /\ n < 256) \/ n >= 256
  BY <1>0
<1> QED BY <1>1, <1>2, <1>3, <1>4

\* A value is as long as it says.
LEMMA ValueIs ==
    ASSUME NEW n \in Nat
    PROVE  Value(n) \in Seq(Byte) /\ Len(Value(n)) = n
<1>1. \A i \in 1 .. n : i % 251 \in 0 .. 255
  OBVIOUS
<1> QED BY <1>1 DEF Value, Byte

\* f has the element e between what is before and what is behind it.
HasElement(f, before, e, behind) == f = before \o (Encoding(e) \o behind)

\* An element in the middle of a file is read as what it is.
LEMMA ElementIsRead ==
    ASSUME NEW p \in Seq(Byte), NEW r \in Seq(Byte), NEW e \in Kind, NEW F,
           HasElement(F, p, e, r)
    PROVE  /\ F \in Seq(Byte) /\ Len(p) < Len(F) /\ ~IsPadding(At(F, Len(p)))
           /\ ElementFits(F, Len(p)) /\ Item(F, Len(p)) = ItemOf(e)
           /\ Encoding(e) \in Seq(Byte) /\ ElementEnd(F, Len(p)) = Len(p) + Len(Encoding(e))
<1> DEFINE a == TagField(e.tag)
           b == LengthField(e.len)
           v == Value(e.len)
           o == Len(p)
           n == e.len
           t == e.tag
<1>1. t \in Tags /\ n \in TwoBytes
  BY DEF Kind
<1>2. /\ t \in Nat /\ a \in Seq(Byte) /\ ~IsPadding(a[1])
      /\ t < 256 => /\ Len(a) = 1 /\ a[1] = t /\ t % 32 # 31
      /\ t >= 256 => /\ Len(a) = 2 /\ a[1] % 32 = 31 /\ a[1] \in Nat /\ a[2] \in Nat
                     /\ 256 * a[1] + a[2] = t
  BY <1>1, TagFieldIs, SMTT(30)
<1>3. /\ b \in Seq(Byte)
      /\ n < 128 => Len(b) = 1 /\ b[1] = n
      /\ n >= 128 /\ n < 256 => Len(b) = 2 /\ b[1] = 129 /\ b[2] = n
      /\ n >= 256 => /\ Len(b) = 3 /\ b[1] = 130 /\ b[2] \in Nat /\ b[3] \in Nat
                     /\ 256 * b[2] + b[3] = n
  BY <1>1, LengthFieldIs
<1>4. n \in Nat /\ v \in Seq(Byte) /\ Len(v) = n
  <2>1. n \in Nat
    BY <1>1, HighAndLow
  <2> HIDE DEF n
  <2> QED BY <2>1, ValueIs DEF v, n
<1>5. F = p \o (((a \o b) \o v) \o r) /\ Encoding(e) = (a \o b) \o v
  BY DEF HasElement, Encoding
<1>6. ItemOf(e) = IF t = 48 THEN <<v>> ELSE <<>>
  BY DEF ItemOf
<1> HIDE DEF a, b, v, n, t
<1>7. /\ F \in Seq(Byte) /\ Len(F) = o + Len(a) + Len(b) + Len(v) + Len(r)
      /\ \A i \in 1 .. Len(a) : F[o + i] = a[i]
      /\ \A i \in 1 .. Len(b) : F[o + Len(a) + i] = b[i]
      /\ \A i \in 1 .. Len(v) : F[o + Len(a) + Len(b) + i] = v[i]
  <2>1. a \in Seq(Byte) /\ b \in Seq(Byte) /\ v \in Seq(Byte)
    BY <1>2, <1>3, <1>4
  <2>2. Joined(F, p, a, b, v, r)
    BY <1>5 DEF Joined
  <2> QED BY <2>1, <2>2, FiveParts, SMTT(30)
<1>8. Encoding(e) \in Seq(Byte) /\ Len(Encoding(e)) = Len(a) + Len(b) + n
  <2> DEFINE ab == a \o b
  <2>1. ab \in Seq(Byte) /\ Len(ab) = Len(a) + Len(b)
    BY <1>2, <1>3, Concat
  <2> HIDE DEF ab
  <2>2. ab \o v \in Seq(Byte) /\ Len(ab \o v) = Len(ab) + Len(v)
    <3>1. ab \in Seq(Byte) /\ v \in Seq(Byte)
      BY <1>4, <2>1
    <3> QED BY <3>1, Concat
  <2> QED BY <1>4, <1>5, <2>1, <2>2 DEF ab
<1>9. /\ Len(a) \in 1 .. 2 /\ Len(b) \in 1 .. 3 /\ Len(r) \in Nat /\ o \in Nat
      /\ t < 256 \/ t >= 256
      /\ n < 128 \/ (n >= 128 /\ n < 256) \/ n >= 256
  BY <1>2, <1>3, <1>4
<1> HIDE DEF o
<1>10. At(F, o) = a[1] /\ (t >= 256 => At(F, o + 1) = a[2])
  <2>1. 1 \in 1 .. Len(a) /\ (t >= 256 => 2 \in 1 .. Len(a)) /\ o + 1 + 1 = o + 2
    BY <1>2, <1>9
  <2> QED BY <1>7, <2>1 DEF At
<1>11. TagBytes(F, o) = Len(a)
  BY <1>2, <1>9, <1>10 DEF TagBytes
<1> DEFINE l == o + Len(a)
<1>12. /\ At(F, l) = b[1] /\ (n >= 128 => At(F, l + 1) = b[2])
       /\ (n >= 256 => At(F, l + 1 + 1) = b[3])
  <2>1. /\ 1 \in 1 .. Len(b) /\ (n >= 128 => 2 \in 1 .. Len(b)) /\ (n >= 256 => 3 \in 1 .. Len(b))
        /\ l + 1 + 1 = l + 2 /\ l + 1 + 1 + 1 = l + 3
    <3>1. n >= 128 => n < 256 \/ n >= 256
      BY <1>4
    <3>2. (n >= 128 => Len(b) \in {2, 3}) /\ (n >= 256 => Len(b) = 3) /\ Len(b) \in 1 .. 3
      BY <1>3, <1>9, <3>1
    <3>3. l \in Nat
      BY <1>9
    <3> DEFINE lb == Len(b)
    <3> HIDE DEF l, lb
    <3>4. 1 \in 1 .. lb /\ (n >= 128 => 2 \in 1 .. lb) /\ (n >= 256 => 3 \in 1 .. lb)
      <4>1. (n >= 128 => lb \in {2, 3}) /\ (n >= 256 => lb = 3) /\ lb \in 1 .. 3
        BY <3>2 DEF lb
      <4>2. 1 \in 1 .. lb
        BY <4>1
      <4>3. lb \in {2, 3} => 2 \in 1 .. lb
        OBVIOUS
      <4>4. lb = 3 => 3 \in 1 .. lb
        OBVIOUS
      <4> QED BY <4>1, <4>2, <4>3, <4>4
    <3>5. l + 1 + 1 = l + 2 /\ l + 1 + 1 + 1 = l + 3
      BY <3>3
    <3> QED BY <3>4, <3>5 DEF lb
  <2>2. \A i \in 1 .. Len(b) : F[l + i] = b[i]
    BY <1>7
  <2> HIDE DEF l
  <2> QED BY <2>1, <2>2 DEF At
<1>13. l + Len(b) <= Len(F) /\ l < Len(F) /\ o < Len(F) /\ l + Len(b) + n <= Len(F) /\ l \in Nat
  <2> DEFINE la == Len(a)
             lb == Len(b)
             lr == Len(r)
             lf == Len(F)
  <2>1. lf = o + la + lb + n + lr
    BY <1>4, <1>7
  <2>2. la \in 1 .. 2 /\ lb \in 1 .. 3 /\ lr \in Nat /\ o \in Nat /\ n \in Nat
    BY <1>4, <1>9
  <2>3. l = o + la
    BY Zenon
  <2> HIDE DEF la, lb, lr, lf, l
  <2>4. l + lb <= lf /\ l < lf /\ o < lf /\ l + lb + n <= lf /\ l \in Nat
    BY <2>1, <2>2, <2>3
  <2> QED BY <2>4 DEF la, lb, lr, lf
<1> HIDE DEF l
<1>14. LengthFits(F, l) /\ ExactBytes(F, l) = Len(b) /\ ExactValue(F, l) = n
  <2>1. CASE n < 128
    <3>1. At(F, l) < 128 /\ At(F, l) = n /\ Len(b) = 1
      BY <1>3, <1>12, <2>1
    <3> QED BY <1>13, <3>1 DEF LengthFits, ExactBytes, ExactValue
  <2>2. CASE n >= 128 /\ n < 256
    <3>1. At(F, l) = 129 /\ At(F, l + 1) = n /\ Len(b) = 2
      BY <1>3, <1>12, <2>2
    <3>2. ~(129 < 128) /\ 129 >= 128 /\ 129 % 128 = 1 /\ l + 1 + 1 <= Len(F)
      BY <1>13, <3>1
    <3>3. LengthFits(F, l)
      BY <1>13, <3>1, <3>2 DEF LengthFits
    <3>4. ExactBytes(F, l) = 2
      BY <3>1, <3>2 DEF ExactBytes
    <3>5. ExactValue(F, l) = Number(F, l + 1, 1)
      BY <3>1, <3>2 DEF ExactValue
    <3>6. Number(F, l + 1, 1) = n
      BY <3>1 DEF Number
    <3> QED BY <3>1, <3>3, <3>4, <3>5, <3>6
  <2>3. CASE n >= 256
    <3>1. /\ At(F, l) = 130 /\ At(F, l + 1) = b[2] /\ At(F, l + 1 + 1) = b[3] /\ Len(b) = 3
          /\ 256 * b[2] + b[3] = n
      <4>1. n >= 128
        BY <1>4, <2>3
      <4> QED BY <1>3, <1>12, <2>3, <4>1
    <3>2. ~(130 < 128) /\ 130 >= 128 /\ 130 % 128 = 2 /\ l + 1 + 2 <= Len(F)
      BY <1>13, <3>1
    <3>3. LengthFits(F, l)
      BY <1>13, <3>1, <3>2 DEF LengthFits
    <3>4. ExactBytes(F, l) = 3
      BY <3>1, <3>2 DEF ExactBytes
    <3>5. ExactValue(F, l) = Number(F, l + 1, 2)
      BY <3>1, <3>2 DEF ExactValue
    <3>6. Number(F, l + 1, 2) = n
      BY <3>1 DEF Number
    <3> QED BY <3>1, <3>3, <3>4, <3>5, <3>6
  <2> QED BY <1>9, <2>1, <2>2, <2>3
<1>15. ElementEnd(F, o) = o + (Len(a) + Len(b)) + n
  BY <1>11, <1>14 DEF ElementEnd, l
<1>16. ElementFits(F, o)
  <2>1. o + (Len(a) + Len(b)) + n <= Len(F)
    BY <1>4, <1>9, <1>13 DEF l
  <2> QED BY <1>11, <1>13, <1>14, <1>15, <2>1 DEF ElementFits, l
<1>17. ElementEnd(F, o) = o + Len(Encoding(e))
  BY <1>4, <1>8, <1>9, <1>15
<1> DEFINE lo == o + (Len(a) + Len(b)) + 1
           hi == o + (Len(a) + Len(b)) + n
<1>18. SubSeq(F, lo, hi) = v
  <2>1. lo \in Nat /\ hi \in Nat /\ lo \in 1 .. hi + 1 /\ hi <= Len(F) /\ hi - lo + 1 = n
    BY <1>4, <1>9, <1>13 DEF l
  <2>2. \A i \in 1 .. n : i + lo - 1 = o + Len(a) + Len(b) + i
    BY <1>4, <1>9
  <2> HIDE DEF lo, hi
  <2>3. SubSeq(F, lo, hi) \in Seq(Byte) /\ Len(SubSeq(F, lo, hi)) = n
    BY <1>7, <2>1
  <2>4. \A i \in 1 .. n : SubSeq(F, lo, hi)[i] = F[i + lo - 1]
    BY <1>7, <2>1
  <2>5. \A i \in 1 .. n : SubSeq(F, lo, hi)[i] = v[i]
    BY <1>4, <1>7, <2>2, <2>4
  <2> QED BY <1>4, <2>3, <2>5, SameSeq
<1>19. Element(F, o).val = v
  BY <1>11, <1>14, <1>15, <1>18 DEF Element, l
<1>20. Element(F, o).tag = t
  <2>1. Element(F, o).tag = IF Len(a) = 1 THEN a[1] ELSE 256 * a[1] + At(F, o + 1)
    BY <1>10, <1>11 DEF Element
  <2>2. CASE t < 256
    BY <1>2, <2>1, <2>2
  <2>3. CASE t >= 256
    <3>1. Len(a) = 2 /\ At(F, o + 1) = a[2] /\ 256 * a[1] + a[2] = t
      BY <1>2, <1>10, <2>3
    <3> QED BY <2>1, <3>1
  <2> QED BY <1>9, <2>2, <2>3
<1>21. Item(F, o) = ItemOf(e)
  BY <1>6, <1>19, <1>20 DEF Item
<1>22. ~IsPadding(At(F, o))
  BY <1>2, <1>10
<1> QED BY <1>7, <1>8, <1>13, <1>16, <1>17, <1>21, <1>22 DEF o

\* The same for bytes.
LEMMA JoinsBytes ==
    \A a, b, u \in Seq(Byte) : (a \o b) \o u = a \o (b \o u)
<1> DEFINE S == Byte
<1> HIDE DEF S
<1>1. ASSUME NEW a \in Seq(S), NEW b \in Seq(S), NEW u \in Seq(S)
      PROVE  (a \o b) \o u = a \o (b \o u)
  BY ConcatAssociative
<1> QED BY <1>1 DEF S

\* What there is of a file before an element, and behind it.
LEMMA EncodingsType ==
    ASSUME NEW c \in Seq(Kind)
    PROVE  \A i \in 0 .. Len(c) : Encodings(c)[i] \in Seq(Byte)
<1> DEFINE n == Len(c)
           S == {i \in 0 .. n : Encodings(c)[i] \in Seq(Byte)}
<1>0. n \in Nat /\ \A i \in 1 .. n : c[i] \in Kind
  OBVIOUS
<1>1. ASSUME NEW k \in 0 .. n, \A j \in 0 .. k - 1 : j \in S PROVE k \in S
  <2>1. CASE k = 0
    <3>1. Encodings(c)[0] = <<>>
      BY <1>0, EncodedSteps
    <3>2. <<>> \in Seq(Byte)
      OBVIOUS
    <3> QED BY <2>1, <3>1, <3>2
  <2>2. CASE k # 0
    <3>1. k \in 1 .. n /\ k - 1 \in 0 .. k - 1
      BY <1>0, <2>2
    <3>2. Encodings(c)[k] = Encodings(c)[k - 1] \o Encoding(c[k])
      BY <1>0, <3>1, EncodedSteps
    <3>3. Encodings(c)[k - 1] \in Seq(Byte)
      BY <1>1, <3>1
    <3>4. Encoding(c[k]) \in Seq(Byte)
      <4> DEFINE e == c[k]
      <4>1. e \in Kind
        BY <1>0, <3>1
      <4>2. HasElement(<<>> \o (Encoding(e) \o <<>>), <<>>, e, <<>>) /\ <<>> \in Seq(Byte)
        BY DEF HasElement
      <4> HIDE DEF e
      <4>3. Encoding(e) \in Seq(Byte)
        BY <4>1, <4>2, ElementIsRead
      <4> QED BY <4>3 DEF e
    <3> QED BY <3>2, <3>3, <3>4, Concat
  <2> QED BY <2>1, <2>2
<1>2. \A k \in 0 .. n : (\A j \in 0 .. k - 1 : j \in S) => k \in S
  BY <1>1
<1> HIDE DEF S, n
<1>3. \A k \in 0 .. n : k \in S
  BY <1>0, <1>2, FromTheStart
<1> QED BY <1>3 DEF S, n

\* The encodings from any element on are how the file goes on there.
LEMMA FileGoesOn ==
    ASSUME NEW c \in Seq(Kind), NEW f \in Seq(Byte)
    PROVE  \A i \in 0 .. Len(c) :
              \E r \in Seq(Byte) : Encoded(c) \o f = Encodings(c)[i] \o r
<1> DEFINE n == Len(c)
           F == Encoded(c) \o f
           S == {i \in 0 .. n : \E r \in Seq(Byte) : F = Encodings(c)[i] \o r}
<1>0. n \in Nat /\ \A i \in 1 .. n : c[i] \in Kind
  OBVIOUS
<1>1. ASSUME NEW k \in 0 .. n, \A j \in k + 1 .. n : j \in S PROVE k \in S
  <2>1. CASE k = n
    <3>1. Encoded(c) = Encodings(c)[n]
      BY <1>0, EncodedSteps
    <3> QED BY <2>1, <3>1
  <2>2. CASE k # n
    <3>1. k + 1 \in 1 .. n /\ k + 1 \in k + 1 .. n /\ k + 1 - 1 = k /\ k + 1 \in 0 .. n
      BY <1>0, <2>2
    <3> DEFINE e == Encoding(c[k + 1])
               b == Encodings(c)[k]
    <3>2. Encodings(c)[k + 1] = b \o e
      <4> DEFINE j == k + 1
      <4>1. j \in 1 .. n /\ j - 1 = k
        BY <3>1
      <4> HIDE DEF j
      <4>2. Encodings(c)[j] = Encodings(c)[j - 1] \o Encoding(c[j])
        BY <1>0, <4>1, EncodedSteps
      <4>3. Encodings(c)[j] = Encodings(c)[k] \o Encoding(c[j])
        BY <4>1, <4>2
      <4> QED BY <4>3 DEF j
    <3>3. b \in Seq(Byte)
      BY EncodingsType
    <3>4. e \in Seq(Byte)
      <4> DEFINE d == c[k + 1]
      <4>1. d \in Kind
        BY <1>0, <3>1
      <4>2. HasElement(<<>> \o (Encoding(d) \o <<>>), <<>>, d, <<>>) /\ <<>> \in Seq(Byte)
        BY DEF HasElement
      <4> HIDE DEF d
      <4>3. Encoding(d) \in Seq(Byte)
        BY <4>1, <4>2, ElementIsRead
      <4> QED BY <4>3 DEF d
    <3>5. PICK r \in Seq(Byte) : F = Encodings(c)[k + 1] \o r
      BY <1>1, <3>1
    <3> HIDE DEF F, e, b
    <3>6. F = b \o (e \o r) /\ e \o r \in Seq(Byte)
      <4>1. F = (b \o e) \o r
        BY <3>2, <3>5
      <4>2. e \o r \in Seq(Byte)
        BY <3>4, <3>5, Concat
      <4>3. (b \o e) \o r = b \o (e \o r)
        BY <3>3, <3>4, <3>5, JoinsBytes
      <4> QED BY <4>1, <4>2, <4>3
    <3> QED BY <3>6 DEF b
  <2> QED BY <2>1, <2>2
<1>2. \A k \in 0 .. n : (\A j \in k + 1 .. n : j \in S) => k \in S
  BY <1>1
<1> HIDE DEF S, n
<1>3. \A k \in 0 .. n : k \in S
  BY <1>0, <1>2, FromTheEnd
<1> QED BY <1>3 DEF S, n

\* A file of elements is read element by element.
LEMMA ElementsAreRead ==
    ASSUME NEW c \in Seq(Kind), NEW f \in Seq(Byte), f # <<>> => IsPadding(f[1])
    PROVE  /\ Encoded(c) \o f \in Seq(Byte)
           /\ ForEachRecord(Encoded(c) \o f) = SequenceValues(c)
<1> DEFINE n == Len(c)
           F == Encoded(c) \o f
           at(i) == Len(Encodings(c)[i])
           S == {i \in 0 .. n : /\ Values(c)[i] \in Seq(Seq(Byte))
                                /\ Froms(F)[0] = Values(c)[i] \o Froms(F)[at(i)]}
<1>0. n \in Nat /\ \A i \in 1 .. n : c[i] \in Kind
  OBVIOUS
<1>1. /\ Encoded(c) = Encodings(c)[n] /\ Encodings(c)[n] \in Seq(Byte) /\ Encodings(c)[0] = <<>>
      /\ SequenceValues(c) = Values(c)[n] /\ Values(c)[0] = <<>>
  <2>1. n \in 0 .. n
    BY <1>0
  <2> QED BY <1>0, <2>1, EncodedSteps, ValuesSteps, EncodingsType
<1>2. F \in Seq(Byte) /\ Len(F) = at(n) + Len(f)
      /\ \A i \in 1 .. Len(f) : F[at(n) + i] = f[i]
  BY <1>1, Concat
<1> HIDE DEF F
<1>3. ASSUME NEW k \in 0 .. n, \A j \in 0 .. k - 1 : j \in S PROVE k \in S
  <2>1. CASE k = 0
    <3>1. Froms(F)[0] \in Seq(Seq(Byte))
      BY <1>2, FromsType
    <3>2. Froms(F)[0] = <<>> \o Froms(F)[0] /\ <<>> \in Seq(Seq(Byte))
      BY <3>1
    <3>3. at(0) = 0
      BY <1>1
    <3> HIDE DEF at
    <3> QED BY <1>1, <2>1, <3>2, <3>3
  <2>2. CASE k # 0
    <3>1. k \in 1 .. n /\ k - 1 \in 0 .. k - 1 /\ k - 1 \in 0 .. n
      BY <1>0, <2>2
    <3> DEFINE e == c[k]
               p == Encodings(c)[k - 1]
               o == at(k - 1)
    <3>2. e \in Kind /\ p \in Seq(Byte)
      BY <1>0, <3>1, EncodingsType
    <3>3. /\ Encodings(c)[k] = p \o Encoding(e)
          /\ Values(c)[k] = Values(c)[k - 1] \o ItemOf(e)
      BY <1>0, <3>1, EncodedSteps, ValuesSteps
    <3>4. PICK r \in Seq(Byte) : HasElement(F, p, e, r)
      <4>1. PICK r \in Seq(Byte) : F = Encodings(c)[k] \o r
        BY FileGoesOn DEF F
      <4>2. Encoding(e) \in Seq(Byte)
        <5>1. HasElement(<<>> \o (Encoding(e) \o <<>>), <<>>, e, <<>>) /\ <<>> \in Seq(Byte)
          BY DEF HasElement
        <5> HIDE DEF e
        <5> QED BY <3>2, <5>1, ElementIsRead
      <4>3. (p \o Encoding(e)) \o r = p \o (Encoding(e) \o r)
        <5> HIDE DEF e, p
        <5>1. p \in Seq(Byte) /\ Encoding(e) \in Seq(Byte) /\ r \in Seq(Byte)
          BY <3>2, <4>1, <4>2
        <5> QED BY <5>1, JoinsBytes, ZenonT(30)
      <4>4. HasElement(F, p, e, r)
        <5> HIDE DEF e, p
        <5> QED BY <3>3, <4>1, <4>3 DEF HasElement
      <4> QED BY <4>1, <4>4
    <3>5. Values(c)[k - 1] \in Seq(Seq(Byte)) /\ Froms(F)[0] = Values(c)[k - 1] \o Froms(F)[o]
      BY <1>3, <3>1
    <3>6. o = Len(p) /\ at(k) = Len(p \o Encoding(e))
      BY <3>3
    <3> HIDE DEF e, p, o, at
    <3>7. /\ o < Len(F) /\ ~IsPadding(At(F, o)) /\ ElementFits(F, o) /\ Item(F, o) = ItemOf(e)
          /\ Encoding(e) \in Seq(Byte) /\ ElementEnd(F, o) = o + Len(Encoding(e))
      <4>1. p \in Seq(Byte) /\ r \in Seq(Byte) /\ e \in Kind /\ HasElement(F, p, e, r)
        BY <3>2, <3>4
      <4> QED BY <3>6, <4>1, ElementIsRead
    <3>8. at(k) = ElementEnd(F, o)
      BY <3>2, <3>6, <3>7, Concat
    <3>9. o \in Nat /\ o \in 0 .. Len(F)
      <4>1. o \in Nat /\ Len(F) \in Nat
        BY <1>2, <3>2, <3>6
      <4> QED BY <3>7, <4>1
    <3>10. Froms(F)[o] = ItemOf(e) \o Froms(F)[at(k)]
      BY <1>2, <3>7, <3>8, <3>9, FromsSteps
    <3>11. ItemOf(e) \in Seq(Seq(Byte)) /\ at(k) \in 0 .. Len(F)
      <4>1. Item(F, o) \in Seq(Seq(Byte)) /\ ElementEnd(F, o) \in o + 1 .. Len(F)
        BY <1>2, <3>7, <3>9, ItemType
      <4> QED BY <3>7, <3>8, <3>9, <4>1
    <3>12. Froms(F)[at(k)] \in Seq(Seq(Byte))
      BY <1>2, <3>11, FromsType
    <3> DEFINE x == Values(c)[k - 1]
               y == ItemOf(e)
               z == Froms(F)[at(k)]
    <3>13. x \in Seq(Seq(Byte)) /\ y \in Seq(Seq(Byte)) /\ z \in Seq(Seq(Byte))
      BY <3>5, <3>11, <3>12
    <3>14. Froms(F)[0] = x \o (y \o z) /\ Values(c)[k] = x \o y
      BY <3>3, <3>5, <3>10
    <3> HIDE DEF x, y
    <3>15. Froms(F)[0] = (x \o y) \o z
      <4> HIDE DEF z
      <4> QED BY <3>13, <3>14, Joins
    <3>16. x \o y \in Seq(Seq(Byte))
      BY <3>13, Concat
    <3> QED BY <3>14, <3>15, <3>16
  <2> QED BY <2>1, <2>2
<1>4. n \in S
  <2>1. \A k \in 0 .. n : (\A j \in 0 .. k - 1 : j \in S) => k \in S
    BY <1>3
  <2>2. n \in 0 .. n
    BY <1>0
  <2> HIDE DEF S, n
  <2>3. \A k \in 0 .. n : k \in S
    BY <1>0, <2>1, FromTheStart
  <2> QED BY <2>2, <2>3
<1>5. Froms(F)[at(n)] = <<>>
  <2>1. at(n) \in Nat /\ Len(f) \in Nat
    BY <1>1
  <2> DEFINE m == at(n)
  <2>2. m \in 0 .. Len(F)
    BY <1>2, <2>1
  <2>3. CASE f = <<>>
    <3>1. m = Len(F)
      BY <1>2, <2>1, <2>3
    <3> HIDE DEF m
    <3> QED BY <1>2, <2>2, <3>1, FromsSteps DEF m
  <2>4. CASE f # <<>>
    <3>1. 1 \in 1 .. Len(f)
      BY <2>4
    <3>2. F[m + 1] = f[1] /\ m < Len(F)
      BY <1>2, <2>1, <3>1
    <3>3. IsPadding(At(F, m))
      BY <2>4, <3>2 DEF At
    <3> HIDE DEF m
    <3> QED BY <1>2, <2>2, <3>2, <3>3, FromsSteps DEF m
  <2> QED BY <2>3, <2>4
<1>6. ForEachRecord(F) = Froms(F)[0]
  BY Loops
<1>7. Froms(F)[0] = SequenceValues(c)
  <2>1. Values(c)[n] \in Seq(Seq(Byte)) /\ Froms(F)[0] = Values(c)[n] \o <<>>
    BY <1>4, <1>5
  <2>2. Values(c)[n] \o <<>> = Values(c)[n]
    BY <2>1
  <2> QED BY <1>1, <2>1, <2>2
<1> QED BY <1>2, <1>6, <1>7 DEF F

-----------------------------------------------------------------------------
(* The read of a directory file *)

\* What has been read is part of the file; it is over when the file is or when
\* padding has been read, and the elements are those of the file.
RecordsInv ==
    /\ dir = [bytes |-> dir.bytes, content |-> dir.content, have |-> dir.have, over |-> dir.over]
    /\ dir.bytes \in Seq(Byte) /\ dir.have \in 0 .. Len(dir.bytes) /\ dir.over \in BOOLEAN
    /\ dir.over => dir.have = Len(dir.bytes) \/ RecordsEnd(Read) # NoEnd
    /\ dir.content.known =>
          \E c \in Contents, f \in Filler :
             dir.content.elements = c /\ dir.bytes = Encoded(c) \o f

\* Nothing has been read of a file.
LEMMA RecordsInvInit == RecordsInit => RecordsInv
<1> SUFFICES ASSUME RecordsInit PROVE RecordsInv
  OBVIOUS
<1>1. ASSUME NEW b \in Buffers,
             dir = [bytes |-> b, content |-> Unknown, have |-> 0, over |-> FALSE]
      PROVE  RecordsInv
  <2>1. b \in Seq(Byte)
    BY FilesAreBytes
  <2>2. 0 \in 0 .. Len(b)
    BY <2>1
  <2>3. ~Unknown.known
    BY DEF Unknown
  <2> QED BY <1>1, <2>1, <2>2, <2>3 DEF RecordsInv
<1>2. ASSUME NEW c \in Contents, NEW f \in Filler,
             dir = [bytes |-> Encoded(c) \o f, content |-> [known |-> TRUE, elements |-> c],
                    have |-> 0, over |-> FALSE]
      PROVE  RecordsInv
  <2> DEFINE b == Encoded(c) \o f
  <2>1. b \in Seq(Byte)
    <3>1. c \in Seq(Kind) /\ f \in Seq(Byte) /\ (f # <<>> => IsPadding(f[1]))
      BY FilesAreBytes DEF Kind
    <3> QED BY <3>1, ElementsAreRead
  <2>2. dir.bytes = b /\ dir.content.elements = c
    BY <1>2
  <2>3. dir = [bytes |-> b, content |-> dir.content, have |-> 0, over |-> FALSE]
    BY <1>2
  <2>4. \E d \in Contents, g \in Filler : dir.content.elements = d /\ dir.bytes = Encoded(d) \o g
    BY <2>2
  <2> HIDE DEF b
  <2>5. 0 \in 0 .. Len(b)
    BY <2>1
  <2>6. /\ dir = [bytes |-> dir.bytes, content |-> dir.content, have |-> dir.have, over |-> dir.over]
        /\ dir.have \in 0 .. Len(dir.bytes) /\ ~dir.over /\ dir.over \in BOOLEAN
        /\ dir.bytes \in Seq(Byte)
    <3> DEFINE x == dir.content
    <3>1. dir = [bytes |-> b, content |-> x, have |-> 0, over |-> FALSE]
      BY <2>3
    <3> HIDE DEF x
    <3>2. dir.bytes = b /\ dir.content = x /\ dir.have = 0 /\ dir.over = FALSE
      BY <3>1
    <3> QED BY <2>1, <2>5, <3>1, <3>2
  <2> QED BY <2>4, <2>6 DEF RecordsInv
<1> QED BY <1>1, <1>2 DEF RecordsInit

\* An exchange reads on, and ends the read at the end or behind padding.
LEMMA RecordsInvNext == RecordsInv /\ [ReadMore]_dir => RecordsInv'
<1> SUFFICES ASSUME RecordsInv, [ReadMore]_dir PROVE RecordsInv'
  OBVIOUS
<1>1. CASE UNCHANGED dir
  BY <1>1 DEF RecordsInv, Read
<1>2. CASE ReadMore
  <2>1. PICK n \in ChunkSizes : ReadChunk(n)
    BY <1>2 DEF ReadMore
  <2> DEFINE b == dir.bytes
             h == dir.have
             rest == Len(b) - h
             more == IF n < rest THEN n ELSE rest
             over == more < n \/ RecordsEnd(SubSeq(b, 1, h + more)) # NoEnd
  <2>2. dir' = [dir EXCEPT !.have = @ + more, !.over = over]
    BY <2>1 DEF ReadChunk
  <2>3. dir = [bytes |-> b, content |-> dir.content, have |-> h, over |-> dir.over]
    BY DEF RecordsInv
  <2>4. n \in Nat \ {0} /\ b \in Seq(Byte) /\ h \in 0 .. Len(b) /\ Len(b) \in Nat
    BY ChunksAssumption DEF RecordsInv
  <2> HIDE DEF b, h
  <2>5. h + more \in 0 .. Len(b) /\ (more < n => h + more = Len(b))
    BY <2>4
  <2> HIDE DEF more
  <2>6. over \in BOOLEAN /\ (over => more < n \/ RecordsEnd(SubSeq(b, 1, h + more)) # NoEnd)
    OBVIOUS
  <2> HIDE DEF over
  <2>7. dir' = [bytes |-> b, content |-> dir.content, have |-> h + more, over |-> over]
    <3> DEFINE c == dir.content
               v == dir.over
    <3>1. dir = [bytes |-> b, content |-> c, have |-> h, over |-> v]
      BY <2>3
    <3> HIDE DEF c, v
    <3>2. dir' = [dir EXCEPT !.have = dir.have + more, !.over = over]
      BY <2>2
    <3>3. dir.have + more = h + more
      BY DEF h
    <3>4. dir' = [dir EXCEPT !.have = h + more, !.over = over]
      BY <3>2, <3>3
    <3> DEFINE k == h + more
    <3> HIDE DEF k
    <3>5. dir' = [bytes |-> b, content |-> c, have |-> k, over |-> over]
      BY <3>1, <3>4 DEF k
    <3> QED BY <3>5 DEF c, k
  <2>8. /\ dir'.bytes = b /\ dir'.content = dir.content /\ dir'.have = h + more /\ dir'.over = over
    BY <2>7
  <2>9. Read' = SubSeq(b, 1, h + more)
    BY <2>8 DEF Read
  <2>10. dir'.over => dir'.have = Len(dir'.bytes) \/ RecordsEnd(Read') # NoEnd
    BY <2>5, <2>6, <2>8, <2>9
  <2>11. RecordsEnd(Read)' = RecordsEnd(Read')
    OBVIOUS
  <2>12. dir.content.known =>
            \E c \in Contents, f \in Filler : dir.content.elements = c /\ b = Encoded(c) \o f
    BY DEF RecordsInv, b
  <2> QED BY <2>4, <2>5, <2>6, <2>7, <2>8, <2>10, <2>11, <2>12 DEF RecordsInv
<1> QED BY <1>1, <1>2

\* The first bytes of a file.
LEMMA FirstBytes ==
    ASSUME NEW t \in Seq(Byte), NEW h \in 0 .. Len(t)
    PROVE  /\ SubSeq(t, 1, h) \in Seq(Byte) /\ Len(SubSeq(t, 1, h)) = h
           /\ Starts(SubSeq(t, 1, h), t)
           /\ h = Len(t) => SubSeq(t, 1, h) = t
<1> DEFINE s == SubSeq(t, 1, h)
<1>1. s \in Seq(Byte) /\ Len(s) = h /\ \A i \in 1 .. h : s[i] = t[i]
  OBVIOUS
<1>2. h \in Nat /\ h <= Len(t)
  OBVIOUS
<1> HIDE DEF s
<1>3. ASSUME NEW o \in 0 .. h - 1 PROVE At(s, o) = At(t, o)
  <2>1. o + 1 \in 1 .. h
    BY <1>2
  <2> QED BY <1>1, <2>1 DEF At
<1>4. Starts(s, t)
  BY <1>1, <1>2, <1>3 DEF Starts
<1>5. h = Len(t) => s = t
  BY <1>1, SameSeq
<1> QED BY <1>1, <1>4, <1>5 DEF s

\* What has been read is how the file begins, and all of it once it is over.
LEMMA RecordsInvReads == RecordsInv => RecordsAreRead
<1> SUFFICES ASSUME RecordsInv PROVE RecordsAreRead
  OBVIOUS
<1> DEFINE t == dir.bytes
           s == Read
           e == RecordsEnd(s)
           all == ForEachRecord(t)
           some == ForEachRecord(Returned)
<1>1. t \in Seq(Byte) /\ dir.have \in 0 .. Len(t) /\ s = SubSeq(t, 1, dir.have)
  BY DEF RecordsInv, Read
<1>2. s \in Seq(Byte) /\ Starts(s, t) /\ (dir.have = Len(t) => s = t)
  BY <1>1, FirstBytes
<1>3. dir.over => dir.have = Len(t) \/ e # NoEnd
  BY DEF RecordsInv
<1>4. Returned = IF e = NoEnd THEN s ELSE SubSeq(s, 1, e)
  BY DEF Returned
<1>5. e = Ends(s)[0] /\ all = Froms(t)[0]
  BY Loops
<1>6. dir.content.known => all = SequenceValues(dir.content.elements)
  <2> SUFFICES ASSUME dir.content.known PROVE all = SequenceValues(dir.content.elements)
    OBVIOUS
  <2>1. PICK c \in Contents, f \in Filler :
                dir.content.elements = c /\ dir.bytes = Encoded(c) \o f
    BY DEF RecordsInv
  <2>2. c \in Seq(Kind) /\ f \in Seq(Byte) /\ (f # <<>> => IsPadding(f[1]))
    BY FilesAreBytes DEF Kind
  <2>3. ForEachRecord(Encoded(c) \o f) = SequenceValues(c)
    BY <2>2, ElementsAreRead
  <2> QED BY <2>1, <2>3
<1> HIDE DEF t, s, e
<1>7. Len(s) \in Nat /\ 0 \in 0 .. Len(s) /\ Len(t) \in Nat /\ 0 \in 0 .. Len(t)
  BY <1>1, <1>2
<1>8. IsPrefixOf(some, all) /\ (dir.over => some = all)
  <2>1. CASE e = NoEnd
    <3>1. some = Froms(s)[0]
      BY <1>4, <2>1, Loops
    <3>2. PICK u \in Seq(Seq(Byte)) : Froms(t)[0] = Froms(s)[0] \o u
      BY <1>1, <1>2, <1>7, FromsStart
    <3>3. Froms(s)[0] \in Seq(Seq(Byte))
      BY <1>2, <1>7, FromsType
    <3> DEFINE x == Froms(s)[0]
    <3> HIDE DEF x
    <3>4. x \in Seq(Seq(Byte)) /\ u \in Seq(Seq(Byte)) /\ all = x \o u /\ some = x
      BY <1>5, <3>1, <3>2, <3>3 DEF x
    <3> HIDE DEF all, some
    <3>5. Len(x) <= Len(x \o u) /\ SubSeq(x \o u, 1, Len(x)) = x
      <4> DEFINE S == Seq(Byte)
                 y == x \o u
                 z == SubSeq(y, 1, Len(x))
      <4> HIDE DEF S
      <4>1. x \in Seq(S) /\ u \in Seq(S)
        BY <3>4 DEF S
      <4>2. y \in Seq(S) /\ Len(y) = Len(x) + Len(u) /\ \A i \in 1 .. Len(x) : y[i] = x[i]
        BY <4>1, Concat
      <4>3. Len(x) \in Nat /\ Len(u) \in Nat
        BY <4>1
      <4> HIDE DEF y
      <4>4. Len(x) <= Len(y)
        BY <4>2, <4>3
      <4>5. z \in Seq(S) /\ Len(z) = Len(x) /\ \A i \in 1 .. Len(x) : z[i] = y[i]
        BY <4>2, <4>3, <4>4
      <4> HIDE DEF z
      <4>6. z = x
        BY <4>1, <4>2, <4>5, SameSeq
      <4> QED BY <4>4, <4>6 DEF y, z
    <3>6. IsPrefixOf(some, all)
      BY <3>4, <3>5 DEF IsPrefixOf
    <3>7. dir.over => some = all
      BY <1>2, <1>3, <1>5, <2>1, <3>1 DEF all, some
    <3> QED BY <3>6, <3>7
  <2>2. CASE e # NoEnd
    <3>1. e \in 0 .. Len(s)
      BY <1>2, <1>5, <1>7, <2>2, EndsType
    <3> DEFINE r == SubSeq(s, 1, e)
    <3>2. r \in Seq(Byte) /\ Len(r) = e /\ Starts(r, s)
      BY <1>2, <3>1, FirstBytes
    <3>3. Returned = r
      BY <1>4, <2>2
    <3> HIDE DEF r
    <3>4. 0 \in 0 .. Len(r)
      BY <3>1, <3>2
    <3>5. Froms(r)[0] = Froms(t)[0]
      <4>1. Ends(s)[0] = Len(r)
        BY <1>5, <3>2
      <4>2. \A off \in 0 .. Len(r) : Ends(s)[off] = Len(r) => Froms(r)[off] = Froms(t)[off]
        BY <1>1, <1>2, <3>2, FromsEnd
      <4> QED BY <3>4, <4>1, <4>2
    <3>6. some = all
      BY <1>5, <3>3, <3>5, Loops
    <3>7. all \in Seq(Seq(Byte))
      BY <1>1, <1>5, <1>7, FromsType
    <3> HIDE DEF all, some
    <3>8. Len(all) <= Len(all) /\ SubSeq(all, 1, Len(all)) = all
      BY <3>7
    <3> QED BY <3>6, <3>8 DEF IsPrefixOf
  <2> QED BY <2>1, <2>2
<1> QED BY <1>6, <1>8 DEF RecordsAreRead, t

\* read_directory_file and for_each_record, for files of any bytes and exchanges
\* of any sizes: the records returned are always how those of the file begin,
\* all of them once the read is over, and the values of the sequences written
\* where the file is made of DER elements.
THEOREM RecordsAreAllRead == RecordsSpec => []RecordsAreRead
<1>1. RecordsInit => RecordsInv
  BY RecordsInvInit
<1>2. RecordsInv /\ [ReadMore]_dir => RecordsInv'
  BY RecordsInvNext
<1>3. RecordsInv => RecordsAreRead
  BY RecordsInvReads
<1> QED BY <1>1, <1>2, <1>3, PTL DEF RecordsSpec
=============================================================================
