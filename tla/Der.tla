-------------------------------- MODULE Der --------------------------------
(***************************************************************************)
(* The DER reader (der.rs).  Buffers are sequences of bytes; offsets count *)
(* from 0, as in the code.                                                 *)
(***************************************************************************)
EXTENDS Integers, Sequences

Byte == 0 .. 255

At(data, off) == data[off + 1]

Bad == [ok |-> FALSE]

\* The length in the n bytes at off.  It stops growing once it is longer than
\* the buffer; usize holds four bytes on every platform the module is built for.
BigEndian(data, off, n) ==
    LET l[i \in 0 .. n] ==
          IF i = 0 THEN 0
          ELSE IF l[i - 1] > Len(data) THEN l[i - 1]
          ELSE 256 * l[i - 1] + At(data, off + i - 1)
    IN l[n]

\* tag: one byte or, if its low bits are 1F, two.
TagBytes(data, off) == IF At(data, off) % 32 = 31 THEN 2 ELSE 1

\* The length field at off: short form, or long form of one to four bytes.
Length(data, off) ==
    LET b == At(data, off)
        n == b % 128
    IN IF b < 128 THEN [ok |-> TRUE, bytes |-> 1, value |-> b]
       ELSE IF n = 0 \/ n > 4 \/ off + 1 + n > Len(data) THEN Bad
       ELSE [ok |-> TRUE, bytes |-> 1 + n, value |-> BigEndian(data, off + 1, n)]

\* next: the element at off and the offset behind it.
DerNext(data, off) ==
    IF off >= Len(data) \/ off + TagBytes(data, off) >= Len(data) THEN Bad
    ELSE LET t == TagBytes(data, off)
             l == Length(data, off + t)
             tag == IF t = 1 THEN At(data, off) ELSE 256 * At(data, off) + At(data, off + 1)
             hdr == t + l.bytes
             end == off + hdr + l.value
         IN IF ~l.ok THEN Bad
            ELSE IF end > Len(data) THEN Bad
            ELSE [ok |-> TRUE, tag |-> tag, hdr |-> hdr,
                  val |-> SubSeq(data, off + hdr + 1, end), next |-> end]

=============================================================================
