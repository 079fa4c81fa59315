------------------------------ MODULE Padding ------------------------------
(***************************************************************************)
(* The formats around the RSA operation: PKCS#1 v1.5 blocks for signatures *)
(* and encryption, OAEP with MGF1, DigestInfo (pkcs11/module.rs, api/      *)
(* pad.rs, apdu/gen1.rs and gen2.rs).  A behaviour follows one message:    *)
(* it is padded, passes through RSA and back, and is unpadded or verified; *)
(* or a block that somebody else made is unpadded.  RSA itself is the      *)
(* identity on numbers, its numbers forget the zeros in front.             *)
(***************************************************************************)
EXTENDS Der

CONSTANTS
    ModulusLen,   \* length of blocks, by use: "PKCS", "OAEP", "sign"
    HashLen,      \* length of a hash OAEP uses
    Hash(_),      \* and the hash
    ByteXor(_, _),    \* of two bytes
    Label,        \* the label of OAEP
    SomeByte,     \* bytes of messages, padding and seeds of encryption
    Messages,     \* messages, by use
    Foreign       \* blocks made by others, by use

Uses == {"PKCS", "OAEP", "sign"}

ASSUME ModulusAssumption == ModulusLen \in [Uses -> Nat] /\ HashLen \in Nat \ {0}

\* An exclusive or is undone by the same one.
ASSUME BytesAssumption ==
    /\ {0, 1, 2} \subseteq SomeByte /\ SomeByte \subseteq Byte
    /\ \A a, b \in SomeByte : ByteXor(a, b) \in SomeByte /\ ByteXor(ByteXor(a, b), b) = a

DigestLen == [MD5 |-> 16, SHA1 |-> 20, SHA256 |-> 32, SHA384 |-> 48, SHA512 |-> 64]

\* A message to sign is raw data or the hash of its mechanism; RSA yields
\* blocks as long as the modulus.
ASSUME MessagesAssumption ==
    /\ Label \in Seq(Byte)
    /\ \A use \in {"PKCS", "OAEP"} :
          /\ Messages[use] \subseteq Seq(SomeByte)
          /\ \A b \in Foreign[use] : b \in Seq(SomeByte) /\ Len(b) = ModulusLen[use]
    /\ \A m \in Messages["sign"] :
          /\ m.data \in Seq(Byte)
          /\ m.mech # "raw" =>
                m.mech \in DOMAIN DigestLen /\ Len(m.data) = DigestLen[m.mech]
    /\ Foreign["sign"] = {}

VARIABLE pad

\* A result of an operation that can fail: no value or one.
Fails == {}

Zeros(n) == [i \in 1 .. n |-> 0]

-----------------------------------------------------------------------------
(* PKCS#1 v1.5: 00 01 FF .. FF 00 payload, and 00 02 PS 00 message. *)

\* pkcs1_v15_signature_block, on the card's side: FF everywhere, then the rest.
SignatureBlock(data) ==
    LET k == ModulusLen["sign"]
        separator == k - Len(data) - 1
    IN IF Len(data) > k - 11 THEN Fails
       ELSE {[i \in 1 .. k |-> CASE i = 1 -> 0
                                 [] i = 2 -> 1
                                 [] i > 2 /\ i < separator + 1 -> 255
                                 [] i = separator + 1 -> 0
                                 [] i > separator + 1 -> data[i - separator - 1]]}

\* emsa_pkcs1_v15, on the verifier's side.
Emsa(payload) ==
    LET k == ModulusLen["sign"]
    IN IF Len(payload) > k - 11 THEN Fails
       ELSE {<<0, 1>> \o [i \in 1 .. k - Len(payload) - 3 |-> 255] \o <<0>> \o payload}

\* pkcs1_v15_encrypt_block, for all the padding it may draw.
EncryptBlocks(message) ==
    LET k == ModulusLen["PKCS"]
    IN IF Len(message) > k - 11 THEN Fails
       ELSE {<<0, 2>> \o ps \o <<0>> \o message :
                ps \in [1 .. k - Len(message) - 3 -> SomeByte \ {0}]}

\* Faulty variant: eight bytes of padding are too few.
ShortPaddingOffByOne(end) == end <= 10

\* PS must be at least 8 bytes; end is where it ends.
ShortPadding(end) == end < 10

\* pkcs1_v15_unpad_type2
UnpadType2(block) ==
    LET zeros == {i \in 2 .. Len(block) - 1 : At(block, i) = 0}
        end == CHOOSE i \in zeros : \A j \in zeros : i <= j
    IN IF Len(block) # ModulusLen["PKCS"] \/ At(block, 0) # 0 \/ At(block, 1) # 2 THEN Fails
       ELSE IF zeros = {} THEN Fails
       ELSE IF ShortPadding(end) THEN Fails
       ELSE {SubSeq(block, end + 2, Len(block))}

-----------------------------------------------------------------------------
(* OAEP *)

Masked(a, b) == [i \in DOMAIN a |-> ByteXor(a[i], b[i])]

\* counter.to_be_bytes()
CounterBytes(c) ==
    <<(c \div 16777216) % 256, (c \div 65536) % 256, (c \div 256) % 256, c % 256>>

\* mgf1: hashes of the seed and a counter one after the other, cut to length.
Mgf1(seed, length) ==
    [i \in 1 .. length |->
        Hash(seed \o CounterBytes((i - 1) \div HashLen))[((i - 1) % HashLen) + 1]]

\* oaep_encode, for all the seeds it may draw.
OaepBlocks(message) ==
    LET k  == ModulusLen["OAEP"]
        db == Hash(Label) \o Zeros(k - Len(message) - 2 * HashLen - 2) \o <<1>> \o message
        Sealed(seed) ==
          LET maskedDb == Masked(db, Mgf1(seed, Len(db)))
          IN <<0>> \o Masked(seed, Mgf1(maskedDb, HashLen)) \o maskedDb
    IN IF Len(message) + 2 * HashLen + 2 > k THEN Fails
       ELSE {Sealed(seed) : seed \in [1 .. HashLen -> SomeByte]}

\* Faulty variant: the byte behind the zeros is dropped whatever it is.
SeparatorAny(b) == TRUE

Separator(b) == b = 1

\* oaep_decode
OaepDecode(em) ==
    LET maskedSeed == SubSeq(em, 2, 1 + HashLen)
        maskedDb   == SubSeq(em, 2 + HashLen, Len(em))
        seed == Masked(maskedSeed, Mgf1(maskedDb, HashLen))
        db   == Masked(maskedDb, Mgf1(seed, Len(maskedDb)))
        rest == {i \in HashLen .. Len(db) - 1 : At(db, i) # 0}
        first == CHOOSE i \in rest : \A j \in rest : i <= j
    IN IF Len(em) < 2 * HashLen + 2 \/ At(em, 0) # 0 THEN Fails
       ELSE IF SubSeq(db, 1, HashLen) # Hash(Label) \/ rest = {} THEN Fails
       ELSE IF Separator(At(db, first)) THEN {SubSeq(db, first + 2, Len(db))}
       ELSE Fails

-----------------------------------------------------------------------------
(* DigestInfo *)

\* build_digestinfo_*, digestinfo_*
DigestPrefix(mech) ==
    CASE mech = "MD5"    -> <<48, 32, 48, 12, 6, 8, 42, 134, 72, 134, 247, 13, 2, 5, 5, 0, 4, 16>>
      [] mech = "SHA1"   -> <<48, 33, 48, 9, 6, 5, 43, 14, 3, 2, 26, 5, 0, 4, 20>>
      [] mech = "SHA256" -> <<48, 49, 48, 13, 6, 9, 96, 134, 72, 1, 101, 3, 4, 2, 1, 5, 0, 4, 32>>
      [] mech = "SHA384" -> <<48, 65, 48, 13, 6, 9, 96, 134, 72, 1, 101, 3, 4, 2, 2, 5, 0, 4, 48>>
      [] mech = "SHA512" -> <<48, 81, 48, 13, 6, 9, 96, 134, 72, 1, 101, 3, 4, 2, 3, 5, 0, 4, 64>>

\* digest_info_for_hash_mech; "raw" is CKM_RSA_PKCS.
Payload(m) == IF m.mech = "raw" THEN m.data ELSE DigestPrefix(m.mech) \o m.data

-----------------------------------------------------------------------------
(* RSA *)

\* to_bytes_be of a number: no zeros in front, one for zero itself.
ToBytes(block) ==
    LET digits == {i \in DOMAIN block : block[i] # 0}
        first == CHOOSE i \in digits : \A j \in digits : i <= j
    IN IF digits = {} THEN <<0>> ELSE SubSeq(block, first, Len(block))

\* Faulty variant: the number as it comes.
ToWidthUnpadded(bytes, k) == bytes

\* rsa_public_crypt and verify_rsa_pkcs1_v15 put the zeros back.
ToWidth(bytes, k) == Zeros(k - Len(bytes)) \o bytes

-----------------------------------------------------------------------------
\* Data a signature is held against.
Claims(use, m) == IF use = "sign" THEN Messages[use] ELSE {m}

PadInit ==
    \E use \in Uses :
       \/ \E m \in Messages[use] : \E claim \in Claims(use, m) :
             pad = [use |-> use, msg |-> m, claim |-> claim, own |-> TRUE, step |-> "message",
                    block |-> <<>>, out |-> {}]
       \/ \E b \in Foreign[use] :
             pad = [use |-> use, msg |-> <<>>, claim |-> <<>>, own |-> FALSE, step |-> "block",
                    block |-> b, out |-> {}]

Blocks(use, m) ==
    CASE use = "PKCS" -> EncryptBlocks(m)
      [] use = "OAEP" -> OaepBlocks(m)
      [] use = "sign" -> SignatureBlock(Payload(m))

\* A message is padded, or refused as too long, and goes through RSA.
PadMessage ==
    /\ pad.step = "message"
    /\ \/ /\ Blocks(pad.use, pad.msg) = {}
          /\ pad' = [pad EXCEPT !.step = "refused"]
       \/ \E b \in Blocks(pad.use, pad.msg) :
             pad' = [pad EXCEPT !.step = "block",
                                !.block = ToWidth(ToBytes(b), ModulusLen[pad.use])]

\* What the other side makes of it: decryption unpads, verify_rsa_pkcs1_v15
\* compares with the block for the data it was given.
Unpad ==
    /\ pad.step = "block"
    /\ pad' = [pad EXCEPT !.step = "done",
                          !.out = CASE pad.use = "PKCS" -> UnpadType2(pad.block)
                                    [] pad.use = "OAEP" -> OaepDecode(pad.block)
                                    [] pad.use = "sign" -> IF pad.block \in Emsa(Payload(pad.claim))
                                                           THEN {pad.claim} ELSE Fails]

PadStep == PadMessage \/ Unpad

PadSpec == PadInit /\ [][PadStep]_pad

-----------------------------------------------------------------------------
\* Whatever padding and seed are drawn: what was padded is unpadded to the same
\* message, also an empty one, one that begins with the bytes of the padding,
\* and the longest that is not refused; and the longest is as long as the
\* format allows (C_Encrypt then C_Decrypt or the API's decrypt).
PaddedMessagesComeBack ==
    pad.own /\ pad.use # "sign" =>
        /\ pad.step = "done" => pad.out = {pad.msg}
        /\ pad.step = "refused" =>
             Len(pad.msg) + (IF pad.use = "PKCS" THEN 11 ELSE 2 * HashLen + 2)
               > ModulusLen[pad.use]

\* A block is taken for a message only if it is one the format has for it:
\* nothing else is unpadded, whatever bytes the private operation yields.
OnlyPaddedBlocksAreRead ==
    ~pad.own /\ pad.step = "done" =>
        \A m \in pad.out : pad.block \in Blocks(pad.use, m)

\* The object identifiers of the hashes.
Oid == [MD5    |-> <<42, 134, 72, 134, 247, 13, 2, 5>>,
        SHA1   |-> <<43, 14, 3, 2, 26>>,
        SHA256 |-> <<96, 134, 72, 1, 101, 3, 4, 2, 1>>,
        SHA384 |-> <<96, 134, 72, 1, 101, 3, 4, 2, 2>>,
        SHA512 |-> <<96, 134, 72, 1, 101, 3, 4, 2, 3>>]

\* SEQUENCE { SEQUENCE { OID, NULL }, OCTET STRING }, with nothing behind it.
IsDigestInfo(info, mech, digest) ==
    LET element == [off \in 0 .. Len(info) - 1 |-> DerNext(info, off)]
        top  == element[0]
        alg  == element[top.hdr]
        oid  == element[top.hdr + alg.hdr]
        null == element[oid.next]
        hash == element[alg.next]
    IN /\ top.ok /\ top.tag = 48 /\ top.next = Len(info)
       /\ alg.ok /\ alg.tag = 48
       /\ oid.ok /\ oid.tag = 6 /\ oid.val = Oid[mech]
       /\ null.ok /\ null.tag = 5 /\ null.val = <<>> /\ null.next = alg.next
       /\ hash.ok /\ hash.tag = 4 /\ hash.val = digest /\ hash.next = top.next

\* The block the card signs and the one the verifier expects, built by different
\* code from the same data, agree, and only for the same data: C_Verify accepts
\* what C_Sign or the API signed with any mechanism and refuses other data.
\* What is signed for a hash mechanism is the DER of the hash and its algorithm.
SignaturesVerify ==
    pad.use = "sign" /\ pad.step = "done" =>
        /\ pad.out # {} <=> Payload(pad.claim) = Payload(pad.msg)
        /\ pad.msg.mech # "raw" =>
              IsDigestInfo(Payload(pad.msg), pad.msg.mech, pad.msg.data)

=============================================================================
