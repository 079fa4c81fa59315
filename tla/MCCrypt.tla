------------------------------ MODULE MCCrypt ------------------------------
(* Small instances of Crypt and Padding for TLC.  The two directions of     *)
(* Crypt share no state (each action is about one and no guard looks at the *)
(* other), and Padding has none of theirs: a behaviour follows one of the   *)
(* three.                                                                   *)
EXTENDS Crypt, Padding

LOCAL INSTANCE Bitwise

CONSTANTS k1, k2, x, y

TwoKeys == {k1, k2}
TwoBytes == {x, y}
AllMechanisms == {"PKCS", "X509", "OAEP"}
Both == {"encrypt", "decrypt"}

\* A block that starts with x decrypts to nothing, another to all but a unit.
ByFirst == [b \in [1 .. Block -> Bytes] |-> IF b[1] = x THEN 0 ELSE Block - 1]

\* Room for two bytes of message.
SmallModulus == [PKCS |-> 13, OAEP |-> 6, sign |-> 256]

ToyHash(s) ==
    LET sum[i \in 0 .. Len(s)] == IF i = 0 THEN Len(s) ELSE (sum[i - 1] * 3 + s[i]) % 4
    IN <<sum[Len(s)] % 4>>
ToyLabel == <<2, 3>>

UpTo(n, bytes) == UNION {[1 .. k -> bytes] : k \in 0 .. n}

Ones(n) == [i \in 1 .. n |-> 1]
HashOf(mech, data) ==
    [i \in 1 .. DigestLen[mech] |-> (i * data) % 251]

BitXor(a, b) == a ^^ b

\* Raw data around the limit, and two hashes of every mechanism.
SomeMessages ==
    [PKCS |-> UpTo(3, {0, 1, 2}),
     OAEP |-> UpTo(3, 0 .. 3),
     sign |-> [mech : {"raw"}, data : {Ones(n) : n \in {0, 1, 244, 245, 246}}]
              \cup {[mech |-> m, data |-> HashOf(m, d)] :
                       m \in {"MD5", "SHA1", "SHA256", "SHA384", "SHA512"}, d \in {1, 2}}]

SomeForeign ==
    [PKCS |-> {<<a, b>> \o t : a \in {0, 1}, b \in {1, 2}, t \in [1 .. 11 -> {0, 1}]},
     OAEP |-> {<<a>> \o t : a \in {0, 1}, t \in [1 .. 5 -> 0 .. 3]},
     sign |-> {}]

FourBytes == 0 .. 3

VARIABLE following

NoPadding ==
    pad = [use |-> "PKCS", msg |-> <<>>, claim |-> <<>>, own |-> TRUE, step |-> "none",
           block |-> <<>>, out |-> {}]

MCInit ==
    \/ Init /\ NoPadding /\ following \in Directions
    \/ Init /\ PadInit /\ following = "padding"

Finished == following = "padding" /\ pad.step \in {"done", "refused"}

MCNext ==
    /\ UNCHANGED following
    /\ \/ following \in Directions /\ CryptCall(following) /\ UNCHANGED pad
       \/ following = "padding" /\ PadStep /\ UNCHANGED vars
       \/ Finished /\ UNCHANGED <<vars, pad>>

OneAtATime == MCInit /\ [][MCNext]_<<vars, pad, following>>
=============================================================================
