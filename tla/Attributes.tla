---------------------------- MODULE Attributes ----------------------------
(***************************************************************************)
(* C_GetAttributeValue (pkcs11/module.rs) and its caller: a template whose *)
(* lengths are input and output, asked for sizes, given buffers, asked     *)
(* again, used for another object, and at last handed to a search.  The    *)
(* objects of a token do not change while a session is open on it.         *)
(***************************************************************************)
EXTENDS Integers, Sequences

CONSTANTS
    Objs,       \* Token.objs in the order of their handles
    Requests,    \* the attribute types of a template, in their order
    Sizes,       \* buffer sizes a caller tries without having asked
    Unavailable  \* CK_UNAVAILABLE_INFORMATION, a length above all others

\* "signRecover" and "extractable" stand for all that are always FALSE,
\* "sensitive" for the three that say whether it is a private key.
Booleans == {"token", "private", "modifiable", "local", "sign", "decrypt", "verify", "encrypt",
             "wrap", "unwrap", "signRecover", "sensitive", "extractable"}
WhenPresent == {"subject", "issuer", "serial", "application", "objectId", "value", "modulus",
                "publicExponent"}
Types == Booleans \cup WhenPresent
         \cup {"class", "id", "label", "keyType", "certificateType", "modulusBits", "other"}

Classes == {"Data", "Cert", "PubKey", "PrivKey"}

\* CKO_DATA, CKO_CERTIFICATE, ... as a CK_ULONG of two bytes.
ClassCode == [Data |-> <<0, 0>>, Cert |-> <<1, 0>>, PubKey |-> <<2, 0>>, PrivKey |-> <<3, 0>>]

\* "on" are the flags that are set, data the fields that are sequences.
TokenObject == [class : Classes, on : SUBSET Booleans, data : [Types -> Seq(Nat)]]

ASSUME ObjsAssumption == Objs \in Seq(TokenObject)
ASSUME RequestsAssumption == Requests \subseteq Seq(Types)
ASSUME LengthsAssumption ==
    /\ Sizes \subseteq Nat /\ Unavailable \in Nat /\ 2 < Unavailable
    /\ \A n \in Sizes : n < Unavailable
    /\ \A h \in DOMAIN Objs, a \in Types : Len(Objs[h].data[a]) < Unavailable

VARIABLES
    entry,     \* the template: type, pValue, ulValueLen and the bytes behind pValue
    asked,     \* the object of the last call, 0 before the first
    rv,        \* what it returned, "none" while the caller prepares another
    sizedFor   \* the object whose announced lengths the buffers have, or 0

attrVars == <<entry, asked, rv, sizedFor>>

ObjHandles == DOMAIN Objs
Null == -1

Entry == [type : Types, cap : Nat \cup {Null}, len : Nat, bytes : Seq(Nat)]

Blank(n) == [j \in 1 .. n |-> 0]

AttrInit == entry = <<>> /\ asked = 0 /\ rv = "none" /\ sizedFor = 0

-----------------------------------------------------------------------------
IsKey(h) == Objs[h].class \in {"PrivKey", "PubKey"}

IsOn(h, a) ==
    \/ a = "token"
    \/ a = "sensitive" /\ Objs[h].class = "PrivKey"
    \/ a \notin {"signRecover", "sensitive", "extractable"} /\ a \in Objs[h].on

\* The attributes an object has: an empty field is none, an empty label or
\* identifier is one.
Has(h, a) ==
    \/ a \in {"class", "id", "label"} \cup (Booleans \ {"local"})
    \/ a \in {"local", "keyType"} /\ IsKey(h)
    \/ a = "certificateType" /\ Objs[h].class = "Cert"
    \/ a \in WhenPresent /\ Objs[h].data[a] # <<>>
    \/ a = "modulusBits" /\ IsKey(h) /\ Objs[h].data[a] # <<>>

Value(h, a) ==
    IF a = "class" THEN ClassCode[Objs[h].class]
    ELSE IF a \in {"keyType", "certificateType"} THEN <<0, 0>>
    ELSE IF a \in Booleans THEN <<IF IsOn(h, a) THEN 1 ELSE 0>>
    ELSE Objs[h].data[a]

\* Bytes that do not fit are written all the same: the buffer grows in the
\* model, which TemplateOK forbids.
Written(b, v) == [j \in DOMAIN b \cup DOMAIN v |-> IF j \in DOMAIN v THEN v[j] ELSE b[j]]

TooSmall(e, v) == e.cap # Null /\ e.len < Len(v)

\* Faulty variant: only a refusal and a probe set the length.
SetAttrKeepsLength(e, v) ==
    [e EXCEPT !.len = IF e.cap = Null \/ TooSmall(e, v) THEN Len(v) ELSE @,
              !.bytes = IF e.cap = Null \/ TooSmall(e, v) THEN @ ELSE Written(@, v)]

\* set_attr
SetAttr(e, v) ==
    [e EXCEPT !.len = Len(v),
              !.bytes = IF e.cap = Null \/ TooSmall(e, v) THEN @ ELSE Written(@, v)]

Answered(h, i) ==
    IF Has(h, entry[i].type) THEN SetAttr(entry[i], Value(h, entry[i].type))
    ELSE [entry[i] EXCEPT !.len = Unavailable]

Refused(h, i) == Has(h, entry[i].type) /\ TooSmall(entry[i], Value(h, entry[i].type))

\* Faulty variant: the last entry decides.
ResultOfLast(h) ==
    LET i == Len(entry)
    IN IF i = 0 THEN "OK"
       ELSE IF Refused(h, i) THEN "BUFFER_TOO_SMALL"
       ELSE IF ~Has(h, entry[i].type) THEN "ATTRIBUTE_TYPE_INVALID"
       ELSE "OK"

\* An entry that cannot be answered does not keep the others from it, and a
\* buffer too small goes before an attribute that is not there.
Result(h) ==
    IF \E i \in DOMAIN entry : Refused(h, i) THEN "BUFFER_TOO_SMALL"
    ELSE IF \E i \in DOMAIN entry : ~Has(h, entry[i].type) THEN "ATTRIBUTE_TYPE_INVALID"
    ELSE "OK"

\* The caller passes the lengths its buffers have, or a part of them; after a
\* refusal the entry shows what is needed and must not be passed so.  A length
\* that says "unavailable" may stay for the same object, which has no value.
LengthsAreTrue(h) ==
    \A i \in DOMAIN entry :
        entry[i].cap # Null =>
            entry[i].len <= entry[i].cap \/ (h = asked /\ entry[i].len = Unavailable)

GetAttributeValue(h) ==
    /\ LengthsAreTrue(h)
    /\ entry' = [i \in DOMAIN entry |-> Answered(h, i)]
    /\ rv' = Result(h)
    /\ asked' = h
    /\ sizedFor' = IF h = sizedFor THEN h ELSE 0

\* A handle without an object: the template stays.
UnknownObject ==
    /\ rv' = "OBJECT_HANDLE_INVALID"
    /\ UNCHANGED <<entry, asked, sizedFor>>

\* The last thing that happened is a call that looked at the template.
Answer == rv \in {"OK", "ATTRIBUTE_TYPE_INVALID", "BUFFER_TOO_SMALL"}

-----------------------------------------------------------------------------
(* The caller. *)

\* A new template, with null pointers to ask for the lengths, or with buffers.
Begin(request, cap) ==
    /\ entry' = [i \in DOMAIN request |->
                   [type |-> request[i], cap |-> cap, len |-> IF cap = Null THEN 0 ELSE cap,
                    bytes |-> Blank(IF cap = Null THEN 0 ELSE cap)]]
    /\ asked' = 0 /\ rv' = "none" /\ sizedFor' = 0

\* A buffer of the announced length for each value that has none, or one too small.
Allocate ==
    /\ Answer
    /\ entry' = [i \in DOMAIN entry |->
                   IF entry[i].len = Unavailable \/ entry[i].len <= entry[i].cap THEN entry[i]
                   ELSE [entry[i] EXCEPT !.cap = entry[i].len, !.bytes = Blank(entry[i].len)]]
    /\ rv' = "none" /\ sizedFor' = asked
    /\ UNCHANGED asked

\* Before the buffers are used for another object their lengths are put back.
PutLengthsBack ==
    /\ entry' = [i \in DOMAIN entry |->
                   IF entry[i].cap = Null THEN entry[i]
                   ELSE [entry[i] EXCEPT !.len = entry[i].cap]]
    /\ rv' = "none"
    /\ UNCHANGED <<asked, sizedFor>>

AttrStep ==
    \/ \E request \in Requests, cap \in Sizes \cup {Null} : Begin(request, cap)
    \/ \E h \in ObjHandles : GetAttributeValue(h)
    \/ UnknownObject \/ Allocate \/ PutLengthsBack

AttrSpec == AttrInit /\ [][AttrStep]_attrVars

-----------------------------------------------------------------------------
Shows(e, v) == e.len = Len(v) /\ \A j \in DOMAIN v : e.bytes[j] = v[j]

\* attr_match on one entry: a null pointer asks for nothing, nor does a class
\* or a flag of another length, nor CKA_SIGN or CKA_DECRYPT FALSE.
Asks(h, e) ==
    /\ e.cap # Null /\ e.type = "class" /\ e.len = 2 => Shows(e, Value(h, e.type))
    /\ e.cap # Null /\ e.type \in {"id", "label"} => Shows(e, Value(h, e.type))
    /\ e.cap # Null /\ e.type \in {"sign", "decrypt"} /\ e.len = 1 =>
          (e.bytes[1] # 0 => IsOn(h, e.type))

AttrMatch(h) == \A i \in DOMAIN entry : Asks(h, entry[i])

\* The state keeps its shape, and no buffer is written behind its end.
TemplateOK ==
    /\ entry \in Seq(Entry)
    /\ asked \in ObjHandles \cup {0} /\ sizedFor \in {asked, 0}
    /\ rv \in {"none", "OK", "ATTRIBUTE_TYPE_INVALID", "BUFFER_TOO_SMALL",
               "OBJECT_HANDLE_INVALID"}
    /\ \A i \in DOMAIN entry :
          Len(entry[i].bytes) = IF entry[i].cap = Null THEN 0 ELSE entry[i].cap

\* One call announces the length of each value or that there is none; unless it
\* says that a buffer is too small each buffer holds its value; and OK leaves no
\* attribute out.
EntriesAnswered ==
    Answer =>
        /\ \A i \in DOMAIN entry :
              LET e == entry[i]  v == Value(asked, e.type)
              IN IF ~Has(asked, e.type) THEN e.len = Unavailable /\ rv # "OK"
                 ELSE /\ e.len = Len(v)
                      /\ e.cap # Null /\ rv # "BUFFER_TOO_SMALL" => Shows(e, v)
        /\ rv = "ATTRIBUTE_TYPE_INVALID" => \E i \in DOMAIN entry : ~Has(asked, entry[i].type)

\* Buffers of the lengths that a probe, a refusal or a mixture announced are
\* never too small for the same object.
AnnouncedSizesSuffice == Answer /\ sizedFor # 0 => rv # "BUFFER_TOO_SMALL"

\* C_GetAttributeValue answers every entry, however they are ordered and
\* whatever becomes of the others, writes within the buffers, and accepts the
\* sizes it announced.
AnswersAreComplete == TemplateOK /\ EntriesAnswered /\ AnnouncedSizesSuffice

\* A template read from one object and handed to C_FindObjectsInit as it stands
\* finds that object, and no object of another class, identifier or label:
\* so callers go from a certificate to its key.
ReadTemplatesFind ==
    rv \in {"OK", "ATTRIBUTE_TYPE_INVALID"} =>
        \A h \in ObjHandles :
            AttrMatch(h) <=>
                \A i \in DOMAIN entry :
                    LET a == entry[i].type
                    IN entry[i].cap # Null =>
                          /\ a \in {"class", "id", "label"} => Value(h, a) = Value(asked, a)
                          /\ a \in {"sign", "decrypt"} /\ IsOn(asked, a) => IsOn(h, a)

=============================================================================
