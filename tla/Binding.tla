------------------------------ MODULE Binding ------------------------------
(***************************************************************************)
(* bind (p15.rs): the token of a card, built from its directory files.     *)
(* PrKDF, PuKDF, CDF and DODF are read in this order; a value of the card  *)
(* is fetched for the entries that name one; private keys take their       *)
(* public material from a public key or certificate with their identifier. *)
(* One file, entry or value per step.  AODF only yields a PIN reference,   *)
(* which verify_pin does not use.                                          *)
(***************************************************************************)
EXTENDS Naturals, Sequences

CONSTANTS
    Cards,     \* a card: for each class the entries of its directory file
    NoId,      \* the empty identifier
    NoKey,     \* no modulus
    MaxObjs,   \* MAX_OBJS
    Faults     \* whether an exchange fails

Classes == {"PrivKey", "PubKey", "Cert", "Data"}

\* An entry of a directory file: whether split_entry accepts it, whether it
\* names a value, and the key it is about.  Labels tell the entries of a card
\* apart.
Entry == [label : STRING, id : STRING \cup {NoId}, key : STRING \cup {NoKey},
          parses : BOOLEAN, stored : BOOLEAN]

\* An entry of the DODF has no identifier.
ASSUME CardsAssumption ==
    /\ Cards \subseteq [Classes -> Seq(Entry)]
    /\ \A c \in Cards : \A i \in DOMAIN c["Data"] : c["Data"][i].id = NoId
ASSUME LabelsAssumption ==
    \A c \in Cards : \A class \in Classes : \A i, j \in DOMAIN c[class] :
        c[class][i].label = c[class][j].label => i = j
\* What link_key_material relies on: an identifier stands for one key pair.
ASSUME IdsAssumption ==
    \A c \in Cards : \A class \in {"PubKey", "Cert"} :
        \A i \in DOMAIN c["PrivKey"], j \in DOMAIN c[class] :
            LET e == c["PrivKey"][i]
                f == c[class][j]
            IN e.id = f.id /\ e.id # NoId /\ f.key # NoKey => e.key = f.key
ASSUME MaxObjsAssumption == MaxObjs \in Nat
ASSUME FaultsAssumption == Faults \subseteq BOOLEAN /\ FALSE \in Faults

VARIABLES
    card,     \* the card in the reader
    tok,      \* Token: bound and objs
    phase,    \* what bind does next, a class for its file; "idle" when it has
              \* returned
    cursor,   \* the file: whether it was read, how many entries of it there
              \* are in the buffer and how many of them for_each_record has seen
    pending,  \* pending: entries, by their place, whose values are to be fetched
    faulted   \* an exchange of this call failed, or the card cut a value

vars == <<card, tok, phase, cursor, pending, faulted>>

Object == [handle : Nat, class : Classes, label : STRING, id : STRING \cup {NoId},
           data : {"none", "cut", "whole"}, key : STRING \cup {NoKey}]

Phases == {"idle", "detect", "link"} \cup Classes

NoToken == [bound |-> FALSE, objs |-> <<>>]
Unread == [open |-> FALSE, at |-> 0, upTo |-> 0]

Init ==
    /\ card \in Cards /\ tok = NoToken
    /\ phase = "idle" /\ cursor = Unread /\ pending = <<>> /\ faulted = FALSE

-----------------------------------------------------------------------------
\* bind, with the card that is in the reader now.
Begin(c) ==
    /\ phase = "idle"
    /\ card' = c /\ tok' = NoToken /\ phase' = "detect" /\ faulted' = FALSE
    /\ UNCHANGED <<cursor, pending>>

\* detect_and_select
Detect(fault) ==
    /\ phase = "detect"
    /\ phase' = IF fault THEN "idle" ELSE "PrivKey"
    /\ faulted' = fault
    /\ UNCHANGED <<card, tok, cursor, pending>>

\* read_directory_file: all of the file, or what came before an exchange failed.
ReadFile(fault) ==
    /\ phase \in Classes /\ ~cursor.open
    /\ \E n \in 0 .. Len(card[phase]) :
          /\ n < Len(card[phase]) => fault
          /\ cursor' = [open |-> TRUE, at |-> 0, upTo |-> n]
    /\ faulted' = (faulted \/ fault)
    /\ UNCHANGED <<card, tok, phase, pending>>

Full == Len(tok.objs) + Len(pending) >= MaxObjs

\* Faulty variant: an entry that does not parse ends the file.
SkippedToEnd == [cursor EXCEPT !.at = cursor.upTo]

\* An entry behind split_entry's `else { return }` costs only itself.
Skipped == [cursor EXCEPT !.at = @ + 1]

Parsing == phase \in Classes /\ cursor.at < cursor.upTo
Current == card[phase][cursor.at + 1]

\* An entry that is malformed, or one more than the token holds.
SkipEntry ==
    /\ Parsing /\ (~Current.parses \/ Full)
    /\ cursor' = Skipped
    /\ UNCHANGED <<card, tok, phase, pending, faulted>>

\* Faulty variant: handles are given out while the file is parsed.
NextHandleOfFile == Len(tok.objs) + Len(pending)

NextHandle == Len(tok.objs) + 1

NewObject(e, class, data, key) ==
    [handle |-> NextHandle, class |-> class, label |-> e.label, id |-> e.id,
     data |-> data, key |-> key]

\* parse_prkdf: a private key has no value to fetch.
AddPrivateKey ==
    /\ Parsing /\ Current.parses /\ ~Full /\ phase = "PrivKey"
    /\ tok' = [tok EXCEPT !.objs = Append(@, NewObject(Current, phase, "none", NoKey))]
    /\ cursor' = [cursor EXCEPT !.at = @ + 1]
    /\ UNCHANGED <<card, phase, pending, faulted>>

\* The first loop of parse_pukdf, parse_cdf and parse_dodf.
AddPending ==
    /\ Parsing /\ Current.parses /\ ~Full /\ phase # "PrivKey"
    /\ pending' = Append(pending, cursor.at + 1)
    /\ cursor' = [cursor EXCEPT !.at = @ + 1]
    /\ UNCHANGED <<card, tok, phase, faulted>>

\* What read_pubkey_records and read_object_value make of a value: nothing if an
\* exchange fails; a card that returns 16 bytes at a time leaves a value cut,
\* and parse_cert_fields finds no key in it.
Values(e, fault) ==
    CASE ~e.stored -> {<<"none", NoKey>>}
      [] e.stored /\ fault -> {<<"none", NoKey>>}
                              \cup (IF phase = "PubKey" THEN {} ELSE {<<"cut", NoKey>>})
      [] e.stored /\ ~fault -> {<<"whole", IF phase = "Data" THEN NoKey ELSE e.key>>}

\* The second loop: an object is kept whether its value could be read or not.
FetchValue(fault) ==
    /\ phase \in Classes /\ cursor.at = cursor.upTo /\ pending # <<>>
    /\ LET e == card[phase][Head(pending)]
       IN \E v \in Values(e, fault) :
             tok' = [tok EXCEPT !.objs = Append(@, NewObject(e, phase, v[1], v[2]))]
    /\ pending' = Tail(pending)
    /\ faulted' = (faulted \/ fault)
    /\ UNCHANGED <<card, phase, cursor>>

FileDone == cursor.open /\ cursor.at = cursor.upTo /\ pending = <<>>

Following == [PrivKey |-> "PubKey", PubKey |-> "Cert", Cert |-> "Data", Data |-> "link"]

NextFile ==
    /\ phase \in Classes /\ FileDone
    /\ phase' = Following[phase] /\ cursor' = Unread
    /\ UNCHANGED <<card, tok, pending, faulted>>

\* Faulty variant: an empty identifier is one like any other.
SourcesOfAnyId(o) ==
    {j \in DOMAIN tok.objs : /\ tok.objs[j].class \in {"PubKey", "Cert"}
                             /\ tok.objs[j].id = o.id /\ tok.objs[j].key # NoKey}

\* Where a private key can take its public material from.
Sources(o) ==
    {j \in DOMAIN tok.objs : /\ tok.objs[j].class \in {"PubKey", "Cert"}
                             /\ o.id # NoId /\ tok.objs[j].id = o.id /\ tok.objs[j].key # NoKey}

Linked(o) ==
    IF o.class # "PrivKey" \/ o.key # NoKey \/ Sources(o) = {} THEN o
    ELSE LET first == CHOOSE j \in Sources(o) : \A k \in Sources(o) : j <= k
         IN [o EXCEPT !.key = tok.objs[first].key]

\* link_key_material, and bind returns.
Link ==
    /\ phase = "link"
    /\ tok' = [bound |-> TRUE, objs |-> [i \in DOMAIN tok.objs |-> Linked(tok.objs[i])]]
    /\ phase' = "idle"
    /\ UNCHANGED <<card, cursor, pending, faulted>>

Next ==
    \/ \E c \in Cards : Begin(c)
    \/ \E fault \in Faults : Detect(fault) \/ ReadFile(fault) \/ FetchValue(fault)
    \/ SkipEntry \/ AddPrivateKey \/ AddPending \/ NextFile \/ Link

Spec == Init /\ [][Next]_vars

-----------------------------------------------------------------------------
\* The state keeps its shape; entries are pending only while their file is read.
TypeOK ==
    /\ card \in Cards
    /\ tok \in [bound : BOOLEAN, objs : Seq(Object)]
    /\ phase \in Phases
    /\ cursor \in [open : BOOLEAN, at : Nat, upTo : Nat] /\ cursor.at <= cursor.upTo
    /\ phase \in Classes => cursor.upTo <= Len(card[phase])
    /\ phase \notin Classes \/ ~cursor.open => cursor = Unread
    /\ pending \in Seq(1 .. cursor.at)
    /\ faulted \in BOOLEAN

\* The state keeps its shape, and whatever could not be read, the handles of a token's objects are 1, 2, 3 ...
\* and at most MAX_OBJS: C_FindObjects lists and p15::find resolves the same.
HandlesArePositions ==
    /\ TypeOK
    /\ Len(tok.objs) + Len(pending) <= MaxObjs
    /\ \A i \in DOMAIN tok.objs : tok.objs[i].handle = i

\* The files in the order they are read.
Rank == [PrivKey |-> 1, PubKey |-> 2, Cert |-> 3, Data |-> 4]

\* o is the object of the k-th entry of a file.
IsOf(o, class, k) == o.class = class /\ o.label = card[class][k].label

\* o is the object of an entry before that one.
IsBefore(o, class, k) ==
    \/ Rank[o.class] < Rank[class]
    \/ \E m \in 1 .. k - 1 : IsOf(o, class, m)

\* Entry k is listed, or the token was full when bind came to it.
ListedOrBeyond(class, k) ==
    \/ \E i \in DOMAIN tok.objs : IsOf(tok.objs[i], class, k)
    \/ /\ Len(tok.objs) = MaxObjs
       /\ \A i \in DOMAIN tok.objs : IsBefore(tok.objs[i], class, k)

\* The j-th object is that of a well-formed entry, behind those of the others.
ListedInOrder(j) ==
    LET class == tok.objs[j].class
    IN \E k \in DOMAIN card[class] :
          /\ card[class][k].parses /\ IsOf(tok.objs[j], class, k)
          /\ \A i \in 1 .. j - 1 : IsBefore(tok.objs[i], class, k)

\* A public key or certificate with the identifier of the k-th private key,
\* and with a key in its value, is listed.
KeyKnown(k) ==
    /\ card["PrivKey"][k].id # NoId
    /\ \E j \in DOMAIN tok.objs :
          /\ tok.objs[j].class \in {"PubKey", "Cert"}
          /\ \E m \in DOMAIN card[tok.objs[j].class] :
                LET f == card[tok.objs[j].class][m]
                IN /\ IsOf(tok.objs[j], tok.objs[j].class, m)
                   /\ f.id = card["PrivKey"][k].id /\ f.stored /\ f.key # NoKey

HasItsKey(i) ==
    \A k \in DOMAIN card["PrivKey"] :
        IsOf(tok.objs[i], "PrivKey", k) /\ KeyKnown(k) => tok.objs[i].key = card["PrivKey"][k].key

\* A bind that nothing disturbs lists the card's objects in the order of the
\* files, up to MAX_OBJS, skips what does not parse without giving up what is
\* behind it, and finds the public material of every private key it listed a
\* public key or a certificate for.
UndisturbedBindIsComplete ==
    tok.bound /\ ~faulted =>
        /\ \A class \in Classes : \A k \in DOMAIN card[class] :
              card[class][k].parses => ListedOrBeyond(class, k)
        /\ \A i \in DOMAIN tok.objs : ListedInOrder(i) /\ HasItsKey(i)

\* Whatever fails and whichever card was bound before: an object is one of the
\* card in the reader, listed once, with its own key or none -- a private key
\* never shows the modulus of another one -- and a bind that fails leaves
\* nothing of an earlier one.
ObjectsAreOfTheCard ==
    /\ \A i \in DOMAIN tok.objs :
          LET o == tok.objs[i]
          IN \E k \in DOMAIN card[o.class] :
                LET e == card[o.class][k]
                IN /\ e.parses /\ o.label = e.label /\ o.id = e.id
                   /\ o.key \in {NoKey, e.key}
    /\ \A i, j \in DOMAIN tok.objs :
          tok.objs[i].class = tok.objs[j].class /\ tok.objs[i].label = tok.objs[j].label => i = j
    /\ phase = "idle" /\ ~tok.bound => tok.objs = <<>>

=============================================================================
