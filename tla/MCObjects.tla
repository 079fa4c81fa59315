----------------------------- MODULE MCObjects -----------------------------
(* Small instances of Objects and Attributes for TLC.  A search changes no  *)
(* template and reading attributes changes no session: a behaviour follows  *)
(* one of the two.                                                          *)
EXTENDS Objects, Attributes

CONSTANTS s1, s2

TwoSessions == {s1, s2}

\* A key pair and a certificate, and a second private key that only decrypts.
KeyPairAndCert ==
    << [class |-> "PrivKey", id |-> "a", label |-> "sig", sign |-> TRUE, decrypt |-> FALSE,
        private |-> TRUE],
       [class |-> "PrivKey", id |-> "b", label |-> "enc", sign |-> FALSE, decrypt |-> TRUE,
        private |-> TRUE],
       [class |-> "PubKey", id |-> "a", label |-> "sig", sign |-> FALSE, decrypt |-> FALSE,
        private |-> FALSE],
       [class |-> "Cert", id |-> "a", label |-> "sig", sign |-> FALSE, decrypt |-> FALSE,
        private |-> FALSE] >>

\* Everything; by class; by attributes; signing keys; not signing keys.
SomeTemplates ==
    {<<>>, [class |-> "PrivKey"], [id |-> "a", label |-> "sig"], [sign |-> TRUE],
     [sign |-> FALSE]}

\* A key pair of which one has the longer identifier, a certificate, and a data
\* object with next to nothing.
Fields(given) == [a \in Types |-> IF a \in DOMAIN given THEN given[a] ELSE <<>>]

KeyFields == [id |-> <<7>>, label |-> <<1, 2, 3>>, modulus |-> <<5, 5, 5>>, modulusBits |-> <<8, 0>>]

CardObjects ==
    << [class |-> "PrivKey", on |-> {"sign", "private", "local"}, data |-> Fields(KeyFields)],
       [class |-> "PubKey", on |-> {"verify"},
        data |-> Fields([KeyFields EXCEPT !.id = <<7, 7>>, !.modulusBits = <<>>])],
       [class |-> "Cert", on |-> {},
        data |-> Fields([id |-> <<7>>, label |-> <<1>>, subject |-> <<4, 4>>, value |-> <<6, 6, 6>>])],
       [class |-> "Data", on |-> {}, data |-> Fields([value |-> <<9>>])] >>

\* Values of one length and of several, that some objects have and others not,
\* the missing ones first, last and in between.
SomeRequests ==
    {<<>>, <<"id">>, <<"class", "id">>, <<"label", "sign", "id">>, <<"subject", "value", "label">>,
     <<"id", "modulusBits", "modulus">>, <<"keyType", "class", "certificateType">>,
     <<"local", "id", "other">>}

VARIABLE following

MCInit == Init /\ AttrInit /\ following \in {"search", "attributes"}

MCNext ==
    /\ UNCHANGED following
    /\ \/ following = "search" /\ Next /\ UNCHANGED attrVars
       \/ following = "attributes" /\ AttrStep /\ UNCHANGED vars

OneAtATime == MCInit /\ [][MCNext]_<<vars, attrVars, following>>
=============================================================================
