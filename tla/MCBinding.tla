----------------------------- MODULE MCBinding -----------------------------
(* Cards with up to two private keys, a public key, two certificates and a  *)
(* data object, among them entries that do not parse, entries without an    *)
(* identifier and entries without a value.                                  *)
EXTENDS Binding

Of(label, id, key) == [label |-> label, id |-> id, key |-> key, parses |-> TRUE, stored |-> TRUE]

A     == Of("a", "1", "A")
B     == Of("b", "2", "B")
NoIdA == [A EXCEPT !.id = NoId]
NoIdB == [B EXCEPT !.id = NoId]
BadA  == [A EXCEPT !.parses = FALSE]
EmptyA == [A EXCEPT !.stored = FALSE]

\* An entry, and a value with no key in it, such as a data object.
Photo == Of("photo", NoId, NoKey)

SomeCards ==
    [PrivKey : {<<>>, <<A>>, <<NoIdB>>, <<A, B>>, <<BadA, B>>},
     PubKey  : {<<>>, <<A>>, <<NoIdA>>, <<EmptyA, B>>},
     Cert    : {<<>>, <<A, B>>, <<BadA, B>>},
     Data    : {<<>>, <<Photo>>}]

=============================================================================
