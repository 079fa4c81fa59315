--------------------------- MODULE BindingProofs ---------------------------
(***************************************************************************)
(* The tokens bind builds are consistent, for every card, every object     *)
(* limit and every exchange that fails.                                    *)
(***************************************************************************)
EXTENDS Binding, TLAPS, WellFoundedInduction

\* The files before the one that is being read, all of them after the last.
Done(class) ==
    \/ phase \in {"link", "idle"}
    \/ class = "PrivKey" /\ phase \in {"PubKey", "Cert", "Data"}
    \/ class = "PubKey" /\ phase \in {"Cert", "Data"}
    \/ class = "Cert" /\ phase = "Data"

\* The entries of a file that objects can come from so far: those before the
\* first one whose value is still to be fetched.
Seen == [class \in Classes |->
    IF Done(class) THEN Len(card[class])
    ELSE IF phase # class THEN 0
    ELSE IF pending = <<>> THEN cursor.at
    ELSE Head(pending) - 1]

\* A bind that failed, or has only begun, has no objects.
NoObjectsYet == phase = "detect" \/ (phase = "idle" /\ ~tok.bound) => tok.objs = <<>>

\* Pending entries are well-formed and in the order of the file.
PendingInOrder ==
    /\ phase = "PrivKey" => pending = <<>>
    /\ \A i \in 1 .. Len(pending) : card[phase][pending[i]].parses
    /\ \A i, j \in 1 .. Len(pending) : i < j => pending[i] < pending[j]

\* An object comes from an entry of its class that has been seen.
FromCard(o, c, seen) ==
    \E k \in 1 .. seen[o.class] :
        LET e == c[o.class][k]
        IN e.parses /\ o.label = e.label /\ o.id = e.id /\ o.key \in {NoKey, e.key}

ObjectsFromCard == \A i \in 1 .. Len(tok.objs) : FromCard(tok.objs[i], card, Seen)

ListedOnce ==
    \A i, j \in 1 .. Len(tok.objs) :
        tok.objs[i].class = tok.objs[j].class /\ tok.objs[i].label = tok.objs[j].label => i = j

\* A set of natural numbers with an element has a smallest one.
LEMMA SmallestExists ==
    ASSUME NEW S \in SUBSET Nat, S # {}
    PROVE  \E n \in S : \A m \in S : n <= m
  <1>1. PICK n \in S : \A m \in S : <<m, n>> \notin OpToRel(<, Nat)
    BY NatLessThanWellFounded, WFMin
  <1>2. ASSUME NEW m \in S PROVE n <= m
    <2>1. <<m, n>> \notin {ss \in Nat \X Nat : ss[1] < ss[2]}
      BY <1>1 DEF OpToRel
    <2> QED BY <2>1
  <1> QED BY <1>2

\* A sequence over a set is one over a larger set.
LEMMA SequencesGrow ==
    ASSUME NEW S, NEW T, S \subseteq T, NEW s \in Seq(S)
    PROVE  s \in Seq(T)
  OBVIOUS

\* Room for one more.
LEMMA RoomForOne ==
    ASSUME NEW a \in Nat, NEW b \in Nat, NEW m \in Nat, ~(a + b >= m)
    PROVE  a + (b + 1) <= m /\ (a + 1) + b <= m
  OBVIOUS

\* A phase that is not a class.
LEMMA PhaseNames == \A class \in Classes : class \notin {"idle", "detect", "link"}
  BY DEF Classes

\* The state before the first bind.
LEMMA HandlesInit == Init => HandlesArePositions
  <1> SUFFICES ASSUME Init PROVE HandlesArePositions
    OBVIOUS
  <1>1. tok = [bound |-> FALSE, objs |-> <<>>] /\ cursor = [open |-> FALSE, at |-> 0, upTo |-> 0]
    BY DEF Init, NoToken, Unread
  <1>2. tok \in [bound : BOOLEAN, objs : Seq(Object)]
    <2>1. <<>> \in Seq(Object)
      OBVIOUS
    <2> QED BY <1>1, <2>1
  <1>3. pending \in Seq(1 .. cursor.at)
    BY <1>1 DEF Init
  <1>4. phase = "idle" /\ card \in Cards /\ faulted = FALSE /\ cursor = Unread
    BY DEF Init
  <1>5. cursor \in [open : BOOLEAN, at : Nat, upTo : Nat] /\ cursor.at <= cursor.upTo
    BY <1>1
  <1>6. phase \in Phases /\ phase \notin Classes
    BY <1>4, PhaseNames DEF Phases
  <1>7. TypeOK
    BY <1>2, <1>3, <1>4, <1>5, <1>6 DEF TypeOK
  <1>8. Len(tok.objs) = 0 /\ Len(pending) = 0 /\ DOMAIN tok.objs = {}
    BY <1>1 DEF Init
  <1> QED BY <1>7, <1>8, MaxObjsAssumption DEF HandlesArePositions

\* What the card's files hold.
LEMMA CardFacts ==
    ASSUME card \in Cards, NEW class \in Classes
    PROVE  /\ card[class] \in Seq(Entry) /\ Len(card[class]) \in Nat
           /\ \A k \in 1 .. Len(card[class]) : card[class][k] \in Entry
  BY CardsAssumption

\* What an object appended to the token must be.
LEMMA ObjectAppended ==
    ASSUME TypeOK, \A i \in DOMAIN tok.objs : tok.objs[i].handle = i,
           NEW o \in Object, o.handle = NextHandle,
           tok' = [tok EXCEPT !.objs = Append(@, o)]
    PROVE  /\ tok' \in [bound : BOOLEAN, objs : Seq(Object)]
           /\ Len(tok'.objs) = Len(tok.objs) + 1
           /\ \A i \in DOMAIN tok'.objs : tok'.objs[i].handle = i
  <1>1. tok.objs \in Seq(Object) /\ tok.bound \in BOOLEAN
    BY DEF TypeOK
  <1>2. tok' = [bound |-> tok.bound, objs |-> Append(tok.objs, o)]
    BY DEF TypeOK
  <1>3. tok'.objs = Append(tok.objs, o)
    BY <1>2
  <1>4. Append(tok.objs, o) \in Seq(Object) /\ Len(tok'.objs) = Len(tok.objs) + 1
        /\ DOMAIN tok'.objs = 1 .. Len(tok.objs) + 1
    BY <1>1, <1>3
  <1>5. \A i \in 1 .. Len(tok.objs) : tok'.objs[i] = tok.objs[i]
    BY <1>1, <1>3
  <1>6. tok'.objs[Len(tok.objs) + 1] = o
    BY <1>1, <1>3
  <1>7. \A i \in DOMAIN tok'.objs : tok'.objs[i].handle = i
    <2> TAKE i \in DOMAIN tok'.objs
    <2>1. CASE i \in 1 .. Len(tok.objs)
      BY <1>1, <1>5, <2>1
    <2>2. CASE i = Len(tok.objs) + 1
      BY <1>6, <2>2 DEF NextHandle
    <2> QED BY <1>1, <1>4, <2>1, <2>2
  <1> QED BY <1>1, <1>2, <1>4, <1>7

\* The entry for_each_record is at.
LEMMA CurrentIsEntry ==
    ASSUME TypeOK, Parsing
    PROVE  Current \in Entry /\ cursor.at + 1 \in 1 .. Len(card[phase])
  <1>1. phase \in Classes /\ cursor.at \in Nat /\ cursor.upTo \in Nat /\ cursor.at < cursor.upTo
        /\ cursor.upTo <= Len(card[phase]) /\ card \in Cards
    BY DEF TypeOK, Parsing
  <1> QED BY <1>1, CardFacts DEF Current

\* What link_key_material changes of an object, and where it takes it from.
LEMMA LinkedFacts ==
    ASSUME TypeOK, NEW i \in DOMAIN tok.objs
    PROVE  LET o == tok.objs[i]
               l == Linked(o)
           IN /\ l \in Object /\ l.handle = o.handle /\ l.class = o.class
              /\ l.label = o.label /\ l.id = o.id
              /\ \/ l.key = o.key
                 \/ /\ o.class = "PrivKey"
                    /\ \E j \in Sources(o) : l.key = tok.objs[j].key
  <1> DEFINE o == tok.objs[i]
  <1>1. tok.objs \in Seq(Object) /\ o \in Object /\ \A j \in DOMAIN tok.objs : tok.objs[j] \in Object
    BY DEF TypeOK
  <1>2. CASE o.class # "PrivKey" \/ o.key # NoKey \/ Sources(o) = {}
    <2>1. Linked(o) = o
      BY <1>2 DEF Linked
    <2> QED BY <1>1, <2>1
  <1>3. CASE ~(o.class # "PrivKey" \/ o.key # NoKey \/ Sources(o) = {})
    <2> DEFINE first == CHOOSE j \in Sources(o) : \A k \in Sources(o) : j <= k
    <2>1. Sources(o) \subseteq Nat /\ Sources(o) \subseteq DOMAIN tok.objs
      BY <1>1 DEF Sources
    <2>2. \E j \in Sources(o) : \A k \in Sources(o) : j <= k
      BY <1>3, <2>1, SmallestExists
    <2>3. first \in Sources(o)
      BY <2>2
    <2>4. Linked(o) = [o EXCEPT !.key = tok.objs[first].key]
      BY <1>3 DEF Linked
    <2> HIDE DEF first
    <2>5. tok.objs[first].key \in STRING \cup {NoKey}
      BY <1>1, <2>1, <2>3 DEF Object
    <2>6. Linked(o) = [handle |-> o.handle, class |-> o.class, label |-> o.label, id |-> o.id,
                       data |-> o.data, key |-> tok.objs[first].key]
      BY <1>1, <2>4 DEF Object
    <2>7. Linked(o) \in Object
      BY <1>1, <2>5, <2>6 DEF Object
    <2> QED BY <1>3, <2>3, <2>6, <2>7
  <1> QED BY <1>2, <1>3

\* No step of bind leaves a state of another shape, a handle that is not the
\* object's place or more objects than the token holds.
LEMMA HandlesStep == HandlesArePositions /\ [Next]_vars => HandlesArePositions'
  <1> SUFFICES ASSUME HandlesArePositions, [Next]_vars PROVE HandlesArePositions'
    OBVIOUS
  <1> USE DEF HandlesArePositions
  <1>n. cursor.at \in Nat /\ cursor.upTo \in Nat /\ cursor.at <= cursor.upTo
        /\ cursor.open \in BOOLEAN /\ tok.objs \in Seq(Object) /\ tok.bound \in BOOLEAN
        /\ Len(tok.objs) \in Nat /\ pending \in Seq(1 .. cursor.at) /\ Len(pending) \in Nat
        /\ cursor = [open |-> cursor.open, at |-> cursor.at, upTo |-> cursor.upTo]
    BY DEF TypeOK
  <1>1. ASSUME NEW c \in Cards, Begin(c) PROVE HandlesArePositions'
    <2>1. tok' = [bound |-> FALSE, objs |-> <<>>] /\ phase' = "detect" /\ card' = c
          /\ faulted' = FALSE /\ cursor' = cursor /\ pending' = pending
      BY <1>1 DEF Begin, NoToken
    <2>2. cursor = Unread
      BY <1>1, PhaseNames DEF Begin, TypeOK
    <2>3. pending \in Seq(1 .. 0)
      BY <1>n, <2>2 DEF Unread
    <2>4. Len(pending) = 0
      BY <2>3
    <2>5. <<>> \in Seq(Object)
      OBVIOUS
    <2>6. tok' \in [bound : BOOLEAN, objs : Seq(Object)]
      BY <2>1, <2>5
    <2>7. TypeOK'
      BY <1>n, <2>1, <2>2, <2>6, PhaseNames DEF TypeOK, Phases
    <2>8. Len(tok'.objs) = 0 /\ DOMAIN tok'.objs = {}
      BY <2>1
    <2> QED BY <2>1, <2>4, <2>7, <2>8, MaxObjsAssumption
  <1>2. ASSUME NEW fault \in Faults, Detect(fault) PROVE HandlesArePositions'
    BY <1>2, <1>n, PhaseNames, FaultsAssumption, CardFacts DEF TypeOK, Detect, Phases, Classes, Unread
  <1>3. ASSUME NEW fault \in Faults, ReadFile(fault) PROVE HandlesArePositions'
    BY <1>3, <1>n, PhaseNames, FaultsAssumption, CardFacts DEF TypeOK, ReadFile, Unread
  <1>a. ASSUME Parsing, cursor' = [cursor EXCEPT !.at = @ + 1]
        PROVE  /\ cursor' \in [open : BOOLEAN, at : Nat, upTo : Nat]
               /\ cursor'.at <= cursor'.upTo /\ cursor'.upTo = cursor.upTo
               /\ cursor'.at = cursor.at + 1 /\ cursor'.open = cursor.open /\ cursor.open
               /\ pending \in Seq(1 .. cursor'.at)
    <2>1. cursor' = [open |-> cursor.open, at |-> cursor.at + 1, upTo |-> cursor.upTo]
      BY <1>a, <1>n
    <2>2. cursor.open
      BY <1>a, <1>n DEF TypeOK, Parsing, Unread
    <2>3. cursor'.at = cursor.at + 1 /\ cursor'.upTo = cursor.upTo /\ cursor'.open = cursor.open
      BY <2>1
    <2>4. 1 .. cursor.at \subseteq 1 .. cursor'.at
      BY <1>n, <2>3
    <2>5. pending \in Seq(1 .. cursor'.at)
      BY <1>n, <2>4, SequencesGrow
    <2>6. cursor' \in [open : BOOLEAN, at : Nat, upTo : Nat]
      BY <1>n, <2>1
    <2>7. cursor'.at <= cursor'.upTo
      BY <1>a, <1>n, <2>3 DEF Parsing
    <2> QED BY <2>2, <2>3, <2>5, <2>6, <2>7
  <1>4. ASSUME NEW fault \in Faults, FetchValue(fault) PROVE HandlesArePositions'
    <2>1. phase \in Classes /\ pending # <<>> /\ cursor.at = cursor.upTo
          /\ pending' = Tail(pending) /\ faulted' = (faulted \/ fault)
          /\ UNCHANGED <<card, phase, cursor>>
      BY <1>4 DEF FetchValue
    <2>2. Head(pending) \in 1 .. cursor.at /\ Tail(pending) \in Seq(1 .. cursor.at)
          /\ Len(Tail(pending)) = Len(pending) - 1 /\ Len(pending) >= 1
      BY <1>n, <2>1
    <2> DEFINE e == card[phase][Head(pending)]
    <2>3. e \in Entry
      BY <1>n, <2>1, <2>2, CardFacts DEF TypeOK
    <2>4. PICK v \in Values(e, fault) :
              tok' = [tok EXCEPT !.objs = Append(@, NewObject(e, phase, v[1], v[2]))]
      BY <1>4 DEF FetchValue
    <2>5. v[1] \in {"none", "cut", "whole"} /\ v[2] \in STRING \cup {NoKey}
      <3>1. fault \in BOOLEAN /\ e.stored \in BOOLEAN /\ e.key \in STRING \cup {NoKey}
        BY <2>3, FaultsAssumption DEF Entry
      <3> QED BY <2>4, <3>1 DEF Values
    <2>6. NewObject(e, phase, v[1], v[2]) \in Object /\ NewObject(e, phase, v[1], v[2]).handle = NextHandle
      BY <1>n, <2>1, <2>3, <2>5 DEF NewObject, Object, Entry, NextHandle
    <2> HIDE DEF e
    <2>7. /\ tok' \in [bound : BOOLEAN, objs : Seq(Object)]
          /\ Len(tok'.objs) = Len(tok.objs) + 1
          /\ \A i \in DOMAIN tok'.objs : tok'.objs[i].handle = i
      BY <2>4, <2>6, ObjectAppended
    <2>8. TypeOK'
      BY <1>n, <2>1, <2>2, <2>7, FaultsAssumption DEF TypeOK
    <2> QED BY <1>n, <2>1, <2>2, <2>7, <2>8
  <1>5. ASSUME SkipEntry PROVE HandlesArePositions'
    <2>1. Parsing /\ cursor' = [cursor EXCEPT !.at = @ + 1]
          /\ UNCHANGED <<card, tok, phase, pending, faulted>>
      BY <1>5 DEF SkipEntry, Skipped
    <2>2. TypeOK'
      BY <1>n, <1>a, <2>1 DEF TypeOK, Parsing
    <2> QED BY <2>1, <2>2
  <1>6. ASSUME AddPrivateKey PROVE HandlesArePositions'
    <2> DEFINE o == NewObject(Current, phase, "none", NoKey)
    <2>1. Parsing /\ cursor' = [cursor EXCEPT !.at = @ + 1] /\ ~Full
          /\ tok' = [tok EXCEPT !.objs = Append(@, o)]
          /\ UNCHANGED <<card, phase, pending, faulted>>
      BY <1>6 DEF AddPrivateKey
    <2>2. o \in Object /\ o.handle = NextHandle
      BY <1>n, <2>1, CurrentIsEntry DEF NewObject, Object, Entry, NextHandle, Parsing
    <2> HIDE DEF o
    <2>3. /\ tok' \in [bound : BOOLEAN, objs : Seq(Object)]
          /\ Len(tok'.objs) = Len(tok.objs) + 1
          /\ \A i \in DOMAIN tok'.objs : tok'.objs[i].handle = i
      BY <2>1, <2>2, ObjectAppended
    <2>4. TypeOK'
      BY <1>n, <1>a, <2>1, <2>3 DEF TypeOK, Parsing
    <2> QED BY <1>n, <2>1, <2>3, <2>4, MaxObjsAssumption DEF Full
  <1>7. ASSUME AddPending PROVE HandlesArePositions'
    <2>1. Parsing /\ cursor' = [cursor EXCEPT !.at = @ + 1] /\ ~Full
          /\ pending' = Append(pending, cursor.at + 1)
          /\ UNCHANGED <<card, tok, phase, faulted>>
      BY <1>7 DEF AddPending
    <2>2. pending \in Seq(1 .. cursor'.at) /\ cursor.at + 1 \in 1 .. cursor'.at
      BY <1>n, <1>a, <2>1
    <2>3. pending' \in Seq(1 .. cursor'.at) /\ Len(pending') = Len(pending) + 1
      BY <2>1, <2>2
    <2>4. TypeOK'
      BY <1>n, <1>a, <2>1, <2>3 DEF TypeOK, Parsing
    <2>5. Len(tok'.objs) + Len(pending') <= MaxObjs
      <3>1. ~(Len(tok.objs) + Len(pending) >= MaxObjs)
        BY <2>1 DEF Full
      <3>2. Len(tok'.objs) = Len(tok.objs)
        BY <2>1
      <3>3. Len(pending') = Len(pending) + 1
        BY <2>3
      <3>4. Len(tok.objs) \in Nat /\ Len(pending) \in Nat
        BY <1>n
      <3>5. Len(pending') \in Nat
        BY <3>3, <3>4
      <3> QED BY <3>1, <3>2, <3>3, <3>4, <3>5, MaxObjsAssumption, RoomForOne
    <2>6. \A i \in DOMAIN tok'.objs : tok'.objs[i].handle = i
      BY <2>1
    <2> QED BY <2>4, <2>5, <2>6
  <1>8. ASSUME NextFile PROVE HandlesArePositions'
    BY <1>8, <1>n, PhaseNames, CardFacts DEF TypeOK, NextFile, FileDone, Unread, Following, Classes, Phases
  <1>9. ASSUME Link PROVE HandlesArePositions'
    <2> DEFINE objs == [i \in DOMAIN tok.objs |-> Linked(tok.objs[i])]
    <2>1. tok' = [bound |-> TRUE, objs |-> objs] /\ phase = "link" /\ phase' = "idle"
          /\ UNCHANGED <<card, cursor, pending, faulted>>
      BY <1>9 DEF Link
    <2>2. \A i \in DOMAIN tok.objs : Linked(tok.objs[i]) \in Object
                                      /\ Linked(tok.objs[i]).handle = tok.objs[i].handle
      BY LinkedFacts, <1>n
    <2>3. DOMAIN objs = 1 .. Len(tok.objs) /\ objs \in Seq(Object) /\ Len(objs) = Len(tok.objs)
      <3>1. DOMAIN tok.objs = 1 .. Len(tok.objs)
        BY <1>n
      <3>2. objs \in [1 .. Len(tok.objs) -> Object]
        BY <2>2, <3>1
      <3>3. Len(tok.objs) \in Nat
        BY <1>n
      <3> DEFINE n == Len(tok.objs)
      <3> HIDE DEF objs, n
      <3>4. n \in Nat /\ objs \in [1 .. n -> Object]
        BY <3>2, <3>3 DEF n
      <3>5. objs \in Seq(Object) /\ Len(objs) = n /\ DOMAIN objs = 1 .. n
        BY <3>4
      <3> QED BY <3>5 DEF n
    <2>4. tok' \in [bound : BOOLEAN, objs : Seq(Object)] /\ tok'.objs = objs
      BY <2>1, <2>3
    <2>5. TypeOK'
      BY <1>n, <2>1, <2>4, PhaseNames DEF TypeOK, Phases
    <2> QED BY <1>n, <2>1, <2>2, <2>3, <2>4, <2>5
  <1>10. CASE UNCHANGED vars
    BY <1>10 DEF TypeOK, vars
  <1> QED BY <1>1, <1>2, <1>3, <1>4, <1>5, <1>6, <1>7, <1>8, <1>9, <1>10 DEF Next

\* Whatever fails, the token keeps its shape, and the handle of an object is its
\* place among at most MaxObjs (bind, parse_prkdf .. parse_dodf).
THEOREM HandlesStayPositions == Spec => []HandlesArePositions
  BY HandlesInit, HandlesStep, PTL DEF Spec

-----------------------------------------------------------------------------
(* Where the objects come from. *)

IInv ==
    /\ HandlesArePositions
    /\ NoObjectsYet /\ PendingInOrder /\ ObjectsFromCard /\ ListedOnce

\* The place bind has come to, as numbers.
LEMMA Places ==
    ASSUME HandlesArePositions
    PROVE  /\ cursor.at \in Nat /\ cursor.upTo \in Nat /\ cursor.at <= cursor.upTo
           /\ card \in Cards /\ phase \in Phases
           /\ tok.objs \in Seq(Object) /\ Len(tok.objs) \in Nat
           /\ \A i \in 1 .. Len(tok.objs) : tok.objs[i] \in Object /\ tok.objs[i].class \in Classes
           /\ pending \in Seq(Nat) /\ Len(pending) \in Nat
           /\ \A i \in 1 .. Len(pending) : pending[i] \in Nat /\ 1 <= pending[i] /\ pending[i] <= cursor.at
           /\ pending = <<>> <=> Len(pending) = 0
           /\ pending # <<>> => Head(pending) = pending[1]
           /\ phase \in Classes => cursor.upTo <= Len(card[phase])
           /\ \A class \in Classes : Len(card[class]) \in Nat
  <1>1. TypeOK
    BY DEF HandlesArePositions
  <1>2. /\ cursor.at \in Nat /\ cursor.upTo \in Nat /\ cursor.at <= cursor.upTo
        /\ card \in Cards /\ phase \in Phases /\ pending \in Seq(1 .. cursor.at)
        /\ tok.objs \in Seq(Object) /\ Len(tok.objs) \in Nat
        /\ phase \in Classes => cursor.upTo <= Len(card[phase])
    BY <1>1 DEF TypeOK
  <1>3. \A i \in 1 .. Len(tok.objs) : tok.objs[i] \in Object
    BY <1>2
  <1>4. \A i \in 1 .. Len(tok.objs) : tok.objs[i].class \in Classes
    BY <1>3 DEF Object
  <1>5. \A i \in 1 .. Len(pending) : pending[i] \in 1 .. cursor.at
    BY <1>2
  <1>6. Len(pending) \in Nat /\ (pending = <<>> <=> Len(pending) = 0)
        /\ (pending # <<>> => Head(pending) = pending[1])
    BY <1>2
  <1>7. pending \in Seq(Nat)
    <2>1. 1 .. cursor.at \subseteq Nat
      BY <1>2
    <2> QED BY <1>2, <2>1, SequencesGrow
  <1>8. \A class \in Classes : Len(card[class]) \in Nat
    BY <1>2, CardFacts
  <1> QED BY <1>2, <1>3, <1>4, <1>5, <1>6, <1>7, <1>8

\* Only entries of the file have been seen.
SeenInFile == \A class \in Classes : Seen[class] \in Nat /\ Seen[class] <= Len(card[class])

LEMMA SeenBounds == HandlesArePositions => SeenInFile
  <1> SUFFICES ASSUME HandlesArePositions, NEW class \in Classes
               PROVE  Seen[class] \in Nat /\ Seen[class] <= Len(card[class])
    BY DEF SeenInFile
  <1>1. CASE Done(class)
    BY <1>1, Places DEF Seen
  <1>2. CASE ~Done(class) /\ phase # class
    BY <1>2, Places DEF Seen
  <1>3. CASE ~Done(class) /\ phase = class /\ pending = <<>>
    <2>1. Seen[class] = cursor.at
      BY <1>3 DEF Seen
    <2> QED BY <1>3, <2>1, Places
  <1>4. CASE ~Done(class) /\ phase = class /\ pending # <<>>
    <2>1. Seen[class] = pending[1] - 1
      BY <1>4, Places DEF Seen
    <2>2. 1 \in 1 .. Len(pending)
      BY <1>4, Places
    <2>3. pending[1] \in Nat /\ 1 <= pending[1] /\ pending[1] <= cursor.at
      BY <2>2, Places
    <2> QED BY <1>4, <2>1, <2>3, Places
  <1> QED BY <1>1, <1>2, <1>3, <1>4

\* The same after a step.
LEMMA SeenBoundsNext == HandlesArePositions' => SeenInFile'
  BY SeenBounds, PTL

\* The card stays, and no file is forgotten.
Grows == card' = card /\ \A class \in Classes : Seen[class] <= Seen'[class]

\* What an object of the token came from it still comes from.
LEMMA StillFromCard ==
    ASSUME HandlesArePositions, HandlesArePositions', Grows,
           NEW o \in Object, FromCard(o, card, Seen)
    PROVE  FromCard(o, card', Seen')
  <1>1. o.class \in Classes
    BY DEF Object
  <1>2. Seen[o.class] \in Nat /\ Seen'[o.class] \in Nat
        /\ Seen[o.class] <= Seen'[o.class] /\ card' = card
    BY <1>1, SeenBounds, SeenBoundsNext DEF Grows, SeenInFile
  <1>3. PICK k \in 1 .. Seen[o.class] :
            LET e == card[o.class][k]
            IN e.parses /\ o.label = e.label /\ o.id = e.id /\ o.key \in {NoKey, e.key}
    BY DEF FromCard
  <1>4. k \in 1 .. Seen'[o.class]
    BY <1>2, <1>3
  <1> QED BY <1>2, <1>3, <1>4 DEF FromCard

\* The token's objects as they were.
LEMMA SameObjects ==
    ASSUME HandlesArePositions, HandlesArePositions', Grows, ObjectsFromCard, ListedOnce,
           tok'.objs = tok.objs
    PROVE  ObjectsFromCard' /\ ListedOnce'
  <1>1. ASSUME NEW i \in 1 .. Len(tok.objs) PROVE FromCard(tok'.objs[i], card', Seen')
    <2> DEFINE o == tok.objs[i]
    <2>1. o \in Object /\ FromCard(o, card, Seen)
      BY <1>1, Places DEF ObjectsFromCard
    <2> HIDE DEF o
    <2>2. FromCard(o, card', Seen')
      BY <2>1, StillFromCard
    <2>3. tok'.objs[i] = o
      BY DEF o
    <2> QED BY <2>2, <2>3
  <1> QED BY <1>1 DEF ObjectsFromCard, ListedOnce

\* One object more, from an entry behind all that objects have come from.
LEMMA OneObjectMore ==
    ASSUME HandlesArePositions, HandlesArePositions', Grows, ObjectsFromCard, ListedOnce,
           NEW o \in Object, tok'.objs = Append(tok.objs, o), FromCard(o, card', Seen'),
           \A k \in 1 .. Seen[o.class] : card[o.class][k].label # o.label
    PROVE  ObjectsFromCard' /\ ListedOnce'
  <1> DEFINE n == Len(tok.objs)
  <1>1. n \in Nat /\ Len(tok'.objs) = n + 1 /\ tok'.objs[n + 1] = o
        /\ \A i \in 1 .. n : tok'.objs[i] = tok.objs[i]
    BY Places
  <1>2. \A i \in 1 .. n : tok.objs[i] \in Object /\ FromCard(tok.objs[i], card, Seen)
    BY Places DEF ObjectsFromCard
  <1>3. \A p \in Object : FromCard(p, card, Seen) => FromCard(p, card', Seen')
    BY StillFromCard
  <1>4. ASSUME NEW i \in 1 .. n + 1 PROVE FromCard(tok'.objs[i], card', Seen')
    <2>1. CASE i \in 1 .. n
      BY <1>1, <1>2, <1>3, <2>1
    <2>2. CASE i = n + 1
      BY <1>1, <2>2
    <2> QED BY <1>1, <2>1, <2>2
  <1>5. \A i \in 1 .. n : ~(tok.objs[i].class = o.class /\ tok.objs[i].label = o.label)
    <2> SUFFICES ASSUME NEW i \in 1 .. n, tok.objs[i].class = o.class, tok.objs[i].label = o.label
                 PROVE  FALSE
      OBVIOUS
    <2> DEFINE p == tok.objs[i]
    <2>1. FromCard(p, card, Seen)
      BY <1>2
    <2>2. PICK k \in 1 .. Seen[p.class] : p.label = card[p.class][k].label
      BY <2>1 DEF FromCard
    <2> QED BY <2>2
  <1>6. ListedOnce'
    <2> SUFFICES ASSUME NEW i \in 1 .. n + 1, NEW j \in 1 .. n + 1,
                        tok'.objs[i].class = tok'.objs[j].class,
                        tok'.objs[i].label = tok'.objs[j].label
                 PROVE  i = j
      BY <1>1 DEF ListedOnce
    <2>1. CASE i \in 1 .. n /\ j \in 1 .. n
      BY <1>1, <2>1 DEF ListedOnce
    <2>2. CASE i \in 1 .. n /\ j = n + 1
      BY <1>1, <1>5, <2>2
    <2>3. CASE i = n + 1 /\ j \in 1 .. n
      BY <1>1, <1>5, <2>3
    <2>4. CASE i = n + 1 /\ j = n + 1
      BY <2>4
    <2> QED BY <1>1, <2>1, <2>2, <2>3, <2>4
  <1> QED BY <1>1, <1>4, <1>6 DEF ObjectsFromCard

\* The labels of a file are different.
LEMMA LabelsDiffer ==
    ASSUME HandlesArePositions, NEW class \in Classes,
           NEW k \in 1 .. Len(card[class]), NEW l \in 1 .. Len(card[class]), k # l
    PROVE  card[class][k].label # card[class][l].label
  <1>1. card \in Cards /\ DOMAIN card[class] = 1 .. Len(card[class])
    BY Places, CardFacts
  <1> QED BY <1>1, LabelsAssumption

\* A step that neither changes the phase nor the card leaves the files that are
\* not being read as they were.
LEMMA OtherFiles ==
    ASSUME HandlesArePositions, card' = card, phase' = phase, NEW class \in Classes,
           class # phase \/ Done(class)
    PROVE  Seen'[class] = Seen[class]
  BY DEF Seen, Done

\* The file that is being read is not done.
LEMMA NotDoneYet == ASSUME phase \in Classes PROVE ~Done(phase)
  BY DEF Done, Classes

\* A step that only reads on in the file.
LEMMA FileGrows ==
    ASSUME HandlesArePositions, HandlesArePositions', card' = card, phase' = phase,
           phase \in Classes, Seen[phase] <= Seen'[phase]
    PROVE  Grows
  <1>1. ASSUME NEW class \in Classes PROVE Seen[class] <= Seen'[class]
    <2>1. CASE class = phase
      <3>1. Seen[class] <= Seen'[class]
        BY <2>1 DEF Seen, Done
      <3> QED BY <3>1
    <2>2. CASE class # phase
      BY <2>2, OtherFiles, SeenBounds DEF SeenInFile
    <2> QED BY <2>1, <2>2
  <1> QED BY <1>1 DEF Grows

\* Outside a file nothing is pending.
LEMMA NoPending ==
    ASSUME HandlesArePositions, phase \notin Classes \/ ~cursor.open
    PROVE  pending = <<>> /\ Len(pending) = 0 /\ cursor.at = 0
  <1>1. cursor.at = 0
    BY DEF HandlesArePositions, TypeOK, Unread
  <1>2. ASSUME pending # <<>> PROVE FALSE
    <2>1. 1 \in 1 .. Len(pending)
      BY <1>2, Places
    <2> QED BY <1>1, <2>1, Places
  <1> QED BY <1>1, <1>2, Places

\* How much of the file that is being read has been seen.
SeenOfFile ==
    phase \in Classes =>
        Seen[phase] = IF pending = <<>> THEN cursor.at ELSE Head(pending) - 1

\* What Seen says of the file that is being read, now and after a step.
LEMMA SeenNow == SeenOfFile
  BY NotDoneYet DEF SeenOfFile, Seen

LEMMA SeenNext == SeenOfFile'
  BY SeenNow, PTL

\* Steps that change neither the token nor what is pending.
LEMMA ReadingOn ==
    ASSUME IInv, HandlesArePositions', Grows, phase \in Classes,
           UNCHANGED <<card, tok, phase, pending>>
    PROVE  (NoObjectsYet /\ PendingInOrder /\ ObjectsFromCard /\ ListedOnce)'
  <1>1. ObjectsFromCard' /\ ListedOnce'
    BY SameObjects DEF IInv
  <1>2. PendingInOrder'
    BY DEF IInv, PendingInOrder
  <1>3. NoObjectsYet'
    BY PhaseNames DEF NoObjectsYet
  <1> QED BY <1>1, <1>2, <1>3

\* A bind begins with an empty token.
LEMMA BeginStep ==
    ASSUME IInv, NEW c \in Cards, Begin(c)
    PROVE  (NoObjectsYet /\ PendingInOrder /\ ObjectsFromCard /\ ListedOnce)'
  <1>1. tok'.objs = <<>> /\ phase' = "detect" /\ pending' = pending /\ phase = "idle"
    BY DEF Begin, NoToken
  <1>2. Len(pending') = 0
    BY <1>1, NoPending, PhaseNames DEF IInv
  <1>3. Len(tok'.objs) = 0
    BY <1>1
  <1> QED BY <1>1, <1>2, <1>3 DEF NoObjectsYet, PendingInOrder, ObjectsFromCard, ListedOnce

\* Nothing is known of the card before its files are read.
LEMMA DetectStep ==
    ASSUME IInv, NEW fault \in Faults, Detect(fault)
    PROVE  (NoObjectsYet /\ PendingInOrder /\ ObjectsFromCard /\ ListedOnce)'
  <1>1. tok' = tok /\ phase = "detect" /\ pending' = pending
    BY DEF Detect
  <1>2. tok.objs = <<>>
    BY <1>1 DEF IInv, NoObjectsYet
  <1>3. pending' = <<>> /\ Len(pending') = 0
    BY <1>1, NoPending, PhaseNames DEF IInv
  <1>4. tok'.objs = <<>> /\ Len(tok'.objs) = 0
    BY <1>1, <1>2
  <1> QED BY <1>3, <1>4 DEF NoObjectsYet, PendingInOrder, ObjectsFromCard, ListedOnce

\* A file that has just been read has no entry that was seen.
LEMMA ReadFileStep ==
    ASSUME IInv, HandlesArePositions', NEW fault \in Faults, ReadFile(fault)
    PROVE  (NoObjectsYet /\ PendingInOrder /\ ObjectsFromCard /\ ListedOnce)'
  <1>1. phase \in Classes /\ ~cursor.open /\ UNCHANGED <<card, tok, phase, pending>>
    BY DEF ReadFile
  <1>2. cursor'.at = 0
    BY DEF ReadFile
  <1>3. pending = <<>> /\ cursor.at = 0
    BY <1>1, NoPending DEF IInv
  <1>4. Seen[phase] = 0
    BY <1>1, <1>3, SeenNow DEF SeenOfFile
  <1>5. Seen'[phase] = 0
    BY <1>1, <1>2, <1>3, SeenNext DEF SeenOfFile
  <1>6. Grows
    BY <1>1, <1>4, <1>5, FileGrows DEF IInv
  <1> QED BY <1>1, <1>6, ReadingOn

\* A skipped entry gives no object.
LEMMA SkipEntryStep ==
    ASSUME IInv, HandlesArePositions', SkipEntry
    PROVE  (NoObjectsYet /\ PendingInOrder /\ ObjectsFromCard /\ ListedOnce)'
  <1>1. phase \in Classes /\ UNCHANGED <<card, tok, phase, pending>>
    BY DEF SkipEntry, Parsing
  <1>2. cursor'.at = cursor.at + 1
    BY DEF SkipEntry, Skipped, IInv, HandlesArePositions, TypeOK
  <1>3. Seen[phase] <= Seen'[phase]
    <2>1. CASE pending = <<>>
      <3>1. Seen[phase] = cursor.at
        BY <1>1, <2>1, SeenNow DEF SeenOfFile
      <3>2. Seen'[phase] = cursor.at + 1
        BY <1>1, <1>2, <2>1, SeenNext DEF SeenOfFile
      <3> QED BY <3>1, <3>2, Places DEF IInv
    <2>2. CASE pending # <<>>
      <3>1. Seen[phase] = Head(pending) - 1
        BY <1>1, <2>2, SeenNow DEF SeenOfFile
      <3>2. Seen'[phase] = Head(pending) - 1
        BY <1>1, <2>2, SeenNext DEF SeenOfFile
      <3>3. Seen[phase] \in Nat
        BY <1>1, SeenBounds DEF SeenInFile, IInv
      <3> QED BY <3>1, <3>2, <3>3
    <2> QED BY <2>1, <2>2
  <1>4. Grows
    BY <1>1, <1>3, FileGrows DEF IInv
  <1> QED BY <1>1, <1>4, ReadingOn

\* A private key comes from the entry for_each_record is at.
LEMMA AddPrivateKeyStep ==
    ASSUME IInv, HandlesArePositions', AddPrivateKey
    PROVE  (NoObjectsYet /\ PendingInOrder /\ ObjectsFromCard /\ ListedOnce)'
  <1> DEFINE o == NewObject(Current, phase, "none", NoKey)
  <1>1. phase = "PrivKey" /\ phase \in Classes /\ Parsing /\ Current.parses
        /\ UNCHANGED <<card, phase, pending>>
    BY DEF AddPrivateKey, Parsing
  <1>2. TypeOK /\ HandlesArePositions
    BY DEF IInv, HandlesArePositions
  <1>3. tok'.objs = Append(tok.objs, o) /\ cursor'.at = cursor.at + 1
    BY <1>2 DEF AddPrivateKey, TypeOK
  <1>4. pending = <<>> /\ pending' = <<>> /\ Len(pending') = 0
    BY <1>1, <1>2, Places DEF IInv, PendingInOrder
  <1>5. Seen[phase] = cursor.at /\ cursor.at \in Nat
    BY <1>1, <1>2, <1>4, SeenNow, Places DEF SeenOfFile
  <1>6. Seen'[phase] = cursor.at + 1
    BY <1>1, <1>3, <1>4, SeenNext DEF SeenOfFile
  <1>7. Grows
    BY <1>1, <1>2, <1>5, <1>6, FileGrows
  <1>8. Current \in Entry /\ cursor.at + 1 \in 1 .. Len(card[phase])
    BY <1>1, <1>2, CurrentIsEntry
  <1>9. o \in Object /\ o.class = phase /\ o.label = Current.label /\ o.id = Current.id
        /\ o.key = NoKey
    BY <1>1, <1>2, <1>8, Places DEF NewObject, Object, Entry, NextHandle
  <1> HIDE DEF o
  <1>10. FromCard(o, card', Seen')
    <2>1. cursor.at + 1 \in 1 .. Seen'[o.class]
      BY <1>5, <1>6, <1>1, <1>9
    <2> QED BY <1>1, <1>9, <2>1 DEF FromCard, Current
  <1>11. \A k \in 1 .. Seen[o.class] : card[o.class][k].label # o.label
    <2> TAKE k \in 1 .. Seen[o.class]
    <2>1. k \in 1 .. Len(card[phase]) /\ k # cursor.at + 1
      BY <1>1, <1>2, <1>5, <1>8, <1>9, Places
    <2> QED BY <1>1, <1>2, <1>8, <1>9, <2>1, LabelsDiffer DEF Current
  <1>12. ObjectsFromCard' /\ ListedOnce'
    BY <1>2, <1>3, <1>7, <1>9, <1>10, <1>11, OneObjectMore DEF IInv
  <1> QED BY <1>1, <1>4, <1>12 DEF NoObjectsYet, PendingInOrder

\* A pending entry is behind all that objects have come from.
LEMMA AddPendingStep ==
    ASSUME IInv, HandlesArePositions', AddPending
    PROVE  (NoObjectsYet /\ PendingInOrder /\ ObjectsFromCard /\ ListedOnce)'
  <1>1. phase # "PrivKey" /\ phase \in Classes /\ Parsing /\ Current.parses
        /\ UNCHANGED <<card, tok, phase>> /\ pending' = Append(pending, cursor.at + 1)
    BY DEF AddPending, Parsing
  <1>2. TypeOK /\ HandlesArePositions
    BY DEF IInv, HandlesArePositions
  <1> DEFINE n == Len(pending)
  <1>3. cursor.at \in Nat /\ n \in Nat /\ pending \in Seq(Nat)
    BY <1>2, Places
  <1>4. Len(pending') = n + 1 /\ pending'[n + 1] = cursor.at + 1 /\ pending' # <<>>
        /\ \A i \in 1 .. n : pending'[i] = pending[i]
    BY <1>1, <1>3
  <1>5. \A i \in 1 .. n : pending[i] \in Nat /\ pending[i] <= cursor.at
    BY <1>2, Places
  <1>6. Seen'[phase] = Seen[phase]
    <2>1. Seen'[phase] = pending'[1] - 1
      BY <1>1, <1>3, <1>4, SeenNext DEF SeenOfFile
    <2>2. CASE pending = <<>>
      <3>1. n = 0
        BY <1>2, <2>2, Places
      <3>2. Seen[phase] = cursor.at
        BY <1>1, <2>2, SeenNow DEF SeenOfFile
      <3> QED BY <1>3, <1>4, <2>1, <3>1, <3>2
    <2>3. CASE pending # <<>>
      <3>1. 1 \in 1 .. n /\ Seen[phase] = pending[1] - 1
        BY <1>1, <1>2, <2>3, SeenNow, Places DEF SeenOfFile
      <3> QED BY <1>4, <2>1, <3>1
    <2> QED BY <2>2, <2>3
  <1>7. Grows
    BY <1>1, <1>2, <1>6, FileGrows, SeenBounds DEF SeenInFile
  <1>8. ObjectsFromCard' /\ ListedOnce'
    BY <1>1, <1>2, <1>7, SameObjects DEF IInv
  <1>9. \A i \in 1 .. n + 1 : card[phase][pending'[i]].parses
    <2> TAKE i \in 1 .. n + 1
    <2>1. CASE i \in 1 .. n
      BY <1>4, <2>1 DEF IInv, PendingInOrder
    <2>2. CASE i = n + 1
      BY <1>1, <1>4, <2>2 DEF Current
    <2> QED BY <1>3, <2>1, <2>2
  <1>10. \A i, j \in 1 .. n + 1 : i < j => pending'[i] < pending'[j]
    <2> SUFFICES ASSUME NEW i \in 1 .. n + 1, NEW j \in 1 .. n + 1, i < j
                 PROVE  pending'[i] < pending'[j]
      OBVIOUS
    <2>1. CASE j \in 1 .. n
      <3>1. i \in 1 .. n
        BY <1>3, <2>1
      <3> QED BY <1>4, <2>1, <3>1 DEF IInv, PendingInOrder
    <2>2. CASE j = n + 1
      <3>1. i \in 1 .. n
        BY <1>3, <2>2
      <3> QED BY <1>3, <1>4, <1>5, <2>2, <3>1, SMTT(30)
    <2> QED BY <1>3, <2>1, <2>2
  <1>11. PendingInOrder'
    BY <1>1, <1>4, <1>9, <1>10 DEF PendingInOrder
  <1>12. NoObjectsYet'
    BY <1>1, PhaseNames DEF NoObjectsYet
  <1> QED BY <1>8, <1>11, <1>12

\* The next object comes from the first pending entry.
LEMMA FetchValueStep ==
    ASSUME IInv, HandlesArePositions', NEW fault \in Faults, FetchValue(fault)
    PROVE  (NoObjectsYet /\ PendingInOrder /\ ObjectsFromCard /\ ListedOnce)'
  <1> DEFINE n == Len(pending)
             h == pending[1]
             e == card[phase][h]
  <1>1. phase \in Classes /\ pending # <<>> /\ pending' = Tail(pending)
        /\ UNCHANGED <<card, phase, cursor>>
    BY DEF FetchValue
  <1>2. TypeOK /\ HandlesArePositions
    BY DEF IInv, HandlesArePositions
  <1>3. n \in Nat /\ n >= 1 /\ pending \in Seq(Nat) /\ Head(pending) = h /\ cursor.at \in Nat
        /\ Len(pending') = n - 1 /\ \A i \in 1 .. n - 1 : pending'[i] = pending[i + 1]
    BY <1>1, <1>2, Places
  <1>4. h \in Nat /\ 1 <= h /\ h <= cursor.at /\ cursor.at <= Len(card[phase])
        /\ Len(card[phase]) \in Nat
    BY <1>1, <1>2, <1>3, Places
  <1>5. e \in Entry /\ e.parses
    <2>1. 1 \in 1 .. n
      BY <1>3
    <2>2. h \in 1 .. Len(card[phase])
      BY <1>3, <1>4
    <2> QED BY <1>1, <1>2, <2>1, <2>2, CardFacts, Places DEF IInv, PendingInOrder
  <1>6. Seen[phase] = h - 1
    BY <1>1, <1>3, SeenNow DEF SeenOfFile
  <1>7. Seen'[phase] \in Nat /\ h <= Seen'[phase]
    <2>1. CASE pending' = <<>>
      <3>1. Seen'[phase] = cursor.at
        BY <1>1, <2>1, SeenNext DEF SeenOfFile
      <3> QED BY <1>3, <1>4, <3>1
    <2>2. CASE pending' # <<>>
      <3>1. n - 1 >= 1
        BY <1>1, <1>3, <2>2
      <3>2. Seen'[phase] = pending[2] - 1
        <4>1. Head(pending') = pending[2]
          BY <1>1, <1>3, <2>2, <3>1
        <4> QED BY <1>1, <2>2, <4>1, SeenNext DEF SeenOfFile
      <3>3. 1 \in 1 .. n /\ 2 \in 1 .. n
        BY <1>3, <3>1
      <3>4. pending[1] < pending[2] /\ pending[2] \in Nat
        BY <1>2, <3>3, Places DEF IInv, PendingInOrder
      <3> QED BY <1>4, <3>2, <3>4
    <2> QED BY <2>1, <2>2
  <1>8. Grows
    BY <1>1, <1>2, <1>4, <1>6, <1>7, FileGrows
  <1>9. PICK v \in Values(e, fault) :
            tok' = [tok EXCEPT !.objs = Append(@, NewObject(e, phase, v[1], v[2]))]
    BY <1>3 DEF FetchValue
  <1>10. v[1] \in {"none", "cut", "whole"} /\ v[2] \in {NoKey, e.key}
    <2>1. fault \in BOOLEAN /\ e.stored \in BOOLEAN
      BY <1>5, FaultsAssumption DEF Entry
    <2> QED BY <1>9, <2>1 DEF Values
  <1> DEFINE o == NewObject(e, phase, v[1], v[2])
  <1>11. o \in Object /\ o.class = phase /\ o.label = e.label /\ o.id = e.id
         /\ o.key \in {NoKey, e.key}
    BY <1>1, <1>2, <1>5, <1>10, Places DEF NewObject, Object, Entry, NextHandle
  <1>12. tok'.objs = Append(tok.objs, o)
    BY <1>2, <1>9 DEF TypeOK
  <1> HIDE DEF o
  <1>13. FromCard(o, card', Seen')
    <2>1. h \in 1 .. Seen'[o.class]
      BY <1>4, <1>7, <1>1, <1>11
    <2> QED BY <1>1, <1>5, <1>11, <2>1 DEF FromCard
  <1>14. \A k \in 1 .. Seen[o.class] : card[o.class][k].label # o.label
    <2> TAKE k \in 1 .. Seen[o.class]
    <2>1. k \in 1 .. Len(card[phase]) /\ h \in 1 .. Len(card[phase]) /\ k # h
      BY <1>3, <1>4, <1>6, <1>11
    <2> QED BY <1>1, <1>2, <1>11, <2>1, LabelsDiffer
  <1>15. ObjectsFromCard' /\ ListedOnce'
    BY <1>2, <1>8, <1>11, <1>12, <1>13, <1>14, OneObjectMore DEF IInv
  <1>16. \A i \in 1 .. n - 1 : card[phase][pending'[i]].parses
    <2> TAKE i \in 1 .. n - 1
    <2>1. i + 1 \in 1 .. n /\ pending'[i] = pending[i + 1]
      BY <1>3
    <2> QED BY <2>1 DEF IInv, PendingInOrder
  <1>17. \A i, j \in 1 .. n - 1 : i < j => pending'[i] < pending'[j]
    <2> SUFFICES ASSUME NEW i \in 1 .. n - 1, NEW j \in 1 .. n - 1, i < j
                 PROVE  pending'[i] < pending'[j]
      OBVIOUS
    <2>1. i + 1 \in 1 .. n /\ j + 1 \in 1 .. n /\ i + 1 < j + 1
      BY <1>3
    <2>2. pending[i + 1] < pending[j + 1]
      BY <2>1 DEF IInv, PendingInOrder
    <2> QED BY <1>3, <2>2
  <1>18. phase # "PrivKey"
    BY <1>1 DEF IInv, PendingInOrder
  <1>19. PendingInOrder'
    BY <1>1, <1>3, <1>16, <1>17, <1>18 DEF PendingInOrder
  <1>20. NoObjectsYet'
    BY <1>1, PhaseNames DEF NoObjectsYet
  <1> QED BY <1>15, <1>19, <1>20

\* A file is left when all its entries were seen and nothing is pending.
LEMMA NextFileStep ==
    ASSUME IInv, HandlesArePositions', NextFile
    PROVE  (NoObjectsYet /\ PendingInOrder /\ ObjectsFromCard /\ ListedOnce)'
  <1>1. phase \in Classes /\ cursor.open /\ cursor.at = cursor.upTo /\ pending = <<>>
        /\ phase' = Following[phase] /\ cursor'.at = 0 /\ UNCHANGED <<card, tok, pending>>
    BY DEF NextFile, FileDone, Unread
  <1>2. HandlesArePositions /\ SeenInFile /\ SeenInFile'
    BY SeenBounds, SeenBoundsNext DEF IInv
  <1>3. \A class \in Classes : Done(class) \/ class = phase => Done(class)'
    BY <1>1 DEF Done, Following, Classes
  <1>4. ASSUME NEW class \in Classes PROVE Seen[class] <= Seen'[class]
    <2>1. CASE Done(class) \/ class = phase
      <3>1. Seen'[class] = Len(card[class])
        BY <1>1, <1>3, <2>1 DEF Seen
      <3> QED BY <1>2, <3>1 DEF SeenInFile
    <2>2. CASE ~(Done(class) \/ class = phase)
      <3>1. Seen[class] = 0
        BY <2>2 DEF Seen
      <3> QED BY <1>2, <3>1 DEF SeenInFile
    <2> QED BY <2>1, <2>2
  <1>5. Grows
    BY <1>1, <1>4 DEF Grows
  <1>6. ObjectsFromCard' /\ ListedOnce'
    BY <1>1, <1>2, <1>5, SameObjects DEF IInv
  <1>7. phase' \in {"PubKey", "Cert", "Data", "link"}
    BY <1>1 DEF Following, Classes
  <1>8. Len(pending') = 0
    BY <1>1, <1>2, Places
  <1>9. PendingInOrder' /\ NoObjectsYet'
    BY <1>7, <1>8 DEF PendingInOrder, NoObjectsYet
  <1> QED BY <1>6, <1>9

\* link_key_material gives a private key no other key than its own: what has its
\* identifier is about the same key pair.
LEMMA LinkedKeyIsOwn ==
    ASSUME IInv, phase = "link", NEW i \in 1 .. Len(tok.objs)
    PROVE  FromCard(Linked(tok.objs[i]), card, Seen)
  <1> DEFINE o == tok.objs[i]
             l == Linked(o)
  <1>1. TypeOK /\ HandlesArePositions
    BY DEF IInv, HandlesArePositions
  <1>2. DOMAIN tok.objs = 1 .. Len(tok.objs)
    BY <1>1, Places
  <1>3. /\ l.class = o.class /\ l.label = o.label /\ l.id = o.id
        /\ l.key = o.key \/ (o.class = "PrivKey" /\ \E j \in Sources(o) : l.key = tok.objs[j].key)
    BY <1>1, <1>2, LinkedFacts
  <1>4. o.class \in Classes /\ FromCard(o, card, Seen) /\ card \in Cards
    BY <1>1, Places DEF IInv, ObjectsFromCard
  <1>5. \A class \in Classes : Seen[class] = Len(card[class])
    BY DEF Seen, Done
  <1>6. CASE l.key = o.key
    BY <1>3, <1>4, <1>6 DEF FromCard
  <1>7. CASE l.key # o.key
    <2>1. o.class = "PrivKey"
      BY <1>3, <1>7
    <2>2. PICK j \in Sources(o) : l.key = tok.objs[j].key
      BY <1>3, <1>7
    <2> DEFINE p == tok.objs[j]
    <2>3. j \in 1 .. Len(tok.objs) /\ p.class \in {"PubKey", "Cert"} /\ p.id = o.id
          /\ o.id # NoId /\ p.key # NoKey
      BY <1>2, <2>2 DEF Sources
    <2>4. FromCard(p, card, Seen)
      BY <2>3 DEF IInv, ObjectsFromCard
    <2>5. p.class \in Classes
      BY <2>3 DEF Classes
    <2>6. PICK k \in 1 .. Len(card[o.class]) :
              /\ card[o.class][k].parses /\ o.label = card[o.class][k].label
              /\ o.id = card[o.class][k].id
      BY <1>4, <1>5 DEF FromCard
    <2>7. PICK m \in 1 .. Len(card[p.class]) :
              /\ p.id = card[p.class][m].id /\ p.key \in {NoKey, card[p.class][m].key}
      BY <2>4, <2>5, <1>5 DEF FromCard
    <2>8. card[o.class][k].key = card[p.class][m].key
      <3>1. k \in DOMAIN card["PrivKey"] /\ m \in DOMAIN card[p.class]
        BY <1>4, <2>1, <2>5, <2>6, <2>7, CardFacts
      <3>2. card["PrivKey"][k].id = card[p.class][m].id /\ card["PrivKey"][k].id # NoId
            /\ card[p.class][m].key # NoKey
        BY <2>1, <2>3, <2>6, <2>7
      <3> QED BY <1>4, <2>1, <2>3, <3>1, <3>2, IdsAssumption
    <2>9. l.key = card[o.class][k].key
      BY <2>2, <2>3, <2>7, <2>8
    <2>10. k \in 1 .. Seen[l.class]
      BY <1>3, <1>4, <1>5, <2>6
    <2> HIDE DEF l
    <2>11. FromCard(l, card, Seen)
      BY <1>3, <2>6, <2>9, <2>10 DEF FromCard
    <2> QED BY <2>11 DEF l
  <1> QED BY <1>6, <1>7

\* Linking changes no object but for the keys of private ones.
LEMMA LinkStep ==
    ASSUME IInv, HandlesArePositions', Link
    PROVE  (NoObjectsYet /\ PendingInOrder /\ ObjectsFromCard /\ ListedOnce)'
  <1> DEFINE n == Len(tok.objs)
  <1>1. phase = "link" /\ phase' = "idle" /\ UNCHANGED <<card, cursor, pending>>
        /\ tok' = [bound |-> TRUE, objs |-> [i \in DOMAIN tok.objs |-> Linked(tok.objs[i])]]
    BY DEF Link
  <1>2. TypeOK /\ HandlesArePositions
    BY DEF IInv, HandlesArePositions
  <1>3. n \in Nat /\ DOMAIN tok.objs = 1 .. n
    BY <1>2, Places
  <1>4. tok'.bound = TRUE /\ tok'.objs = [i \in 1 .. n |-> Linked(tok.objs[i])]
    BY <1>1, <1>3
  <1>5. Len(tok'.objs) = n /\ \A i \in 1 .. n : tok'.objs[i] = Linked(tok.objs[i])
    BY <1>3, <1>4
  <1>6. \A class \in Classes : Seen[class] = Len(card[class]) /\ Seen'[class] = Len(card[class])
    BY <1>1 DEF Seen, Done
  <1>7. ASSUME NEW i \in 1 .. n PROVE FromCard(tok'.objs[i], card', Seen')
    <2> DEFINE l == Linked(tok.objs[i])
    <2>1. FromCard(l, card, Seen) /\ l.class \in Classes
      BY <1>1, <1>2, <1>3, LinkedKeyIsOwn, LinkedFacts, Places
    <2>2. tok'.objs[i] = l
      BY <1>5
    <2> HIDE DEF l
    <2>3. card' = card /\ Seen'[l.class] = Seen[l.class]
      BY <1>1, <1>6, <2>1
    <2>4. PICK k \in 1 .. Seen[l.class] :
              LET e == card[l.class][k]
              IN e.parses /\ l.label = e.label /\ l.id = e.id /\ l.key \in {NoKey, e.key}
      BY <2>1 DEF FromCard
    <2>5. k \in 1 .. Seen'[l.class]
      BY <2>3, <2>4
    <2>6. FromCard(l, card', Seen')
      BY <2>3, <2>4, <2>5 DEF FromCard
    <2> QED BY <2>2, <2>6
  <1>8. ObjectsFromCard'
    BY <1>5, <1>7 DEF ObjectsFromCard
  <1>9. \A i \in 1 .. n : tok'.objs[i].class = tok.objs[i].class
                          /\ tok'.objs[i].label = tok.objs[i].label
    BY <1>2, <1>3, <1>5, LinkedFacts
  <1>10. ListedOnce'
    BY <1>5, <1>9 DEF ListedOnce, IInv
  <1>11. pending' = <<>> /\ Len(pending') = 0
    BY <1>1, <1>2, NoPending, PhaseNames
  <1> QED BY <1>1, <1>4, <1>8, <1>10, <1>11 DEF NoObjectsYet, PendingInOrder

\* Every step keeps the invariant.
LEMMA ObjectsStep == IInv /\ [Next]_vars => IInv'
  <1> SUFFICES ASSUME IInv, [Next]_vars PROVE IInv'
    OBVIOUS
  <1>1. HandlesArePositions'
    BY HandlesStep DEF IInv
  <1>2. (NoObjectsYet /\ PendingInOrder /\ ObjectsFromCard /\ ListedOnce)'
    <2>1. ASSUME NEW c \in Cards, Begin(c)
          PROVE  (NoObjectsYet /\ PendingInOrder /\ ObjectsFromCard /\ ListedOnce)'
      BY <2>1, BeginStep
    <2>2. ASSUME NEW fault \in Faults, Detect(fault)
          PROVE  (NoObjectsYet /\ PendingInOrder /\ ObjectsFromCard /\ ListedOnce)'
      BY <2>2, DetectStep
    <2>3. ASSUME NEW fault \in Faults, ReadFile(fault)
          PROVE  (NoObjectsYet /\ PendingInOrder /\ ObjectsFromCard /\ ListedOnce)'
      BY <1>1, <2>3, ReadFileStep
    <2>4. ASSUME NEW fault \in Faults, FetchValue(fault)
          PROVE  (NoObjectsYet /\ PendingInOrder /\ ObjectsFromCard /\ ListedOnce)'
      BY <1>1, <2>4, FetchValueStep
    <2>5. CASE UNCHANGED vars
      <3>1. tok' = tok /\ card' = card /\ phase' = phase /\ pending' = pending /\ cursor' = cursor
        BY <2>5 DEF vars
      <3>2. (NoObjectsYet /\ PendingInOrder /\ ListedOnce)'
        BY <3>1 DEF IInv, NoObjectsYet, PendingInOrder, ListedOnce
      <3>3. Seen' = Seen
        BY <3>1 DEF Seen, Done
      <3>4. ObjectsFromCard'
        BY <3>1, <3>3 DEF IInv, ObjectsFromCard, FromCard
      <3> QED BY <3>2, <3>4
    <2> QED BY <1>1, <2>1, <2>2, <2>3, <2>4, <2>5, SkipEntryStep, AddPrivateKeyStep,
               AddPendingStep, NextFileStep, LinkStep DEF Next
  <1> QED BY <1>1, <1>2 DEF IInv

\* The invariant holds before the first bind.
LEMMA ObjectsInit == Init => IInv
  <1> SUFFICES ASSUME Init PROVE IInv
    OBVIOUS
  <1>1. tok.objs = <<>> /\ pending = <<>> /\ phase = "idle"
    BY DEF Init, NoToken
  <1>2. Len(tok.objs) = 0 /\ Len(pending) = 0
    BY <1>1
  <1> QED BY <1>1, <1>2, HandlesInit DEF IInv, NoObjectsYet, PendingInOrder, ObjectsFromCard, ListedOnce

\* The invariant implies the property.
LEMMA ObjectsSafe == IInv => ObjectsAreOfTheCard
  <1> SUFFICES ASSUME IInv PROVE ObjectsAreOfTheCard
    OBVIOUS
  <1>1. HandlesArePositions /\ SeenInFile
    BY SeenBounds DEF IInv
  <1>2. DOMAIN tok.objs = 1 .. Len(tok.objs)
    BY <1>1, Places
  <1>3. ASSUME NEW i \in DOMAIN tok.objs
        PROVE  \E k \in DOMAIN card[tok.objs[i].class] :
                  LET o == tok.objs[i]
                      e == card[o.class][k]
                  IN e.parses /\ o.label = e.label /\ o.id = e.id /\ o.key \in {NoKey, e.key}
    <2> DEFINE o == tok.objs[i]
    <2>1. o.class \in Classes /\ FromCard(o, card, Seen)
      BY <1>1, <1>2, Places DEF IInv, ObjectsFromCard
    <2>2. PICK k \in 1 .. Seen[o.class] :
              LET e == card[o.class][k]
              IN e.parses /\ o.label = e.label /\ o.id = e.id /\ o.key \in {NoKey, e.key}
      BY <2>1 DEF FromCard
    <2>3. k \in DOMAIN card[o.class]
      BY <1>1, <2>1, <2>2, CardFacts, Places DEF SeenInFile
    <2> QED BY <2>2, <2>3
  <1>4. \A i, j \in DOMAIN tok.objs :
            tok.objs[i].class = tok.objs[j].class /\ tok.objs[i].label = tok.objs[j].label => i = j
    BY <1>2 DEF IInv, ListedOnce
  <1>5. phase = "idle" /\ ~tok.bound => tok.objs = <<>>
    BY DEF IInv, NoObjectsYet
  <1> QED BY <1>3, <1>4, <1>5 DEF ObjectsAreOfTheCard

\* Whatever fails and whichever card was bound before: an object is one of the
\* card in the reader, listed once, and a private key shows its own modulus or
\* none (bind, link_key_material), for cards whose labels tell their entries
\* apart and whose identifiers stand for one key pair.
THEOREM ObjectsStayOfTheCard == Spec => []ObjectsAreOfTheCard
  BY ObjectsInit, ObjectsStep, ObjectsSafe, PTL DEF Spec

-----------------------------------------------------------------------------
(* That nothing is lost. *)

\* A bind that no failed exchange has disturbed so far, or that ended well.
Undisturbed == ~faulted /\ (phase = "idle" => tok.bound)

\* The token is bound by the last step of bind.
NotBoundYet == phase # "idle" => ~tok.bound

\* The file that is being read is in the buffer as a whole.
AllRead == ~faulted /\ phase \in Classes /\ cursor.open => cursor.upTo = Len(card[phase])

\* How many entries of each file for_each_record has passed.
Passed == [class \in Classes |->
    IF Done(class) THEN Len(card[class]) ELSE IF phase # class THEN 0 ELSE cursor.at]

\* The entry is an object, or will be when the file is through.
Kept(class, k) ==
    \/ \E i \in 1 .. Len(tok.objs) : IsOf(tok.objs[i], class, k)
    \/ class = phase /\ \E i \in 1 .. Len(pending) : pending[i] = k

\* The token is full of entries before this one.
Dropped(class, k) ==
    /\ Len(tok.objs) + Len(pending) = MaxObjs
    /\ \A i \in 1 .. Len(tok.objs) : IsBefore(tok.objs[i], class, k)
    /\ \A i \in 1 .. Len(pending) : class = phase /\ pending[i] < k

\* An entry the loop has passed is kept, or the limit was reached before it.
NoneIsLost ==
    Undisturbed =>
        \A class \in Classes : \A k \in 1 .. Passed[class] :
            card[class][k].parses => Kept(class, k) \/ Dropped(class, k)

\* Of two objects the one whose entry comes first stands first.
InOrder(objs) ==
    \A j \in 1 .. Len(objs) : \A k \in 1 .. Len(card[objs[j].class]) :
        IsOf(objs[j], objs[j].class, k) =>
            \A i \in 1 .. j - 1 : IsBefore(objs[i], objs[j].class, k)

InFileOrder == InOrder(tok.objs)

\* What a public key or certificate was read from.
ValuesFit(objs) ==
    \A j \in 1 .. Len(objs) : objs[j].class \in {"PubKey", "Cert"} =>
        \A k \in 1 .. Len(card[objs[j].class]) :
            IsOf(objs[j], objs[j].class, k) /\ card[objs[j].class][k].stored
                => objs[j].key = card[objs[j].class][k].key

ValuesRead == ~faulted => ValuesFit(tok.objs)

\* link_key_material has found what there was to find.
KeysLinked == ~faulted /\ tok.bound => \A i \in 1 .. Len(tok.objs) : HasItsKey(i)

CompleteInv ==
    /\ IInv /\ NotBoundYet /\ AllRead
    /\ InFileOrder /\ NoneIsLost /\ ValuesRead /\ KeysLinked

\* The entry an object comes from.
LEMMA OriginOf ==
    ASSUME IInv, NEW i \in 1 .. Len(tok.objs)
    PROVE  /\ tok.objs[i] \in Object /\ tok.objs[i].class \in Classes
           /\ \E k \in 1 .. Len(card[tok.objs[i].class]) :
                 /\ k <= Seen[tok.objs[i].class]
                 /\ card[tok.objs[i].class][k].parses /\ IsOf(tok.objs[i], tok.objs[i].class, k)
                 /\ card[tok.objs[i].class][k].id = tok.objs[i].id
                 /\ tok.objs[i].key \in {NoKey, card[tok.objs[i].class][k].key}
  <1> DEFINE o == tok.objs[i]
  <1>1. o \in Object /\ o.class \in Classes
    BY Places DEF IInv
  <1>2. FromCard(o, card, Seen)
    BY DEF IInv, ObjectsFromCard
  <1>3. Seen[o.class] \in Nat /\ Seen[o.class] <= Len(card[o.class]) /\ Len(card[o.class]) \in Nat
    BY <1>1, SeenBounds, Places DEF IInv, SeenInFile
  <1> HIDE DEF o
  <1>4. PICK k \in 1 .. Seen[o.class] :
            LET e == card[o.class][k]
            IN e.parses /\ o.label = e.label /\ o.id = e.id /\ o.key \in {NoKey, e.key}
    BY <1>2 DEF FromCard
  <1>5. k \in 1 .. Len(card[o.class]) /\ k <= Seen[o.class]
    BY <1>3, <1>4
  <1>6. IsOf(o, o.class, k)
    BY <1>4 DEF IsOf
  <1> QED BY <1>1, <1>4, <1>5, <1>6 DEF o

\* What was read before is before what has not been seen.
LEMMA ObjectsAreBehind ==
    ASSUME IInv, phase \in Classes, NEW k \in Nat, Seen[phase] < k, NEW i \in 1 .. Len(tok.objs)
    PROVE  IsBefore(tok.objs[i], phase, k)
  <1> DEFINE o == tok.objs[i]
  <1>1. o.class \in Classes
    BY OriginOf
  <1>2. PICK m \in 1 .. Len(card[o.class]) : m <= Seen[o.class] /\ IsOf(o, o.class, m)
    BY OriginOf
  <1> HIDE DEF o
  <1>3. m \in Nat /\ 1 <= m
    BY <1>2
  <1>4. CASE Done(o.class)
    <2>1. Rank[o.class] < Rank[phase]
      BY <1>1, <1>4 DEF Done, Rank, Classes
    <2> QED BY <2>1 DEF IsBefore, o
  <1>5. CASE o.class = phase
    <2>1. Seen[phase] \in Nat
      BY SeenBounds DEF IInv, SeenInFile
    <2>2. m \in 1 .. k - 1
      BY <1>2, <1>3, <1>5, <2>1
    <2>3. IsOf(o, phase, m)
      BY <1>2, <1>5
    <2> QED BY <2>2, <2>3 DEF IsBefore, o
  <1>6. CASE ~Done(o.class) /\ o.class # phase
    <2>1. Seen[o.class] = 0
      BY <1>1, <1>6 DEF Seen
    <2> QED BY <1>2, <1>3, <2>1
  <1> QED BY <1>4, <1>5, <1>6

\* The seen entries are among the passed ones.
LEMMA SeenArePassed ==
    ASSUME IInv, phase \in Classes
    PROVE  Seen[phase] \in Nat /\ cursor.at \in Nat /\ Seen[phase] <= cursor.at
  <1>1. HandlesArePositions /\ cursor.at \in Nat /\ Seen[phase] \in Nat
    BY Places, SeenBounds DEF IInv, SeenInFile
  <1>2. CASE pending = <<>>
    BY <1>1, <1>2, SeenNow DEF SeenOfFile
  <1>3. CASE pending # <<>>
    <2>1. 1 \in 1 .. Len(pending) /\ Seen[phase] = pending[1] - 1
      BY <1>1, <1>3, SeenNow, Places DEF SeenOfFile
    <2>2. pending[1] \in Nat /\ pending[1] <= cursor.at
      BY <1>1, <2>1, Places
    <2> QED BY <1>1, <2>1, <2>2
  <1> QED BY <1>1, <1>2, <1>3

\* The same of the state after a step that keeps the card.
LEMMA InFileOrderNext ==
    ASSUME card' = card, InOrder(tok'.objs)
    PROVE  InFileOrder'
  BY ZenonT(60) DEF InFileOrder, InOrder, IsOf, IsBefore, Rank

LEMMA ValuesReadNext ==
    ASSUME card' = card, ValuesFit(tok'.objs)
    PROVE  ValuesRead'
  BY DEF ValuesRead, ValuesFit, IsOf

\* Keys stay known when no label changes.
LEMMA KeyKnownStays ==
    ASSUME card' = card, DOMAIN tok'.objs = DOMAIN tok.objs,
           \A i \in DOMAIN tok.objs : /\ tok'.objs[i].class = tok.objs[i].class
                                      /\ tok'.objs[i].label = tok.objs[i].label,
           NEW k, KeyKnown(k)'
    PROVE  KeyKnown(k)
  <1>1. /\ card["PrivKey"][k].id # NoId
        /\ \E j \in DOMAIN tok'.objs :
              /\ tok'.objs[j].class \in {"PubKey", "Cert"}
              /\ \E m \in DOMAIN card[tok'.objs[j].class] :
                    LET f == card[tok'.objs[j].class][m]
                    IN /\ IsOf(tok'.objs[j], tok'.objs[j].class, m)
                       /\ f.id = card["PrivKey"][k].id /\ f.stored /\ f.key # NoKey
    BY DEF KeyKnown, IsOf
  <1>2. PICK j \in DOMAIN tok.objs :
            /\ tok'.objs[j].class \in {"PubKey", "Cert"}
            /\ \E m \in DOMAIN card[tok'.objs[j].class] :
                  LET f == card[tok'.objs[j].class][m]
                  IN /\ IsOf(tok'.objs[j], tok'.objs[j].class, m)
                     /\ f.id = card["PrivKey"][k].id /\ f.stored /\ f.key # NoKey
    BY <1>1
  <1>3. tok'.objs[j].class = tok.objs[j].class /\ tok'.objs[j].label = tok.objs[j].label
    OBVIOUS
  <1>4. \A m : IsOf(tok'.objs[j], tok'.objs[j].class, m) => IsOf(tok.objs[j], tok.objs[j].class, m)
    BY <1>3 DEF IsOf
  <1>5. PICK m \in DOMAIN card[tok'.objs[j].class] :
            LET f == card[tok'.objs[j].class][m]
            IN /\ IsOf(tok'.objs[j], tok'.objs[j].class, m)
               /\ f.id = card["PrivKey"][k].id /\ f.stored /\ f.key # NoKey
    BY <1>2
  <1>6. /\ m \in DOMAIN card[tok.objs[j].class] /\ IsOf(tok.objs[j], tok.objs[j].class, m)
        /\ card[tok.objs[j].class][m].id = card["PrivKey"][k].id
        /\ card[tok.objs[j].class][m].stored /\ card[tok.objs[j].class][m].key # NoKey
    BY <1>3, <1>4, <1>5
  <1>7. tok.objs[j].class \in {"PubKey", "Cert"}
    BY <1>2, <1>3
  <1> QED BY <1>1, <1>6, <1>7 DEF KeyKnown

\* What is known of the token's objects stays while the token does.
LEMMA TokenStays ==
    ASSUME CompleteInv, tok' = tok, card' = card, ~faulted' => ~faulted
    PROVE  (InFileOrder /\ ValuesRead /\ KeysLinked)'
  <1> DEFINE n == Len(tok.objs)
  <1>1. Len(tok'.objs) = n
    OBVIOUS
  <1>2. InFileOrder /\ ValuesRead /\ KeysLinked
    BY DEF CompleteInv
  <1>3. InFileOrder'
    BY <1>2, InFileOrderNext DEF InFileOrder
  <1>4. ValuesRead'
    <2>1. CASE faulted'
      BY <2>1 DEF ValuesRead
    <2>2. CASE ~faulted'
      BY <1>2, <2>2, ValuesReadNext DEF ValuesRead
    <2> QED BY <2>1, <2>2
  <1>5. KeysLinked'
    <2> SUFFICES ASSUME ~faulted', tok'.bound, NEW i \in 1 .. n PROVE HasItsKey(i)'
      BY <1>1 DEF KeysLinked
    <2>1. HasItsKey(i)
      BY <1>2 DEF KeysLinked
    <2> SUFFICES ASSUME NEW k \in DOMAIN card["PrivKey"], IsOf(tok.objs[i], "PrivKey", k),
                        KeyKnown(k)'
                 PROVE  tok.objs[i].key = card["PrivKey"][k].key
      BY DEF HasItsKey, IsOf
    <2>2. KeyKnown(k)
      BY KeyKnownStays
    <2> QED BY <2>1, <2>2 DEF HasItsKey
  <1> QED BY <1>3, <1>4, <1>5

\* A token with one object more, from an entry no object has come from.
LEMMA TokenGrows ==
    ASSUME CompleteInv, card' = card, phase \in Classes, NEW o \in Object, o.class = phase,
           NEW h \in 1 .. Len(card[phase]), o.label = card[phase][h].label, Seen[phase] < h,
           tok'.objs = Append(tok.objs, o), tok'.bound = tok.bound, ~faulted' => ~faulted,
           ~faulted' /\ phase \in {"PubKey", "Cert"} /\ card[phase][h].stored
               => o.key = card[phase][h].key
    PROVE  /\ (InFileOrder /\ ValuesRead /\ KeysLinked)'
           /\ Len(tok'.objs) = Len(tok.objs) + 1 /\ tok'.objs[Len(tok.objs) + 1] = o
           /\ \A i \in 1 .. Len(tok.objs) : tok'.objs[i] = tok.objs[i]
  <1> DEFINE n == Len(tok.objs)
  <1>1. IInv /\ HandlesArePositions /\ InFileOrder /\ ValuesRead
    BY DEF CompleteInv, IInv
  <1>2. n \in Nat /\ Len(tok'.objs) = n + 1 /\ tok'.objs[n + 1] = o
        /\ \A i \in 1 .. n : tok'.objs[i] = tok.objs[i]
    BY <1>1, Places
  <1>3. ~tok.bound
    BY PhaseNames DEF CompleteInv, NotBoundYet
  <1>4. \A k \in 1 .. Len(card[phase]) : IsOf(o, phase, k) => k = h
    BY <1>1, LabelsDiffer, ZenonT(60) DEF IsOf
  <1>5. InFileOrder'
    <2>1. ASSUME NEW j \in 1 .. n + 1, NEW k \in 1 .. Len(card[tok'.objs[j].class]),
                 IsOf(tok'.objs[j], tok'.objs[j].class, k), NEW i \in 1 .. j - 1
          PROVE  IsBefore(tok'.objs[i], tok'.objs[j].class, k)
      <3>1. i \in 1 .. n /\ tok'.objs[i] = tok.objs[i]
        BY <1>2
      <3>2. CASE j \in 1 .. n
        <4>1. tok'.objs[j] = tok.objs[j]
          BY <1>2, <3>2
        <4> QED BY <1>1, <2>1, <3>1, <3>2, <4>1 DEF InFileOrder, InOrder
      <3>3. CASE j = n + 1
        <4>1. k = h
          BY <1>2, <1>4, <2>1, <3>3
        <4>2. IsBefore(tok.objs[i], phase, h)
          BY <1>1, <3>1, ObjectsAreBehind
        <4> QED BY <1>2, <3>1, <3>3, <4>1, <4>2
      <3> QED BY <1>2, <3>2, <3>3
    <2> HIDE DEF n
    <2>2. InOrder(tok'.objs)
      BY <1>2, <2>1 DEF InOrder
    <2> QED BY <2>2, InFileOrderNext
  <1>6. ValuesRead'
    <2>1. CASE faulted'
      BY <2>1 DEF ValuesRead
    <2>2. ASSUME ~faulted', NEW j \in 1 .. n + 1, tok'.objs[j].class \in {"PubKey", "Cert"},
                 NEW k \in 1 .. Len(card[tok'.objs[j].class]),
                 IsOf(tok'.objs[j], tok'.objs[j].class, k), card[tok'.objs[j].class][k].stored
          PROVE  tok'.objs[j].key = card[tok'.objs[j].class][k].key
      <3>1. CASE j \in 1 .. n
        <4>1. tok'.objs[j] = tok.objs[j]
          BY <1>2, <3>1
        <4> QED BY <1>1, <2>2, <3>1, <4>1 DEF ValuesRead, ValuesFit
      <3>2. CASE j = n + 1
        <4>1. k = h /\ tok'.objs[j] = o
          BY <1>2, <1>4, <2>2, <3>2
        <4> QED BY <2>2, <4>1
      <3> QED BY <1>2, <3>1, <3>2
    <2> HIDE DEF n
    <2>3. ~faulted' => ValuesFit(tok'.objs)
      BY <1>2, <2>2 DEF ValuesFit
    <2> QED BY <2>1, <2>3, ValuesReadNext
  <1>7. KeysLinked'
    BY <1>3 DEF KeysLinked
  <1> QED BY <1>2, <1>5, <1>6, <1>7

\* Kept and Dropped after a step that keeps the card.
KeptAfter(class, k) ==
    \/ \E i \in 1 .. Len(tok'.objs) : IsOf(tok'.objs[i], class, k)
    \/ class = phase' /\ \E i \in 1 .. Len(pending') : pending'[i] = k

DroppedAfter(class, k) ==
    /\ Len(tok'.objs) + Len(pending') = MaxObjs
    /\ \A i \in 1 .. Len(tok'.objs) : IsBefore(tok'.objs[i], class, k)
    /\ \A i \in 1 .. Len(pending') : class = phase' /\ pending'[i] < k

LEMMA NoneIsLostNext ==
    ASSUME card' = card,
           Undisturbed' =>
               \A class \in Classes : \A k \in 1 .. Passed'[class] :
                   card[class][k].parses => KeptAfter(class, k) \/ DroppedAfter(class, k)
    PROVE  NoneIsLost'
  <1> SUFFICES ASSUME Undisturbed', NEW class \in Classes, NEW k \in 1 .. Passed'[class],
                      card[class][k].parses
               PROVE  Kept(class, k)' \/ Dropped(class, k)'
    BY DEF NoneIsLost
  <1>1. CASE KeptAfter(class, k)
    BY <1>1 DEF KeptAfter, Kept, IsOf
  <1>2. CASE DroppedAfter(class, k)
    BY <1>2 DEF DroppedAfter, Dropped, IsBefore, IsOf, Rank
  <1> QED BY <1>1, <1>2

\* Reading on in a file passes no entry of another one.
LEMMA PassedOn ==
    ASSUME card' = card, phase' = phase, phase \in Classes, NEW class \in Classes
    PROVE  /\ Passed[phase] = cursor.at
           /\ Passed'[class] = IF class = phase THEN cursor'.at ELSE Passed[class]
  BY NotDoneYet DEF Passed, Done

LEMMA NoneLostSoFar ==
    ASSUME CompleteInv, phase \in Classes, ~faulted, NEW class \in Classes,
           NEW k \in 1 .. Passed[class], card[class][k].parses
    PROVE  Kept(class, k) \/ Dropped(class, k)
  BY PhaseNames DEF CompleteInv, NoneIsLost, Undisturbed

\* Steps that change neither the token nor what is pending.
LEMMA ReadingLosesNone ==
    ASSUME CompleteInv, phase \in Classes, UNCHANGED <<card, tok, phase, pending>>,
           ~faulted' => ~faulted,
           \A k \in 1 .. cursor'.at : k \notin 1 .. cursor.at /\ card[phase][k].parses =>
               Kept(phase, k) \/ Dropped(phase, k)
    PROVE  NoneIsLost'
  <1>1. \A class, k : /\ Kept(class, k) => KeptAfter(class, k)
                      /\ Dropped(class, k) => DroppedAfter(class, k)
    BY DEF Kept, Dropped, KeptAfter, DroppedAfter
  <1>2. ASSUME Undisturbed', NEW class \in Classes, NEW k \in 1 .. Passed'[class],
               card[class][k].parses
        PROVE  KeptAfter(class, k) \/ DroppedAfter(class, k)
    <2>1. ~faulted
      BY <1>2 DEF Undisturbed
    <2>2. CASE k \in 1 .. Passed[class]
      BY <1>1, <1>2, <2>1, <2>2, NoneLostSoFar
    <2>3. CASE k \notin 1 .. Passed[class]
      <3>1. class = phase /\ k \in 1 .. cursor'.at /\ k \notin 1 .. cursor.at
        BY <1>2, <2>3, PassedOn
      <3> QED BY <1>1, <1>2, <3>1
    <2> QED BY <2>2, <2>3
  <1> QED BY <1>2, NoneIsLostNext

LEMMA BeginCompletes ==
    ASSUME CompleteInv, IInv', NEW c \in Cards, Begin(c)
    PROVE  CompleteInv'
  <1>1. tok' = [bound |-> FALSE, objs |-> <<>>] /\ phase' = "detect"
    BY DEF Begin, NoToken
  <1>2. tok'.bound = FALSE /\ tok'.objs = <<>> /\ Len(tok'.objs) = 0
    BY <1>1
  <1>3. phase' \notin Classes
    BY <1>1, PhaseNames
  <1>4. NotBoundYet' /\ AllRead' /\ KeysLinked'
    BY <1>2, <1>3 DEF NotBoundYet, AllRead, KeysLinked
  <1>5. InFileOrder' /\ ValuesRead'
    BY <1>2 DEF InFileOrder, InOrder, ValuesRead, ValuesFit
  <1>6. \A class \in Classes : Passed'[class] = 0
    BY <1>1, <1>3 DEF Passed, Done
  <1>7. NoneIsLost'
    BY <1>6 DEF NoneIsLost
  <1> QED BY <1>4, <1>5, <1>7 DEF CompleteInv

LEMMA DetectCompletes ==
    ASSUME CompleteInv, IInv', NEW fault \in Faults, Detect(fault)
    PROVE  CompleteInv'
  <1>1. /\ phase = "detect" /\ phase' = (IF fault THEN "idle" ELSE "PrivKey")
        /\ faulted' = fault /\ UNCHANGED <<card, tok, cursor, pending>> /\ fault \in BOOLEAN
    BY FaultsAssumption DEF Detect
  <1>2. tok.bound # TRUE /\ tok.objs = <<>> /\ Len(tok.objs) = 0
    BY <1>1 DEF CompleteInv, NotBoundYet, IInv, NoObjectsYet
  <1>3. cursor.open = FALSE /\ cursor.at = 0
    BY <1>1, PhaseNames DEF CompleteInv, IInv, HandlesArePositions, TypeOK, Unread
  <1>4. NotBoundYet' /\ AllRead' /\ KeysLinked'
    BY <1>1, <1>2, <1>3 DEF NotBoundYet, AllRead, KeysLinked
  <1>5. InFileOrder' /\ ValuesRead'
    BY <1>1, <1>2 DEF InFileOrder, InOrder, ValuesRead, ValuesFit
  <1>6. NoneIsLost'
    <2>1. CASE fault
      BY <1>1, <2>1 DEF NoneIsLost, Undisturbed
    <2>2. CASE ~fault
      <3>1. \A class \in Classes : Passed'[class] = 0
        BY <1>1, <1>3, <2>2 DEF Passed, Done
      <3> QED BY <3>1 DEF NoneIsLost
    <2> QED BY <2>1, <2>2
  <1> QED BY <1>4, <1>5, <1>6 DEF CompleteInv

LEMMA ReadFileCompletes ==
    ASSUME CompleteInv, IInv', NEW fault \in Faults, ReadFile(fault)
    PROVE  CompleteInv'
  <1>1. /\ phase \in Classes /\ ~cursor.open /\ UNCHANGED <<card, tok, phase, pending>>
        /\ faulted' = (faulted \/ fault) /\ fault \in BOOLEAN
    BY FaultsAssumption DEF ReadFile
  <1>2. PICK n \in 0 .. Len(card[phase]) :
            /\ n < Len(card[phase]) => fault
            /\ cursor' = [open |-> TRUE, at |-> 0, upTo |-> n]
    BY DEF ReadFile
  <1>3. ~faulted' => ~faulted /\ ~fault
    BY <1>1
  <1>4. AllRead'
    <2>1. Len(card[phase]) \in Nat
      BY <1>1, Places DEF CompleteInv, IInv
    <2>2. ASSUME ~faulted' PROVE n = Len(card[phase])
      BY <1>2, <1>3, <2>1, <2>2
    <2> QED BY <1>1, <1>2, <2>2 DEF AllRead
  <1>5. NotBoundYet'
    BY <1>1 DEF CompleteInv, NotBoundYet
  <1>6. (InFileOrder /\ ValuesRead /\ KeysLinked)'
    BY <1>1, <1>3, TokenStays
  <1>7. cursor'.at = 0
    BY <1>2
  <1>8. NoneIsLost'
    BY <1>1, <1>3, <1>7, ReadingLosesNone
  <1> QED BY <1>4, <1>5, <1>6, <1>8 DEF CompleteInv

LEMMA SkipEntryCompletes ==
    ASSUME CompleteInv, IInv', SkipEntry
    PROVE  CompleteInv'
  <1>1. /\ phase \in Classes /\ cursor.at < cursor.upTo /\ UNCHANGED <<card, tok, phase, pending, faulted>>
        /\ ~card[phase][cursor.at + 1].parses \/ Full
    BY DEF SkipEntry, Parsing, Current
  <1>2. IInv /\ HandlesArePositions
    BY DEF CompleteInv, IInv
  <1>3. cursor' = [cursor EXCEPT !.at = cursor.at + 1]
    BY DEF SkipEntry, Skipped
  <1>4. cursor'.at = cursor.at + 1 /\ cursor'.upTo = cursor.upTo /\ cursor'.open = cursor.open
    BY <1>2, <1>3 DEF HandlesArePositions, TypeOK
  <1>5. AllRead' /\ NotBoundYet'
    BY <1>1, <1>4 DEF CompleteInv, AllRead, NotBoundYet
  <1>6. (InFileOrder /\ ValuesRead /\ KeysLinked)'
    BY <1>1, TokenStays
  <1>7. cursor.at \in Nat /\ Seen[phase] \in Nat /\ Seen[phase] <= cursor.at
    BY <1>1, <1>2, SeenArePassed
  <1>8. ASSUME NEW k \in 1 .. cursor'.at, k \notin 1 .. cursor.at, card[phase][k].parses
        PROVE  Dropped(phase, k)
    <2>1. k = cursor.at + 1 /\ k \in Nat /\ Seen[phase] < k
      BY <1>4, <1>7, <1>8
    <2>2. Len(tok.objs) + Len(pending) = MaxObjs
      <3>1. Len(tok.objs) + Len(pending) >= MaxObjs
        BY <1>1, <1>8, <2>1 DEF Full
      <3>2. Len(tok.objs) + Len(pending) <= MaxObjs
        BY <1>2 DEF HandlesArePositions
      <3>3. Len(tok.objs) \in Nat /\ Len(pending) \in Nat
        BY <1>2, Places
      <3> QED BY <3>1, <3>2, <3>3, MaxObjsAssumption
    <2>3. \A i \in 1 .. Len(tok.objs) : IsBefore(tok.objs[i], phase, k)
      BY <1>1, <1>2, <2>1, ObjectsAreBehind
    <2>4. \A i \in 1 .. Len(pending) : pending[i] < k
      BY <1>2, <1>7, <2>1, Places
    <2> QED BY <2>2, <2>3, <2>4 DEF Dropped
  <1>9. NoneIsLost'
    BY <1>1, <1>8, ReadingLosesNone
  <1> QED BY <1>5, <1>6, <1>9 DEF CompleteInv

LEMMA AddPrivateKeyCompletes ==
    ASSUME CompleteInv, IInv', AddPrivateKey
    PROVE  CompleteInv'
  <1> DEFINE o == NewObject(Current, phase, "none", NoKey)
             h == cursor.at + 1
             n == Len(tok.objs)
  <1>1. /\ phase = "PrivKey" /\ phase \in Classes /\ Parsing /\ ~Full
        /\ UNCHANGED <<card, phase, pending, faulted>>
    BY DEF AddPrivateKey, Parsing
  <1>2. IInv /\ HandlesArePositions /\ TypeOK
    BY DEF CompleteInv, IInv, HandlesArePositions
  <1>3. /\ tok'.objs = Append(tok.objs, o) /\ tok'.bound = tok.bound
        /\ cursor'.at = h /\ cursor'.upTo = cursor.upTo /\ cursor'.open = cursor.open
    BY <1>2 DEF AddPrivateKey, TypeOK
  <1>4. Current \in Entry /\ h \in 1 .. Len(card[phase])
    BY <1>1, <1>2, CurrentIsEntry
  <1>5. o \in Object /\ o.class = phase /\ o.label = card[phase][h].label
    BY <1>1, <1>2, <1>4, Places DEF NewObject, Object, Entry, NextHandle, Current
  <1>6. cursor.at \in Nat /\ Seen[phase] \in Nat /\ Seen[phase] <= cursor.at
    BY <1>1, <1>2, SeenArePassed
  <1> HIDE DEF o
  <1>7. /\ (InFileOrder /\ ValuesRead /\ KeysLinked)'
        /\ Len(tok'.objs) = n + 1 /\ tok'.objs[n + 1] = o
        /\ \A i \in 1 .. n : tok'.objs[i] = tok.objs[i]
    BY <1>1, <1>3, <1>4, <1>5, <1>6, TokenGrows, SMTT(30)
  <1>8. NotBoundYet' /\ AllRead'
    BY <1>1, <1>3 DEF CompleteInv, NotBoundYet, AllRead
  <1>9. n \in Nat /\ Len(pending) \in Nat
    BY <1>2, Places
  <1>10. ASSUME Undisturbed', NEW class \in Classes, NEW k \in 1 .. Passed'[class],
                card[class][k].parses
         PROVE  KeptAfter(class, k)
    <2>1. ~faulted
      BY <1>1, <1>10 DEF Undisturbed
    <2>2. CASE k \in 1 .. Passed[class]
      <3>1. ~Dropped(class, k)
        BY <1>1, <1>9, MaxObjsAssumption DEF Full, Dropped
      <3>2. Kept(class, k)
        BY <1>1, <1>10, <2>1, <2>2, <3>1, NoneLostSoFar
      <3>3. \A i \in 1 .. n : i \in 1 .. n + 1
        BY <1>9
      <3> QED BY <1>1, <1>7, <3>2, <3>3 DEF Kept, KeptAfter
    <2>3. CASE k \notin 1 .. Passed[class]
      <3>1. class = phase /\ k = h
        BY <1>1, <1>3, <1>6, <1>10, <2>3, PassedOn
      <3>2. IsOf(o, class, k)
        BY <1>5, <3>1 DEF IsOf
      <3>3. n + 1 \in 1 .. n + 1
        BY <1>9
      <3> QED BY <1>7, <3>2, <3>3 DEF KeptAfter
    <2> QED BY <2>2, <2>3
  <1>11. NoneIsLost'
    BY <1>1, <1>10, NoneIsLostNext
  <1> QED BY <1>7, <1>8, <1>11 DEF CompleteInv

LEMMA AddPendingCompletes ==
    ASSUME CompleteInv, IInv', AddPending
    PROVE  CompleteInv'
  <1> DEFINE h == cursor.at + 1
             m == Len(pending)
  <1>1. /\ phase \in Classes /\ ~Full /\ UNCHANGED <<card, tok, phase, faulted>>
        /\ pending' = Append(pending, h)
    BY DEF AddPending, Parsing
  <1>2. IInv /\ HandlesArePositions /\ TypeOK
    BY DEF CompleteInv, IInv, HandlesArePositions
  <1>3. cursor'.at = h /\ cursor'.upTo = cursor.upTo /\ cursor'.open = cursor.open
    BY <1>2 DEF AddPending, TypeOK
  <1>4. /\ Len(tok.objs) \in Nat /\ m \in Nat /\ pending \in Seq(Nat) /\ cursor.at \in Nat
    BY <1>2, Places
  <1>5. Len(pending') = m + 1 /\ pending'[m + 1] = h /\ \A i \in 1 .. m : pending'[i] = pending[i]
    BY <1>1, <1>4
  <1>6. (InFileOrder /\ ValuesRead /\ KeysLinked)'
    BY <1>1, TokenStays
  <1>7. NotBoundYet' /\ AllRead'
    BY <1>1, <1>3 DEF CompleteInv, NotBoundYet, AllRead
  <1>8. ASSUME Undisturbed', NEW class \in Classes, NEW k \in 1 .. Passed'[class],
               card[class][k].parses
        PROVE  KeptAfter(class, k)
    <2>1. ~faulted
      BY <1>1, <1>8 DEF Undisturbed
    <2>2. CASE k \in 1 .. Passed[class]
      <3>1. ~Dropped(class, k)
        BY <1>1, <1>4, MaxObjsAssumption DEF Full, Dropped
      <3>2. Kept(class, k)
        BY <1>1, <1>8, <2>1, <2>2, <3>1, NoneLostSoFar
      <3>3. \A i \in 1 .. m : i \in 1 .. m + 1
        BY <1>4
      <3> QED BY <1>1, <1>5, <3>2, <3>3 DEF Kept, KeptAfter
    <2>3. CASE k \notin 1 .. Passed[class]
      <3>1. class = phase /\ k = h
        BY <1>1, <1>3, <1>4, <1>8, <2>3, PassedOn
      <3>2. m + 1 \in 1 .. m + 1
        BY <1>4
      <3> QED BY <1>1, <1>5, <3>1, <3>2 DEF KeptAfter
    <2> QED BY <2>2, <2>3
  <1>9. NoneIsLost'
    BY <1>1, <1>8, NoneIsLostNext
  <1> QED BY <1>6, <1>7, <1>9 DEF CompleteInv

LEMMA FetchValueCompletes ==
    ASSUME CompleteInv, IInv', NEW fault \in Faults, FetchValue(fault)
    PROVE  CompleteInv'
  <1> DEFINE n == Len(tok.objs)
             m == Len(pending)
             h == pending[1]
             e == card[phase][h]
  <1>1. /\ phase \in Classes /\ pending # <<>> /\ pending' = Tail(pending)
        /\ UNCHANGED <<card, phase, cursor>>
        /\ faulted' = (faulted \/ fault) /\ fault \in BOOLEAN
    BY FaultsAssumption DEF FetchValue
  <1>2. IInv /\ HandlesArePositions /\ TypeOK
    BY DEF CompleteInv, IInv, HandlesArePositions
  <1>3. m \in Nat /\ m >= 1 /\ n \in Nat /\ pending \in Seq(Nat) /\ Head(pending) = h
        /\ cursor.at \in Nat /\ Len(pending') = m - 1
        /\ \A i \in 1 .. m - 1 : pending'[i] = pending[i + 1]
    BY <1>1, <1>2, Places
  <1>4. h \in 1 .. Len(card[phase]) /\ h \in Nat /\ Seen[phase] < h
    <2>1. Seen[phase] = h - 1
      BY <1>1, <1>3, SeenNow DEF SeenOfFile
    <2>2. 1 \in 1 .. m
      BY <1>3
    <2>3. h \in Nat /\ 1 <= h /\ h <= cursor.at /\ cursor.at <= Len(card[phase])
          /\ Len(card[phase]) \in Nat
      BY <1>1, <1>2, <2>2, Places
    <2> QED BY <1>3, <2>1, <2>3
  <1>5. e \in Entry /\ e.stored \in BOOLEAN
    <2>1. e \in Entry
      BY <1>1, <1>2, <1>4, CardFacts, Places
    <2> HIDE DEF e
    <2> QED BY <2>1 DEF Entry
  <1>6. PICK v \in Values(e, fault) :
            tok' = [tok EXCEPT !.objs = Append(@, NewObject(e, phase, v[1], v[2]))]
    BY <1>3 DEF FetchValue
  <1>7. v[1] \in {"none", "cut", "whole"} /\ v[2] \in {NoKey, e.key}
    BY <1>1, <1>5, <1>6 DEF Values
  <1>8. ~fault /\ e.stored /\ phase \in {"PubKey", "Cert"} => v[2] = e.key
    BY <1>1, <1>5, <1>6 DEF Values
  <1> DEFINE o == NewObject(e, phase, v[1], v[2])
  <1>9. o \in Object /\ o.class = phase /\ o.label = e.label /\ o.key = v[2]
    BY <1>1, <1>2, <1>5, <1>7, Places DEF NewObject, Object, Entry, NextHandle
  <1>10. tok'.objs = Append(tok.objs, o) /\ tok'.bound = tok.bound
    BY <1>2, <1>6 DEF TypeOK
  <1> HIDE DEF o
  <1>11. ~faulted' => ~faulted /\ ~fault
    BY <1>1
  <1>12. /\ (InFileOrder /\ ValuesRead /\ KeysLinked)'
         /\ Len(tok'.objs) = n + 1 /\ tok'.objs[n + 1] = o
         /\ \A i \in 1 .. n : tok'.objs[i] = tok.objs[i]
    BY <1>1, <1>4, <1>8, <1>9, <1>10, <1>11, TokenGrows
  <1>13. NotBoundYet' /\ AllRead'
    BY <1>1, <1>10, <1>11 DEF CompleteInv, NotBoundYet, AllRead
  <1>14. IsOf(o, phase, h)
    BY <1>9 DEF IsOf
  <1>15. ASSUME NEW class \in Classes, NEW k \in Nat, Kept(class, k)
         PROVE  KeptAfter(class, k)
    <2>1. CASE \E i \in 1 .. n : IsOf(tok.objs[i], class, k)
      <3>1. \A i \in 1 .. n : i \in 1 .. n + 1
        BY <1>3
      <3> QED BY <1>12, <2>1, <3>1 DEF KeptAfter
    <2>2. CASE class = phase /\ \E i \in 1 .. m : pending[i] = k
      <3>1. PICK i \in 1 .. m : pending[i] = k
        BY <2>2
      <3>2. CASE i = 1
        <4>1. n + 1 \in 1 .. n + 1 /\ IsOf(o, class, k)
          BY <1>3, <1>14, <2>2, <3>1, <3>2
        <4> QED BY <1>12, <4>1 DEF KeptAfter
      <3>3. CASE i # 1
        <4>1. i - 1 \in 1 .. m - 1 /\ (i - 1) + 1 = i
          BY <1>3, <3>3
        <4>2. pending'[i - 1] = k
          BY <1>3, <3>1, <4>1
        <4> QED BY <1>1, <1>3, <2>2, <4>1, <4>2 DEF KeptAfter
      <3> QED BY <3>2, <3>3
    <2> QED BY <1>15, <2>1, <2>2 DEF Kept
  <1>16. ASSUME NEW class \in Classes, NEW k \in Nat, Dropped(class, k)
         PROVE  DroppedAfter(class, k)
    <2>1. n + m = MaxObjs /\ (\A i \in 1 .. n : IsBefore(tok.objs[i], class, k))
          /\ \A i \in 1 .. m : class = phase /\ pending[i] < k
      BY <1>16 DEF Dropped
    <2>2. 1 \in 1 .. m
      BY <1>3
    <2>3. IsBefore(o, class, k)
      <3>1. class = phase /\ h < k
        BY <2>1, <2>2
      <3>2. h \in 1 .. k - 1
        BY <1>4, <3>1
      <3> QED BY <1>14, <3>1, <3>2 DEF IsBefore
    <2>4. ASSUME NEW i \in 1 .. n + 1 PROVE IsBefore(tok'.objs[i], class, k)
      <3>1. CASE i \in 1 .. n
        BY <1>12, <2>1, <3>1
      <3>2. CASE i = n + 1
        BY <1>12, <2>3, <3>2
      <3> QED BY <1>3, <3>1, <3>2, SMTT(30)
    <2>5. ASSUME NEW i \in 1 .. m - 1 PROVE class = phase /\ pending'[i] < k
      <3>1. i + 1 \in 1 .. m
        BY <1>3
      <3> QED BY <1>3, <2>1, <3>1
    <2>6. (n + 1) + (m - 1) = MaxObjs
      BY <1>3, <2>1
    <2> QED BY <1>1, <1>3, <1>12, <2>4, <2>5, <2>6 DEF DroppedAfter
  <1>17. ASSUME Undisturbed', NEW class \in Classes, NEW k \in 1 .. Passed'[class],
                card[class][k].parses
         PROVE  KeptAfter(class, k) \/ DroppedAfter(class, k)
    <2>1. ~faulted
      BY <1>11, <1>17 DEF Undisturbed
    <2>2. k \in 1 .. Passed[class] /\ k \in Nat
      BY <1>1, <1>17, PassedOn
    <2> QED BY <1>1, <1>15, <1>16, <1>17, <2>1, <2>2, NoneLostSoFar
  <1>18. NoneIsLost'
    BY <1>1, <1>17, NoneIsLostNext
  <1> QED BY <1>12, <1>13, <1>18 DEF CompleteInv

LEMMA NextFileCompletes ==
    ASSUME CompleteInv, IInv', NextFile
    PROVE  CompleteInv'
  <1>1. /\ phase \in Classes /\ cursor.open /\ cursor.at = cursor.upTo /\ pending = <<>>
        /\ phase' = Following[phase] /\ cursor' = Unread /\ UNCHANGED <<card, tok, pending, faulted>>
    BY DEF NextFile, FileDone
  <1>2. IInv /\ HandlesArePositions /\ cursor'.open = FALSE /\ cursor'.at = 0
    BY <1>1 DEF CompleteInv, IInv, Unread
  <1>3. (InFileOrder /\ ValuesRead /\ KeysLinked)'
    BY <1>1, TokenStays
  <1>4. phase' \in {"PubKey", "Cert", "Data", "link"}
    BY <1>1 DEF Following, Classes
  <1>5. NotBoundYet' /\ AllRead'
    BY <1>1, <1>2, PhaseNames DEF CompleteInv, NotBoundYet, AllRead
  <1>6. Len(pending) = 0
    BY <1>1
  <1>7. ASSUME Undisturbed', NEW class \in Classes, NEW k \in 1 .. Passed'[class],
               card[class][k].parses
        PROVE  KeptAfter(class, k) \/ DroppedAfter(class, k)
    <2>1. ~faulted
      BY <1>1, <1>7 DEF Undisturbed
    <2>2. k \in 1 .. Passed[class]
      <3>1. CASE Done(class)
        <4>1. Done(class)'
          BY <1>1, <3>1 DEF Done, Following, Classes
        <4>2. Passed'[class] = Len(card[class]) /\ Passed[class] = Len(card[class])
          BY <1>1, <3>1, <4>1 DEF Passed
        <4> QED BY <1>7, <4>2
      <3>2. CASE class = phase
        <4>1. Done(class)'
          BY <1>1, <3>2 DEF Done, Following, Classes
        <4>2. Passed'[class] = Len(card[class])
          BY <1>1, <4>1 DEF Passed
        <4>3. Passed[class] = cursor.at
          BY <1>1, <3>2, NotDoneYet DEF Passed
        <4>4. cursor.at = Len(card[class])
          BY <1>1, <2>1, <3>2 DEF CompleteInv, AllRead
        <4> QED BY <1>7, <4>2, <4>3, <4>4
      <3>3. CASE ~Done(class) /\ class # phase
        <4>1. ~Done(class)'
          BY <1>1, <3>3 DEF Done, Following, Classes
        <4>2. Passed'[class] = 0
          BY <1>2, <4>1 DEF Passed
        <4> QED BY <1>7, <4>2
      <3> QED BY <3>1, <3>2, <3>3
    <2>3. Kept(class, k) \/ Dropped(class, k)
      BY <1>1, <1>7, <2>1, <2>2, NoneLostSoFar
    <2>4. CASE Kept(class, k)
      BY <1>1, <1>6, <2>4 DEF Kept, KeptAfter
    <2>5. CASE Dropped(class, k)
      BY <1>1, <1>6, <2>5 DEF Dropped, DroppedAfter
    <2> QED BY <2>3, <2>4, <2>5
  <1>8. NoneIsLost'
    BY <1>1, <1>7, NoneIsLostNext
  <1> QED BY <1>3, <1>5, <1>8 DEF CompleteInv

\* Where an object belongs depends on its class and label.
LEMMA SameEntry ==
    ASSUME NEW o, NEW p, o.class = p.class, o.label = p.label, NEW class, NEW k
    PROVE  /\ IsOf(o, class, k) <=> IsOf(p, class, k)
           /\ IsBefore(o, class, k) <=> IsBefore(p, class, k)
  <1>1. \A m : IsOf(o, class, m) <=> IsOf(p, class, m)
    BY DEF IsOf
  <1> QED BY <1>1 DEF IsBefore

\* A private key with a source gets a key.
LEMMA SourceGivesKey ==
    ASSUME TypeOK, NEW i \in DOMAIN tok.objs, tok.objs[i].class = "PrivKey",
           Sources(tok.objs[i]) # {}
    PROVE  Linked(tok.objs[i]).key # NoKey
  <1> DEFINE o == tok.objs[i]
  <1>1. CASE o.key # NoKey
    BY <1>1 DEF Linked
  <1>2. CASE o.key = NoKey
    <2> DEFINE first == CHOOSE j \in Sources(o) : \A k \in Sources(o) : j <= k
    <2>1. Sources(o) \subseteq Nat
      BY DEF Sources, TypeOK
    <2>2. \E j \in Sources(o) : \A k \in Sources(o) : j <= k
      BY <2>1, SmallestExists
    <2>3. first \in Sources(o)
      BY <2>2
    <2>4. Linked(o) = [o EXCEPT !.key = tok.objs[first].key]
      BY <1>2 DEF Linked
    <2> HIDE DEF first
    <2>5. tok.objs[first].key # NoKey
      BY <2>3 DEF Sources
    <2>6. o \in Object
      BY DEF TypeOK
    <2>7. Linked(o).key = tok.objs[first].key
      BY <2>4, <2>6 DEF Object
    <2> QED BY <2>5, <2>7
  <1> QED BY <1>1, <1>2

\* link_key_material finds the key a listed public key or certificate has.
LEMMA LinkedKeyIsFound ==
    ASSUME CompleteInv, phase = "link", ~faulted, NEW i \in 1 .. Len(tok.objs),
           NEW k \in 1 .. Len(card["PrivKey"]), IsOf(tok.objs[i], "PrivKey", k), KeyKnown(k)
    PROVE  Linked(tok.objs[i]).key = card["PrivKey"][k].key
  <1> DEFINE o == tok.objs[i]
             e == card["PrivKey"][k]
             l == Linked(o)
  <1>1. IInv /\ HandlesArePositions /\ TypeOK /\ ValuesRead
    BY DEF CompleteInv, IInv, HandlesArePositions
  <1>2. DOMAIN tok.objs = 1 .. Len(tok.objs) /\ "PrivKey" \in Classes
    BY <1>1, Places DEF Classes
  <1>3. o.class = "PrivKey" /\ o.label = e.label
    BY DEF IsOf
  <1>4. o.id = e.id
    <2>1. PICK m \in 1 .. Len(card["PrivKey"]) :
              /\ IsOf(o, "PrivKey", m) /\ card["PrivKey"][m].id = o.id
      BY <1>1, <1>3, OriginOf, SMTT(30)
    <2>2. m = k
      BY <1>1, <1>2, <1>3, <2>1, LabelsDiffer DEF IsOf
    <2> QED BY <2>1, <2>2
  <1>5. PICK j \in 1 .. Len(tok.objs) :
            /\ tok.objs[j].class \in {"PubKey", "Cert"}
            /\ \E m \in DOMAIN card[tok.objs[j].class] :
                  LET f == card[tok.objs[j].class][m]
                  IN /\ IsOf(tok.objs[j], tok.objs[j].class, m)
                     /\ f.id = e.id /\ f.stored /\ f.key # NoKey
    BY <1>2 DEF KeyKnown
  <1> DEFINE p == tok.objs[j]
  <1>6. p.class \in Classes /\ DOMAIN card[p.class] = 1 .. Len(card[p.class])
    <2>1. p.class \in Classes /\ card \in Cards
      BY <1>1, <1>5, Places DEF Classes
    <2> HIDE DEF p
    <2> QED BY <2>1, CardFacts
  <1>7. PICK m \in 1 .. Len(card[p.class]) :
            /\ IsOf(p, p.class, m) /\ card[p.class][m].id = e.id /\ card[p.class][m].stored
            /\ card[p.class][m].key # NoKey
    BY <1>5, <1>6
  <1>8. p.key # NoKey
    BY <1>1, <1>5, <1>7 DEF ValuesRead, ValuesFit
  <1>9. p.id = e.id
    <2>1. PICK q \in 1 .. Len(card[p.class]) :
              /\ IsOf(p, p.class, q) /\ card[p.class][q].id = p.id
      BY <1>1, OriginOf
    <2>2. q = m
      BY <1>1, <1>6, <1>7, <2>1, LabelsDiffer DEF IsOf
    <2> QED BY <1>7, <2>1, <2>2
  <1>10. j \in Sources(o)
    BY <1>2, <1>4, <1>5, <1>8, <1>9 DEF Sources, KeyKnown
  <1>11. l.key # NoKey
    BY <1>1, <1>2, <1>3, <1>10, SourceGivesKey
  <1>12. l.class = "PrivKey" /\ l.label = e.label
    BY <1>1, <1>2, <1>3, LinkedFacts
  <1>13. FromCard(l, card, Seen)
    BY <1>1, LinkedKeyIsOwn
  <1>14. Seen["PrivKey"] = Len(card["PrivKey"])
    BY <1>2 DEF Seen, Done
  <1> HIDE DEF l
  <1>15. PICK q \in 1 .. Len(card["PrivKey"]) :
             /\ l.label = card["PrivKey"][q].label
             /\ l.key \in {NoKey, card["PrivKey"][q].key}
    BY <1>12, <1>13, <1>14 DEF FromCard
  <1>16. q = k
    BY <1>1, <1>2, <1>12, <1>15, LabelsDiffer
  <1> QED BY <1>11, <1>15, <1>16 DEF l

LEMMA LinkCompletes ==
    ASSUME CompleteInv, IInv', Link
    PROVE  CompleteInv'
  <1> DEFINE n == Len(tok.objs)
  <1>1. /\ phase = "link" /\ phase' = "idle" /\ UNCHANGED <<card, cursor, pending, faulted>>
        /\ tok' = [bound |-> TRUE, objs |-> [i \in DOMAIN tok.objs |-> Linked(tok.objs[i])]]
    BY DEF Link
  <1>2. IInv /\ HandlesArePositions /\ TypeOK /\ InFileOrder /\ ValuesRead
    BY DEF CompleteInv, IInv, HandlesArePositions
  <1>3. n \in Nat /\ DOMAIN tok.objs = 1 .. n
    BY <1>2, Places
  <1>4. tok'.bound = TRUE /\ tok'.objs = [i \in 1 .. n |-> Linked(tok.objs[i])]
    BY <1>1, <1>3
  <1>5. Len(tok'.objs) = n /\ DOMAIN tok'.objs = 1 .. n
        /\ \A i \in 1 .. n : tok'.objs[i] = Linked(tok.objs[i])
    BY <1>3, <1>4
  <1>6. \A i \in 1 .. n : /\ tok'.objs[i].class = tok.objs[i].class
                          /\ tok'.objs[i].label = tok.objs[i].label
                          /\ \/ tok'.objs[i].key = tok.objs[i].key
                             \/ tok.objs[i].class = "PrivKey"
    BY <1>2, <1>3, <1>5, LinkedFacts
  <1>7. \A i \in 1 .. n : \A class, k :
            /\ IsOf(tok'.objs[i], class, k) <=> IsOf(tok.objs[i], class, k)
            /\ IsBefore(tok'.objs[i], class, k) <=> IsBefore(tok.objs[i], class, k)
    BY <1>6, SameEntry
  <1>8. pending = <<>> /\ Len(pending) = 0
    BY <1>1, <1>2, NoPending, PhaseNames
  <1>9. InFileOrder'
    <2>1. ASSUME NEW j \in 1 .. n, NEW k \in 1 .. Len(card[tok'.objs[j].class]),
                 IsOf(tok'.objs[j], tok'.objs[j].class, k), NEW i \in 1 .. j - 1
          PROVE  IsBefore(tok'.objs[i], tok'.objs[j].class, k)
      <3>1. i \in 1 .. n
        BY <1>3
      <3>2. IsBefore(tok.objs[i], tok.objs[j].class, k)
        BY <1>2, <1>6, <1>7, <2>1 DEF InFileOrder, InOrder
      <3> QED BY <1>6, <1>7, <3>1, <3>2
    <2> HIDE DEF n
    <2>2. InOrder(tok'.objs)
      BY <1>1, <1>5, <2>1 DEF InOrder
    <2> QED BY <1>1, <1>5, <2>2, InFileOrderNext
  <1>10. ValuesRead'
    <2>1. CASE faulted'
      BY <2>1 DEF ValuesRead
    <2>2. ASSUME ~faulted', NEW j \in 1 .. n, tok'.objs[j].class \in {"PubKey", "Cert"},
                 NEW k \in 1 .. Len(card[tok'.objs[j].class]),
                 IsOf(tok'.objs[j], tok'.objs[j].class, k), card[tok'.objs[j].class][k].stored
          PROVE  tok'.objs[j].key = card[tok'.objs[j].class][k].key
      <3>1. tok'.objs[j].key = tok.objs[j].key /\ tok'.objs[j].class = tok.objs[j].class
        BY <1>6, <2>2
      <3>2. IsOf(tok.objs[j], tok.objs[j].class, k)
        BY <1>7, <2>2, <3>1
      <3> QED BY <1>1, <1>2, <2>2, <3>1, <3>2, ZenonT(60) DEF ValuesRead, ValuesFit
    <2>3. card' = card /\ Len(tok'.objs) = n
      BY <1>1, <1>5
    <2> HIDE DEF n
    <2>4. ~faulted' => ValuesFit(tok'.objs)
      BY <2>2, <2>3 DEF ValuesFit
    <2> QED BY <2>1, <2>3, <2>4, ValuesReadNext
  <1>11. KeysLinked'
    <2> SUFFICES ASSUME ~faulted', NEW i \in 1 .. n PROVE HasItsKey(i)'
      BY <1>5 DEF KeysLinked
    <2> SUFFICES ASSUME NEW k \in DOMAIN card["PrivKey"], IsOf(tok'.objs[i], "PrivKey", k),
                        KeyKnown(k)'
                 PROVE  tok'.objs[i].key = card["PrivKey"][k].key
      BY <1>1 DEF HasItsKey, IsOf
    <2>1. KeyKnown(k)
      BY <1>1, <1>3, <1>5, <1>6, KeyKnownStays
    <2>2. k \in 1 .. Len(card["PrivKey"])
      BY <1>2, CardFacts, Places DEF Classes
    <2>3. IsOf(tok.objs[i], "PrivKey", k)
      BY <1>7
    <2>4. ~faulted
      BY <1>1
    <2> QED BY <1>1, <1>5, <2>1, <2>2, <2>3, <2>4, LinkedKeyIsFound
  <1>12. ASSUME Undisturbed', NEW class \in Classes, NEW k \in 1 .. Passed'[class],
                card[class][k].parses
         PROVE  KeptAfter(class, k) \/ DroppedAfter(class, k)
    <2>1. ~faulted
      BY <1>1, <1>12 DEF Undisturbed
    <2>2. Passed'[class] = Len(card[class]) /\ Passed[class] = Len(card[class])
      BY <1>1 DEF Passed, Done
    <2>3. Kept(class, k) \/ Dropped(class, k)
      BY <1>1, <1>12, <2>1, <2>2 DEF CompleteInv, NoneIsLost, Undisturbed
    <2>4. CASE Kept(class, k)
      <3>1. PICK i \in 1 .. n : IsOf(tok.objs[i], class, k)
        BY <1>8, <2>4 DEF Kept
      <3>2. IsOf(tok'.objs[i], class, k)
        BY <1>7, <3>1
      <3> QED BY <1>5, <3>1, <3>2 DEF KeptAfter
    <2>5. CASE Dropped(class, k)
      <3>1. n + Len(pending) = MaxObjs /\ \A i \in 1 .. n : IsBefore(tok.objs[i], class, k)
        BY <2>5 DEF Dropped
      <3>2. \A i \in 1 .. n : IsBefore(tok'.objs[i], class, k)
        BY <1>7, <3>1
      <3>3. pending' = pending /\ Len(pending') = 0 /\ Len(tok'.objs) + Len(pending') = MaxObjs
        BY <1>1, <1>5, <1>8, <3>1
      <3> QED BY <1>5, <3>2, <3>3 DEF DroppedAfter
    <2> QED BY <2>3, <2>4, <2>5
  <1>13. NoneIsLost'
    BY <1>1, <1>12, NoneIsLostNext
  <1>14. NotBoundYet' /\ AllRead'
    BY <1>1, PhaseNames DEF NotBoundYet, AllRead
  <1> QED BY <1>9, <1>10, <1>11, <1>13, <1>14 DEF CompleteInv

LEMMA CompleteStep == CompleteInv /\ [Next]_vars => CompleteInv'
  <1> SUFFICES ASSUME CompleteInv, [Next]_vars PROVE CompleteInv'
    OBVIOUS
  <1>1. IInv'
    BY ObjectsStep DEF CompleteInv
  <1>2. CASE UNCHANGED vars
    <2>1. UNCHANGED <<card, tok, phase, cursor, pending, faulted>>
      BY <1>2 DEF vars
    <2>2. (InFileOrder /\ ValuesRead /\ KeysLinked)'
      BY <2>1, TokenStays
    <2>3. NotBoundYet' /\ AllRead'
      BY <2>1 DEF CompleteInv, NotBoundYet, AllRead
    <2>4. ASSUME Undisturbed', NEW class \in Classes, NEW k \in 1 .. Passed'[class],
                 card[class][k].parses
          PROVE  KeptAfter(class, k) \/ DroppedAfter(class, k)
      <3>1. Undisturbed
        BY <2>1, <2>4 DEF Undisturbed
      <3>2. Passed'[class] = Passed[class]
        BY <2>1 DEF Passed, Done
      <3>3. Kept(class, k) \/ Dropped(class, k)
        BY <2>4, <3>1, <3>2 DEF CompleteInv, NoneIsLost
      <3> QED BY <2>1, <3>3 DEF Kept, KeptAfter, Dropped, DroppedAfter
    <2>5. NoneIsLost'
      BY <2>1, <2>4, NoneIsLostNext
    <2> QED BY <1>1, <2>2, <2>3, <2>5 DEF CompleteInv
  <1>3. ASSUME NEW c \in Cards, Begin(c) PROVE CompleteInv'
    BY <1>1, <1>3, BeginCompletes
  <1>4. ASSUME NEW fault \in Faults, Detect(fault) \/ ReadFile(fault) \/ FetchValue(fault)
        PROVE  CompleteInv'
    BY <1>1, <1>4, DetectCompletes, ReadFileCompletes, FetchValueCompletes
  <1> QED BY <1>1, <1>2, <1>3, <1>4, SkipEntryCompletes, AddPrivateKeyCompletes,
             AddPendingCompletes, NextFileCompletes, LinkCompletes DEF Next

LEMMA CompleteInit == Init => CompleteInv
  <1> SUFFICES ASSUME Init PROVE CompleteInv
    OBVIOUS
  <1>1. tok = [bound |-> FALSE, objs |-> <<>>] /\ phase = "idle"
    BY DEF Init, NoToken
  <1>2. tok.bound = FALSE /\ tok.objs = <<>> /\ Len(tok.objs) = 0
    BY <1>1
  <1>3. NotBoundYet /\ AllRead /\ KeysLinked /\ NoneIsLost
    BY <1>1, <1>2, PhaseNames DEF NotBoundYet, AllRead, KeysLinked, NoneIsLost, Undisturbed
  <1>4. InFileOrder /\ ValuesRead
    BY <1>2 DEF InFileOrder, InOrder, ValuesRead, ValuesFit
  <1> QED BY <1>3, <1>4, ObjectsInit DEF CompleteInv

LEMMA CompleteSafe == CompleteInv => UndisturbedBindIsComplete
  <1> SUFFICES ASSUME CompleteInv, tok.bound, ~faulted
               PROVE  /\ \A class \in Classes : \A k \in DOMAIN card[class] :
                            card[class][k].parses => ListedOrBeyond(class, k)
                      /\ \A i \in DOMAIN tok.objs : ListedInOrder(i) /\ HasItsKey(i)
    BY DEF UndisturbedBindIsComplete
  <1>1. IInv /\ HandlesArePositions /\ phase = "idle" /\ Undisturbed /\ InFileOrder
    BY DEF CompleteInv, IInv, NotBoundYet, Undisturbed
  <1>2. DOMAIN tok.objs = 1 .. Len(tok.objs) /\ Len(tok.objs) \in Nat
    BY <1>1, Places
  <1>3. Len(pending) = 0
    BY <1>1, NoPending, PhaseNames
  <1>4. ASSUME NEW class \in Classes, NEW k \in DOMAIN card[class], card[class][k].parses
        PROVE  ListedOrBeyond(class, k)
    <2>1. k \in 1 .. Passed[class]
      BY <1>1, CardFacts, Places DEF Passed, Done
    <2>2. Kept(class, k) \/ Dropped(class, k)
      BY <1>1, <1>4, <2>1 DEF CompleteInv, NoneIsLost
    <2> QED BY <1>2, <1>3, <2>2 DEF Kept, Dropped, ListedOrBeyond
  <1>5. ASSUME NEW i \in DOMAIN tok.objs
        PROVE  ListedInOrder(i) /\ HasItsKey(i)
    <2>1. HasItsKey(i)
      BY <1>2 DEF CompleteInv, KeysLinked
    <2>2. PICK k \in 1 .. Len(card[tok.objs[i].class]) :
              card[tok.objs[i].class][k].parses /\ IsOf(tok.objs[i], tok.objs[i].class, k)
      BY <1>1, <1>2, OriginOf
    <2>3. k \in DOMAIN card[tok.objs[i].class]
      BY <1>1, <1>2, <2>2, OriginOf, CardFacts, Places, SMTT(30)
    <2>4. \A j \in 1 .. i - 1 : IsBefore(tok.objs[j], tok.objs[i].class, k)
      BY <1>1, <1>2, <2>2 DEF InFileOrder, InOrder
    <2> QED BY <2>1, <2>2, <2>3, <2>4 DEF ListedInOrder
  <1> QED BY <1>4, <1>5

\* A bind that nothing disturbs lists every well-formed entry of the card in the
\* order of the files, up to MAX_OBJS, and gives every private key the public
\* material a listed public key or certificate has for it (bind,
\* for_each_record, link_key_material).
THEOREM BindsAreComplete == Spec => []UndisturbedBindIsComplete
  BY CompleteInit, CompleteStep, CompleteSafe, PTL DEF Spec

=============================================================================
