--------------------------- MODULE ObjectsProofs ---------------------------
(***************************************************************************)
(* What a search delivers and to whom, for every token, set of sessions    *)
(* and set of templates; and what C_GetAttributeValue tells of an object,  *)
(* for every token, template and buffer sizes.                             *)
(***************************************************************************)
EXTENDS Objects, Attributes, SequenceTheorems, TLAPS

\* A list is a sequence of handles.
LEMMA ListsAreSequences ==
    ASSUME NEW found \in Lists
    PROVE  found \in Seq(Handles) /\ Len(found) \in Nat /\ Len(found) <= MaxObjs
  <1>1. PICK n \in 0 .. MaxObjs : found \in [1 .. n -> Handles]
    BY DEF Lists
  <1>2. n \in Nat /\ n <= MaxObjs
    BY <1>1, TokenAssumption
  <1> QED BY <1>1, <1>2

\* A prefix of a sequence and what follows it.
LEMMA Prefixes ==
    ASSUME NEW S, NEW seq \in Seq(S), NEW k \in 0 .. Len(seq), NEW n \in k .. Len(seq)
    PROVE  SubSeq(seq, 1, k) \o SubSeq(seq, k + 1, n) = SubSeq(seq, 1, n)
  <1>1. 1 \in 1 .. Len(seq) + 1 /\ k \in 1 - 1 .. Len(seq)
    OBVIOUS
  <1> QED BY <1>1, ConcatAdjacentSubSeq

\* What C_FindObjects takes off the list is there.
LEMMA TakenIsLeft ==
    ASSUME NEW o \in Session, o.pos <= Len(o.handles), NEW n \in Nat
    PROVE  /\ Taken(o, n) \in Nat /\ o.pos \in Nat /\ Len(o.handles) \in Nat
           /\ o.pos + Taken(o, n) <= Len(o.handles)
  BY DEF Taken, Session

\* A session as C_OpenSession makes it.
LEMMA FreshIsSession == Fresh \in Session /\ Fresh.pos = 0 /\ Len(Fresh.handles) = 0
                        /\ ~Fresh.finding /\ ~Fresh.loggedIn
  <1>1. <<>> \in Seq(Handles)
    OBVIOUS
  <1> QED BY <1>1 DEF Fresh, Session

\* What is said of one session.
SessionOK(o) == o \in Session /\ o.pos <= Len(o.handles) /\ Len(o.handles) <= MaxObjs

\* The list from the start to the position.
Told(o) == SubSeq(o.handles, 1, o.pos)

\* Handing out the next handles.
LEMMA ToldGrows ==
    ASSUME NEW o, SessionOK(o), NEW n \in Nat
    PROVE  Told(o) \o SubSeq(o.handles, o.pos + 1, o.pos + Taken(o, n))
           = SubSeq(o.handles, 1, o.pos + Taken(o, n))
  <1>1. o \in Session /\ o.handles \in Seq(Handles)
    BY DEF SessionOK, Session
  <1>2. Taken(o, n) \in Nat /\ o.pos \in Nat /\ o.pos + Taken(o, n) <= Len(o.handles)
    BY <1>1, TakenIsLeft DEF SessionOK
  <1>3. o.pos \in 0 .. Len(o.handles) /\ o.pos + Taken(o, n) \in o.pos .. Len(o.handles)
    BY <1>1, <1>2
  <1> QED BY <1>1, <1>3, Prefixes DEF Told

-----------------------------------------------------------------------------
(* The invariant, session by session: no action touches two of them. *)

Public(list) == \A i \in DOMAIN list : ~Private(list[i])

\* A session, what its caller got since the search began, whether handles were
\* lost, and whether the session was ever logged in.
Good(o, got, gone, in) ==
    /\ SessionOK(o) /\ got \in Seq(Handles) /\ gone \in BOOLEAN /\ in \in BOOLEAN
    /\ o.finding /\ ~gone => got = Told(o)
    /\ o.open /\ ~in => ~o.loggedIn /\ Public(got) /\ Public(o.handles)

IInv ==
    /\ TypeOK
    /\ \A s \in Sessions : Good(session[s], delivered[s], lost[s], wasIn[s])

\* g is f but for the session s.
Set(f, g, s, v) == g = [f EXCEPT ![s] = v]

\* A step of one session.
LEMMA OneSessionStep ==
    ASSUME IInv, NEW s \in Sessions, NEW o, NEW got, NEW gone, NEW in, Good(o, got, gone, in),
           Set(session, session', s, o), Set(delivered, delivered', s, got),
           Set(lost, lost', s, gone), Set(wasIn, wasIn', s, in)
    PROVE  IInv'
  <1>1. TypeOK
    BY DEF IInv
  <1>2. o \in Session /\ got \in Seq(Handles) /\ gone \in BOOLEAN /\ in \in BOOLEAN
    BY DEF Good, SessionOK
  <1>3. /\ session' \in [Sessions -> Session] /\ delivered' \in [Sessions -> Seq(Handles)]
        /\ lost' \in [Sessions -> BOOLEAN] /\ wasIn' \in [Sessions -> BOOLEAN]
    BY <1>1, <1>2 DEF TypeOK, Set
  <1>4. ASSUME NEW q \in Sessions PROVE Good(session'[q], delivered'[q], lost'[q], wasIn'[q])
    <2>1. CASE q = s
      <3>1. session'[q] = o /\ delivered'[q] = got /\ lost'[q] = gone /\ wasIn'[q] = in
        BY <1>1, <2>1 DEF TypeOK, Set
      <3> QED BY <3>1
    <2>2. CASE q # s
      <3>1. session'[q] = session[q] /\ delivered'[q] = delivered[q]
            /\ lost'[q] = lost[q] /\ wasIn'[q] = wasIn[q]
        BY <1>1, <2>2 DEF TypeOK, Set
      <3> QED BY <3>1 DEF IInv
    <2> QED BY <2>1, <2>2
  <1>5. \A q \in Sessions : session'[q].pos <= Len(session'[q].handles)
                            /\ Len(session'[q].handles) <= MaxObjs
    BY <1>4 DEF Good, SessionOK
  <1> QED BY <1>3, <1>4, <1>5 DEF IInv, TypeOK

\* What has not changed is what it was.
LEMMA Unchanged ==
    ASSUME IInv, NEW s \in Sessions
    PROVE  /\ session[s] \in Session /\ Good(session[s], delivered[s], lost[s], wasIn[s])
           /\ UNCHANGED delivered => Set(delivered, delivered', s, delivered[s])
           /\ UNCHANGED lost => Set(lost, lost', s, lost[s])
           /\ UNCHANGED wasIn => Set(wasIn, wasIn', s, wasIn[s])
  BY DEF IInv, TypeOK, Set

\* C_OpenSession: nothing is left of an earlier session.
LEMMA OpenStep == ASSUME IInv, NEW s \in Sessions, Open(s) PROVE IInv'
  <1>1. <<>> \in Seq(Handles) /\ Public(<<>>) /\ Fresh.handles = <<>>
    BY DEF Public, Fresh
  <1>2. Good(Fresh, <<>>, FALSE, FALSE)
    BY <1>1, FreshIsSession, TokenAssumption DEF Good, SessionOK
  <1> QED BY <1>2, OneSessionStep DEF Open, Set

\* C_CloseSession
LEMMA CloseStep == ASSUME IInv, NEW s \in Sessions, Close(s) PROVE IInv'
  <1> DEFINE o == [session[s] EXCEPT !.open = FALSE]
  <1>1. Good(o, delivered[s], lost[s], wasIn[s])
    BY Unchanged DEF Good, SessionOK, Session, Told
  <1>2. Set(session, session', s, o)
    BY DEF Close, Set
  <1>3. UNCHANGED <<delivered, lost, wasIn>>
    BY DEF Close, Set
  <1> HIDE DEF o
  <1> QED BY <1>1, <1>2, <1>3, Unchanged, OneSessionStep

\* C_Login
LEMMA LoginStep == ASSUME IInv, NEW s \in Sessions, Login(s) PROVE IInv'
  <1> DEFINE o == [session[s] EXCEPT !.loggedIn = TRUE]
  <1>1. Good(o, delivered[s], lost[s], TRUE)
    BY Unchanged DEF Good, SessionOK, Session, Told
  <1>2. Set(session, session', s, o)
    BY DEF Login, Set
  <1>3. UNCHANGED <<delivered, lost>> /\ Set(wasIn, wasIn', s, TRUE)
    BY DEF Login, Set
  <1> HIDE DEF o
  <1> QED BY <1>1, <1>2, <1>3, Unchanged, OneSessionStep

\* C_Logout
LEMMA LogoutStep == ASSUME IInv, NEW s \in Sessions, Logout(s) PROVE IInv'
  <1> DEFINE o == [session[s] EXCEPT !.loggedIn = FALSE]
  <1>1. Good(o, delivered[s], lost[s], wasIn[s])
    BY Unchanged DEF Good, SessionOK, Session, Told
  <1>2. Set(session, session', s, o)
    BY DEF Logout, Set
  <1>3. UNCHANGED <<delivered, lost, wasIn>>
    BY DEF Logout, Set
  <1> HIDE DEF o
  <1> QED BY <1>1, <1>2, <1>3, Unchanged, OneSessionStep

\* C_FindObjectsFinal
LEMMA FinalStep == ASSUME IInv, NEW s \in Sessions, FindObjectsFinal(s) PROVE IInv'
  <1> DEFINE o == [session[s] EXCEPT !.finding = FALSE]
  <1>1. Good(o, delivered[s], lost[s], wasIn[s])
    BY Unchanged DEF Good, SessionOK, Session, Told
  <1>2. Set(session, session', s, o)
    BY DEF FindObjectsFinal, Set
  <1>3. UNCHANGED <<delivered, lost, wasIn>>
    BY DEF FindObjectsFinal, Set
  <1> HIDE DEF o
  <1> QED BY <1>1, <1>2, <1>3, Unchanged, OneSessionStep

\* C_FindObjectsInit: a session that is not logged in lists no private object.
LEMMA FindObjectsInitStep ==
    ASSUME IInv, NEW s \in Sessions, NEW t \in Templates, FindObjectsInit(s, t)
    PROVE  IInv'
  <1>1. PICK found \in Lists : /\ Found(s, t, found)
                               /\ session' = [session EXCEPT ![s] = Started(@, found)]
    BY DEF FindObjectsInit
  <1> DEFINE o == Started(session[s], found)
  <1>2. session[s] \in Session /\ Good(session[s], delivered[s], lost[s], wasIn[s])
    BY Unchanged
  <1>3. found \in Seq(Handles) /\ Len(found) \in Nat /\ Len(found) <= MaxObjs
    BY ListsAreSequences
  <1>4. o \in Session /\ o.pos = 0 /\ o.handles = found
        /\ o.loggedIn = session[s].loggedIn /\ o.open = session[s].open
    BY <1>2, <1>3 DEF Started, Session
  <1>5. ~session[s].loggedIn => Public(found)
    BY <1>1 DEF Public, Found, Visible
  <1>6. Told(o) = <<>> /\ <<>> \in Seq(Handles) /\ Public(<<>>)
    BY <1>3, <1>4, SubSeqEmpty DEF Told, Public
  <1>7. wasIn[s] \in BOOLEAN /\ (o.open /\ ~wasIn[s] => ~session[s].loggedIn)
    BY <1>2, <1>4 DEF Good
  <1> HIDE DEF o
  <1>8. Good(o, <<>>, FALSE, wasIn[s])
    BY <1>3, <1>4, <1>5, <1>6, <1>7 DEF Good, SessionOK
  <1>9. Set(session, session', s, o) /\ Set(delivered, delivered', s, <<>>)
        /\ Set(lost, lost', s, FALSE) /\ UNCHANGED wasIn
    BY <1>1 DEF o, FindObjectsInit, Set
  <1> QED BY <1>8, <1>9, Unchanged, OneSessionStep

\* What comes next in a list.
LEMMA NextOnes ==
    ASSUME NEW S, NEW list \in Seq(S), NEW p \in Nat, NEW k \in Nat, p + k <= Len(list)
    PROVE  /\ SubSeq(list, p + 1, p + k) \in Seq(S) /\ Len(SubSeq(list, p + 1, p + k)) = k
           /\ \A i \in 1 .. k : SubSeq(list, p + 1, p + k)[i] = list[p + i]
           /\ \A i \in 1 .. k : p + i \in 1 .. Len(list)
  <1>1. p + 1 \in 1 .. Len(list) + 1 /\ p + k \in Nat /\ p + k \in p .. Len(list)
        /\ (p + k) - (p + 1) + 1 = k /\ (p + 1 <= p + k <=> k # 0)
    OBVIOUS
  <1>2. /\ SubSeq(list, p + 1, p + k) \in Seq(S)
        /\ Len(SubSeq(list, p + 1, p + k)) = IF p + 1 <= p + k THEN (p + k) - (p + 1) + 1 ELSE 0
        /\ \A i \in 1 .. (p + k) - (p + 1) + 1 :
              SubSeq(list, p + 1, p + k)[i] = list[(p + 1) + i - 1]
    BY <1>1, SubSeqProperties
  <1>3. \A i \in 1 .. k : (p + 1) + i - 1 = p + i /\ p + i \in 1 .. Len(list)
    OBVIOUS
  <1> QED BY <1>1, <1>2, <1>3

\* A session that has moved on in its list.
LEMMA MovedOn ==
    ASSUME NEW o \in Session, NEW k \in Nat
    PROVE  LET next == [o EXCEPT !.pos = @ + k]
           IN /\ next \in Session /\ next.pos = o.pos + k /\ next.handles = o.handles
              /\ next.open = o.open /\ next.loggedIn = o.loggedIn /\ next.finding = o.finding
  BY DEF Session

\* Parts of lists without private objects, put together, have none.
LEMMA PublicParts ==
    ASSUME NEW a \in Seq(Handles), NEW list \in Seq(Handles), NEW p \in Nat, NEW k \in Nat,
           p + k <= Len(list), Public(a), Public(list)
    PROVE  Public(a \o SubSeq(list, p + 1, p + k))
  <1> DEFINE b == SubSeq(list, p + 1, p + k)
  <1>1. b \in Seq(Handles) /\ Len(b) = k
        /\ \A i \in 1 .. k : b[i] = list[p + i] /\ p + i \in 1 .. Len(list)
    BY NextOnes, ZenonT(60)
  <1> HIDE DEF b
  <1>2. \A i \in 1 .. k : ~Private(b[i])
    BY <1>1 DEF Public
  <1>3. ASSUME NEW i \in DOMAIN (a \o b) PROVE ~Private((a \o b)[i])
    <2>1. CASE i <= Len(a)
      <3>1. i \in DOMAIN a /\ (a \o b)[i] = a[i]
        BY <1>1, <2>1
      <3> QED BY <3>1 DEF Public
    <2>2. CASE ~(i <= Len(a))
      <3>1. i - Len(a) \in 1 .. k /\ (a \o b)[i] = b[i - Len(a)]
        BY <1>1, <2>2
      <3> QED BY <1>2, <3>1
    <2> QED BY <2>1, <2>2
  <1> QED BY <1>3 DEF Public, b

\* C_FindObjects: the caller gets what comes next, and only of the list.
LEMMA FindObjectsStep ==
    ASSUME IInv, NEW s \in Sessions, NEW n \in 0 .. Len(Token), FindObjects(s, n)
    PROVE  IInv'
  <1> DEFINE o == session[s]
             k == Taken(o, n)
             next == [o EXCEPT !.pos = @ + k]
             got == delivered[s] \o SubSeq(o.handles, o.pos + 1, o.pos + k)
  <1>1. o \in Session /\ Good(o, delivered[s], lost[s], wasIn[s]) /\ o.finding
    BY Unchanged DEF FindObjects
  <1>2. n \in Nat
    BY TokenAssumption
  <1>3. SessionOK(o) /\ o.handles \in Seq(Handles) /\ delivered[s] \in Seq(Handles)
        /\ o.pos <= Len(o.handles)
    BY <1>1 DEF Good, SessionOK, Session
  <1>4. k \in Nat /\ o.pos \in Nat /\ o.pos + k <= Len(o.handles)
    BY <1>1, <1>2, <1>3, TakenIsLeft
  <1>5. next \in Session /\ next.pos = o.pos + k /\ next.handles = o.handles
        /\ next.open = o.open /\ next.loggedIn = o.loggedIn /\ next.finding = o.finding
    BY <1>1, <1>4, MovedOn
  <1>6. got \in Seq(Handles)
    <2>1. SubSeq(o.handles, o.pos + 1, o.pos + k) \in Seq(Handles)
      BY <1>3, <1>4, NextOnes
    <2> QED BY <1>3, <2>1
  <1>7. ~lost[s] => got = Told(next)
    <2>1. ~lost[s] => delivered[s] = Told(o)
      BY <1>1 DEF Good
    <2>2. Told(o) \o SubSeq(o.handles, o.pos + 1, o.pos + k) = Told(next)
      BY <1>2, <1>3, <1>5, ToldGrows DEF Told
    <2> QED BY <2>1, <2>2
  <1>8. Public(delivered[s]) /\ Public(o.handles) => Public(got)
    BY <1>3, <1>4, PublicParts
  <1>9. Set(session, session', s, next) /\ Set(delivered, delivered', s, got)
        /\ UNCHANGED <<lost, wasIn>>
    BY DEF FindObjects, Set
  <1> HIDE DEF next, got, k
  <1>10. Good(next, got, lost[s], wasIn[s])
    BY <1>1, <1>3, <1>4, <1>5, <1>6, <1>7, <1>8 DEF Good, SessionOK
  <1> QED BY <1>9, <1>10, Unchanged, OneSessionStep

\* C_FindObjects without an array: handles are lost unless there were none left.
LEMMA CountObjectsStep ==
    ASSUME IInv, NEW s \in Sessions, NEW n \in 0 .. Len(Token), CountObjects(s, n)
    PROVE  IInv'
  <1> DEFINE o == session[s]
             k == Taken(o, n)
             next == [o EXCEPT !.pos = @ + k]
             gone == lost[s] \/ k > 0
  <1>1. o \in Session /\ Good(o, delivered[s], lost[s], wasIn[s]) /\ n \in Nat
    BY Unchanged, TokenAssumption
  <1>2. o.pos <= Len(o.handles)
    BY <1>1 DEF Good, SessionOK
  <1>3. k \in Nat /\ o.pos \in Nat /\ o.pos + k <= Len(o.handles)
    BY <1>1, <1>2, TakenIsLeft
  <1>4. next \in Session /\ next.pos = o.pos + k /\ next.handles = o.handles
        /\ next.open = o.open /\ next.loggedIn = o.loggedIn /\ next.finding = o.finding
    BY <1>1, <1>3, MovedOn
  <1> HIDE DEF next
  <1>5. ~gone => Told(next) = Told(o)
    BY <1>3, <1>4 DEF Told
  <1>6. Set(session, session', s, next) /\ Set(lost, lost', s, gone)
        /\ UNCHANGED <<delivered, wasIn>>
    BY DEF CountObjects, Set, next
  <1>7. gone \in BOOLEAN /\ (~gone => ~lost[s])
    BY <1>1 DEF Good
  <1> HIDE DEF gone, k
  <1>8. Good(next, delivered[s], gone, wasIn[s])
    BY <1>1, <1>3, <1>4, <1>5, <1>7 DEF Good, SessionOK
  <1> QED BY <1>6, <1>8, Unchanged, OneSessionStep

\* No session is open before the first C_OpenSession.
LEMMA InvariantInit == Init => IInv
  <1> SUFFICES ASSUME Init PROVE IInv
    OBVIOUS
  <1> DEFINE o == [Fresh EXCEPT !.open = FALSE]
  <1>1. o \in Session /\ o.pos = 0 /\ Len(o.handles) = 0 /\ ~o.finding /\ ~o.open
    BY FreshIsSession DEF Session
  <1>2. <<>> \in Seq(Handles)
    OBVIOUS
  <1> HIDE DEF o
  <1>3. Good(o, <<>>, FALSE, FALSE)
    BY <1>1, <1>2, TokenAssumption DEF Good, SessionOK
  <1>4. /\ session = [s \in Sessions |-> o] /\ delivered = [s \in Sessions |-> <<>>]
        /\ lost = [s \in Sessions |-> FALSE] /\ wasIn = [s \in Sessions |-> FALSE]
    BY DEF Init, o
  <1>5. TypeOK
    BY <1>1, <1>2, <1>4, TokenAssumption DEF TypeOK
  <1>6. \A s \in Sessions : Good(session[s], delivered[s], lost[s], wasIn[s])
    BY <1>3, <1>4
  <1> QED BY <1>5, <1>6 DEF IInv

\* Every step keeps the invariant.
LEMMA InvariantStep == IInv /\ [Next]_vars => IInv'
  <1> SUFFICES ASSUME IInv, [Next]_vars PROVE IInv'
    OBVIOUS
  <1>1. CASE Next
    BY <1>1, OpenStep, CloseStep, LoginStep, LogoutStep, FinalStep, FindObjectsInitStep,
       FindObjectsStep, CountObjectsStep DEF Next
  <1>2. CASE UNCHANGED vars
    BY <1>2 DEF vars, IInv, TypeOK
  <1> QED BY <1>1, <1>2

\* A caller gets the objects of its search in their order, each once, however it
\* splits its C_FindObjects calls and whatever other sessions do.
THEOREM SearchesDeliverInOrder == Spec => []DeliveredInOrder
  <1>1. IInv => DeliveredInOrder
    BY DEF IInv, Good, Told, DeliveredInOrder
  <1> QED BY <1>1, InvariantInit, InvariantStep, PTL DEF Spec

\* C_FindObjectsInit in a session that was never logged in finds no private
\* object, whatever logins other sessions on the token have.
THEOREM LoginsStayApart == Spec => []OthersLoginShowsNothing
  <1>1. IInv => OthersLoginShowsNothing
    BY DEF IInv, Good, Public, OthersLoginShowsNothing
  <1> QED BY <1>1, InvariantInit, InvariantStep, PTL DEF Spec

-----------------------------------------------------------------------------
(* The attributes of an object *)


\* What one entry is like at any time: the buffer has its length, and a length
\* is a real one unless the object asked last has no such attribute.
Sound(e) ==
    /\ Len(e.bytes) = IF e.cap = Null THEN 0 ELSE e.cap
    /\ e.cap < Unavailable
    /\ e.len = Unavailable => asked # 0 /\ ~Has(asked, e.type)

\* A buffer that was given a length for an object has room for its value.
Roomy(e) ==
    Has(asked, e.type) /\ e.cap # Null =>
        Len(Value(asked, e.type)) <= e.cap /\ Len(Value(asked, e.type)) <= e.len

TypeInv ==
    /\ entry \in Seq(Entry)
    /\ asked \in ObjHandles \cup {0} /\ sizedFor \in {asked, 0}
    /\ rv \in {"none", "OK", "ATTRIBUTE_TYPE_INVALID", "BUFFER_TOO_SMALL",
               "OBJECT_HANDLE_INVALID"}

EntriesSound == \A i \in DOMAIN entry : Sound(entry[i])

AnswersAreOfAnObject == Answer => asked # 0

SizedBuffersAreRoomy == sizedFor # 0 => \A i \in DOMAIN entry : Roomy(entry[i])

AttrInv ==
    /\ TypeInv /\ EntriesSound /\ AnswersAreOfAnObject /\ EntriesAnswered
    /\ SizedBuffersAreRoomy /\ AnnouncedSizesSuffice

-----------------------------------------------------------------------------
\* object_class as bytes.
LEMMA ClassCodesHaveTwoBytes ==
    \A c \in Classes : ClassCode[c] \in Seq(Nat) /\ Len(ClassCode[c]) = 2
<1>1. /\ ClassCode["Data"] = <<0, 0>> /\ ClassCode["Cert"] = <<1, 0>>
      /\ ClassCode["PubKey"] = <<2, 0>> /\ ClassCode["PrivKey"] = <<3, 0>>
  BY DEF ClassCode
<1>2. /\ <<0, 0>> \in Seq(Nat) /\ <<1, 0>> \in Seq(Nat)
      /\ <<2, 0>> \in Seq(Nat) /\ <<3, 0>> \in Seq(Nat)
  OBVIOUS
<1>3. Len(<<0, 0>>) = 2 /\ Len(<<1, 0>>) = 2 /\ Len(<<2, 0>>) = 2 /\ Len(<<3, 0>>) = 2
  OBVIOUS
<1>4. \A c \in Classes : c = "Data" \/ c = "Cert" \/ c = "PubKey" \/ c = "PrivKey"
  BY DEF Classes
<1> QED BY ONLY <1>1, <1>2, <1>3, <1>4

\* Values are sequences of a length that is a real one.
LEMMA ValuesHaveALength ==
    ASSUME NEW h \in ObjHandles, NEW a \in Types
    PROVE /\ Value(h, a) \in Seq(Nat)
          /\ Len(Value(h, a)) \in Nat /\ Len(Value(h, a)) < Unavailable
<1>1. /\ Objs[h] \in TokenObject /\ Objs[h].class \in Classes
      /\ Objs[h].data[a] \in Seq(Nat)
      /\ Len(Objs[h].data[a]) < Unavailable /\ 2 < Unavailable /\ Unavailable \in Nat
  <2>1. Objs[h] \in TokenObject
    BY ObjsAssumption DEF ObjHandles
  <2>2. Objs[h].class \in Classes /\ Objs[h].data \in [Types -> Seq(Nat)]
    BY <2>1 DEF TokenObject
  <2>3. Len(Objs[h].data[a]) < Unavailable /\ 2 < Unavailable /\ Unavailable \in Nat
    BY LengthsAssumption DEF ObjHandles
  <2> QED BY <2>1, <2>2, <2>3
<1>2. CASE a = "class"
  <2>1. Value(h, a) = ClassCode[Objs[h].class]
    BY <1>2 DEF Value
  <2>2. Value(h, a) \in Seq(Nat) /\ Len(Value(h, a)) = 2
    BY <1>1, <2>1, ClassCodesHaveTwoBytes
  <2> QED BY <1>1, <2>2
<1>3. CASE a # "class"
  BY <1>1, <1>3 DEF Value
<1> QED BY <1>2, <1>3

\* A value no longer than the buffer leaves a buffer of the same length that
\* begins with it.
LEMMA WrittenFits ==
    ASSUME NEW b \in Seq(Nat), NEW v \in Seq(Nat), Len(v) <= Len(b)
    PROVE /\ Written(b, v) \in Seq(Nat) /\ Len(Written(b, v)) = Len(b)
          /\ \A j \in DOMAIN v : Written(b, v)[j] = v[j]
<1>1. DOMAIN b \cup DOMAIN v = 1 .. Len(b)
  OBVIOUS
<1>2. \A j \in 1 .. Len(b) : (IF j \in DOMAIN v THEN v[j] ELSE b[j]) \in Nat
  OBVIOUS
<1>3. Written(b, v) = [j \in 1 .. Len(b) |-> IF j \in DOMAIN v THEN v[j] ELSE b[j]]
  BY <1>1 DEF Written
<1>4. Written(b, v) \in [1 .. Len(b) -> Nat]
  BY <1>2, <1>3
<1>5. Len(b) \in Nat /\ DOMAIN v \subseteq 1 .. Len(b)
  OBVIOUS
<1> QED BY <1>3, <1>4, <1>5

\* set_attr on an entry whose length is not above that of its buffer.
LEMMA SetAttrAnswers ==
    ASSUME NEW e \in Entry, NEW v \in Seq(Nat),
           Len(e.bytes) = IF e.cap = Null THEN 0 ELSE e.cap,
           e.cap # Null => e.len <= e.cap
    PROVE LET f == SetAttr(e, v)
          IN /\ f \in Entry /\ f.type = e.type /\ f.cap = e.cap /\ f.len = Len(v)
             /\ Len(f.bytes) = Len(e.bytes)
             /\ e.cap # Null /\ ~TooSmall(e, v) => Shows(f, v)
<1>1. e.cap \in Nat \cup {Null} /\ e.len \in Nat /\ e.bytes \in Seq(Nat) /\ Len(v) \in Nat
      /\ e.type \in Types
  BY DEF Entry
<1>2. CASE e.cap = Null \/ TooSmall(e, v)
  BY <1>1, <1>2 DEF SetAttr, Entry
<1>3. CASE e.cap # Null /\ ~TooSmall(e, v)
  <2>1. Len(v) <= Len(e.bytes)
    BY <1>1, <1>3 DEF TooSmall, Null
  <2>2. SetAttr(e, v) = [e EXCEPT !.len = Len(v), !.bytes = Written(e.bytes, v)]
    BY <1>3 DEF SetAttr
  <2>3. /\ Written(e.bytes, v) \in Seq(Nat) /\ Len(Written(e.bytes, v)) = Len(e.bytes)
        /\ \A j \in DOMAIN v : Written(e.bytes, v)[j] = v[j]
    BY <1>1, <2>1, WrittenFits
  <2> QED BY <1>1, <2>2, <2>3 DEF Entry, Shows
<1> QED BY <1>2, <1>3

\* What a call does to one entry.
LEMMA EntriesAreAnswered ==
    ASSUME AttrInv, NEW h \in ObjHandles, GetAttributeValue(h), NEW i \in DOMAIN entry
    PROVE LET e == entry[i]
              f == entry'[i]
              v == Value(h, e.type)
          IN /\ f \in Entry /\ f.type = e.type /\ f.cap = e.cap
             /\ Len(f.bytes) = IF f.cap = Null THEN 0 ELSE f.cap
             /\ f.len = IF Has(h, e.type) THEN Len(v) ELSE Unavailable
             /\ Has(h, e.type) /\ e.cap # Null /\ ~Refused(h, i) => Shows(f, v)
<1> DEFINE e == entry[i]
           v == Value(h, e.type)
<1>1. entry[i] \in Entry /\ Sound(entry[i])
  BY DEF AttrInv, TypeInv, EntriesSound
<1>2. e.type \in Types /\ e.cap \in Nat \cup {Null} /\ e.len \in Nat /\ e.bytes \in Seq(Nat)
  BY <1>1 DEF Entry
<1>3. v \in Seq(Nat) /\ Unavailable \in Nat
  BY <1>2, ValuesHaveALength, LengthsAssumption
<1>4. entry'[i] = Answered(h, i)
  BY DEF GetAttributeValue
<1>5. CASE Has(h, e.type)
  <2>1. e.cap # Null => e.len <= e.cap
    BY <1>1, <1>5 DEF GetAttributeValue, LengthsAreTrue, Sound
  <2>2. entry'[i] = SetAttr(e, v)
    BY <1>4, <1>5 DEF Answered
  <2>3. Refused(h, i) <=> TooSmall(e, v)
    BY <1>5 DEF Refused
  <2>4. Len(e.bytes) = IF e.cap = Null THEN 0 ELSE e.cap
    BY <1>1 DEF Sound
  <2>5. LET f == SetAttr(e, v)
        IN /\ f \in Entry /\ f.type = e.type /\ f.cap = e.cap /\ f.len = Len(v)
           /\ Len(f.bytes) = Len(e.bytes)
           /\ e.cap # Null /\ ~TooSmall(e, v) => Shows(f, v)
    BY <1>1, <1>3, <2>1, <2>4, SetAttrAnswers
  <2> HIDE DEF e, v
  <2> QED BY <1>5, <2>2, <2>3, <2>4, <2>5 DEF e, v
<1>6. CASE ~Has(h, e.type)
  <2>1. entry'[i] = [e EXCEPT !.len = Unavailable]
    BY <1>4, <1>6 DEF Answered
  <2> QED BY <1>1, <1>2, <1>3, <1>6, <2>1 DEF Entry, Sound
<1> QED BY <1>5, <1>6

-----------------------------------------------------------------------------
LEMMA AttrInvInit == AttrInit => AttrInv
<1> SUFFICES ASSUME AttrInit PROVE AttrInv
  OBVIOUS
<1>1. entry = <<>> /\ asked = 0 /\ rv = "none" /\ sizedFor = 0
  BY DEF AttrInit
<1>2. entry \in Seq(Entry) /\ DOMAIN entry = {}
  BY <1>1
<1>3. ~Answer
  BY <1>1 DEF Answer
<1> QED BY <1>1, <1>2, <1>3 DEF AttrInv, TypeInv, EntriesSound, AnswersAreOfAnObject,
      EntriesAnswered, SizedBuffersAreRoomy, AnnouncedSizesSuffice

\* The same of the answer of any call.
AllAnswered(h, entries, result) ==
    /\ \A i \in DOMAIN entries :
          LET e == entries[i]  v == Value(h, e.type)
          IN IF ~Has(h, e.type) THEN e.len = Unavailable /\ result # "OK"
             ELSE /\ e.len = Len(v)
                  /\ e.cap # Null /\ result # "BUFFER_TOO_SMALL" => Shows(e, v)
    /\ result = "ATTRIBUTE_TYPE_INVALID" => \E i \in DOMAIN entries : ~Has(h, entries[i].type)

LEMMA AllAnsweredNext == AllAnswered(asked', entry', rv') => EntriesAnswered'
  BY DEF AllAnswered, EntriesAnswered, Has, Value, IsKey, IsOn, Shows

\* C_GetAttributeValue
LEMMA AttrInvCall ==
    ASSUME AttrInv, NEW h \in ObjHandles, GetAttributeValue(h)
    PROVE AttrInv'
<1> DEFINE A(i) == LET e == entry[i]
                       f == entry'[i]
                       v == Value(h, e.type)
                   IN /\ f \in Entry /\ f.type = e.type /\ f.cap = e.cap
                      /\ Len(f.bytes) = IF f.cap = Null THEN 0 ELSE f.cap
                      /\ f.len = IF Has(h, e.type) THEN Len(v) ELSE Unavailable
                      /\ Has(h, e.type) /\ e.cap # Null /\ ~Refused(h, i) => Shows(f, v)
<1>1. \A i \in DOMAIN entry : A(i)
  BY EntriesAreAnswered
<1>2. /\ asked' = h /\ rv' = Result(h) /\ sizedFor' = IF h = sizedFor THEN h ELSE 0
      /\ DOMAIN entry' = DOMAIN entry
  BY DEF GetAttributeValue
<1>3. h \in Nat /\ h # 0
  BY ObjsAssumption DEF ObjHandles
<1>4. rv' \in {"OK", "ATTRIBUTE_TYPE_INVALID", "BUFFER_TOO_SMALL"}
  BY <1>2 DEF Result
<1>5. \A i \in DOMAIN entry :
         /\ entry[i] \in Entry /\ entry[i].type \in Types /\ entry[i].cap < Unavailable
         /\ Len(Value(h, entry[i].type)) < Unavailable
         /\ Len(Value(h, entry[i].type)) \in Nat /\ Unavailable \in Nat
  <2> TAKE i \in DOMAIN entry
  <2>1. entry[i] \in Entry /\ entry[i].cap < Unavailable
    BY DEF AttrInv, TypeInv, EntriesSound, Sound
  <2>2. entry[i].type \in Types
    BY <2>1 DEF Entry
  <2> QED BY <2>1, <2>2, ValuesHaveALength, LengthsAssumption
<1>6. TypeInv'
  <2>1. \A i \in DOMAIN entry : entry'[i] \in Entry
    BY <1>1
  <2>2. entry' \in Seq(Entry)
    BY <2>1 DEF GetAttributeValue, AttrInv, TypeInv
  <2> QED BY <1>2, <1>4, <2>2 DEF TypeInv
<1>7. EntriesSound'
  BY <1>1, <1>2, <1>3, <1>5 DEF EntriesSound, Sound, Has, IsKey
<1>8. AnswersAreOfAnObject'
  BY <1>2, <1>3 DEF AnswersAreOfAnObject
<1>9. EntriesAnswered'
  <2>1. ASSUME NEW i \in DOMAIN entry, rv' # "BUFFER_TOO_SMALL" PROVE ~Refused(h, i)
    BY <1>2, <2>1 DEF Result
  <2>2. ASSUME NEW i \in DOMAIN entry, ~Has(h, entry[i].type) PROVE rv' # "OK"
    BY <1>2, <2>2 DEF Result
  <2>3. rv' = "ATTRIBUTE_TYPE_INVALID" => \E i \in DOMAIN entry : ~Has(h, entry[i].type)
    BY <1>2 DEF Result
  <2>4. \A i \in DOMAIN entry' :
           LET e == entry'[i]  v == Value(h, e.type)
           IN IF ~Has(h, e.type) THEN e.len = Unavailable /\ rv' # "OK"
              ELSE /\ e.len = Len(v)
                   /\ e.cap # Null /\ rv' # "BUFFER_TOO_SMALL" => Shows(e, v)
    BY <1>1, <1>2, <2>1, <2>2
  <2>5. rv' = "ATTRIBUTE_TYPE_INVALID" => \E i \in DOMAIN entry' : ~Has(h, entry'[i].type)
    BY <1>1, <1>2, <2>3
  <2>6. AllAnswered(asked', entry', rv')
    BY <1>2, <2>4, <2>5 DEF AllAnswered
  <2> QED BY <2>6, AllAnsweredNext
<1>10. SizedBuffersAreRoomy'
  <2> SUFFICES ASSUME sizedFor' # 0, NEW i \in DOMAIN entry PROVE Roomy(entry[i])'
    BY <1>2 DEF SizedBuffersAreRoomy
  <2>1. sizedFor = h /\ asked = h
    BY <1>2, <1>3 DEF AttrInv, TypeInv
  <2>2. Roomy(entry[i])
    BY <1>3, <2>1 DEF AttrInv, SizedBuffersAreRoomy
  <2>3. Has(h, entry'[i].type) /\ entry'[i].cap # Null =>
           /\ Len(Value(h, entry'[i].type)) <= entry'[i].cap
           /\ Len(Value(h, entry'[i].type)) <= entry'[i].len
    BY <1>1, <1>5, <2>1, <2>2 DEF Roomy
  <2> QED BY <1>2, <2>3 DEF Roomy, Has, Value, IsKey, IsOn
<1>11. AnnouncedSizesSuffice'
  <2> SUFFICES ASSUME sizedFor' # 0 PROVE \A i \in DOMAIN entry : ~Refused(h, i)
    BY <1>2 DEF AnnouncedSizesSuffice, Result
  <2>1. sizedFor = h /\ asked = h
    BY <1>2, <1>3 DEF AttrInv, TypeInv
  <2>2. \A i \in DOMAIN entry : Roomy(entry[i])
    BY <1>3, <2>1 DEF AttrInv, SizedBuffersAreRoomy
  <2> TAKE i \in DOMAIN entry
  <2>3. entry[i].len \in Nat
    BY <1>5 DEF Entry
  <2> QED BY <1>5, <2>1, <2>2, <2>3 DEF Roomy, Refused, TooSmall
<1> QED BY <1>6, <1>7, <1>8, <1>9, <1>10, <1>11 DEF AttrInv

\* While no call has looked at the template nothing is claimed about answers.
LEMMA NothingAnswered ==
    ASSUME rv' \in {"none", "OBJECT_HANDLE_INVALID"}
    PROVE AnswersAreOfAnObject' /\ EntriesAnswered' /\ AnnouncedSizesSuffice'
<1>1. ~(rv' \in {"OK", "ATTRIBUTE_TYPE_INVALID", "BUFFER_TOO_SMALL"})
  OBVIOUS
<1> QED BY <1>1 DEF AnswersAreOfAnObject, EntriesAnswered, AnnouncedSizesSuffice, Answer

\* A buffer as the caller makes it.
LEMMA BlankBuffers ==
    ASSUME NEW n \in Nat
    PROVE Blank(n) \in Seq(Nat) /\ Len(Blank(n)) = n
BY DEF Blank

LEMMA AttrInvBegin ==
    ASSUME AttrInv, NEW request \in Requests, NEW cap \in Sizes \cup {Null}, Begin(request, cap)
    PROVE AttrInv'
<1> DEFINE n == IF cap = Null THEN 0 ELSE cap
<1>1. n \in Nat /\ cap \in Nat \cup {Null} /\ cap < Unavailable /\ n # Unavailable
      /\ Unavailable \in Nat
  BY LengthsAssumption DEF Null
<1>2. request \in Seq(Types)
  BY RequestsAssumption
<1>3. /\ asked' = 0 /\ rv' = "none" /\ sizedFor' = 0
      /\ entry' = [i \in DOMAIN request |->
                     [type |-> request[i], cap |-> cap, len |-> n, bytes |-> Blank(n)]]
  BY DEF Begin
<1>4. Blank(n) \in Seq(Nat) /\ Len(Blank(n)) = n
  BY <1>1, BlankBuffers
<1> HIDE DEF n
<1>5. \A i \in DOMAIN request :
         [type |-> request[i], cap |-> cap, len |-> n, bytes |-> Blank(n)] \in Entry
  BY <1>1, <1>2, <1>4 DEF Entry
<1>6. entry' \in Seq(Entry) /\ DOMAIN entry' = DOMAIN request
  BY <1>2, <1>3, <1>5
<1>7. TypeInv' /\ SizedBuffersAreRoomy'
  BY <1>3, <1>6 DEF TypeInv, SizedBuffersAreRoomy
<1>8. EntriesSound'
  <2> SUFFICES ASSUME NEW i \in DOMAIN request PROVE Sound(entry[i])'
    BY <1>6 DEF EntriesSound
  <2>1. entry'[i].cap = cap /\ entry'[i].len = n /\ entry'[i].bytes = Blank(n)
    BY <1>3
  <2> QED BY <1>1, <1>4, <2>1 DEF Sound, n
<1> QED BY <1>3, <1>7, <1>8, NothingAnswered DEF AttrInv

\* The caller's two steps between calls change an entry's buffer and length.
LEMMA AttrInvCaller ==
    ASSUME AttrInv, UNCHANGED asked, rv' = "none", sizedFor' \in {sizedFor, asked},
           DOMAIN entry' = DOMAIN entry, entry' \in Seq(Entry),
           \A i \in DOMAIN entry : entry'[i].type = entry[i].type,
           \A i \in DOMAIN entry : Sound(entry[i])',
           sizedFor' # 0 => \A i \in DOMAIN entry : Roomy(entry[i])'
    PROVE AttrInv'
<1>1. TypeInv'
  BY DEF AttrInv, TypeInv
<1>2. EntriesSound' /\ SizedBuffersAreRoomy'
  BY DEF EntriesSound, SizedBuffersAreRoomy
<1> QED BY <1>1, <1>2, NothingAnswered DEF AttrInv

LEMMA AttrInvAllocate == AttrInv /\ Allocate => AttrInv'
<1> SUFFICES ASSUME AttrInv, Allocate PROVE AttrInv'
  OBVIOUS
<1> DEFINE Enough(e) == e.len = Unavailable \/ e.len <= e.cap
           New(e) == IF Enough(e) THEN e ELSE [e EXCEPT !.cap = e.len, !.bytes = Blank(e.len)]
<1>1. /\ entry' = [i \in DOMAIN entry |-> New(entry[i])]
      /\ rv' = "none" /\ sizedFor' = asked /\ asked' = asked /\ Answer
  BY DEF Allocate
<1>2. asked # 0 /\ asked \in ObjHandles
  BY <1>1 DEF AttrInv, TypeInv, AnswersAreOfAnObject
<1>3. ASSUME NEW i \in DOMAIN entry
      PROVE LET e == entry[i]
                f == New(e)
            IN /\ f \in Entry /\ f.type = e.type /\ f.len = e.len
               /\ Len(f.bytes) = IF f.cap = Null THEN 0 ELSE f.cap
               /\ f.cap < Unavailable
               /\ e.len = Unavailable <=> ~Has(asked, e.type)
               /\ Has(asked, e.type) => /\ e.len = Len(Value(asked, e.type))
                                        /\ e.len <= f.cap
  <2> DEFINE e == entry[i]
  <2>1. entry[i] \in Entry /\ Sound(entry[i])
    BY <1>3 DEF AttrInv, TypeInv, EntriesSound
  <2>2. e.type \in Types /\ e.cap \in Nat \cup {Null} /\ e.len \in Nat /\ Unavailable \in Nat
    BY <2>1, LengthsAssumption DEF Entry
  <2>3. Len(Value(asked, e.type)) \in Nat /\ Len(Value(asked, e.type)) < Unavailable
    BY <1>2, <2>2, ValuesHaveALength
  <2>4. IF Has(asked, e.type) THEN e.len = Len(Value(asked, e.type)) ELSE e.len = Unavailable
    BY <1>1, <1>3 DEF AttrInv, EntriesAnswered
  <2>5. Blank(e.len) \in Seq(Nat) /\ Len(Blank(e.len)) = e.len
    BY <2>2, BlankBuffers
  <2>6. CASE Enough(e)
    BY <2>1, <2>2, <2>3, <2>4, <2>6 DEF Sound
  <2>7. CASE ~Enough(e)
    <3>1. New(e) = [e EXCEPT !.cap = e.len, !.bytes = Blank(e.len)]
      BY <2>7
    <3>2. New(e) \in Entry /\ New(e).type = e.type /\ New(e).len = e.len
          /\ New(e).cap = e.len /\ New(e).bytes = Blank(e.len)
      BY <2>1, <2>2, <2>5, <3>1 DEF Entry
    <3>3. e.len # Unavailable /\ Has(asked, e.type)
      BY <2>4, <2>7
    <3>4. e.len < Unavailable /\ e.len # Null
      BY <2>2, <2>3, <2>4, <3>3 DEF Null
    <3> QED BY <2>2, <2>3, <2>4, <2>5, <3>2, <3>3, <3>4
  <2> QED BY <2>6, <2>7
<1>4. DOMAIN entry' = DOMAIN entry /\ entry' \in Seq(Entry)
  <2>1. \A i \in DOMAIN entry : New(entry[i]) \in Entry
    BY <1>3
  <2> HIDE DEF New
  <2> QED BY <1>1, <2>1 DEF AttrInv, TypeInv
<1>5. \A i \in DOMAIN entry : entry'[i] = New(entry[i])
  BY <1>1
<1>6. \A i \in DOMAIN entry : entry'[i].type = entry[i].type
  BY <1>3, <1>5
<1>7. \A i \in DOMAIN entry : Sound(entry[i])'
  <2> TAKE i \in DOMAIN entry
  <2> HIDE DEF New
  <2>1. Len(entry'[i].bytes) = IF entry'[i].cap = Null THEN 0 ELSE entry'[i].cap
    BY <1>3, <1>5
  <2>2. entry'[i].cap < Unavailable
    BY <1>3, <1>5
  <2>3. entry'[i].len = Unavailable => ~Has(asked, entry'[i].type)
    BY <1>3, <1>5
  <2> QED BY <1>1, <1>2, <2>1, <2>2, <2>3 DEF Sound, Has, IsKey
<1>8. \A i \in DOMAIN entry : Roomy(entry[i])'
  <2>1. \A i \in DOMAIN entry :
           Has(asked, entry'[i].type) =>
              /\ Len(Value(asked, entry'[i].type)) <= entry'[i].cap
              /\ Len(Value(asked, entry'[i].type)) <= entry'[i].len
    <3> TAKE i \in DOMAIN entry
    <3>1. entry[i] \in Entry
      BY DEF AttrInv, TypeInv
    <3>2. entry[i].len \in Nat
      BY <3>1 DEF Entry
    <3>3. ASSUME Has(asked, entry'[i].type)
          PROVE /\ entry'[i].len = Len(Value(asked, entry'[i].type))
                /\ entry'[i].len <= entry'[i].cap /\ entry'[i].len \in Nat
      <4> HIDE DEF New
      <4> QED BY <1>3, <1>5, <3>2, <3>3
    <3> QED BY <3>3
  <2> QED BY <1>1, <2>1, ZenonT(60) DEF Roomy, Has, Value, IsKey, IsOn
<1> QED BY <1>1, <1>4, <1>6, <1>7, <1>8, AttrInvCaller

LEMMA AttrInvPutLengthsBack == AttrInv /\ PutLengthsBack => AttrInv'
<1> SUFFICES ASSUME AttrInv, PutLengthsBack PROVE AttrInv'
  OBVIOUS
<1> DEFINE New(e) == IF e.cap = Null THEN e ELSE [e EXCEPT !.len = e.cap]
<1>1. /\ entry' = [i \in DOMAIN entry |-> New(entry[i])]
      /\ rv' = "none" /\ sizedFor' = sizedFor /\ asked' = asked
  BY DEF PutLengthsBack
<1>2. ASSUME NEW i \in DOMAIN entry
      PROVE LET e == entry[i]
                f == New(e)
            IN /\ e \in Entry /\ Sound(e)
               /\ f \in Entry /\ f.type = e.type /\ f.cap = e.cap /\ f.bytes = e.bytes
               /\ e.cap # Null => f.len = e.cap /\ f.len < Unavailable
               /\ e.cap = Null => f.len = e.len
  <2>1. entry[i] \in Entry /\ Sound(entry[i])
    BY <1>2 DEF AttrInv, TypeInv, EntriesSound
  <2> QED BY <2>1, LengthsAssumption DEF Entry, Sound
<1>3. DOMAIN entry' = DOMAIN entry /\ entry' \in Seq(Entry)
  <2>1. \A i \in DOMAIN entry : New(entry[i]) \in Entry
    BY <1>2
  <2> HIDE DEF New
  <2> QED BY <1>1, <2>1 DEF AttrInv, TypeInv
<1>4. \A i \in DOMAIN entry : entry'[i] = New(entry[i])
  BY <1>1
<1>5. \A i \in DOMAIN entry : entry'[i].type = entry[i].type
  BY <1>2, <1>4
<1>6. \A i \in DOMAIN entry : Sound(entry[i])'
  <2> TAKE i \in DOMAIN entry
  <2>1. Unavailable \in Nat /\ entry'[i].cap < Unavailable
    BY <1>2, <1>4, LengthsAssumption DEF Sound
  <2>2. entry'[i].len = Unavailable => asked # 0 /\ ~Has(asked, entry'[i].type)
    <3>1. entry[i].cap # Null => entry'[i].len < Unavailable /\ entry'[i].len \in Nat
      BY <1>2, <1>4 DEF Entry
    <3>2. entry[i].cap = Null => entry'[i].len = entry[i].len
      BY <1>2, <1>4
    <3>3. entry'[i].type = entry[i].type /\ Sound(entry[i])
      BY <1>2, <1>4
    <3> QED BY <2>1, <3>1, <3>2, <3>3 DEF Sound
  <2>3. Len(entry'[i].bytes) = IF entry'[i].cap = Null THEN 0 ELSE entry'[i].cap
    BY <1>2, <1>4 DEF Sound
  <2> QED BY <1>1, <2>1, <2>2, <2>3 DEF Sound, Has, IsKey
<1>7. ASSUME sizedFor # 0, NEW i \in DOMAIN entry PROVE Roomy(entry[i])'
  <2>1. Roomy(entry[i])
    BY <1>7 DEF AttrInv, SizedBuffersAreRoomy
  <2>2. Has(asked, entry'[i].type) /\ entry'[i].cap # Null =>
           /\ Len(Value(asked, entry'[i].type)) <= entry'[i].cap
           /\ Len(Value(asked, entry'[i].type)) <= entry'[i].len
    BY <1>2, <1>4, <2>1 DEF Roomy
  <2> QED BY <1>1, <2>2 DEF Roomy, Has, Value, IsKey, IsOn
<1> QED BY <1>1, <1>3, <1>5, <1>6, <1>7, AttrInvCaller

LEMMA AttrInvNext == AttrInv /\ [AttrStep]_attrVars => AttrInv'
<1> SUFFICES ASSUME AttrInv, [AttrStep]_attrVars PROVE AttrInv'
  OBVIOUS
<1>1. CASE \E request \in Requests, cap \in Sizes \cup {Null} : Begin(request, cap)
  BY <1>1, AttrInvBegin
<1>2. CASE \E h \in ObjHandles : GetAttributeValue(h)
  BY <1>2, AttrInvCall
<1>3. CASE UnknownObject
  <2>1. UNCHANGED <<entry, asked, sizedFor>> /\ rv' = "OBJECT_HANDLE_INVALID"
    BY <1>3 DEF UnknownObject
  <2>2. TypeInv'
    BY <2>1 DEF AttrInv, TypeInv
  <2>3. EntriesSound' /\ SizedBuffersAreRoomy'
    BY <2>1 DEF AttrInv, EntriesSound, SizedBuffersAreRoomy, Sound, Roomy, Has, Value, IsKey, IsOn
  <2> QED BY <2>1, <2>2, <2>3, NothingAnswered DEF AttrInv
<1>4. CASE Allocate
  BY <1>4, AttrInvAllocate
<1>5. CASE PutLengthsBack
  BY <1>5, AttrInvPutLengthsBack
<1>6. CASE UNCHANGED attrVars
  <2>1. TypeInv' /\ EntriesSound' /\ SizedBuffersAreRoomy'
    BY <1>6 DEF AttrInv, attrVars, TypeInv, EntriesSound, SizedBuffersAreRoomy, Sound, Roomy, Has,
        Value, IsKey, IsOn
  <2>2. AnswersAreOfAnObject' /\ AnnouncedSizesSuffice'
    BY <1>6 DEF AttrInv, attrVars, AnswersAreOfAnObject, AnnouncedSizesSuffice, Answer
  <2>3. EntriesAnswered'
    <3>1. CASE Answer
      <4>1. AllAnswered(asked, entry, rv)
        BY <3>1 DEF AttrInv, EntriesAnswered, AllAnswered
      <4>2. AllAnswered(asked', entry', rv')
        BY <1>6, <4>1 DEF attrVars
      <4> QED BY <4>2, AllAnsweredNext
    <3>2. CASE ~Answer
      <4>1. ~Answer'
        BY <1>6, <3>2 DEF attrVars, Answer
      <4> QED BY <4>1 DEF EntriesAnswered
    <3> QED BY <3>1, <3>2
  <2> QED BY <2>1, <2>2, <2>3 DEF AttrInv
<1> QED BY <1>1, <1>2, <1>3, <1>4, <1>5, <1>6 DEF AttrStep

\* The invariant is one.
THEOREM AttrInvHolds == AttrSpec => []AttrInv
BY AttrInvInit, AttrInvNext, PTL DEF AttrSpec

\* For any token, templates and buffers a call answers every entry whatever
\* becomes of the others, writes within the buffers, and accepts the sizes it
\* announced (C_GetAttributeValue, set_attr).
THEOREM AnswersStayComplete == AttrSpec => []AnswersAreComplete
<1>1. AttrInv => TemplateOK
  BY DEF AttrInv, TypeInv, EntriesSound, Sound, TemplateOK
<1>2. AttrInv => EntriesAnswered /\ AnnouncedSizesSuffice
  BY DEF AttrInv
<1>3. AttrInv => AnswersAreComplete
  BY <1>1, <1>2 DEF AnswersAreComplete
<1> QED BY <1>3, AttrInvHolds, PTL

-----------------------------------------------------------------------------
\* Two values, one of which is shown, are the same just when the other is shown.
LEMMA ShownIsTheValue ==
    ASSUME NEW e, NEW v \in Seq(Nat), NEW w \in Seq(Nat), Shows(e, v)
    PROVE Shows(e, w) <=> w = v
<1>1. CASE Shows(e, w)
  <2>1. Len(w) = Len(v) /\ \A j \in 1 .. Len(v) : v[j] = w[j]
    <3>1. DOMAIN v = 1 .. Len(v) /\ DOMAIN w = 1 .. Len(w)
      OBVIOUS
    <3>2. e.len = Len(v) /\ e.len = Len(w)
      BY <1>1 DEF Shows
    <3>3. /\ \A j \in DOMAIN v : e.bytes[j] = v[j]
          /\ \A j \in DOMAIN w : e.bytes[j] = w[j]
      BY <1>1 DEF Shows
    <3> QED BY ONLY <3>1, <3>2, <3>3
  <2>2. w = [j \in 1 .. Len(w) |-> w[j]] /\ v = [j \in 1 .. Len(v) |-> v[j]]
    OBVIOUS
  <2> QED BY <1>1, <2>1, <2>2
<1>2. CASE w = v
  BY <1>2
<1> QED BY <1>1, <1>2

\* What an entry that shows its value asks of an object, or one without a buffer.
LEMMA EntriesAsk ==
    ASSUME NEW g \in ObjHandles, NEW h \in ObjHandles, NEW e \in Entry,
           Has(g, e.type) /\ e.cap # Null => Shows(e, Value(g, e.type))
    PROVE Asks(h, e) <=>
             (e.cap # Null =>
                 /\ e.type \in {"class", "id", "label"} => Value(h, e.type) = Value(g, e.type)
                 /\ e.type \in {"sign", "decrypt"} /\ IsOn(g, e.type) => IsOn(h, e.type))
<1>1. e.type \in Types
  BY DEF Entry
<1>2. Value(g, e.type) \in Seq(Nat) /\ Value(h, e.type) \in Seq(Nat)
  BY <1>1, ValuesHaveALength
<1>3. CASE e.cap = Null
  BY <1>3 DEF Asks
<1>4. CASE e.cap # Null /\ e.type \in {"class", "id", "label"}
  <2>1. Has(g, e.type)
    BY <1>4 DEF Has
  <2>2. Shows(e, Value(g, e.type))
    BY <1>4, <2>1
  <2>3. Shows(e, Value(h, e.type)) <=> Value(h, e.type) = Value(g, e.type)
    BY <1>2, <2>2, ShownIsTheValue
  <2>4. e.type = "class" => e.len = 2
    <3> SUFFICES ASSUME e.type = "class" PROVE e.len = 2
      OBVIOUS
    <3>1. Value(g, e.type) = ClassCode[Objs[g].class]
      BY DEF Value
    <3>2. Objs[g] \in TokenObject
      BY ObjsAssumption DEF ObjHandles
    <3>3. Objs[g].class \in Classes
      BY <3>2 DEF TokenObject
    <3> QED BY <2>2, <3>1, <3>3, ClassCodesHaveTwoBytes DEF Shows
  <2> QED BY <1>4, <2>3, <2>4 DEF Asks
<1>5. CASE e.cap # Null /\ e.type \in {"sign", "decrypt"}
  <2>1. Has(g, e.type)
    BY <1>5 DEF Has, Booleans
  <2>2. Value(g, e.type) = <<IF IsOn(g, e.type) THEN 1 ELSE 0>>
    BY <1>5 DEF Value, Booleans
  <2>3. Len(Value(g, e.type)) = 1 /\ 1 \in DOMAIN Value(g, e.type)
        /\ Value(g, e.type)[1] = IF IsOn(g, e.type) THEN 1 ELSE 0
    BY <2>2
  <2>4. e.len = 1 /\ e.bytes[1] = IF IsOn(g, e.type) THEN 1 ELSE 0
    BY <1>5, <2>1, <2>3 DEF Shows
  <2> QED BY <1>5, <2>4 DEF Asks
<1>6. CASE e.type \notin {"class", "id", "label", "sign", "decrypt"}
  BY <1>6 DEF Asks
<1> QED BY <1>3, <1>4, <1>5, <1>6

\* A template that C_GetAttributeValue has filled finds, in a search, the object
\* it was read from and those that share its class, identifier and label
\* (attr_match).
THEOREM FilledTemplatesFind == AttrSpec => []ReadTemplatesFind
<1>1. AttrInv => ReadTemplatesFind
  <2> SUFFICES ASSUME AttrInv, rv \in {"OK", "ATTRIBUTE_TYPE_INVALID"}, NEW h \in ObjHandles
               PROVE AttrMatch(h) <=>
                       \A i \in DOMAIN entry :
                          LET a == entry[i].type
                          IN entry[i].cap # Null =>
                              /\ a \in {"class", "id", "label"} => Value(h, a) = Value(asked, a)
                              /\ a \in {"sign", "decrypt"} /\ IsOn(asked, a) => IsOn(h, a)
    BY DEF ReadTemplatesFind
  <2>1. Answer /\ rv # "BUFFER_TOO_SMALL"
    BY DEF Answer
  <2>2. asked \in ObjHandles
    BY <2>1 DEF AttrInv, TypeInv, AnswersAreOfAnObject
  <2>3. \A i \in DOMAIN entry :
           /\ entry[i] \in Entry
           /\ Has(asked, entry[i].type) /\ entry[i].cap # Null =>
                 Shows(entry[i], Value(asked, entry[i].type))
    BY <2>1 DEF AttrInv, TypeInv, EntriesAnswered
  <2> QED BY <2>2, <2>3, EntriesAsk DEF AttrMatch
<1> QED BY <1>1, AttrInvHolds, PTL
=============================================================================
