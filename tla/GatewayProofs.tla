---------------------------- MODULE GatewayProofs ----------------------------
(***************************************************************************)
(* Proofs about Gateway, for every set of nodes, requests, responses and   *)
(* foreign payloads: first about the wire format of ProcedureCodec, then   *)
(* about what the gateways and services do with the messages.              *)
(***************************************************************************)
EXTENDS Gateway, SequenceLemmas

\* A sequence, of whatever elements.
IsTokens(s) == \E S : s \in Seq(S)

\* All tokens are of the fields F.
Only(s, F) == \A i \in DOMAIN s : s[i].field \in F

\* The greatest of a set of numbers.
Greatest(A) == CHOOSE i \in A : \A j \in A : j <= i

\* The parts of Entries: the key of an entry, and the entries of a key.
KeyAt(s, i) == EntryText(s[i].body, 1)

KeysOf(s, field) == {KeyAt(s, i) : i \in At(s, field)}

EntriesOf(s, field, k) == {i \in At(s, field) : KeyAt(s, i) = k}

\* A decoder makes the same of a field in s and in t.
SameField(s, t, field) ==
    /\ At(s, field) = {} <=> At(t, field) = {}
    /\ At(t, field) # {} => LastBody(s, field) = LastBody(t, field)
    /\ Entries(s, field) = Entries(t, field)

-----------------------------------------------------------------------------
\* The places of a sequence of tokens.
LEMMA TokenPlaces ==
  ASSUME NEW s, IsTokens(s)
  PROVE  Len(s) \in Nat /\ DOMAIN s = 1 .. Len(s)
BY DEF IsTokens

\* A concatenation of tokens: those of the first part, then those of the second.
LEMMA TokenConcat ==
  ASSUME NEW q, NEW r, IsTokens(q), IsTokens(r)
  PROVE  /\ IsTokens(q \o r)
         /\ Len(q \o r) = Len(q) + Len(r)
         /\ \A i \in 1 .. Len(q) : (q \o r)[i] = q[i]
         /\ \A i \in 1 .. Len(r) : (q \o r)[Len(q) + i] = r[i]
         /\ \A i \in 1 .. Len(q \o r) :
               i \in 1 .. Len(q) \/ (i - Len(q) \in 1 .. Len(r)
                                        /\ (q \o r)[i] = r[i - Len(q)])
<1>1. PICK S : q \in Seq(S)
  BY DEF IsTokens
<1>2. PICK T : r \in Seq(T)
  BY DEF IsTokens
<1>3. q \in Seq(S \union T) /\ r \in Seq(S \union T)
  BY <1>1, <1>2, SeqWider
<1> DEFINE U == S \union T
<1> HIDE DEF U
<1>4. q \in Seq(U) /\ r \in Seq(U)
  BY <1>3 DEF U
<1>5. q \o r \in Seq(U)
  BY <1>4
<1> QED
  BY <1>4, <1>5, ConcatPlaces DEF IsTokens

\* The greatest of a finite set of numbers is one of it, and there is only one.
LEMMA GreatestPlace ==
  ASSUME NEW n \in Nat, NEW A, A \subseteq 1 .. n, A # {}
  PROVE  /\ Greatest(A) \in A
         /\ \A j \in A : j <= Greatest(A)
<1>1. A \subseteq 0 .. n
  OBVIOUS
<1>2. \E i \in A : \A j \in A : j <= i
  BY <1>1, GreatestNatural
<1> QED
  BY <1>2 DEF Greatest

\* Moved by a number, it is moved by that number.
LEMMA GreatestMoved ==
  ASSUME NEW n \in Nat, NEW A, A \subseteq 1 .. n, A # {}, NEW k \in Nat
  PROVE  Greatest({k + i : i \in A}) = k + Greatest(A)
<1> DEFINE B == {k + i : i \in A}
           g == Greatest(A)
           h == Greatest(B)
<1>1. g \in A /\ \A j \in A : j <= g
  BY GreatestPlace
<1>2. B \subseteq 1 .. (k + n) /\ B # {} /\ k + n \in Nat
  <2>1. \A i \in 1 .. n : k + i \in 1 .. (k + n)
    OBVIOUS
  <2>2. \A i \in A : k + i \in B
    OBVIOUS
  <2>3. \A b \in B : b \in 1 .. (k + n)
    BY <2>1
  <2>4. B # {}
    BY <2>2
  <2> QED
    BY <2>3, <2>4
<1>3. h \in B /\ \A j \in B : j <= h
  BY <1>2, GreatestPlace
<1>4. k + g \in B
  BY <1>1
<1> HIDE DEF g, h
<1>5. PICK i \in A : h = k + i
  BY <1>3
<1>6. i <= g /\ k + g <= h
  BY <1>1, <1>3, <1>4
<1>7. i \in Nat /\ g \in Nat
  BY <1>1
<1>8. h = k + g
  BY <1>5, <1>6, <1>7
<1> QED
  BY <1>8 DEF g, h

\* The last token of a field.
LEMMA LastBodyAt ==
  ASSUME NEW s, NEW field
  PROVE  LastBody(s, field) = s[Greatest(At(s, field))].body
BY DEF LastBody, Greatest

\* Entries by its parts.
LEMMA EntriesParts ==
  ASSUME NEW s, NEW field
  PROVE  Entries(s, field) =
            [k \in KeysOf(s, field) |->
                EntryText(s[Greatest(EntriesOf(s, field, k))].body, 2)]
BY DEF Entries, KeysOf, KeyAt, EntriesOf, Greatest

\* A field no token of the second part has is decoded from the first part.
LEMMA LeftSame ==
  ASSUME NEW q, NEW r, NEW field, IsTokens(q), IsTokens(r),
         At(r, field) = {}
  PROVE  SameField(q \o r, q, field)
<1> DEFINE s == q \o r
<1>1. /\ DOMAIN s = 1 .. Len(s) /\ Len(s) \in Nat
      /\ DOMAIN q = 1 .. Len(q) /\ Len(q) \in Nat
      /\ DOMAIN r = 1 .. Len(r) /\ Len(r) \in Nat
      /\ Len(s) = Len(q) + Len(r)
      /\ \A i \in 1 .. Len(q) : s[i] = q[i]
      /\ \A i \in 1 .. Len(s) :
            i \in 1 .. Len(q) \/ (i - Len(q) \in 1 .. Len(r)
                                     /\ s[i] = r[i - Len(q)])
  BY TokenConcat, TokenPlaces
<1> HIDE DEF s
<1>2. At(s, field) = At(q, field)
  <2>1. At(q, field) \subseteq At(s, field)
    BY <1>1 DEF At
  <2>2. ASSUME NEW i \in At(s, field)
        PROVE  i \in At(q, field)
    <3>1. i \in 1 .. Len(s) /\ s[i].field = field
      BY <1>1 DEF At
    <3>2. CASE i \in 1 .. Len(q)
      BY <1>1, <3>1, <3>2 DEF At
    <3>3. CASE i - Len(q) \in 1 .. Len(r) /\ s[i] = r[i - Len(q)]
      BY <1>1, <3>1, <3>3 DEF At
    <3> QED
      BY <1>1, <3>1, <3>2, <3>3
  <2> QED
    BY <2>1, <2>2
<1>3. \A i \in At(q, field) : s[i] = q[i]
  BY <1>1 DEF At
<1>4. At(q, field) \subseteq 1 .. Len(q)
  BY <1>1 DEF At
<1>5. ASSUME At(q, field) # {}
      PROVE  LastBody(s, field) = LastBody(q, field)
  <2>1. Greatest(At(q, field)) \in At(q, field)
    BY <1>1, <1>4, <1>5, GreatestPlace
  <2> QED
    BY <1>2, <1>3, <2>1, LastBodyAt
<1>6. Entries(s, field) = Entries(q, field)
  <2>1. \A i \in At(q, field) : KeyAt(s, i) = KeyAt(q, i)
    BY <1>3 DEF KeyAt
  <2>2. KeysOf(s, field) = KeysOf(q, field)
    BY <1>2, <2>1 DEF KeysOf
  <2>3. \A k : EntriesOf(s, field, k) = EntriesOf(q, field, k)
    BY <1>2, <2>1 DEF EntriesOf
  <2>4. ASSUME NEW k \in KeysOf(q, field)
        PROVE  s[Greatest(EntriesOf(s, field, k))] = q[Greatest(EntriesOf(q, field, k))]
    <3>1. EntriesOf(q, field, k) \subseteq 1 .. Len(q) /\ EntriesOf(q, field, k) # {}
      BY <1>4 DEF EntriesOf, KeysOf
    <3>2. Greatest(EntriesOf(q, field, k)) \in At(q, field)
      BY <1>1, <3>1, GreatestPlace DEF EntriesOf
    <3> QED
      BY <1>3, <2>3, <3>2
  <2> QED
    BY <2>2, <2>4, EntriesParts
<1> QED
  BY <1>2, <1>5, <1>6 DEF SameField, s

\* A field no token of the first part has is decoded from the second part.
LEMMA RightSame ==
  ASSUME NEW q, NEW r, NEW field, IsTokens(q), IsTokens(r),
         At(q, field) = {}
  PROVE  SameField(q \o r, r, field)
<1> DEFINE s == q \o r
           l == Len(q)
           n == Len(r)
           Moved(A) == {l + i : i \in A}
<1>1. /\ DOMAIN s = 1 .. Len(s) /\ Len(s) = l + n
      /\ DOMAIN q = 1 .. l /\ l \in Nat
      /\ DOMAIN r = 1 .. n /\ n \in Nat
      /\ \A i \in 1 .. l : s[i] = q[i]
      /\ \A i \in 1 .. n : s[l + i] = r[i]
      /\ \A i \in 1 .. Len(s) :
            i \in 1 .. l \/ (i - l \in 1 .. n /\ s[i] = r[i - l])
  BY TokenConcat, TokenPlaces
<1> HIDE DEF s, l, n
<1>2. At(s, field) = Moved(At(r, field))
  <2>1. ASSUME NEW i \in At(r, field)
        PROVE  l + i \in At(s, field)
    <3>1. i \in 1 .. n /\ r[i].field = field
      BY <1>1 DEF At
    <3>2. l + i \in 1 .. (l + n)
      BY <1>1, <3>1
    <3> QED
      BY <1>1, <3>1, <3>2 DEF At
  <2>2. ASSUME NEW i \in At(s, field)
        PROVE  i \in Moved(At(r, field))
    <3>1. i \in 1 .. Len(s) /\ s[i].field = field
      BY <1>1 DEF At
    <3>2. i \notin 1 .. l
      BY <1>1, <3>1 DEF At
    <3>3. i - l \in 1 .. n /\ s[i] = r[i - l]
      BY <1>1, <3>1, <3>2
    <3>4. i - l \in At(r, field)
      BY <1>1, <3>1, <3>3 DEF At
    <3>5. i = l + (i - l)
      BY <1>1, <3>1
    <3> QED
      BY <3>4, <3>5
  <2> QED
    BY <2>1, <2>2
<1>3. \A i \in At(r, field) : s[l + i] = r[i]
  BY <1>1 DEF At
<1>4. At(r, field) \subseteq 1 .. n
  BY <1>1 DEF At
<1>5. ASSUME NEW A, A \subseteq At(r, field), A # {}
      PROVE  s[Greatest(Moved(A))] = r[Greatest(A)]
  <2>1. A \subseteq 1 .. n
    BY <1>4, <1>5
  <2>2. Greatest(A) \in A /\ Greatest(Moved(A)) = l + Greatest(A)
    BY <1>1, <1>5, <2>1, GreatestPlace, GreatestMoved
  <2> QED
    BY <1>3, <1>5, <2>2
<1>6. ASSUME At(r, field) # {}
      PROVE  LastBody(s, field) = LastBody(r, field)
  BY <1>2, <1>5, <1>6, LastBodyAt
<1>7. \A i \in At(r, field) : KeyAt(s, l + i) = KeyAt(r, i)
  BY <1>3 DEF KeyAt
<1>8. KeysOf(s, field) = KeysOf(r, field)
  BY <1>2, <1>7 DEF KeysOf
<1>9. \A k : EntriesOf(s, field, k) = Moved(EntriesOf(r, field, k))
  BY <1>2, <1>7 DEF EntriesOf
<1>10. ASSUME NEW k \in KeysOf(r, field)
       PROVE  s[Greatest(EntriesOf(s, field, k))] = r[Greatest(EntriesOf(r, field, k))]
  <2>1. EntriesOf(r, field, k) \subseteq At(r, field) /\ EntriesOf(r, field, k) # {}
    BY DEF EntriesOf, KeysOf
  <2> QED
    BY <1>5, <1>9, <2>1
<1>11. Entries(s, field) = Entries(r, field)
  BY <1>8, <1>10, EntriesParts
<1>12. At(s, field) = {} <=> At(r, field) = {}
  BY <1>2
<1> QED
  BY <1>6, <1>11, <1>12 DEF SameField, s

\* Tokens that are only of some fields.
LEMMA OnlyNowhere ==
  ASSUME NEW s, NEW F, Only(s, F), NEW field, field \notin F
  PROVE  At(s, field) = {}
BY DEF Only, At

\* The fields of a concatenation are those of its parts.
LEMMA OnlyConcat ==
  ASSUME NEW q, NEW r, IsTokens(q), IsTokens(r),
         NEW F, NEW G, Only(q, F), Only(r, G)
  PROVE  Only(q \o r, F \union G)
<1> DEFINE s == q \o r
<1>1. /\ DOMAIN s = 1 .. Len(s)
      /\ DOMAIN q = 1 .. Len(q) /\ DOMAIN r = 1 .. Len(r)
      /\ \A i \in 1 .. Len(q) : s[i] = q[i]
      /\ \A i \in 1 .. Len(s) :
            i \in 1 .. Len(q) \/ (i - Len(q) \in 1 .. Len(r)
                                     /\ s[i] = r[i - Len(q)])
  BY TokenConcat, TokenPlaces
<1> HIDE DEF s
<1> QED
  BY <1>1 DEF Only, s

\* A field is the same in two concatenations if it is in their parts.
LEMMA SameFieldTrans ==
  ASSUME NEW s, NEW t, NEW u, NEW field,
         SameField(s, t, field), SameField(t, u, field)
  PROVE  SameField(s, u, field)
BY DEF SameField

\* One more part at the end adds its field.
LEMMA PartAdded ==
  ASSUME NEW s, NEW r, NEW F, NEW k, IsTokens(s), IsTokens(r),
         Only(s, F), Only(r, {k}), k \notin F
  PROVE  /\ IsTokens(s \o r)
         /\ Only(s \o r, F \union {k})
         /\ SameField(s \o r, r, k)
<1>1. IsTokens(s \o r) /\ Only(s \o r, F \union {k})
  BY TokenConcat, OnlyConcat
<1>2. SameField(s \o r, r, k)
  BY OnlyNowhere, RightSame
<1> QED
  BY <1>1, <1>2

\* And leaves the others.
LEMMA PartKept ==
  ASSUME NEW s, NEW r, NEW k, IsTokens(s), IsTokens(r), Only(r, {k}),
         NEW t, NEW field, field # k, SameField(s, t, field)
  PROVE  SameField(s \o r, t, field)
<1>1. SameField(s \o r, s, field)
  BY OnlyNowhere, LeftSame
<1> QED
  BY <1>1, SameFieldTrans

\* The two parts of a response.
LEMMA TwoParts ==
  ASSUME NEW a, NEW b, IsTokens(a), IsTokens(b), Only(a, {1}), Only(b, {2})
  PROVE  /\ IsTokens(a \o b) /\ Only(a \o b, {1, 2})
         /\ SameField(a \o b, a, 1) /\ SameField(a \o b, b, 2)
<1>1. SameField(a, a, 1)
  BY DEF SameField
<1>2. SameField(a \o b, a, 1)
  BY <1>1, PartKept
<1>3. 2 \notin {1} /\ {1} \union {2} = {1, 2}
  OBVIOUS
<1>4. /\ IsTokens(a \o b) /\ Only(a \o b, {1} \union {2})
      /\ SameField(a \o b, b, 2)
  BY <1>3, PartAdded
<1> QED
  BY <1>2, <1>3, <1>4

\* The four parts of a request.
LEMMA FourParts ==
  ASSUME NEW a, NEW b, NEW c, NEW d,
         IsTokens(a), IsTokens(b), IsTokens(c), IsTokens(d),
         Only(a, {1}), Only(b, {2}), Only(c, {3}), Only(d, {4})
  PROVE  LET s == a \o b \o c \o d IN
         /\ IsTokens(s) /\ Only(s, {1, 2, 3, 4})
         /\ SameField(s, a, 1) /\ SameField(s, b, 2)
         /\ SameField(s, c, 3) /\ SameField(s, d, 4)
<1> DEFINE s == a \o b
           t == s \o c
<1>1. /\ IsTokens(s) /\ Only(s, {1, 2})
      /\ SameField(s, a, 1) /\ SameField(s, b, 2)
  BY TwoParts
<1> HIDE DEF s
<1>2. 3 \notin {1, 2} /\ {1, 2} \union {3} = {1, 2, 3}
      /\ 4 \notin {1, 2, 3} /\ {1, 2, 3} \union {4} = {1, 2, 3, 4}
  OBVIOUS
<1>0. 1 # 3 /\ 2 # 3 /\ 1 # 4 /\ 2 # 4 /\ 3 # 4
  OBVIOUS
<1>3. IsTokens(t) /\ Only(t, {1, 2} \union {3}) /\ SameField(t, c, 3)
  BY <1>1, <1>2, PartAdded
<1>4. SameField(t, a, 1)
  BY <1>0, <1>1, PartKept
<1>5. SameField(t, b, 2)
  BY <1>0, <1>1, PartKept
<1>6. Only(t, {1, 2, 3})
  BY <1>2, <1>3
<1> HIDE DEF t
<1>7. IsTokens(t \o d) /\ Only(t \o d, {1, 2, 3} \union {4}) /\ SameField(t \o d, d, 4)
  BY <1>2, <1>3, <1>6, PartAdded
<1>8. SameField(t \o d, a, 1)
  BY <1>0, <1>3, <1>4, PartKept
<1>9. SameField(t \o d, b, 2)
  BY <1>0, <1>3, <1>5, PartKept
<1>10. SameField(t \o d, c, 3)
  BY <1>0, <1>3, PartKept
<1> QED
  BY <1>2, <1>7, <1>8, <1>9, <1>10 DEF s, t

\* The six parts of a procedure.
LEMMA SixParts ==
  ASSUME NEW a, NEW b, NEW c, NEW d, NEW e, NEW f,
         IsTokens(a), IsTokens(b), IsTokens(c), IsTokens(d), IsTokens(e), IsTokens(f),
         Only(a, {1}), Only(b, {2}), Only(c, {3}), Only(d, {4}),
         Only(e, {5}), Only(f, {6})
  PROVE  LET s == a \o b \o c \o d \o e \o f IN
         /\ IsTokens(s)
         /\ SameField(s, a, 1) /\ SameField(s, b, 2) /\ SameField(s, c, 3)
         /\ SameField(s, d, 4) /\ SameField(s, e, 5) /\ SameField(s, f, 6)
<1> DEFINE s == a \o b \o c \o d
           t == s \o e
<1>1. /\ IsTokens(s) /\ Only(s, {1, 2, 3, 4})
      /\ SameField(s, a, 1) /\ SameField(s, b, 2)
      /\ SameField(s, c, 3) /\ SameField(s, d, 4)
  BY FourParts
<1> HIDE DEF s
<1>2. 5 \notin {1, 2, 3, 4} /\ {1, 2, 3, 4} \union {5} = {1, 2, 3, 4, 5}
      /\ 6 \notin {1, 2, 3, 4, 5}
  OBVIOUS
<1>0. /\ 1 # 5 /\ 2 # 5 /\ 3 # 5 /\ 4 # 5
      /\ 1 # 6 /\ 2 # 6 /\ 3 # 6 /\ 4 # 6 /\ 5 # 6
  OBVIOUS
<1>3. IsTokens(t) /\ Only(t, {1, 2, 3, 4} \union {5}) /\ SameField(t, e, 5)
  BY <1>1, <1>2, PartAdded
<1>4. SameField(t, a, 1)
  BY <1>0, <1>1, PartKept
<1>5. SameField(t, b, 2)
  BY <1>0, <1>1, PartKept
<1>6. SameField(t, c, 3)
  BY <1>0, <1>1, PartKept
<1>7. SameField(t, d, 4)
  BY <1>0, <1>1, PartKept
<1>8. Only(t, {1, 2, 3, 4, 5})
  BY <1>2, <1>3
<1> HIDE DEF t
<1>9. IsTokens(t \o f) /\ SameField(t \o f, f, 6)
  BY <1>2, <1>3, <1>8, PartAdded
<1>10. SameField(t \o f, a, 1)
  BY <1>0, <1>3, <1>4, PartKept
<1>11. SameField(t \o f, b, 2)
  BY <1>0, <1>3, <1>5, PartKept
<1>12. SameField(t \o f, c, 3)
  BY <1>0, <1>3, <1>6, PartKept
<1>13. SameField(t \o f, d, 4)
  BY <1>0, <1>3, <1>7, PartKept
<1>14. SameField(t \o f, e, 5)
  BY <1>0, <1>3, PartKept
<1> QED
  BY <1>9, <1>10, <1>11, <1>12, <1>13, <1>14 DEF s, t

-----------------------------------------------------------------------------
\* A string reads as itself, and anything else as a string, too.
LEMMA TextIsString ==
  ASSUME NEW body
  PROVE  Text(body) \in Strings /\ (body \in Strings => Text(body) = body)
BY StringsAssumption DEF Text

\* A single token.
LEMMA OneToken ==
  ASSUME NEW k, NEW body
  PROVE  LET s == <<Token(k, body)>> IN
         /\ IsTokens(s) /\ Only(s, {k})
         /\ At(s, k) # {} /\ LastBody(s, k) = body
<1> DEFINE s == <<Token(k, body)>>
<1>1. s \in Seq({Token(k, body)}) /\ DOMAIN s = {1} /\ s[1] = Token(k, body)
  OBVIOUS
<1>2. s[1].field = k /\ s[1].body = body
  BY <1>1 DEF Token
<1> HIDE DEF s
<1>3. At(s, k) = {1}
  BY <1>1, <1>2 DEF At
<1>4. Greatest({1}) = 1
  BY GreatestPlace
<1>5. LastBody(s, k) = body
  BY <1>2, <1>3, <1>4, LastBodyAt
<1>6. IsTokens(s)
  BY <1>1 DEF IsTokens
<1>7. Only(s, {k})
  BY <1>1, <1>2 DEF Only
<1> QED
  BY <1>3, <1>5, <1>6, <1>7 DEF s

\* No token at all.
LEMMA NoToken ==
  ASSUME NEW k
  PROVE  /\ IsTokens(<<>>) /\ Only(<<>>, {k}) /\ At(<<>>, k) = {}
         /\ Entries(<<>>, k) = NoProperties
<1>1. IsTokens(<<>>)
  <2>1. <<>> \in Seq({})
    OBVIOUS
  <2> QED
    BY <2>1 DEF IsTokens
<1>2. Only(<<>>, {k}) /\ At(<<>>, k) = {}
  BY ToSetEmpty DEF Only, At
<1>3. KeysOf(<<>>, k) = {}
  BY <1>2 DEF KeysOf
<1> DEFINE f == Entries(<<>>, k)
<1>4. f = [x \in {} |-> EntryText(<<>>[Greatest(EntriesOf(<<>>, k, x))].body, 2)]
  BY <1>3, EntriesParts
<1>5. f = <<>>
  <2> HIDE DEF f
  <2>1. f \in [1 .. 0 -> {}]
    BY <1>4
  <2>2. f \in Seq({}) /\ Len(f) = 0
    BY <2>1, SeqDef, LenProperties
  <2> QED
    BY <2>2, EmptySeq
<1> QED
  BY <1>1, <1>2, <1>5 DEF NoProperties

\* A scalar property is a token if it has a value, and none otherwise.
LEMMA ScalarPart ==
  ASSUME NEW k, NEW m, NEW p
  PROVE  LET s == Scalar(k, m, p) IN
         /\ IsTokens(s) /\ Only(s, {k})
         /\ At(s, k) # {} <=> HasValue(m, p)
         /\ HasValue(m, p) => LastBody(s, k) = m[p]
<1>1. CASE HasValue(m, p)
  BY <1>1, OneToken DEF Scalar
<1>2. CASE ~HasValue(m, p)
  BY <1>2, NoToken DEF Scalar
<1> QED
  BY <1>1, <1>2

\* So is the procedure.
LEMMA NestedPart ==
  ASSUME NEW k, NEW m
  PROVE  LET s == Nested(k, m) IN
         /\ IsTokens(s) /\ Only(s, {k})
         /\ At(s, k) # {} <=> HasValue(m, "procedure")
         /\ HasValue(m, "procedure") => LastBody(s, k) = EncodeProcedure(m.procedure)
<1>1. CASE HasValue(m, "procedure")
  BY <1>1, OneToken DEF Nested
<1>2. CASE ~HasValue(m, "procedure")
  BY <1>2, NoToken DEF Nested
<1> QED
  BY <1>1, <1>2

\* The entry of a map has a key and a value.
LEMMA EntryRead ==
  ASSUME NEW x, NEW y
  PROVE  LET e == <<Token(1, x), Token(2, y)>> IN
         EntryText(e, 1) = Text(x) /\ EntryText(e, 2) = Text(y)
<1> DEFINE e == <<Token(1, x), Token(2, y)>>
<1>1. /\ DOMAIN e = {1, 2} /\ e[1] = Token(1, x) /\ e[2] = Token(2, y)
  OBVIOUS
<1>2. e[1].field = 1 /\ e[1].body = x /\ e[2].field = 2 /\ e[2].body = y
  BY <1>1 DEF Token
<1> HIDE DEF e
<1>3. At(e, 1) = {1} /\ At(e, 2) = {2}
  BY <1>1, <1>2 DEF At
<1>4. Greatest({1}) = 1 /\ Greatest({2}) = 2
  <2>1. {1} \subseteq 1 .. 2 /\ {1} # {} /\ {2} \subseteq 1 .. 2 /\ {2} # {} /\ 2 \in Nat
    OBVIOUS
  <2>2. Greatest({1}) \in {1} /\ Greatest({2}) \in {2}
    BY <2>1, GreatestPlace
  <2> QED
    BY <2>2
<1>5. LastBody(e, 1) = x /\ LastBody(e, 2) = y
  BY <1>2, <1>3, <1>4, LastBodyAt
<1>6. {1} # {} /\ {2} # {}
  OBVIOUS
<1>7. EntryText(e, 1) = Text(x)
  BY <1>3, <1>5, <1>6 DEF EntryText
<1>8. EntryText(e, 2) = Text(y)
  BY <1>3, <1>5, <1>6 DEF EntryText
<1> QED
  BY <1>7, <1>8 DEF e

\* The sequence of a finite set has each of its elements once.
LEMMA SetToSeqPlaces ==
  ASSUME NEW K, IsFiniteSet(K)
  PROVE  /\ Cardinality(K) \in Nat
         /\ SetToSeq(K) \in [1 .. Cardinality(K) -> K]
         /\ \A i, j \in 1 .. Cardinality(K) : SetToSeq(K)[i] = SetToSeq(K)[j] => i = j
         /\ \A x \in K : \E i \in 1 .. Cardinality(K) : SetToSeq(K)[i] = x
<1> DEFINE c == Cardinality(K)
           f == SetToSeq(K)
<1>1. c \in Nat /\ ExistsBijection(1 .. c, K)
  BY FS_CardinalityType
<1>2. PICK g : g \in Bijection(1 .. c, K)
  BY <1>1 DEF ExistsBijection
<1>3. g \in [1 .. c -> K] /\ IsInjective(g)
  BY <1>2 DEF Bijection, Injection, IsInjective
<1>4. f \in [1 .. c -> K] /\ IsInjective(f)
  BY <1>3, Zenon DEF SetToSeq
<1> HIDE DEF f
<1>5. \A i, j \in 1 .. c : f[i] = f[j] => i = j
  BY <1>4 DEF IsInjective
<1>6. f \in Injection(1 .. c, K)
  BY <1>4, <1>5 DEF Injection, IsInjective
<1>7. IsFiniteSet(1 .. c) /\ Cardinality(1 .. c) = c
  BY <1>1, FS_Interval
<1>8. f \in Surjection(1 .. c, K)
  BY <1>6, <1>7, FS_Injection
<1>9. \A x \in K : \E i \in 1 .. c : f[i] = x
  BY <1>8 DEF Surjection
<1> QED
  BY <1>1, <1>4, <1>5, <1>9 DEF f

\* A map of strings, with finitely many keys.
IsMap(f) ==
    /\ IsFiniteSet(DOMAIN f) /\ DOMAIN f \subseteq Strings
    /\ f \in [DOMAIN f -> Strings]

\* null is none.
LEMMA MapNotNull ==
  ASSUME NEW f, IsMap(f)
  PROVE  f # NULL
<1>1. DOMAIN f \in SUBSET Strings
  BY DEF IsMap
<1>2. NULL \notin [DOMAIN f -> Strings]
  BY <1>1, NullAssumption
<1> QED
  BY <1>2 DEF IsMap

\* Whatever the tokens, a decoder makes a map of a field.
LEMMA EntriesAreMap ==
  ASSUME NEW s, IsTokens(s), NEW k
  PROVE  IsMap(Entries(s, k))
<1> DEFINE f == Entries(s, k)
           g == [i \in At(s, k) |-> KeyAt(s, i)]
<1>1. Len(s) \in Nat /\ At(s, k) \subseteq 1 .. Len(s)
  BY TokenPlaces DEF At
<1>2. IsFiniteSet(At(s, k))
  <2>1. IsFiniteSet(1 .. Len(s))
    BY <1>1, FS_Interval
  <2> QED
    BY <1>1, <2>1, FS_Subset
<1>3. g \in Surjection(At(s, k), KeysOf(s, k))
  BY DEF Surjection, KeysOf
<1>4. IsFiniteSet(KeysOf(s, k))
  BY <1>2, <1>3, FS_Surjection
<1>5. \A e, field : EntryText(e, field) \in Strings
  BY TextIsString, StringsAssumption DEF EntryText
<1>6. KeysOf(s, k) \subseteq Strings
  BY <1>5 DEF KeysOf, KeyAt
<1>7. f \in [KeysOf(s, k) -> Strings]
  BY <1>5, EntriesParts
<1> HIDE DEF f
<1>8. DOMAIN f = KeysOf(s, k)
  BY <1>7
<1> QED
  BY <1>4, <1>6, <1>7, <1>8 DEF IsMap, f

\* The tokens of a map, in whatever order, one for each key.
LEMMA MapPart ==
  ASSUME NEW k, NEW m, NEW p, FiniteMap(m, p)
  PROVE  LET s == Map(k, m, p) IN IsTokens(s) /\ Only(s, {k})
<1>1. CASE HasValue(m, p)
  <2> DEFINE map == m[p]
             K == DOMAIN map
             c == Cardinality(K)
             keys == SetToSeq(K)
             entry(x) == Token(k, <<Token(1, x), Token(2, map[x])>>)
             s == [i \in 1 .. c |-> entry(keys[i])]
  <2>1. IsFiniteSet(K)
    BY <1>1 DEF FiniteMap
  <2>2. c \in Nat /\ keys \in [1 .. c -> K]
    BY <2>1, SetToSeqPlaces
  <2>3. DOMAIN keys = 1 .. c
    BY <2>2
  <2>4. Map(k, m, p) = s
    BY <1>1, <2>3 DEF Map
  <2>5. \A x : entry(x).field = k
    BY DEF Token
  <2> DEFINE S == {entry(x) : x \in K}
  <2>6. \A i \in 1 .. c : entry(keys[i]) \in S
    BY <2>2
  <2> HIDE DEF c, keys, entry, S
  <2>7. s \in [1 .. c -> S]
    BY <2>6
  <2>8. s \in Seq(S)
    BY <2>2, <2>7, SeqDef
  <2>9. IsTokens(s)
    BY <2>8 DEF IsTokens
  <2>10. Only(s, {k})
    BY <2>5 DEF Only
  <2> HIDE DEF s
  <2> QED
    BY <2>4, <2>9, <2>10
<1>2. CASE ~HasValue(m, p)
  BY <1>2, NoToken DEF Map
<1> QED
  BY <1>1, <1>2

\* A map of strings survives encoding and decoding.
LEMMA MapRoundTrip ==
  ASSUME NEW k, NEW m, NEW p, HasValue(m, p), IsMap(m[p])
  PROVE  Entries(Map(k, m, p), k) = m[p]
<1> DEFINE map == m[p]
           K == DOMAIN map
           c == Cardinality(K)
           keys == SetToSeq(K)
           s == [i \in 1 .. c |-> Token(k, <<Token(1, keys[i]), Token(2, map[keys[i]])>>)]
<1>1. /\ IsFiniteSet(K) /\ K \subseteq Strings
      /\ map = [x \in K |-> map[x]] /\ \A x \in K : map[x] \in Strings
  BY DEF IsMap
<1>2. /\ c \in Nat /\ keys \in [1 .. c -> K]
      /\ \A i, j \in 1 .. c : keys[i] = keys[j] => i = j
      /\ \A x \in K : \E i \in 1 .. c : keys[i] = x
  BY <1>1, SetToSeqPlaces
<1>3. Map(k, m, p) = s
  <2>1. DOMAIN keys = 1 .. c
    BY <1>2
  <2> QED
    BY <2>1 DEF Map
<1>4. \A i \in 1 .. c : s[i].field = k
                        /\ s[i].body = <<Token(1, keys[i]), Token(2, map[keys[i]])>>
  BY DEF Token
<1>5. DOMAIN s = 1 .. c
  OBVIOUS
<1> HIDE DEF s, c, keys, K, map
<1>6. At(s, k) = 1 .. c
  BY <1>4, <1>5 DEF At
<1>7. ASSUME NEW i \in 1 .. c
      PROVE  KeyAt(s, i) = keys[i] /\ EntryText(s[i].body, 2) = map[keys[i]]
  <2>1. keys[i] \in K /\ keys[i] \in Strings /\ map[keys[i]] \in Strings
    BY <1>1, <1>2
  <2>2. /\ EntryText(s[i].body, 1) = Text(keys[i])
        /\ EntryText(s[i].body, 2) = Text(map[keys[i]])
    BY <1>4, EntryRead
  <2> QED
    BY <2>1, <2>2, TextIsString DEF KeyAt
<1>8. KeysOf(s, k) = K
  <2>1. KeysOf(s, k) \subseteq K
    BY <1>2, <1>6, <1>7 DEF KeysOf
  <2>2. ASSUME NEW x \in K
        PROVE  x \in KeysOf(s, k)
    <3>1. PICK i \in 1 .. c : keys[i] = x
      BY <1>2
    <3> QED
      BY <1>6, <1>7, <3>1 DEF KeysOf
  <2> QED
    BY <2>1, <2>2
<1>9. ASSUME NEW x \in K
      PROVE  EntryText(s[Greatest(EntriesOf(s, k, x))].body, 2) = map[x]
  <2>1. PICK i \in 1 .. c : keys[i] = x
    BY <1>2
  <2>2. EntriesOf(s, k, x) = {i}
    BY <1>2, <1>6, <1>7, <2>1 DEF EntriesOf
  <2>3. Greatest({i}) = i
    <3>1. {i} \subseteq 1 .. c /\ {i} # {}
      OBVIOUS
    <3>2. Greatest({i}) \in {i}
      BY <1>2, <3>1, GreatestPlace
    <3> QED
      BY <3>2
  <2> QED
    BY <1>7, <2>1, <2>2, <2>3
<1>10. Entries(s, k) = map
  BY <1>1, <1>8, <1>9, EntriesParts
<1> QED
  BY <1>3, <1>10 DEF map

-----------------------------------------------------------------------------
\* What a decoder makes of a procedure.
LEMMA ProcedureParts ==
  ASSUME NEW s
  PROVE  LET d == DecodeProcedure(s) IN
         /\ d = [x \in DOMAIN d |-> d[x]]
         /\ DOMAIN d \subseteq DOMAIN ProcedureDefaults
         /\ "inputFields" \in DOMAIN d /\ d["inputFields"] = Entries(s, 5)
         /\ "outputFields" \in DOMAIN d /\ d["outputFields"] = Entries(s, 6)
         /\ "type" \in DOMAIN d <=> At(s, 1) # {}
         /\ "name" \in DOMAIN d <=> At(s, 2) # {}
         /\ "description" \in DOMAIN d <=> At(s, 3) # {}
         /\ "reply" \in DOMAIN d <=> At(s, 4) # {}
         /\ At(s, 1) # {} => d["type"] = Text(LastBody(s, 1))
         /\ At(s, 2) # {} => d["name"] = Text(LastBody(s, 2))
         /\ At(s, 3) # {} => d["description"] = Text(LastBody(s, 3))
         /\ At(s, 4) # {} => d["reply"] = LastBody(s, 4)
<1>1. /\ DOMAIN ProcedureFields = {"type", "name", "description", "reply",
                                   "inputFields", "outputFields"}
      /\ ProcedureFields["type"] = 1 /\ ProcedureFields["name"] = 2
      /\ ProcedureFields["description"] = 3 /\ ProcedureFields["reply"] = 4
      /\ ProcedureFields["inputFields"] = 5 /\ ProcedureFields["outputFields"] = 6
      /\ DOMAIN ProcedureDefaults = DOMAIN ProcedureFields
  BY DEF ProcedureFields, ProcedureDefaults
<1> DEFINE maps == {"inputFields", "outputFields"}
           P == Present(s, ProcedureFields, maps)
           body(p) == LastBody(s, ProcedureFields[p])
           value(p) == CASE p \in maps -> Entries(s, ProcedureFields[p])
                         [] p = "reply" -> body(p)
                         [] OTHER -> Text(body(p))
           d == [p \in P |-> value(p)]
<1>2. DecodeProcedure(s) = d
  BY DEF DecodeProcedure
<1>3. /\ value("inputFields") = Entries(s, 5) /\ value("outputFields") = Entries(s, 6)
      /\ value("type") = Text(LastBody(s, 1)) /\ value("name") = Text(LastBody(s, 2))
      /\ value("description") = Text(LastBody(s, 3)) /\ value("reply") = LastBody(s, 4)
  BY <1>1
<1> HIDE DEF value
<1>4. /\ P \subseteq DOMAIN ProcedureDefaults
      /\ "inputFields" \in P /\ "outputFields" \in P
      /\ "type" \in P <=> At(s, 1) # {}
      /\ "name" \in P <=> At(s, 2) # {}
      /\ "description" \in P <=> At(s, 3) # {}
      /\ "reply" \in P <=> At(s, 4) # {}
  BY <1>1 DEF Present
<1> HIDE DEF P
<1>5. DOMAIN d = P /\ \A p \in P : d[p] = value(p)
  OBVIOUS
<1>6. d = [p \in DOMAIN d |-> d[p]]
  OBVIOUS
<1> HIDE DEF d
<1> QED
  BY <1>2, <1>3, <1>4, <1>5, <1>6

\* And of a request.
LEMMA ReqParts ==
  ASSUME NEW s
  PROVE  LET d == DecodeReq(s) IN
         /\ d = [x \in DOMAIN d |-> d[x]]
         /\ DOMAIN d \subseteq DOMAIN ReqDefaults
         /\ "inputs" \in DOMAIN d /\ d["inputs"] = Entries(s, 4)
         /\ "receiverUhuraId" \in DOMAIN d <=> At(s, 1) # {}
         /\ "senderUhuraId" \in DOMAIN d <=> At(s, 2) # {}
         /\ "procedure" \in DOMAIN d <=> At(s, 3) # {}
         /\ At(s, 1) # {} => d["receiverUhuraId"] = Text(LastBody(s, 1))
         /\ At(s, 2) # {} => d["senderUhuraId"] = Text(LastBody(s, 2))
         /\ At(s, 3) # {} => d["procedure"] = DecodeProcedure(LastBody(s, 3))
<1>1. /\ DOMAIN ReqFields = {"receiverUhuraId", "senderUhuraId", "procedure", "inputs"}
      /\ ReqFields["receiverUhuraId"] = 1 /\ ReqFields["senderUhuraId"] = 2
      /\ ReqFields["procedure"] = 3 /\ ReqFields["inputs"] = 4
      /\ DOMAIN ReqDefaults = DOMAIN ReqFields
  BY DEF ReqFields, ReqDefaults
<1> DEFINE P == Present(s, ReqFields, {"inputs"})
           body(p) == LastBody(s, ReqFields[p])
           value(p) == CASE p = "inputs" -> Entries(s, ReqFields[p])
                         [] p = "procedure" -> DecodeProcedure(body(p))
                         [] OTHER -> Text(body(p))
           d == [p \in P |-> value(p)]
<1>2. DecodeReq(s) = d
  BY DEF DecodeReq
<1>3. /\ value("inputs") = Entries(s, 4)
      /\ value("receiverUhuraId") = Text(LastBody(s, 1))
      /\ value("senderUhuraId") = Text(LastBody(s, 2))
      /\ value("procedure") = DecodeProcedure(LastBody(s, 3))
  BY <1>1
<1> HIDE DEF value
<1>4. /\ P \subseteq DOMAIN ReqDefaults /\ "inputs" \in P
      /\ "receiverUhuraId" \in P <=> At(s, 1) # {}
      /\ "senderUhuraId" \in P <=> At(s, 2) # {}
      /\ "procedure" \in P <=> At(s, 3) # {}
  BY <1>1 DEF Present
<1> HIDE DEF P
<1>5. DOMAIN d = P /\ \A p \in P : d[p] = value(p)
  OBVIOUS
<1>6. d = [p \in DOMAIN d |-> d[p]]
  OBVIOUS
<1> HIDE DEF d
<1> QED
  BY <1>2, <1>3, <1>4, <1>5, <1>6

-----------------------------------------------------------------------------
\* What the decoder can make of a procedure: strings and maps, and a reply that
\* was sent.
IsProcedure(c) ==
    /\ c = [x \in DOMAIN c |-> c[x]]
    /\ DOMAIN c \subseteq DOMAIN ProcedureDefaults
    /\ "inputFields" \in DOMAIN c /\ "outputFields" \in DOMAIN c
    /\ \A x \in {"type", "name", "description"} : x \in DOMAIN c => c[x] \in Strings
    /\ "reply" \in DOMAIN c => c["reply"] # NULL
    /\ IsMap(c["inputFields"]) /\ IsMap(c["outputFields"])

\* The parts of an encoded procedure.
LEMMA ProcedureTokens ==
  ASSUME NEW m, FiniteMap(m, "inputFields"), FiniteMap(m, "outputFields")
  PROVE  LET s == EncodeProcedure(m) IN
         /\ IsTokens(s)
         /\ At(s, 1) # {} <=> HasValue(m, "type")
         /\ At(s, 2) # {} <=> HasValue(m, "name")
         /\ At(s, 3) # {} <=> HasValue(m, "description")
         /\ At(s, 4) # {} <=> HasValue(m, "reply")
         /\ HasValue(m, "type") => LastBody(s, 1) = m["type"]
         /\ HasValue(m, "name") => LastBody(s, 2) = m["name"]
         /\ HasValue(m, "description") => LastBody(s, 3) = m["description"]
         /\ HasValue(m, "reply") => LastBody(s, 4) = m["reply"]
         /\ Entries(s, 5) = Entries(Map(5, m, "inputFields"), 5)
         /\ Entries(s, 6) = Entries(Map(6, m, "outputFields"), 6)
<1> DEFINE a == Scalar(1, m, "type")
           b == Scalar(2, m, "name")
           c == Scalar(3, m, "description")
           d == Scalar(4, m, "reply")
           e == Map(5, m, "inputFields")
           f == Map(6, m, "outputFields")
           s == a \o b \o c \o d \o e \o f
<1>1. /\ IsTokens(a) /\ Only(a, {1}) /\ (At(a, 1) # {} <=> HasValue(m, "type"))
      /\ HasValue(m, "type") => LastBody(a, 1) = m["type"]
  BY ScalarPart
<1>2. /\ IsTokens(b) /\ Only(b, {2}) /\ (At(b, 2) # {} <=> HasValue(m, "name"))
      /\ HasValue(m, "name") => LastBody(b, 2) = m["name"]
  BY ScalarPart
<1>3. /\ IsTokens(c) /\ Only(c, {3}) /\ (At(c, 3) # {} <=> HasValue(m, "description"))
      /\ HasValue(m, "description") => LastBody(c, 3) = m["description"]
  BY ScalarPart
<1>4. /\ IsTokens(d) /\ Only(d, {4}) /\ (At(d, 4) # {} <=> HasValue(m, "reply"))
      /\ HasValue(m, "reply") => LastBody(d, 4) = m["reply"]
  BY ScalarPart
<1>5. IsTokens(e) /\ Only(e, {5}) /\ IsTokens(f) /\ Only(f, {6})
  BY MapPart
<1>6. EncodeProcedure(m) = s
  BY DEF EncodeProcedure
<1> HIDE DEF a, b, c, d, e, f
<1>7. /\ IsTokens(s)
      /\ SameField(s, a, 1) /\ SameField(s, b, 2) /\ SameField(s, c, 3)
      /\ SameField(s, d, 4) /\ SameField(s, e, 5) /\ SameField(s, f, 6)
  BY <1>1, <1>2, <1>3, <1>4, <1>5, SixParts
<1> HIDE DEF s
<1>8. Entries(s, 5) = Entries(e, 5) /\ Entries(s, 6) = Entries(f, 6)
  BY <1>7 DEF SameField
<1>9. /\ At(s, 1) # {} <=> HasValue(m, "type")
      /\ HasValue(m, "type") => LastBody(s, 1) = m["type"]
  BY <1>1, <1>7 DEF SameField
<1>10. /\ At(s, 2) # {} <=> HasValue(m, "name")
       /\ HasValue(m, "name") => LastBody(s, 2) = m["name"]
  BY <1>2, <1>7 DEF SameField
<1>11. /\ At(s, 3) # {} <=> HasValue(m, "description")
       /\ HasValue(m, "description") => LastBody(s, 3) = m["description"]
  BY <1>3, <1>7 DEF SameField
<1>12. /\ At(s, 4) # {} <=> HasValue(m, "reply")
       /\ HasValue(m, "reply") => LastBody(s, 4) = m["reply"]
  BY <1>4, <1>7 DEF SameField
<1>13. Entries(s, 5) = Entries(Map(5, m, "inputFields"), 5)
       /\ Entries(s, 6) = Entries(Map(6, m, "outputFields"), 6)
  BY <1>8 DEF e, f
<1> QED
  BY <1>6, <1>7, <1>9, <1>10, <1>11, <1>12, <1>13

\* What is decoded from an encoded procedure.
LEMMA ProcedureDecoded ==
  ASSUME NEW m, FiniteMap(m, "inputFields"), FiniteMap(m, "outputFields")
  PROVE  IsProcedure(DecodeProcedure(EncodeProcedure(m)))
<1> DEFINE s == EncodeProcedure(m)
           d == DecodeProcedure(s)
<1>1. /\ IsTokens(s) /\ (At(s, 4) # {} <=> HasValue(m, "reply"))
      /\ HasValue(m, "reply") => LastBody(s, 4) = m["reply"]
  BY ProcedureTokens
<1> HIDE DEF s
<1>2. /\ d = [x \in DOMAIN d |-> d[x]]
      /\ DOMAIN d \subseteq DOMAIN ProcedureDefaults
      /\ "inputFields" \in DOMAIN d /\ d["inputFields"] = Entries(s, 5)
      /\ "outputFields" \in DOMAIN d /\ d["outputFields"] = Entries(s, 6)
      /\ "type" \in DOMAIN d => d["type"] = Text(LastBody(s, 1))
      /\ "name" \in DOMAIN d => d["name"] = Text(LastBody(s, 2))
      /\ "description" \in DOMAIN d => d["description"] = Text(LastBody(s, 3))
      /\ "reply" \in DOMAIN d => At(s, 4) # {} /\ d["reply"] = LastBody(s, 4)
  BY ProcedureParts, Zenon
<1> HIDE DEF d
<1>3. "reply" \in DOMAIN d => d["reply"] # NULL
  BY <1>1, <1>2 DEF HasValue
<1>4. IsMap(d["inputFields"]) /\ IsMap(d["outputFields"])
  BY <1>1, <1>2, EntriesAreMap
<1>5. \A x \in {"type", "name", "description"} : x \in DOMAIN d => d[x] \in Strings
  BY <1>2, TextIsString
<1>6. IsProcedure(d)
  BY <1>2, <1>3, <1>4, <1>5 DEF IsProcedure
<1> QED
  BY <1>6 DEF d, s

\* Such a procedure survives encoding and decoding.
LEMMA ProcedureRoundTrip ==
  ASSUME NEW c, IsProcedure(c)
  PROVE  DecodeProcedure(EncodeProcedure(c)) = c
<1> DEFINE s == EncodeProcedure(c)
           d == DecodeProcedure(s)
<1>1. IsMap(c["inputFields"]) /\ IsMap(c["outputFields"])
  BY DEF IsProcedure
<1>2. HasValue(c, "inputFields") /\ HasValue(c, "outputFields")
  BY <1>1, MapNotNull DEF IsProcedure, HasValue
<1>3. FiniteMap(c, "inputFields") /\ FiniteMap(c, "outputFields")
  BY <1>1 DEF FiniteMap, IsMap
<1>4. /\ Entries(s, 5) = c["inputFields"] /\ Entries(s, 6) = c["outputFields"]
  <2>1. /\ Entries(s, 5) = Entries(Map(5, c, "inputFields"), 5)
        /\ Entries(s, 6) = Entries(Map(6, c, "outputFields"), 6)
    BY <1>3, ProcedureTokens
  <2> QED
    BY <1>1, <1>2, <2>1, MapRoundTrip
<1>5. \A x \in {"type", "name", "description"} :
         (HasValue(c, x) <=> x \in DOMAIN c) /\ (x \in DOMAIN c => Text(c[x]) = c[x])
  BY TextIsString, StringsAssumption DEF IsProcedure, HasValue
<1>6. HasValue(c, "reply") <=> "reply" \in DOMAIN c
  BY DEF IsProcedure, HasValue
<1>7. /\ At(s, 1) # {} <=> HasValue(c, "type")
      /\ At(s, 2) # {} <=> HasValue(c, "name")
      /\ At(s, 3) # {} <=> HasValue(c, "description")
      /\ At(s, 4) # {} <=> HasValue(c, "reply")
      /\ HasValue(c, "type") => LastBody(s, 1) = c["type"]
      /\ HasValue(c, "name") => LastBody(s, 2) = c["name"]
      /\ HasValue(c, "description") => LastBody(s, 3) = c["description"]
      /\ HasValue(c, "reply") => LastBody(s, 4) = c["reply"]
  BY <1>3, ProcedureTokens
<1> HIDE DEF s
<1>8. /\ d = [x \in DOMAIN d |-> d[x]]
      /\ DOMAIN d \subseteq DOMAIN ProcedureDefaults
      /\ "inputFields" \in DOMAIN d /\ d["inputFields"] = Entries(s, 5)
      /\ "outputFields" \in DOMAIN d /\ d["outputFields"] = Entries(s, 6)
      /\ "type" \in DOMAIN d <=> At(s, 1) # {}
      /\ "name" \in DOMAIN d <=> At(s, 2) # {}
      /\ "description" \in DOMAIN d <=> At(s, 3) # {}
      /\ "reply" \in DOMAIN d <=> At(s, 4) # {}
      /\ At(s, 1) # {} => d["type"] = Text(LastBody(s, 1))
      /\ At(s, 2) # {} => d["name"] = Text(LastBody(s, 2))
      /\ At(s, 3) # {} => d["description"] = Text(LastBody(s, 3))
      /\ At(s, 4) # {} => d["reply"] = LastBody(s, 4)
  BY ProcedureParts
<1> HIDE DEF d
<1>9. DOMAIN ProcedureDefaults = {"type", "name", "description", "reply",
                                  "inputFields", "outputFields"}
  BY DEF ProcedureDefaults
<1>10. /\ c = [x \in DOMAIN c |-> c[x]]
       /\ DOMAIN c \subseteq DOMAIN ProcedureDefaults
       /\ "inputFields" \in DOMAIN c /\ "outputFields" \in DOMAIN c
  BY DEF IsProcedure
<1>11. DOMAIN d = DOMAIN c
  BY <1>5, <1>6, <1>7, <1>8, <1>9, <1>10
<1>12. \A x \in DOMAIN c : d[x] = c[x]
  BY <1>4, <1>5, <1>6, <1>7, <1>8, <1>9, <1>10
<1>13. d = c
  BY <1>8, <1>10, <1>11, <1>12
<1> QED
  BY <1>13 DEF d, s

-----------------------------------------------------------------------------
\* What the decoder can make of a request.
IsReq(q) ==
    /\ q = [x \in DOMAIN q |-> q[x]]
    /\ DOMAIN q \subseteq DOMAIN ReqDefaults
    /\ \A x \in {"receiverUhuraId", "senderUhuraId"} : x \in DOMAIN q => q[x] \in Strings
    /\ "procedure" \in DOMAIN q => IsProcedure(q["procedure"]) /\ q["procedure"] # NULL
    /\ "inputs" \in DOMAIN q /\ IsMap(q["inputs"])

\* The parts of an encoded request.
LEMMA ReqTokens ==
  ASSUME NEW m, FiniteMap(m, "inputs")
  PROVE  LET s == EncodeReq(m) IN
         /\ IsTokens(s)
         /\ At(s, 1) # {} <=> HasValue(m, "receiverUhuraId")
         /\ At(s, 2) # {} <=> HasValue(m, "senderUhuraId")
         /\ At(s, 3) # {} <=> HasValue(m, "procedure")
         /\ HasValue(m, "receiverUhuraId") => LastBody(s, 1) = m["receiverUhuraId"]
         /\ HasValue(m, "senderUhuraId") => LastBody(s, 2) = m["senderUhuraId"]
         /\ HasValue(m, "procedure") => LastBody(s, 3) = EncodeProcedure(m["procedure"])
         /\ Entries(s, 4) = Entries(Map(4, m, "inputs"), 4)
<1> DEFINE a == Scalar(1, m, "receiverUhuraId")
           b == Scalar(2, m, "senderUhuraId")
           c == Nested(3, m)
           d == Map(4, m, "inputs")
           s == a \o b \o c \o d
<1>1. /\ IsTokens(a) /\ Only(a, {1}) /\ (At(a, 1) # {} <=> HasValue(m, "receiverUhuraId"))
      /\ HasValue(m, "receiverUhuraId") => LastBody(a, 1) = m["receiverUhuraId"]
  BY ScalarPart
<1>2. /\ IsTokens(b) /\ Only(b, {2}) /\ (At(b, 2) # {} <=> HasValue(m, "senderUhuraId"))
      /\ HasValue(m, "senderUhuraId") => LastBody(b, 2) = m["senderUhuraId"]
  BY ScalarPart
<1>3. /\ IsTokens(c) /\ Only(c, {3}) /\ (At(c, 3) # {} <=> HasValue(m, "procedure"))
      /\ HasValue(m, "procedure") => LastBody(c, 3) = EncodeProcedure(m["procedure"])
  BY NestedPart
<1>4. IsTokens(d) /\ Only(d, {4})
  BY MapPart
<1>5. EncodeReq(m) = s
  BY DEF EncodeReq
<1> HIDE DEF a, b, c, d
<1>6. /\ IsTokens(s)
      /\ SameField(s, a, 1) /\ SameField(s, b, 2)
      /\ SameField(s, c, 3) /\ SameField(s, d, 4)
  BY <1>1, <1>2, <1>3, <1>4, FourParts
<1> HIDE DEF s
<1>7. Entries(s, 4) = Entries(Map(4, m, "inputs"), 4)
  BY <1>6 DEF SameField, d
<1>8. /\ At(s, 1) # {} <=> HasValue(m, "receiverUhuraId")
      /\ HasValue(m, "receiverUhuraId") => LastBody(s, 1) = m["receiverUhuraId"]
  BY <1>1, <1>6 DEF SameField
<1>9. /\ At(s, 2) # {} <=> HasValue(m, "senderUhuraId")
      /\ HasValue(m, "senderUhuraId") => LastBody(s, 2) = m["senderUhuraId"]
  BY <1>2, <1>6 DEF SameField
<1>10. /\ At(s, 3) # {} <=> HasValue(m, "procedure")
       /\ HasValue(m, "procedure") => LastBody(s, 3) = EncodeProcedure(m["procedure"])
  BY <1>3, <1>6 DEF SameField
<1> QED
  BY <1>5, <1>6, <1>7, <1>8, <1>9, <1>10

\* What is decoded from an encoded request.
LEMMA ReqDecoded ==
  ASSUME NEW m, FiniteMap(m, "inputs"),
         HasValue(m, "procedure") =>
            /\ FiniteMap(m["procedure"], "inputFields")
            /\ FiniteMap(m["procedure"], "outputFields")
            /\ DecodeProcedure(EncodeProcedure(m["procedure"])) # NULL
  PROVE  IsReq(DecodeReq(EncodeReq(m)))
<1> DEFINE s == EncodeReq(m)
           d == DecodeReq(s)
<1>1. /\ IsTokens(s) /\ (At(s, 3) # {} <=> HasValue(m, "procedure"))
      /\ HasValue(m, "procedure") => LastBody(s, 3) = EncodeProcedure(m["procedure"])
  BY ReqTokens
<1> HIDE DEF s
<1>2. /\ d = [x \in DOMAIN d |-> d[x]]
      /\ DOMAIN d \subseteq DOMAIN ReqDefaults
      /\ "inputs" \in DOMAIN d /\ d["inputs"] = Entries(s, 4)
      /\ "receiverUhuraId" \in DOMAIN d => d["receiverUhuraId"] = Text(LastBody(s, 1))
      /\ "senderUhuraId" \in DOMAIN d => d["senderUhuraId"] = Text(LastBody(s, 2))
      /\ "procedure" \in DOMAIN d =>
            At(s, 3) # {} /\ d["procedure"] = DecodeProcedure(LastBody(s, 3))
  BY ReqParts, Zenon
<1> HIDE DEF d
<1>3. ASSUME "procedure" \in DOMAIN d
      PROVE  IsProcedure(d["procedure"]) /\ d["procedure"] # NULL
  <2>1. HasValue(m, "procedure")
    BY <1>1, <1>2, <1>3
  <2>2. d["procedure"] = DecodeProcedure(EncodeProcedure(m["procedure"]))
    BY <1>1, <1>2, <1>3, <2>1
  <2> QED
    BY <2>1, <2>2, ProcedureDecoded
<1>4. IsMap(d["inputs"])
  BY <1>1, <1>2, EntriesAreMap
<1>5. \A x \in {"receiverUhuraId", "senderUhuraId"} : x \in DOMAIN d => d[x] \in Strings
  BY <1>2, TextIsString
<1>6. IsReq(d)
  BY <1>2, <1>3, <1>4, <1>5 DEF IsReq
<1> QED
  BY <1>6 DEF d, s

\* Such a request survives encoding and decoding.
LEMMA ReqRoundTrip ==
  ASSUME NEW q, IsReq(q)
  PROVE  DecodeReq(EncodeReq(q)) = q
<1> DEFINE s == EncodeReq(q)
           d == DecodeReq(s)
<1>1. HasValue(q, "inputs") /\ FiniteMap(q, "inputs") /\ IsMap(q["inputs"])
  BY MapNotNull DEF IsReq, HasValue, FiniteMap, IsMap
<1>2. Entries(s, 4) = q["inputs"]
  <2>1. Entries(s, 4) = Entries(Map(4, q, "inputs"), 4)
    BY <1>1, ReqTokens
  <2> QED
    BY <1>1, <2>1, MapRoundTrip
<1>3. \A x \in {"receiverUhuraId", "senderUhuraId"} :
         (HasValue(q, x) <=> x \in DOMAIN q) /\ (x \in DOMAIN q => Text(q[x]) = q[x])
  BY TextIsString, StringsAssumption DEF IsReq, HasValue
<1>4. HasValue(q, "procedure") <=> "procedure" \in DOMAIN q
  BY DEF IsReq, HasValue
<1>5. "procedure" \in DOMAIN q =>
         DecodeProcedure(EncodeProcedure(q["procedure"])) = q["procedure"]
  BY ProcedureRoundTrip DEF IsReq
<1>6. /\ At(s, 1) # {} <=> HasValue(q, "receiverUhuraId")
      /\ At(s, 2) # {} <=> HasValue(q, "senderUhuraId")
      /\ At(s, 3) # {} <=> HasValue(q, "procedure")
      /\ HasValue(q, "receiverUhuraId") => LastBody(s, 1) = q["receiverUhuraId"]
      /\ HasValue(q, "senderUhuraId") => LastBody(s, 2) = q["senderUhuraId"]
      /\ HasValue(q, "procedure") => LastBody(s, 3) = EncodeProcedure(q["procedure"])
  BY <1>1, ReqTokens
<1> HIDE DEF s
<1>7. /\ d = [x \in DOMAIN d |-> d[x]]
      /\ DOMAIN d \subseteq DOMAIN ReqDefaults
      /\ "inputs" \in DOMAIN d /\ d["inputs"] = Entries(s, 4)
      /\ "receiverUhuraId" \in DOMAIN d <=> At(s, 1) # {}
      /\ "senderUhuraId" \in DOMAIN d <=> At(s, 2) # {}
      /\ "procedure" \in DOMAIN d <=> At(s, 3) # {}
      /\ At(s, 1) # {} => d["receiverUhuraId"] = Text(LastBody(s, 1))
      /\ At(s, 2) # {} => d["senderUhuraId"] = Text(LastBody(s, 2))
      /\ At(s, 3) # {} => d["procedure"] = DecodeProcedure(LastBody(s, 3))
  BY ReqParts
<1> HIDE DEF d
<1>8. DOMAIN ReqDefaults = {"receiverUhuraId", "senderUhuraId", "procedure", "inputs"}
  BY DEF ReqDefaults
<1>9. /\ q = [x \in DOMAIN q |-> q[x]]
      /\ DOMAIN q \subseteq DOMAIN ReqDefaults
      /\ "inputs" \in DOMAIN q
  BY DEF IsReq
<1>10. DOMAIN d = DOMAIN q
  BY <1>3, <1>4, <1>6, <1>7, <1>8, <1>9
<1>11. \A x \in DOMAIN q : d[x] = q[x]
  BY <1>2, <1>3, <1>4, <1>5, <1>6, <1>7, <1>8, <1>9
<1>12. d = q
  BY <1>7, <1>9, <1>10, <1>11
<1> QED
  BY <1>12 DEF d, s

\* A request stays one when its sender is written, and nothing else changes.
LEMMA SignedReq ==
  ASSUME NEW q, IsReq(q), NEW n \in Strings
  PROVE  /\ IsReq(Signed(q, n))
         /\ \A property \in DOMAIN ReqDefaults :
               Read(Signed(q, n), ReqDefaults, property) =
                  IF property = "senderUhuraId" THEN n
                  ELSE Read(q, ReqDefaults, property)
<1> DEFINE t == Signed(q, n)
<1>1. t = [p \in DOMAIN q \union {"senderUhuraId"} |->
              IF p = "senderUhuraId" THEN n ELSE q[p]]
  BY DEF Signed, Set
<1>2. /\ DOMAIN t = DOMAIN q \union {"senderUhuraId"}
      /\ t["senderUhuraId"] = n
      /\ \A p \in DOMAIN q : p # "senderUhuraId" => t[p] = q[p]
      /\ t = [p \in DOMAIN t |-> t[p]]
  BY <1>1
<1> HIDE DEF t
<1>3. "senderUhuraId" \in DOMAIN ReqDefaults
  BY DEF ReqDefaults
<1>4. IsReq(t)
  BY <1>2, <1>3 DEF IsReq
<1>5. ASSUME NEW property \in DOMAIN ReqDefaults
      PROVE  Read(t, ReqDefaults, property) =
                IF property = "senderUhuraId" THEN n ELSE Read(q, ReqDefaults, property)
  BY <1>2, <1>5 DEF Read
<1> QED
  BY <1>4, <1>5 DEF t

\* What a client has asked for decodes to a request.
LEMMA RequestDecoded ==
  ASSUME NEW r \in Requests
  PROVE  IsReq(DecodeReq(EncodeReq(r)))
<1>1. FiniteMap(r, "inputs")
  BY ObjectsAssumption
<1>2. HasValue(r, "procedure") =>
         /\ FiniteMap(r["procedure"], "inputFields")
         /\ FiniteMap(r["procedure"], "outputFields")
         /\ DecodeProcedure(EncodeProcedure(r["procedure"])) # NULL
  BY ObjectsAssumption, NullAssumption
<1> QED
  BY <1>1, <1>2, ReqDecoded

\* A response its own decoder reads a procedure with a name from; the decoder of
\* requests looks for a procedure in a field no response has.
LEMMA ResponseRead ==
  ASSUME NEW r \in Responses
  PROVE  LET payload == Encoded(EncodeRes(r)) IN
         /\ NamesProcedure(ResOf(payload), ResDefaults)
         /\ ~NamesProcedure(ReqOf(payload), ReqDefaults)
         /\ ~EndsGateway(payload)
<1> DEFINE a == Nested(1, r)
           b == Map(2, r, "outputs")
           s == a \o b
           m == r.procedure
           c == DecodeProcedure(EncodeProcedure(m))
<1>1. /\ FiniteMap(r, "outputs") /\ HasValue(r, "procedure") /\ HasValue(m, "name")
      /\ m["name"] \in Strings /\ m["name"] # EMPTY
  BY ObjectsAssumption
<1>2. FiniteMap(m, "inputFields") /\ FiniteMap(m, "outputFields") /\ c # NULL
  BY <1>1, ObjectsAssumption, NullAssumption
<1>3. /\ IsTokens(a) /\ Only(a, {1}) /\ At(a, 1) # {}
      /\ LastBody(a, 1) = EncodeProcedure(m)
  BY <1>1, NestedPart
<1>4. IsTokens(b) /\ Only(b, {2})
  BY <1>1, MapPart
<1>5. EncodeRes(r) = s
  BY DEF EncodeRes
<1>6. At(EncodeProcedure(m), 2) # {} /\ LastBody(EncodeProcedure(m), 2) = m["name"]
  BY <1>1, <1>2, ProcedureTokens
<1> HIDE DEF m
<1>7. "name" \in DOMAIN c /\ c["name"] = Text(LastBody(EncodeProcedure(m), 2))
  BY <1>6, ProcedureParts
<1>8. Read(c, ProcedureDefaults, "name") # EMPTY
  BY <1>1, <1>6, <1>7, TextIsString DEF Read
<1> HIDE DEF a, b, c
<1>9. IsTokens(s) /\ Only(s, {1, 2}) /\ SameField(s, a, 1)
  BY <1>3, <1>4, TwoParts
<1> HIDE DEF s
<1>10. At(s, 1) # {} /\ LastBody(s, 1) = EncodeProcedure(m)
  BY <1>3, <1>9 DEF SameField
<1>11. At(s, 3) = {}
  <2>1. 3 \notin {1, 2}
    OBVIOUS
  <2> QED
    BY <1>9, <2>1, OnlyNowhere
<1>12. Read(DecodeRes(s), ResDefaults, "procedure") = c
  <2>1. /\ DOMAIN ResFields = {"procedure", "outputs"} /\ ResFields["procedure"] = 1
    BY DEF ResFields
  <2>2. "procedure" \in Present(s, ResFields, {"outputs"})
    BY <1>10, <2>1 DEF Present
  <2>3. "procedure" \in DOMAIN DecodeRes(s)
        /\ DecodeRes(s)["procedure"] = DecodeProcedure(LastBody(s, 1))
    BY <2>1, <2>2 DEF DecodeRes
  <2> QED
    BY <1>10, <2>3 DEF Read, c
<1>13. Read(DecodeReq(s), ReqDefaults, "procedure") = NULL
  <2>1. "procedure" \notin DOMAIN DecodeReq(s)
    BY <1>11, ReqParts
  <2> QED
    BY <2>1 DEF Read, ReqDefaults
<1> DEFINE payload == Encoded(EncodeRes(r))
<1>14. payload.foreign = FALSE /\ payload.tokens = s
  BY <1>5 DEF Encoded
<1> HIDE DEF payload
<1>15. ResOf(payload) = DecodeRes(s) /\ ReqOf(payload) = DecodeReq(s)
       /\ ~EndsGateway(payload)
  BY <1>14 DEF ResOf, ReqOf, EndsGateway, ReqThrows
<1>16. c # NULL
  BY <1>2 DEF c, m
<1> QED
  BY <1>8, <1>12, <1>13, <1>15, <1>16 DEF NamesProcedure, payload

\* A foreign payload names no procedure, even if it is decoded.
LEMMA ForeignUnread ==
  ASSUME NEW p \in Foreign
  PROVE  p.foreign /\ ~NamesProcedure(ReqOf(p), ReqDefaults)
<1>1. p.foreign = TRUE
  BY GatewayAssumption
<1>2. ReqOf(p) = NewReq(NoProperties)
  BY <1>1 DEF ReqOf
<1>3. DOMAIN NoProperties = {}
  BY ToSetEmpty DEF NoProperties
<1>4. "procedure" \notin DOMAIN NewReq(NoProperties)
  BY <1>3 DEF NewReq, Construct
<1>5. Read(ReqOf(p), ReqDefaults, "procedure") = NULL
  BY <1>2, <1>4 DEF Read, ReqDefaults
<1> QED
  BY <1>1, <1>5 DEF NamesProcedure

\* Responses are never taken for requests, and end no gateway, whatever the
\* clients publish: in every state.
THEOREM ResponsesPassUnreadCorrect == Spec => []ResponsesPassUnread
<1>1. ResponsesPassUnread
  BY ResponseRead DEF ResponsesPassUnread, ResponsePayloads
<1>2. []ResponsesPassUnread
  BY <1>1, PTL
<1> QED
  BY <1>2

-----------------------------------------------------------------------------
\* What the gateway of n makes of a request, and all that is on the wire.
PassedOn(payload, n) == Encoded(EncodeReq(Signed(ReqOf(payload), n)))

AskedPayloads == RequestPayloads \union ResponsePayloads \union Foreign

WirePayloads ==
    ResponsePayloads \union Foreign
        \union {PassedOn(payload, n) : payload \in RequestPayloads, n \in Nodes}

Messages == [payload : WirePayloads, from : Nodes, call : Nat]

Routings == [num : Nat, adapterId : {1}]

Deliveries == [sender : Nodes, num : Nat, adapterId : {1}]

Services == [subject : Names, message : Messages]

Performances ==
    [at : Nodes, from : Nodes, call : Nat, req : {ReqOf(p) : p \in WirePayloads}]

Types ==
    /\ gateway \in [Nodes -> {"down", "up", "ended"}]
    /\ asked \in [Nodes -> Seq(AskedPayloads)]
    /\ calls \in [Nodes -> Seq(Nat)]
    /\ routed \in [Nodes -> Seq(Routings)]
    /\ received \in [Nodes -> Seq(Deliveries)]
    /\ sent \in [Nodes -> Seq(Messages)]
    /\ incoming \in [Nodes -> Seq(Messages)]
    /\ inbox \in [Nodes -> Seq(Services)]
    /\ handed \in [Nodes -> SUBSET (Nodes \X Nat)]
    /\ performed \in Seq(Performances)

\* The call a message was made for, and what was asked in it.
KeyOf(m) == <<m.from, m.call>>

IsAsked(m) == m.call \in 1 .. Len(asked[m.from])

Asked(m) == asked[m.from][m.call]

\* A message on the wire is what its client published, or a request that its
\* client's gateway has passed on.
MadeOf(payload, p, n) ==
    \/ p \in ResponsePayloads \union Foreign /\ payload = p
    \/ p \in RequestPayloads /\ payload = PassedOn(p, n)

Genuine(m) == IsAsked(m) /\ MadeOf(m.payload, Asked(m), m.from)

\* A gateway that is not up has no queues, and what is asked is bounded.
Bounded ==
    /\ Published <= MaxMessages
    /\ \A n \in Nodes : gateway[n] # "up" => calls[n] = <<>> /\ incoming[n] = <<>>

\* What clients call with: a request, or what the gateway cannot decode.
Callable == RequestPayloads \union {p \in Foreign : ReqThrows(p)}

\* What clients publish is sent at most once: a call waits in the queue or was
\* sent, and the swarm counts what was sent.  For a node with what its clients
\* have asked, its queue of calls, and what it has routed and sent.
SentOnce(n, a, c, r, s) ==
    /\ Len(s) + Len(c) <= Len(a)
    /\ Len(r) = Len(s) /\ \A i \in 1 .. Len(r) : r[i].num = i
    /\ \A i \in 1 .. Len(c) : c[i] \in 1 .. Len(a) /\ a[c[i]] \in Callable
    /\ \A i, j \in 1 .. Len(c) : i < j => c[i] < c[j]
    /\ \A i \in 1 .. Len(s) :
          /\ s[i].from = n
          /\ s[i].call \in 1 .. Len(a) /\ MadeOf(s[i].payload, a[s[i].call], n)
    /\ \A i, j \in 1 .. Len(s) : s[i].call = s[j].call => i = j
    /\ \A i \in 1 .. Len(s), j \in 1 .. Len(c) : s[i].call # c[j]

Sending == \A n \in Nodes : SentOnce(n, asked[n], calls[n], routed[n], sent[n])

\* What has arrived was sent by another node, and a gateway was handed only that.
\* For a node with what it received, what it was handed, and what was sent.
ArrivedAt(n, q, h, s) ==
    /\ \A i \in 1 .. Len(q) : q[i].sender # n /\ q[i].num \in 1 .. Len(s[q[i].sender])
    /\ \A k \in h : \E i \in 1 .. Len(q) :
          q[i].sender = k[1] /\ s[k[1]][q[i].num].call = k[2]

Arrived == \A n \in Nodes : ArrivedAt(n, received[n], handed[n], sent)

\* The calls of what waits at a gateway and at services, and of what is performed.
Distinct(s) == \A i, j \in 1 .. Len(s) : s[i] = s[j] => i = j

MessageKeys(q) == [i \in 1 .. Len(q) |-> KeyOf(q[i])]

ServiceKeys(b) == [i \in 1 .. Len(b) |-> KeyOf(b[i].message)]

PerformedKeys(p) == [i \in 1 .. Len(p) |-> <<p[i].at, KeyOf(p[i])>>]

\* A message a gateway was handed is in one place: it waits there, or at a
\* service, or it was performed.
OnePlace(n, k, b, h, p) ==
    /\ Distinct(k) /\ Distinct(b)
    /\ ToSet(k) \subseteq h /\ ToSet(b) \subseteq h
    /\ \A x \in ToSet(k) : x \notin ToSet(b) /\ <<n, x>> \notin ToSet(p)
    /\ \A x \in ToSet(b) : <<n, x>> \notin ToSet(p)
    /\ \A e \in ToSet(p) : e[1] = n => e[2] \in h

InOnePlace ==
    /\ Distinct(PerformedKeys(performed))
    /\ \A n \in Nodes :
          OnePlace(n, MessageKeys(incoming[n]), ServiceKeys(inbox[n]), handed[n],
                   PerformedKeys(performed))

\* What waits was sent by another node; a service has only requests, for its node
\* and of the name it provides, and has performed no others.
FromOther(m, n) == m.from # n /\ IsSent(m) /\ Genuine(m)

ForService(call, n) ==
    /\ FromOther(call.message, n)
    /\ call.subject \in Procedures[n]
    /\ Asked(call.message) \in RequestPayloads
    /\ call.message.payload = PassedOn(Asked(call.message), call.message.from)
    /\ ForNode(ReqOf(call.message.payload), n)

Waiting ==
    \A n \in Nodes :
        /\ \A m \in ToSet(incoming[n]) : FromOther(m, n)
        /\ \A call \in ToSet(inbox[n]) : ForService(call, n)

AskedAndDone(p) ==
    /\ p.at # p.from
    /\ IsAsked(p) /\ Asked(p) \in RequestPayloads
    /\ p.req = ReqOf(PassedOn(Asked(p), p.from))
    /\ ForNode(p.req, p.at)
    /\ Read(p.req.procedure, ProcedureDefaults, "name") \in Procedures[p.at]

Performed == \A p \in ToSet(performed) : AskedAndDone(p)

IInv == Types /\ Bounded /\ Sending /\ Arrived /\ InOnePlace /\ Waiting /\ Performed

-----------------------------------------------------------------------------
\* A request passed on is the one that was asked, with its sender written.
LEMMA PassedRead ==
  ASSUME NEW p \in RequestPayloads, NEW n \in Nodes
  PROVE  /\ ~p.foreign /\ ReqOf(p) = DecodeReq(p.tokens)
         /\ ReqOf(PassedOn(p, n)) = Signed(ReqOf(p), n)
         /\ \A property \in DOMAIN ReqDefaults :
               Read(ReqOf(PassedOn(p, n)), ReqDefaults, property) =
                  IF property = "senderUhuraId" THEN n
                  ELSE Read(ReqOf(p), ReqDefaults, property)
<1>1. PICK r \in Requests : p = Encoded(EncodeReq(r))
  BY DEF RequestPayloads
<1>2. ~p.foreign /\ p.tokens = EncodeReq(r)
  BY <1>1 DEF Encoded
<1>3. ReqOf(p) = DecodeReq(p.tokens) /\ IsReq(ReqOf(p))
  BY <1>2, RequestDecoded DEF ReqOf
<1> DEFINE q == Signed(ReqOf(p), n)
<1>4. n \in Strings
  BY GatewayAssumption
<1>5. /\ IsReq(q)
      /\ \A property \in DOMAIN ReqDefaults :
            Read(q, ReqDefaults, property) =
               IF property = "senderUhuraId" THEN n
               ELSE Read(ReqOf(p), ReqDefaults, property)
  BY <1>3, <1>4, SignedReq
<1>6. PassedOn(p, n) = Encoded(EncodeReq(q))
  BY DEF PassedOn
<1> HIDE DEF q
<1>7. ReqOf(Encoded(EncodeReq(q))) = q
  <2>1. Encoded(EncodeReq(q)).foreign = FALSE
        /\ Encoded(EncodeReq(q)).tokens = EncodeReq(q)
    BY DEF Encoded
  <2> QED
    BY <1>5, <2>1, ReqRoundTrip DEF ReqOf
<1>8. ReqOf(PassedOn(p, n)) = q
  BY <1>6, <1>7
<1> QED
  BY <1>2, <1>3, <1>5, <1>8 DEF q

\* Nothing else on the wire names a procedure.
LEMMA OnlyRequests ==
  ASSUME NEW m, Genuine(m), NamesProcedure(ReqOf(m.payload), ReqDefaults)
  PROVE  Asked(m) \in RequestPayloads /\ m.payload = PassedOn(Asked(m), m.from)
<1>1. m.payload \notin ResponsePayloads
  BY ResponseRead DEF ResponsePayloads
<1>2. m.payload \notin Foreign
  BY ForeignUnread
<1> QED
  BY <1>1, <1>2 DEF Genuine, MadeOf

\* A message that is published is the next one the core routes.
LEMMA PublishStep ==
  ASSUME NEW n \in Nodes, NEW m, Types, Publish(n, m)
  PROVE  /\ routed' = [routed EXCEPT ![n] =
                          Append(routed[n], [num |-> Len(sent[n]) + 1, adapterId |-> 1])]
         /\ sent' = [sent EXCEPT ![n] = Append(sent[n], m)]
         /\ received' = received
<1>1. PICK num \in 1 .. MaxMessages, id \in {1} :
         /\ routed' = [routed EXCEPT ![n] =
                          Append(routed[n], [num |-> num, adapterId |-> id])]
         /\ received' = received
  BY DEF Publish, Swarm!Route
<1> DEFINE r == [num |-> num, adapterId |-> id]
<1>2. r \in Routings /\ routed[n] \in Seq(Routings) /\ n \in DOMAIN routed
  BY DEF Types, Routings
<1>3. routed'[n] = Append(routed[n], r)
  BY <1>1, <1>2
<1>4. Last(Append(routed[n], r)) = r
  BY <1>2 DEF Last
<1>5. num = Len(sent[n]) + 1
  BY <1>3, <1>4 DEF Publish
<1>6. sent' = [sent EXCEPT ![n] = Append(sent[n], m)]
  BY DEF Publish
<1> QED
  BY <1>1, <1>5, <1>6

\* The swarm's module takes the same operators on sequences.
LEMMA SwarmToSet == \A s : Swarm!ToSet(s) = ToSet(s)
BY DEF Swarm!ToSet, ToSet

\* A message that arrives was routed by another core, and no later one has
\* arrived from there.
LEMMA DeliverStep ==
  ASSUME NEW n \in Nodes, Types, Deliver(n)
  PROVE  \E d \in Deliveries :
            /\ d.sender # n
            /\ \E i \in 1 .. Len(routed[d.sender]) : d.num = routed[d.sender][i].num
            /\ \A i \in 1 .. Len(received[n]) :
                  received[n][i].sender = d.sender => received[n][i].num < d.num
            /\ received' = [received EXCEPT ![n] = Append(received[n], d)]
            /\ routed' = routed
            /\ \/ /\ gateway[n] = "up"
                  /\ incoming' = [incoming EXCEPT ![n] =
                                     Append(incoming[n], sent[d.sender][d.num])]
                  /\ handed' = [handed EXCEPT ![n] =
                                   handed[n] \union {KeyOf(sent[d.sender][d.num])}]
               \/ incoming' = incoming /\ handed' = handed
<1>0. PICK m \in Nodes \ {n} : \E r \in ToSet(routed[m]) :
         /\ ~Swarm!Overtaken(n, [sender |-> m, num |-> r.num, adapterId |-> r.adapterId])
         /\ received' = [received EXCEPT ![n] =
               Append(@, [sender |-> m, num |-> r.num, adapterId |-> r.adapterId])]
         /\ routed' = routed
  BY SwarmToSet DEF Deliver, Swarm!Deliver
<1>1. PICK r \in ToSet(routed[m]) :
         /\ ~Swarm!Overtaken(n, [sender |-> m, num |-> r.num, adapterId |-> r.adapterId])
         /\ received' = [received EXCEPT ![n] =
               Append(received[n], [sender |-> m, num |-> r.num, adapterId |-> r.adapterId])]
         /\ routed' = routed
  BY <1>0
<1> DEFINE d == [sender |-> m, num |-> r.num, adapterId |-> r.adapterId]
<1>2. routed[m] \in Seq(Routings) /\ received[n] \in Seq(Deliveries)
      /\ n \in DOMAIN received
  BY DEF Types
<1>3. PICK i \in 1 .. Len(routed[m]) : routed[m][i] = r
  BY <1>2, ToSetMember
<1>4. r \in Routings
  BY <1>2, <1>3
<1>5. d \in Deliveries /\ d.sender = m /\ d.num = r.num /\ d.adapterId = 1
  BY <1>4 DEF Deliveries, Routings
<1>6. ~Swarm!Overtaken(n, d) /\ received' = [received EXCEPT ![n] = Append(received[n], d)]
  BY <1>1
<1> HIDE DEF d
<1>7. \A old \in ToSet(received[n]) :
         ~(old.sender = d.sender /\ old.adapterId = d.adapterId /\ old.num >= d.num)
  BY <1>6, SwarmToSet DEF Swarm!Overtaken
<1>8. ASSUME NEW j \in 1 .. Len(received[n]), received[n][j].sender = d.sender
      PROVE  received[n][j].num < d.num
  <2>1. received[n][j] \in ToSet(received[n]) /\ received[n][j] \in Deliveries
    BY <1>2, ToSetMember
  <2>2. /\ received[n][j].num \in Nat /\ d.num \in Nat
        /\ received[n][j].adapterId = d.adapterId
    BY <1>5, <2>1 DEF Deliveries
  <2> QED
    BY <1>7, <1>8, <2>1, <2>2
<1>9. Last(received'[n]) = d
  <2>1. received'[n] = Append(received[n], d)
    BY <1>2, <1>6
  <2>2. Last(Append(received[n], d)) = d
    BY <1>2, <1>5 DEF Last
  <2> QED
    BY <2>1, <2>2
<1>10. \/ /\ gateway[n] = "up"
          /\ incoming' = [incoming EXCEPT ![n] =
                             Append(incoming[n], sent[d.sender][d.num])]
          /\ handed' = [handed EXCEPT ![n] =
                           handed[n] \union {KeyOf(sent[d.sender][d.num])}]
       \/ incoming' = incoming /\ handed' = handed
  BY <1>9 DEF Deliver, Subscribed, KeyOf
<1>11. \E j \in 1 .. Len(routed[d.sender]) : d.num = routed[d.sender][j].num
  BY <1>3, <1>5
<1> QED
  BY <1>1, <1>5, <1>6, <1>8, <1>10, <1>11

\* A call is taken from the queue; if it is passed on, it is a request.
LEMMA TakeCallStep ==
  ASSUME NEW n \in Nodes, Types, Sending, TakeCall(n)
  PROVE  LET i == Head(calls[n])
             m == Message(PassedOn(asked[n][i], n), n, i)
         IN /\ gateway[n] = "up" /\ calls[n] # <<>>
            /\ i \in 1 .. Len(asked[n])
            /\ calls' = [calls EXCEPT ![n] = Tail(calls[n])]
            /\ UNCHANGED <<gateway, asked, received, incoming, inbox, handed, performed>>
            /\ \/ UNCHANGED <<routed, sent>>
               \/ asked[n][i] \in RequestPayloads /\ Publish(n, m)
<1> DEFINE i == Head(calls[n])
           payload == asked[n][i]
           m == Message(PassedOn(payload, n), n, i)
<1>1. /\ gateway[n] = "up" /\ calls[n] # <<>>
      /\ calls' = [calls EXCEPT ![n] = Tail(calls[n])]
      /\ UNCHANGED <<gateway, asked, received, incoming, inbox, handed, performed>>
  BY DEF TakeCall
<1>2. /\ ReqThrows(payload) => UNCHANGED <<routed, sent>>
      /\ UNCHANGED <<routed, sent>> \/ Publish(n, m)
  BY DEF TakeCall, PassedOn
<1>3. calls[n] \in Seq(Nat)
  BY DEF Types
<1>4. 1 \in 1 .. Len(calls[n]) /\ i = calls[n][1]
  BY <1>1, <1>3
<1>5. i \in 1 .. Len(asked[n]) /\ payload \in Callable
  <2>1. \A k \in 1 .. Len(calls[n]) :
           calls[n][k] \in 1 .. Len(asked[n]) /\ asked[n][calls[n][k]] \in Callable
    BY DEF Sending, SentOnce
  <2> QED
    BY <1>4, <2>1
<1>6. payload \in RequestPayloads \/ ReqThrows(payload)
  BY <1>5 DEF Callable
<1> HIDE DEF i, payload, m
<1>7. UNCHANGED <<routed, sent>> \/ (payload \in RequestPayloads /\ Publish(n, m))
  BY <1>2, <1>6
<1> QED
  BY <1>1, <1>5, <1>7 DEF i, payload, m

\* The gateway takes a message: it ends; or it drops the message, or passes it to
\* a service, as the request it is.
LEMMA TakeMessageStep ==
  ASSUME NEW n \in Nodes, TakeMessage(n)
  PROVE  LET m == Head(incoming[n])
             req == ReqOf(m.payload)
             call == [subject |-> Subject(req, n), message |-> m]
         IN /\ gateway[n] = "up" /\ incoming[n] # <<>>
            /\ UNCHANGED <<asked, routed, received, sent, handed, performed>>
            /\ \/ /\ gateway' = [gateway EXCEPT ![n] = "ended"]
                  /\ calls' = [calls EXCEPT ![n] = <<>>]
                  /\ incoming' = [incoming EXCEPT ![n] = <<>>]
                  /\ inbox' = inbox
               \/ /\ UNCHANGED <<gateway, calls>>
                  /\ incoming' = [incoming EXCEPT ![n] = Tail(incoming[n])]
                  /\ \/ inbox' = inbox
                     \/ /\ NamesProcedure(req, ReqDefaults)
                        /\ ForNode(req, n)
                        /\ call.subject \in Procedures[n]
                        /\ inbox' = [inbox EXCEPT ![n] = Append(inbox[n], call)]
BY DEF TakeMessage, handleProcedureReq

\* A service takes a message, and drops or performs it.
LEMMA ServeStep ==
  ASSUME NEW n \in Nodes, Serve(n)
  PROVE  LET call == Head(inbox[n])
             m == call.message
             p == [at |-> n, from |-> m.from, call |-> m.call, req |-> ReqOf(m.payload)]
         IN /\ inbox[n] # <<>>
            /\ inbox' = [inbox EXCEPT ![n] = Tail(inbox[n])]
            /\ UNCHANGED <<gateway, asked, calls, routed, received, sent, incoming, handed>>
            /\ \/ performed' = performed
               \/ /\ Read(p.req.procedure, ProcedureDefaults, "name") = call.subject
                  /\ performed' = Append(performed, p)
BY DEF Serve

-----------------------------------------------------------------------------
\* Every queue and history stays one of its kind.
LEMMA TypesInit == Init => Types
<1> SUFFICES ASSUME Init
             PROVE  Types
  OBVIOUS
<1>1. \A S : <<>> \in Seq(S)
  OBVIOUS
<1> QED
  BY <1>1 DEF Init, Swarm!Init, Types

\* A step of a node leaves every variable in its type.
LEMMA TypesNext ==
  ASSUME NEW n \in Nodes, Types, Sending,
         \/ Start(n) \/ ClientCall(n) \/ ClientSend(n)
         \/ TakeCall(n) \/ Deliver(n) \/ TakeMessage(n) \/ Serve(n)
  PROVE  Types'
<1> USE DEF Types
<1>0. Types /\ asked[n] \in Seq(AskedPayloads) /\ calls[n] \in Seq(Nat)
      /\ routed[n] \in Seq(Routings) /\ received[n] \in Seq(Deliveries)
      /\ sent[n] \in Seq(Messages) /\ incoming[n] \in Seq(Messages)
      /\ inbox[n] \in Seq(Services) /\ Len(sent[n]) \in Nat /\ Len(asked[n]) \in Nat
  <2>1. asked[n] \in Seq(AskedPayloads) /\ sent[n] \in Seq(Messages)
    OBVIOUS
  <2>2. Len(sent[n]) \in Nat /\ Len(asked[n]) \in Nat
    BY <2>1
  <2>3. calls[n] \in Seq(Nat) /\ routed[n] \in Seq(Routings)
    OBVIOUS
  <2>4. received[n] \in Seq(Deliveries) /\ incoming[n] \in Seq(Messages)
        /\ inbox[n] \in Seq(Services)
    OBVIOUS
  <2> HIDE DEF Types
  <2> QED
    BY <2>1, <2>2, <2>3, <2>4
<1>1. CASE Start(n)
  BY <1>1 DEF Start
<1>2. CASE ClientCall(n)
  <2>1. PICK payload \in Callable : asked' = [asked EXCEPT ![n] = Append(asked[n], payload)]
    BY <1>2 DEF ClientCall, Callable
  <2>2. payload \in AskedPayloads
    BY <2>1 DEF Callable, AskedPayloads
  <2>3. Append(asked[n], payload) \in Seq(AskedPayloads)
        /\ Len(Append(asked[n], payload)) \in Nat
    BY <1>0, <2>2
  <2>4. asked' \in [Nodes -> Seq(AskedPayloads)] /\ Len(asked'[n]) \in Nat
    BY <2>1, <2>3
  <2>5. calls' \in [Nodes -> Seq(Nat)]
    <3>1. Append(calls[n], Len(asked'[n])) \in Seq(Nat)
      BY <1>0, <2>4
    <3> QED
      BY <1>2, <3>1 DEF ClientCall
  <2> QED
    BY <1>2, <2>4, <2>5 DEF ClientCall
<1>3. CASE ClientSend(n)
  <2>1. PICK payload \in ResponsePayloads \union Foreign :
           /\ asked' = [asked EXCEPT ![n] = Append(asked[n], payload)]
           /\ Publish(n, Message(payload, n, Len(asked[n]) + 1))
    BY <1>3 DEF ClientSend
  <2> DEFINE m == Message(payload, n, Len(asked[n]) + 1)
             r == [num |-> Len(sent[n]) + 1, adapterId |-> 1]
  <2>2. payload \in AskedPayloads /\ payload \in WirePayloads
    BY DEF AskedPayloads, WirePayloads
  <2>3. m \in Messages /\ r \in Routings
    BY <1>0, <2>2 DEF Message, Messages, Routings
  <2>4. /\ routed' = [routed EXCEPT ![n] = Append(routed[n], r)]
        /\ sent' = [sent EXCEPT ![n] = Append(sent[n], m)]
    BY <2>1, PublishStep
  <2> HIDE DEF m, r
  <2>5. /\ Append(asked[n], payload) \in Seq(AskedPayloads)
        /\ Append(routed[n], r) \in Seq(Routings)
        /\ Append(sent[n], m) \in Seq(Messages)
    BY <1>0, <2>2, <2>3
  <2> QED
    BY <1>3, <2>1, <2>4, <2>5 DEF ClientSend
<1>4. CASE TakeCall(n)
  <2> DEFINE i == Head(calls[n])
             m == Message(PassedOn(asked[n][i], n), n, i)
             r == [num |-> Len(sent[n]) + 1, adapterId |-> 1]
  <2>1. /\ calls[n] # <<>> /\ i \in 1 .. Len(asked[n])
        /\ calls' = [calls EXCEPT ![n] = Tail(calls[n])]
        /\ UNCHANGED <<gateway, asked, received, incoming, inbox, handed, performed>>
        /\ \/ UNCHANGED <<routed, sent>>
           \/ asked[n][i] \in RequestPayloads /\ Publish(n, m)
    BY <1>4, TakeCallStep
  <2>2. Tail(calls[n]) \in Seq(Nat)
    BY <1>0, <2>1
  <2>3. CASE UNCHANGED <<routed, sent>>
    BY <2>1, <2>2, <2>3
  <2>4. CASE asked[n][i] \in RequestPayloads /\ Publish(n, m)
    <3>1. PassedOn(asked[n][i], n) \in WirePayloads
      BY <2>4 DEF WirePayloads
    <3>2. m \in Messages /\ r \in Routings
      BY <1>0, <2>1, <3>1 DEF Message, Messages, Routings
    <3>3. /\ routed' = [routed EXCEPT ![n] = Append(routed[n], r)]
          /\ sent' = [sent EXCEPT ![n] = Append(sent[n], m)]
      BY <2>4, PublishStep
    <3> HIDE DEF m, r
    <3>4. /\ Append(routed[n], r) \in Seq(Routings)
          /\ Append(sent[n], m) \in Seq(Messages)
      BY <1>0, <3>2
    <3> QED
      BY <2>1, <2>2, <3>3, <3>4
  <2> QED
    BY <2>1, <2>3, <2>4
<1>5. CASE Deliver(n)
  <2>1. UNCHANGED <<gateway, asked, calls, sent, inbox, performed>>
    BY <1>5 DEF Deliver
  <2>2. PICK d \in Deliveries :
           /\ d.sender # n
           /\ \E i \in 1 .. Len(routed[d.sender]) : d.num = routed[d.sender][i].num
           /\ \A i \in 1 .. Len(received[n]) :
                 received[n][i].sender = d.sender => received[n][i].num < d.num
           /\ received' = [received EXCEPT ![n] = Append(received[n], d)]
           /\ routed' = routed
           /\ \/ /\ gateway[n] = "up"
                 /\ incoming' = [incoming EXCEPT ![n] =
                                    Append(incoming[n], sent[d.sender][d.num])]
                 /\ handed' = [handed EXCEPT ![n] =
                                  handed[n] \union {KeyOf(sent[d.sender][d.num])}]
              \/ incoming' = incoming /\ handed' = handed
    <3> HIDE DEF Types
    <3> QED
      BY <1>0, <1>5, DeliverStep, Zenon
  <2>3. sent[d.sender][d.num] \in Messages
    <3>1. d.sender \in Nodes
      BY DEF Deliveries
    <3>2. d.num \in 1 .. Len(sent[d.sender])
      <4>1. /\ Len(routed[d.sender]) = Len(sent[d.sender])
            /\ \A i \in 1 .. Len(routed[d.sender]) : routed[d.sender][i].num = i
        BY <3>1 DEF Sending, SentOnce
      <4> QED
        BY <2>2, <4>1
    <3>3. sent[d.sender] \in Seq(Messages)
      BY <3>1
    <3> HIDE DEF Types
    <3> QED
      BY <3>2, <3>3
  <2>4. KeyOf(sent[d.sender][d.num]) \in Nodes \X Nat
    BY <2>3 DEF Messages, KeyOf
  <2> DEFINE m == sent[d.sender][d.num]
  <2>9. m \in Messages /\ KeyOf(m) \in Nodes \X Nat
    BY <2>3, <2>4
  <2>10. /\ received' = [received EXCEPT ![n] = Append(received[n], d)]
         /\ routed' = routed
         /\ \/ /\ incoming' = [incoming EXCEPT ![n] = Append(incoming[n], m)]
               /\ handed' = [handed EXCEPT ![n] = handed[n] \union {KeyOf(m)}]
            \/ incoming' = incoming /\ handed' = handed
    BY <2>2
  <2> HIDE DEF m
  <2>5. Append(received[n], d) \in Seq(Deliveries)
    BY <1>0
  <2>6. Append(incoming[n], m) \in Seq(Messages)
    BY <1>0, <2>9
  <2>7. handed[n] \union {KeyOf(m)} \in SUBSET (Nodes \X Nat)
    BY <2>9
  <2>8. received' \in [Nodes -> Seq(Deliveries)]
    BY <2>10, <2>5
  <2>11. incoming' \in [Nodes -> Seq(Messages)]
    BY <2>10, <2>6
  <2>12. handed' \in [Nodes -> SUBSET (Nodes \X Nat)]
    <3>1. handed \in [Nodes -> SUBSET (Nodes \X Nat)]
      OBVIOUS
    <3> DEFINE h == handed[n] \union {KeyOf(m)}
    <3>2. handed' = [handed EXCEPT ![n] = h] \/ handed' = handed
      BY <2>10
    <3>3. h \in SUBSET (Nodes \X Nat)
      BY <2>7
    <3> HIDE DEF h, Types
    <3> QED
      BY <3>1, <3>2, <3>3
  <2> QED
    BY <2>1, <2>10, <2>8, <2>11, <2>12
<1>6. CASE TakeMessage(n)
  <2> DEFINE m == Head(incoming[n])
             req == ReqOf(m.payload)
             call == [subject |-> Subject(req, n), message |-> m]
  <2>1. /\ incoming[n] # <<>>
        /\ UNCHANGED <<asked, routed, received, sent, handed, performed>>
        /\ \/ /\ gateway' = [gateway EXCEPT ![n] = "ended"]
              /\ calls' = [calls EXCEPT ![n] = <<>>]
              /\ incoming' = [incoming EXCEPT ![n] = <<>>]
              /\ inbox' = inbox
           \/ /\ UNCHANGED <<gateway, calls>>
              /\ incoming' = [incoming EXCEPT ![n] = Tail(incoming[n])]
              /\ \/ inbox' = inbox
                 \/ /\ call.subject \in Procedures[n]
                    /\ inbox' = [inbox EXCEPT ![n] = Append(inbox[n], call)]
    BY <1>6, TakeMessageStep
  <2>2. m \in Messages /\ Tail(incoming[n]) \in Seq(Messages)
    BY <1>0, <2>1
  <2>3. ASSUME call.subject \in Procedures[n]
        PROVE  Append(inbox[n], call) \in Seq(Services)
    <3>1. call \in Services
      BY <2>2, <2>3, GatewayAssumption DEF Services
    <3> QED
      BY <1>0, <3>1
  <2>4. inbox' \in [Nodes -> Seq(Services)]
    <3> HIDE DEF call
    <3> QED
      BY <2>1, <2>3
  <2>5. <<>> \in Seq(Nat) /\ <<>> \in Seq(Messages)
    OBVIOUS
  <2> HIDE DEF call, m, req
  <2>6. gateway' \in [Nodes -> {"down", "up", "ended"}]
    BY <2>1
  <2>7. calls' \in [Nodes -> Seq(Nat)]
    BY <2>1, <2>5
  <2>8. incoming' \in [Nodes -> Seq(Messages)]
    BY <2>1, <2>2, <2>5
  <2> QED
    BY <2>1, <2>4, <2>6, <2>7, <2>8
<1>7. CASE Serve(n)
  <2> DEFINE call == Head(inbox[n])
             m == call.message
             p == [at |-> n, from |-> m.from, call |-> m.call, req |-> ReqOf(m.payload)]
  <2>1. /\ inbox[n] # <<>>
        /\ inbox' = [inbox EXCEPT ![n] = Tail(inbox[n])]
        /\ UNCHANGED <<gateway, asked, calls, routed, received, sent, incoming, handed>>
        /\ performed' = performed \/ performed' = Append(performed, p)
    BY <1>7, ServeStep
  <2>2. call \in Services /\ Tail(inbox[n]) \in Seq(Services)
    BY <1>0, <2>1
  <2>3. m \in Messages
    BY <2>2 DEF Services
  <2>4. p \in Performances
    BY <2>3 DEF Messages, Performances
  <2>5. Append(performed, p) \in Seq(Performances)
    BY <2>4
  <2> HIDE DEF p
  <2> QED
    BY <2>1, <2>2, <2>5
<1> QED
  BY <1>1, <1>2, <1>3, <1>4, <1>5, <1>6, <1>7

-----------------------------------------------------------------------------
\* The places of what clients have asked, of all nodes.
PlacesOf(f) == UNION {{n} \X DOMAIN f[n] : n \in Nodes}

\* They are finitely many, and one more with each message.
LEMMA PlacesFinite ==
  ASSUME NEW S, NEW f \in [Nodes -> Seq(S)]
  PROVE  IsFiniteSet(PlacesOf(f))
<1> DEFINE of(n) == {n} \X DOMAIN f[n]
           U == {of(n) : n \in Nodes}
           g == [n \in Nodes |-> of(n)]
<1>1. ASSUME NEW n \in Nodes
      PROVE  IsFiniteSet(of(n))
  <2>1. DOMAIN f[n] = 1 .. Len(f[n]) /\ Len(f[n]) \in Nat
    OBVIOUS
  <2>2. IsFiniteSet(DOMAIN f[n])
    BY <2>1, FS_Interval
  <2>3. IsFiniteSet({n})
    BY FS_Singleton
  <2> QED
    BY <2>2, <2>3, FS_Product
<1>2. g \in Surjection(Nodes, U)
  BY DEF Surjection
<1>3. IsFiniteSet(U)
  BY <1>2, FS_Surjection, GatewayAssumption
<1>4. \A T \in U : IsFiniteSet(T)
  BY <1>1
<1>5. IsFiniteSet(UNION U)
  <2> HIDE DEF U
  <2> QED
    BY <1>3, <1>4, FS_UNION
<1> QED
  BY <1>5 DEF PlacesOf

\* A queue one longer has one more place, the new end of it.
LEMMA PlacesAppend ==
  ASSUME NEW S, NEW f \in [Nodes -> Seq(S)], NEW n \in Nodes, NEW e \in S,
         NEW h, h[n] = Append(f[n], e), \A m \in Nodes : m # n => h[m] = f[m]
  PROVE  PlacesOf(h) = PlacesOf(f) \union {<<n, Len(f[n]) + 1>>}
<1> DEFINE k == Len(f[n])
<1>1. k \in Nat /\ DOMAIN f[n] = 1 .. k /\ DOMAIN Append(f[n], e) = 1 .. (k + 1)
  OBVIOUS
<1>2. \A m \in Nodes : m # n => h[m] = f[m]
  OBVIOUS
<1>3. 1 .. (k + 1) = (1 .. k) \union {k + 1}
  BY <1>1
<1> HIDE DEF k
<1>4. DOMAIN h[n] = DOMAIN f[n] \union {k + 1}
  BY <1>1, <1>3
<1>5. \A m, i : <<m, i>> \in PlacesOf(h)
                   <=> m \in Nodes /\ i \in DOMAIN h[m]
  BY DEF PlacesOf
<1>6. \A m, i : <<m, i>> \in PlacesOf(f)
                   <=> m \in Nodes /\ i \in DOMAIN f[m]
  BY DEF PlacesOf
<1>7. \A x \in PlacesOf(h) \union PlacesOf(f) : \E m, i : x = <<m, i>>
  BY DEF PlacesOf
<1>8. ASSUME NEW x \in PlacesOf(h)
      PROVE  x \in PlacesOf(f) \union {<<n, k + 1>>}
  <2>1. PICK m, i : x = <<m, i>>
    BY <1>7
  <2>2. m \in Nodes /\ i \in DOMAIN h[m]
    BY <1>5, <2>1
  <2>3. i \in DOMAIN f[m] \/ (m = n /\ i = k + 1)
    BY <1>2, <1>4, <2>2
  <2> QED
    BY <1>6, <2>1, <2>2, <2>3
<1>9. ASSUME NEW x \in PlacesOf(f)
      PROVE  x \in PlacesOf(h)
  <2>1. PICK m, i : x = <<m, i>>
    BY <1>7
  <2>2. m \in Nodes /\ i \in DOMAIN f[m]
    BY <1>6, <2>1
  <2>3. i \in DOMAIN h[m]
    BY <1>2, <1>4, <2>2
  <2> QED
    BY <1>5, <2>1, <2>2, <2>3
<1>10. <<n, k + 1>> \in PlacesOf(h)
  BY <1>4, <1>5
<1>11. PlacesOf(h) = PlacesOf(f) \union {<<n, k + 1>>}
  BY <1>8, <1>9, <1>10
<1> QED
  BY <1>11 DEF k

\* So a message more is at most one more that is counted.
LEMMA PublishedMore ==
  ASSUME Types, NEW n \in Nodes, NEW e \in AskedPayloads,
         asked' = [asked EXCEPT ![n] = Append(asked[n], e)],
         Published < MaxMessages
  PROVE  Published' <= MaxMessages
<1> DEFINE P == PlacesOf(asked)
           Q == PlacesOf(asked')
           x == <<n, Len(asked[n]) + 1>>
<1>1. asked \in [Nodes -> Seq(AskedPayloads)]
  BY DEF Types
<1>2. IsFiniteSet(P)
  BY <1>1, PlacesFinite
<1>3. Q = P \union {x}
  <2> HIDE DEF P, Q, x
  <2> DEFINE f == asked
             h == asked'
  <2>1. /\ f \in [Nodes -> Seq(AskedPayloads)] /\ h[n] = Append(f[n], e)
        /\ \A m \in Nodes : m # n => h[m] = f[m]
    BY <1>1
  <2> HIDE DEF f, h
  <2>2. PlacesOf(h) = PlacesOf(f) \union {<<n, Len(f[n]) + 1>>}
    BY <2>1, PlacesAppend
  <2> QED
    BY <2>2 DEF P, Q, x, f, h
<1>4. Published = Cardinality(P) /\ Published' = Cardinality(Q)
  BY DEF Published, PlacesOf
<1> HIDE DEF P, Q, x
<1>5. Cardinality(P) \in Nat
  BY <1>2, FS_CardinalityType
<1>6. Cardinality(Q) = Cardinality(P) \/ Cardinality(Q) = Cardinality(P) + 1
  BY <1>2, <1>3, FS_AddElement
<1> QED
  BY <1>4, <1>5, <1>6, GatewayAssumption

-----------------------------------------------------------------------------
\* A step of a node's clients, its gateway, its services or its core.
Step(n) ==
    \/ Start(n) \/ ClientCall(n) \/ ClientSend(n)
    \/ TakeCall(n) \/ Deliver(n) \/ TakeMessage(n) \/ Serve(n)

\* What a step does to what clients publish and what is sent.
LEMMA ClientCallStep ==
  ASSUME NEW n \in Nodes, Types, ClientCall(n)
  PROVE  \E payload \in Callable :
            LET k == Len(asked[n]) + 1 IN
            /\ Published < MaxMessages
            /\ asked' = [asked EXCEPT ![n] = Append(asked[n], payload)]
            /\ \/ calls' = calls
               \/ /\ gateway[n] = "up"
                  /\ calls' = [calls EXCEPT ![n] = Append(calls[n], k)]
            /\ UNCHANGED <<gateway, routed, received, sent, incoming, inbox, handed,
                           performed>>
<1>1. PICK payload \in Callable : asked' = [asked EXCEPT ![n] = Append(asked[n], payload)]
  BY DEF ClientCall, Callable
<1>2. asked[n] \in Seq(AskedPayloads) /\ payload \in AskedPayloads
      /\ n \in DOMAIN asked
  BY DEF Types, AskedPayloads, Callable
<1>3. asked'[n] = Append(asked[n], payload) /\ Len(Append(asked[n], payload)) = Len(asked[n]) + 1
  BY <1>1, <1>2
<1>4. \/ calls' = calls
      \/ /\ gateway[n] = "up"
         /\ calls' = [calls EXCEPT ![n] = Append(calls[n], Len(asked[n]) + 1)]
  BY <1>3 DEF ClientCall, Subscribed
<1>5. /\ Published < MaxMessages
      /\ UNCHANGED <<gateway, routed, received, sent, incoming, inbox, handed, performed>>
  BY DEF ClientCall
<1> QED
  BY <1>1, <1>4, <1>5

\* What a client's message is to the node it is sent to: the histories grow by one,
\* in the order asked, called and sent.
LEMMA ClientSendStep ==
  ASSUME NEW n \in Nodes, Types, ClientSend(n)
  PROVE  \E payload \in ResponsePayloads \union Foreign :
            LET m == Message(payload, n, Len(asked[n]) + 1) IN
            /\ Published < MaxMessages
            /\ asked' = [asked EXCEPT ![n] = Append(asked[n], payload)]
            /\ routed' = [routed EXCEPT ![n] =
                  Append(routed[n], [num |-> Len(sent[n]) + 1, adapterId |-> 1])]
            /\ sent' = [sent EXCEPT ![n] = Append(sent[n], m)]
            /\ UNCHANGED <<gateway, calls, received, incoming, inbox, handed, performed>>
<1>1. PICK payload \in ResponsePayloads \union Foreign :
         /\ asked' = [asked EXCEPT ![n] = Append(asked[n], payload)]
         /\ Publish(n, Message(payload, n, Len(asked[n]) + 1))
  BY DEF ClientSend
<1>2. /\ routed' = [routed EXCEPT ![n] =
            Append(routed[n], [num |-> Len(sent[n]) + 1, adapterId |-> 1])]
      /\ sent' = [sent EXCEPT ![n] =
            Append(sent[n], Message(payload, n, Len(asked[n]) + 1))]
  BY <1>1, PublishStep
<1>3. /\ Published < MaxMessages
      /\ UNCHANGED <<gateway, calls, received, incoming, inbox, handed, performed>>
  BY DEF ClientSend
<1> QED
  BY <1>1, <1>2, <1>3

\* What is asked and sent stays where it is.
Extends(s, t) == Len(s) <= Len(t) /\ \A i \in 1 .. Len(s) : t[i] = s[i]

\* A history with one more entry extends the one before, and each extends itself.
LEMMA ExtendsAppend ==
  ASSUME NEW S, NEW s \in Seq(S), NEW e \in S
  PROVE  Extends(s, Append(s, e)) /\ Extends(s, s)
BY DEF Extends

\* No step rewrites what was asked or sent.
LEMMA Kept ==
  ASSUME NEW n \in Nodes, Types, Sending, Step(n)
  PROVE  \A m \in Nodes : Extends(asked[m], asked'[m]) /\ Extends(sent[m], sent'[m])
<1>1. \A m \in Nodes : asked[m] \in Seq(AskedPayloads) /\ sent[m] \in Seq(Messages)
  BY DEF Types
<1>2. \A m \in Nodes : Extends(asked[m], asked[m]) /\ Extends(sent[m], sent[m])
  BY <1>1 DEF Extends
<1>3. ASSUME NEW e \in AskedPayloads, asked' = [asked EXCEPT ![n] = Append(asked[n], e)],
             NEW m \in Nodes
      PROVE  Extends(asked[m], asked'[m])
  <2>1. Extends(asked[n], Append(asked[n], e))
    BY <1>1, ExtendsAppend
  <2>2. asked'[n] = Append(asked[n], e) /\ (m # n => asked'[m] = asked[m])
    BY <1>3 DEF Types
  <2> QED
    BY <1>2, <2>1, <2>2
<1>4. ASSUME NEW e \in Messages, sent' = [sent EXCEPT ![n] = Append(sent[n], e)],
             NEW m \in Nodes
      PROVE  Extends(sent[m], sent'[m])
  <2>1. Extends(sent[n], Append(sent[n], e))
    BY <1>1, ExtendsAppend
  <2>2. sent'[n] = Append(sent[n], e) /\ (m # n => sent'[m] = sent[m])
    BY <1>4 DEF Types
  <2> QED
    BY <1>2, <2>1, <2>2
<1>5. CASE ClientCall(n)
  <2>1. PICK payload \in Callable :
           /\ asked' = [asked EXCEPT ![n] = Append(asked[n], payload)]
           /\ sent' = sent
    BY <1>5, ClientCallStep
  <2>2. payload \in AskedPayloads
    BY DEF AskedPayloads, Callable
  <2> QED
    BY <1>2, <1>3, <2>1, <2>2
<1>6. CASE ClientSend(n)
  <2>1. PICK payload \in ResponsePayloads \union Foreign :
           /\ asked' = [asked EXCEPT ![n] = Append(asked[n], payload)]
           /\ sent' = [sent EXCEPT ![n] =
                          Append(sent[n], Message(payload, n, Len(asked[n]) + 1))]
    BY <1>6, ClientSendStep
  <2>2. payload \in AskedPayloads /\ payload \in WirePayloads
    BY DEF AskedPayloads, WirePayloads
  <2>3. Message(payload, n, Len(asked[n]) + 1) \in Messages
    BY <1>1, <2>2 DEF Message, Messages
  <2> QED
    BY <1>3, <1>4, <2>1, <2>2, <2>3
<1>7. CASE TakeCall(n)
  <2> DEFINE i == Head(calls[n])
             m == Message(PassedOn(asked[n][i], n), n, i)
  <2>1. /\ asked' = asked /\ i \in 1 .. Len(asked[n])
        /\ sent' = sent \/ (asked[n][i] \in RequestPayloads /\ Publish(n, m))
    BY <1>7, TakeCallStep
  <2>2. CASE sent' = sent
    BY <1>2, <2>1, <2>2
  <2>3. CASE asked[n][i] \in RequestPayloads /\ Publish(n, m)
    <3>1. PassedOn(asked[n][i], n) \in WirePayloads
      BY <2>3 DEF WirePayloads
    <3>2. m \in Messages
      BY <1>1, <2>1, <3>1 DEF Message, Messages
    <3>3. sent' = [sent EXCEPT ![n] = Append(sent[n], m)]
      BY <2>3, PublishStep
    <3> HIDE DEF m
    <3> QED
      BY <1>2, <1>4, <2>1, <3>2, <3>3
  <2> QED
    BY <2>1, <2>2, <2>3
<1>8. CASE Start(n) \/ Deliver(n) \/ TakeMessage(n) \/ Serve(n)
  <2>1. asked' = asked /\ sent' = sent
    BY <1>8 DEF Start, Deliver, TakeMessage, Serve
  <2> QED
    BY <1>2, <2>1
<1> QED
  BY <1>5, <1>6, <1>7, <1>8 DEF Step

\* So what was genuine stays so.
LEMMA GenuineKept ==
  ASSUME NEW m, m.from \in Nodes,
         Extends(asked[m.from], asked'[m.from]), Types, Types'
  PROVE  /\ IsAsked(m) => IsAsked(m)' /\ Asked(m)' = Asked(m)
         /\ Genuine(m) => Genuine(m)'
<1>1. Len(asked[m.from]) \in Nat /\ Len(asked'[m.from]) \in Nat
  <2>1. asked[m.from] \in Seq(AskedPayloads) /\ asked'[m.from] \in Seq(AskedPayloads)
    BY DEF Types
  <2> QED
    BY <2>1
<1>2. IsAsked(m) => IsAsked(m)' /\ Asked(m)' = Asked(m)
  BY <1>1 DEF IsAsked, Asked, Extends
<1> QED
  BY <1>2 DEF Genuine

\* What was sent stays sent.
LEMMA SentKept ==
  ASSUME NEW m, \A n \in Nodes : Extends(sent[n], sent'[n]), Types, Types', IsSent(m)
  PROVE  IsSent(m)'
<1>1. PICK n \in Nodes : m \in ToSet(sent[n])
  BY DEF IsSent
<1>2. sent[n] \in Seq(Messages) /\ sent'[n] \in Seq(Messages)
  BY DEF Types
<1>3. PICK i \in 1 .. Len(sent[n]) : sent[n][i] = m
  BY <1>1, <1>2, ToSetMember
<1>4. i \in 1 .. Len(sent'[n]) /\ sent'[n][i] = m
  BY <1>2, <1>3 DEF Extends
<1>5. m \in ToSet(sent'[n])
  BY <1>2, <1>4, ToSetMember
<1> QED
  BY <1>5 DEF IsSent

\* The clients' messages stay within their bound, and a gateway that is not up
\* has no queues.
LEMMA BoundedNext ==
  ASSUME NEW n \in Nodes, Types, Types', Sending, Bounded, Step(n)
  PROVE  Bounded'
<1> DEFINE Empty(m) == gateway[m] # "up" => calls[m] = <<>> /\ incoming[m] = <<>>
<1>0. Published <= MaxMessages /\ \A m \in Nodes : Empty(m)
  BY DEF Bounded
<1>1. asked' = asked => Published' <= MaxMessages
  BY <1>0 DEF Published
<1>2. CASE Start(n)
  <2>1. asked' = asked /\ UNCHANGED <<calls, incoming>>
        /\ gateway' = [gateway EXCEPT ![n] = "up"]
    BY <1>2 DEF Start
  <2>2. \A m \in Nodes : Empty(m)'
    BY <1>0, <2>1 DEF Types
  <2> QED
    BY <1>1, <2>1, <2>2 DEF Bounded
<1>3. CASE ClientCall(n)
  <2>1. PICK payload \in Callable :
           /\ Published < MaxMessages
           /\ asked' = [asked EXCEPT ![n] = Append(asked[n], payload)]
           /\ \/ calls' = calls
              \/ /\ gateway[n] = "up"
                 /\ calls' = [calls EXCEPT ![n] = Append(calls[n], Len(asked[n]) + 1)]
           /\ UNCHANGED <<gateway, incoming>>
    BY <1>3, ClientCallStep
  <2>2. payload \in AskedPayloads
    BY DEF AskedPayloads, Callable
  <2>3. Published' <= MaxMessages
    BY <2>1, <2>2, PublishedMore
  <2>4. \A m \in Nodes : Empty(m)'
    BY <1>0, <2>1 DEF Types
  <2> QED
    BY <2>3, <2>4 DEF Bounded
<1>4. CASE ClientSend(n)
  <2>1. PICK payload \in ResponsePayloads \union Foreign :
           /\ Published < MaxMessages
           /\ asked' = [asked EXCEPT ![n] = Append(asked[n], payload)]
           /\ UNCHANGED <<gateway, calls, incoming>>
    BY <1>4, ClientSendStep
  <2>2. payload \in AskedPayloads
    BY DEF AskedPayloads
  <2>3. Published' <= MaxMessages
    BY <2>1, <2>2, PublishedMore
  <2>4. \A m \in Nodes : Empty(m)'
    BY <1>0, <2>1
  <2> QED
    BY <2>3, <2>4 DEF Bounded
<1>5. CASE TakeCall(n)
  <2>1. /\ gateway[n] = "up" /\ asked' = asked /\ UNCHANGED <<gateway, incoming>>
        /\ calls' = [calls EXCEPT ![n] = Tail(calls[n])]
    BY <1>5, TakeCallStep
  <2>2. \A m \in Nodes : Empty(m)'
    BY <1>0, <2>1 DEF Types
  <2> QED
    BY <1>1, <2>1, <2>2 DEF Bounded
<1>6. CASE Deliver(n)
  <2>1. /\ asked' = asked /\ UNCHANGED <<gateway, calls>>
    BY <1>6 DEF Deliver
  <2>2. \/ incoming' = incoming
        \/ gateway[n] = "up" /\ \A m \in Nodes : m # n => incoming'[m] = incoming[m]
    <3>1. PICK d : \/ /\ gateway[n] = "up"
                      /\ incoming' = [incoming EXCEPT ![n] =
                                         Append(incoming[n], sent[d.sender][d.num])]
                   \/ incoming' = incoming
      BY <1>6, DeliverStep
    <3> QED
      BY <3>1 DEF Types
  <2>3. \A m \in Nodes : Empty(m)'
    BY <1>0, <2>1, <2>2
  <2> QED
    BY <1>1, <2>1, <2>3 DEF Bounded
<1>7. CASE TakeMessage(n)
  <2>1. /\ gateway[n] = "up" /\ asked' = asked
        /\ \/ /\ gateway' = [gateway EXCEPT ![n] = "ended"]
              /\ calls' = [calls EXCEPT ![n] = <<>>]
              /\ incoming' = [incoming EXCEPT ![n] = <<>>]
           \/ /\ UNCHANGED <<gateway, calls>>
              /\ incoming' = [incoming EXCEPT ![n] = Tail(incoming[n])]
    BY <1>7, TakeMessageStep
  <2>2. \A m \in Nodes : Empty(m)'
    BY <1>0, <2>1 DEF Types
  <2> QED
    BY <1>1, <2>1, <2>2 DEF Bounded
<1>8. CASE Serve(n)
  <2>1. asked' = asked /\ UNCHANGED <<gateway, calls, incoming>>
    BY <1>8, ServeStep
  <2>2. \A m \in Nodes : Empty(m)'
    BY <1>0, <2>1
  <2> QED
    BY <1>1, <2>1, <2>2 DEF Bounded
<1> QED
  BY <1>2, <1>3, <1>4, <1>5, <1>6, <1>7, <1>8 DEF Step

\* A call more in the queue, the last that was asked.
LEMMA OnceAsked ==
  ASSUME NEW n, NEW a \in Seq(AskedPayloads), NEW c \in Seq(Nat), NEW r, NEW s \in Seq(Messages),
         SentOnce(n, a, c, r, s), NEW p \in Callable
  PROVE  /\ SentOnce(n, Append(a, p), c, r, s)
         /\ SentOnce(n, Append(a, p), Append(c, Len(a) + 1), r, s)
<1> DEFINE b == Append(a, p)
           k == Len(a) + 1
           d == Append(c, k)
<1>1. p \in AskedPayloads
  BY DEF Callable, AskedPayloads
<1>2. /\ Len(a) \in Nat /\ Len(c) \in Nat /\ Len(s) \in Nat /\ k \in Nat
      /\ Len(b) = k /\ b[k] = p /\ \A i \in 1 .. Len(a) : b[i] = a[i]
      /\ Len(d) = Len(c) + 1 /\ d[Len(c) + 1] = k /\ \A i \in 1 .. Len(c) : d[i] = c[i]
  BY <1>1
<1>3. /\ Len(s) + Len(c) <= Len(a)
      /\ Len(r) = Len(s) /\ \A i \in 1 .. Len(r) : r[i].num = i
      /\ \A i \in 1 .. Len(c) : c[i] \in 1 .. Len(a) /\ a[c[i]] \in Callable
      /\ \A i, j \in 1 .. Len(c) : i < j => c[i] < c[j]
      /\ \A i \in 1 .. Len(s) :
            /\ s[i].from = n
            /\ s[i].call \in 1 .. Len(a) /\ MadeOf(s[i].payload, a[s[i].call], n)
      /\ \A i, j \in 1 .. Len(s) : s[i].call = s[j].call => i = j
      /\ \A i \in 1 .. Len(s), j \in 1 .. Len(c) : s[i].call # c[j]
  BY DEF SentOnce
<1>4. \A i \in 1 .. Len(a) : i \in 1 .. k /\ i < k
  BY <1>2
<1>5. k \in 1 .. k
  BY <1>2
<1>6. \A i \in 1 .. Len(d) : i \in 1 .. Len(c) \/ i = Len(c) + 1
  BY <1>2
<1> HIDE DEF b, d
<1>7. \A i \in 1 .. Len(c) : c[i] \in 1 .. Len(b) /\ b[c[i]] \in Callable
  BY <1>2, <1>3, <1>4
<1>8. \A i \in 1 .. Len(s) :
         s[i].call \in 1 .. Len(b) /\ MadeOf(s[i].payload, b[s[i].call], n)
  BY <1>2, <1>3, <1>4
<1>9. SentOnce(n, b, c, r, s)
  <2>1. Len(s) + Len(c) <= Len(b)
    BY <1>2, <1>3
  <2> QED
    BY <1>3, <1>7, <1>8, <2>1 DEF SentOnce
<1>10. \A i \in 1 .. Len(d) : d[i] \in 1 .. Len(b) /\ b[d[i]] \in Callable
  BY <1>2, <1>5, <1>6, <1>7
<1>11. \A i, j \in 1 .. Len(d) : i < j => d[i] < d[j]
  <2> SUFFICES ASSUME NEW i \in 1 .. Len(d), NEW j \in 1 .. Len(d), i < j
               PROVE  d[i] < d[j]
    OBVIOUS
  <2>1. i \in 1 .. Len(c)
    BY <1>2
  <2>2. CASE j \in 1 .. Len(c)
    BY <1>2, <1>3, <2>1, <2>2
  <2>3. CASE j = Len(c) + 1
    BY <1>2, <1>3, <1>4, <2>1, <2>3
  <2> QED
    BY <1>6, <2>2, <2>3
<1>12. ASSUME NEW i \in 1 .. Len(s), NEW j \in 1 .. Len(d)
       PROVE  s[i].call # d[j]
  <2>1. CASE j \in 1 .. Len(c)
    BY <1>2, <1>3, <2>1
  <2>2. CASE j = Len(c) + 1
    <3>1. s[i].call \in 1 .. Len(a) /\ k \notin 1 .. Len(a)
      BY <1>2, <1>3
    <3> QED
      BY <1>2, <2>2, <3>1
  <2> QED
    BY <1>6, <2>1, <2>2
<1>13. SentOnce(n, b, d, r, s)
  <2>1. Len(s) + Len(d) <= Len(b)
    BY <1>2, <1>3
  <2> QED
    BY <1>3, <1>8, <1>10, <1>11, <1>12, <2>1 DEF SentOnce
<1> QED
  BY <1>9, <1>13 DEF b, d, k

\* A message published to all that is no call: sent at once.
LEMMA OnceSent ==
  ASSUME NEW n, NEW a \in Seq(AskedPayloads), NEW c \in Seq(Nat),
         NEW r \in Seq(Routings), NEW s \in Seq(Messages),
         SentOnce(n, a, c, r, s), NEW p \in ResponsePayloads \union Foreign,
         NEW m \in Messages, m = Message(p, n, Len(a) + 1),
         NEW e \in Routings, e.num = Len(s) + 1
  PROVE  SentOnce(n, Append(a, p), c, Append(r, e), Append(s, m))
<1> DEFINE b == Append(a, p)
           k == Len(a) + 1
           t == Append(s, m)
           u == Append(r, e)
<1>1. p \in AskedPayloads
  BY DEF AskedPayloads
<1>2. /\ Len(a) \in Nat /\ Len(c) \in Nat /\ Len(s) \in Nat /\ k \in Nat /\ Len(r) \in Nat
      /\ Len(b) = k /\ b[k] = p /\ \A i \in 1 .. Len(a) : b[i] = a[i]
      /\ Len(t) = Len(s) + 1 /\ t[Len(s) + 1] = m /\ \A i \in 1 .. Len(s) : t[i] = s[i]
      /\ Len(u) = Len(r) + 1 /\ u[Len(r) + 1] = e /\ \A i \in 1 .. Len(r) : u[i] = r[i]
  BY <1>1
<1>3. /\ Len(s) + Len(c) <= Len(a)
      /\ Len(r) = Len(s) /\ \A i \in 1 .. Len(r) : r[i].num = i
      /\ \A i \in 1 .. Len(c) : c[i] \in 1 .. Len(a) /\ a[c[i]] \in Callable
      /\ \A i, j \in 1 .. Len(c) : i < j => c[i] < c[j]
      /\ \A i \in 1 .. Len(s) :
            /\ s[i].from = n
            /\ s[i].call \in 1 .. Len(a) /\ MadeOf(s[i].payload, a[s[i].call], n)
      /\ \A i, j \in 1 .. Len(s) : s[i].call = s[j].call => i = j
      /\ \A i \in 1 .. Len(s), j \in 1 .. Len(c) : s[i].call # c[j]
  BY DEF SentOnce
<1>4. \A i \in 1 .. Len(a) : i \in 1 .. k /\ i < k
  BY <1>2
<1>5. k \in 1 .. k
  BY <1>2
<1>6. \A i \in 1 .. Len(t) : i \in 1 .. Len(s) \/ i = Len(s) + 1
  BY <1>2
<1>7. m.from = n /\ m.call = k /\ m.payload = p
  BY DEF Message
<1> HIDE DEF b, t, u
<1>8. \A i \in 1 .. Len(c) : c[i] \in 1 .. Len(b) /\ b[c[i]] \in Callable
  BY <1>2, <1>3, <1>4
<1>9. ASSUME NEW i \in 1 .. Len(t)
      PROVE  /\ t[i].from = n
             /\ t[i].call \in 1 .. Len(b) /\ MadeOf(t[i].payload, b[t[i].call], n)
  <2>1. CASE i \in 1 .. Len(s)
    BY <1>2, <1>3, <1>4, <2>1
  <2>2. CASE i = Len(s) + 1
    <3>1. MadeOf(p, p, n)
      BY DEF MadeOf
    <3> QED
      BY <1>2, <1>5, <1>7, <2>2, <3>1
  <2> QED
    BY <1>6, <2>1, <2>2
<1>17. k \notin 1 .. Len(a)
  BY <1>2
<1>10. \A i \in 1 .. Len(s) : t[i].call = s[i].call /\ t[i].call # k
  BY <1>2, <1>3, <1>17
<1>11. t[Len(s) + 1].call = k
  BY <1>2, <1>7
<1>12. \A i, j \in 1 .. Len(t) : t[i].call = t[j].call => i = j
  BY <1>3, <1>6, <1>10, <1>11
<1>13. \A i \in 1 .. Len(t), j \in 1 .. Len(c) : t[i].call # c[j]
  <2> SUFFICES ASSUME NEW i \in 1 .. Len(t), NEW j \in 1 .. Len(c)
               PROVE  t[i].call # c[j]
    OBVIOUS
  <2>1. c[j] # k
    BY <1>3, <1>17
  <2>2. CASE i \in 1 .. Len(s)
    BY <1>3, <1>10, <2>2
  <2>3. CASE i = Len(s) + 1
    BY <1>11, <2>1, <2>3
  <2> QED
    BY <1>6, <2>2, <2>3
<1>14. Len(t) + Len(c) <= Len(b) /\ Len(u) = Len(t)
  BY <1>2, <1>3
<1>15. ASSUME NEW i \in 1 .. Len(u)
       PROVE  u[i].num = i
  <2>1. i \in 1 .. Len(r) \/ i = Len(r) + 1
    BY <1>2
  <2>2. CASE i \in 1 .. Len(r)
    BY <1>2, <1>3, <2>2
  <2>3. CASE i = Len(r) + 1
    <3>1. u[i] = e
      BY <1>2, <2>3
    <3>2. e.num = Len(r) + 1
      BY <1>3
    <3> QED
      BY <2>3, <3>1, <3>2
  <2> QED
    BY <2>1, <2>2, <2>3
<1>16. SentOnce(n, b, c, u, t)
  BY <1>3, <1>8, <1>9, <1>12, <1>13, <1>14, <1>15 DEF SentOnce
<1> QED
  BY <1>16 DEF b, t, u

\* A call taken out of the queue, and dropped, or passed on if it is a request.
LEMMA OnceTaken ==
  ASSUME NEW n, NEW a \in Seq(AskedPayloads), NEW c \in Seq(Nat), c # <<>>,
         NEW r \in Seq(Routings), NEW s \in Seq(Messages), SentOnce(n, a, c, r, s)
  PROVE  /\ SentOnce(n, a, Tail(c), r, s)
         /\ \A m \in Messages, e \in Routings :
               /\ e.num = Len(s) + 1
               /\ a[Head(c)] \in RequestPayloads
               /\ m = Message(PassedOn(a[Head(c)], n), n, Head(c))
               => SentOnce(n, a, Tail(c), Append(r, e), Append(s, m))
<1> DEFINE d == Tail(c)
           k == Head(c)
<1>1. /\ Len(a) \in Nat /\ Len(c) \in Nat /\ Len(s) \in Nat /\ Len(r) \in Nat /\ Len(c) >= 1
      /\ d \in Seq(Nat) /\ k \in Nat /\ Len(d) = Len(c) - 1 /\ k = c[1] /\ 1 \in 1 .. Len(c)
      /\ \A i \in 1 .. Len(d) : i + 1 \in 1 .. Len(c) /\ 1 < i + 1 /\ d[i] = c[i + 1]
  OBVIOUS
<1>2. /\ Len(s) + Len(c) <= Len(a)
      /\ Len(r) = Len(s) /\ \A i \in 1 .. Len(r) : r[i].num = i
      /\ \A i \in 1 .. Len(c) : c[i] \in 1 .. Len(a) /\ a[c[i]] \in Callable
      /\ \A i, j \in 1 .. Len(c) : i < j => c[i] < c[j]
      /\ \A i \in 1 .. Len(s) :
            /\ s[i].from = n
            /\ s[i].call \in 1 .. Len(a) /\ MadeOf(s[i].payload, a[s[i].call], n)
      /\ \A i, j \in 1 .. Len(s) : s[i].call = s[j].call => i = j
      /\ \A i \in 1 .. Len(s), j \in 1 .. Len(c) : s[i].call # c[j]
  BY DEF SentOnce
<1> HIDE DEF d, k
<1>3. ASSUME NEW i \in 1 .. Len(d)
      PROVE  d[i] \in 1 .. Len(a) /\ a[d[i]] \in Callable /\ k < d[i] /\ d[i] \in Nat
  <2>1. i + 1 \in 1 .. Len(c) /\ 1 < i + 1 /\ d[i] = c[i + 1]
    BY <1>1
  <2>2. c[i + 1] \in 1 .. Len(a) /\ a[c[i + 1]] \in Callable
    BY <1>2, <2>1
  <2>3. c[1] < c[i + 1]
    BY <1>1, <1>2, <2>1
  <2> QED
    BY <1>1, <2>1, <2>2, <2>3
<1>4. \A i, j \in 1 .. Len(d) : i < j => d[i] < d[j]
  <2> SUFFICES ASSUME NEW i \in 1 .. Len(d), NEW j \in 1 .. Len(d), i < j
               PROVE  d[i] < d[j]
    OBVIOUS
  <2>1. i + 1 < j + 1
    BY <1>1
  <2> QED
    BY <1>1, <1>2, <2>1
<1>5. \A i \in 1 .. Len(s), j \in 1 .. Len(d) : s[i].call # d[j]
  BY <1>1, <1>2
<1>6. \A i \in 1 .. Len(s) : s[i].call # k
  BY <1>1, <1>2
<1>7. SentOnce(n, a, d, r, s)
  <2>1. Len(s) + Len(d) <= Len(a)
    BY <1>1, <1>2
  <2> QED
    BY <1>2, <1>3, <1>4, <1>5, <2>1 DEF SentOnce
<1>8. ASSUME NEW m \in Messages, NEW e \in Routings, e.num = Len(s) + 1,
             a[k] \in RequestPayloads, m = Message(PassedOn(a[k], n), n, k)
      PROVE  SentOnce(n, a, d, Append(r, e), Append(s, m))
  <2> DEFINE t == Append(s, m)
             u == Append(r, e)
  <2>1. /\ Len(t) = Len(s) + 1 /\ t[Len(s) + 1] = m /\ \A i \in 1 .. Len(s) : t[i] = s[i]
        /\ Len(u) = Len(r) + 1 /\ u[Len(r) + 1] = e /\ \A i \in 1 .. Len(r) : u[i] = r[i]
    OBVIOUS
  <2>2. \A i \in 1 .. Len(t) : i \in 1 .. Len(s) \/ i = Len(s) + 1
    BY <1>1, <2>1
  <2>3. /\ m.from = n /\ m.call = k /\ m.payload = PassedOn(a[k], n)
        /\ k \in 1 .. Len(a) /\ MadeOf(PassedOn(a[k], n), a[k], n)
    BY <1>1, <1>2, <1>8 DEF Message, MadeOf
  <2> HIDE DEF t, u
  <2>4. ASSUME NEW i \in 1 .. Len(t)
        PROVE  /\ t[i].from = n
               /\ t[i].call \in 1 .. Len(a) /\ MadeOf(t[i].payload, a[t[i].call], n)
    <3>1. CASE i \in 1 .. Len(s)
      BY <1>2, <2>1, <3>1
    <3>2. CASE i = Len(s) + 1
      BY <2>1, <2>3, <3>2
    <3> QED
      BY <2>2, <3>1, <3>2
  <2>5. \A i \in 1 .. Len(s) : t[i].call = s[i].call /\ t[i].call # k
    BY <1>6, <2>1
  <2>6. t[Len(s) + 1].call = k
    BY <2>1, <2>3
  <2>7. \A i, j \in 1 .. Len(t) : t[i].call = t[j].call => i = j
    BY <1>2, <2>2, <2>5, <2>6
  <2>8. \A i \in 1 .. Len(t), j \in 1 .. Len(d) : t[i].call # d[j]
    <3>1. \A j \in 1 .. Len(d) : d[j] # k
      BY <1>1, <1>3
    <3> QED
      BY <1>5, <2>2, <2>5, <2>6, <3>1
  <2>9. Len(t) + Len(d) <= Len(a) /\ Len(u) = Len(t)
    BY <1>1, <1>2, <2>1
  <2>10. ASSUME NEW i \in 1 .. Len(u)
         PROVE  u[i].num = i
    <3>1. i \in 1 .. Len(r) \/ i = Len(r) + 1
      <4>1. Len(u) = Len(r) + 1 /\ Len(r) \in Nat
        BY <1>1, <2>1
      <4>2. i \in 1 .. (Len(r) + 1)
        BY <4>1
      <4> QED
        BY <4>1, <4>2
    <3>2. CASE i \in 1 .. Len(r)
      BY <1>2, <2>1, <3>2
    <3>3. CASE i = Len(r) + 1
      <4>1. u[i] = e
        BY <2>1, <3>3
      <4>2. e.num = Len(r) + 1
        BY <1>2, <1>8
      <4> QED
        BY <3>3, <4>1, <4>2
    <3> QED
      BY <3>1, <3>2, <3>3
  <2>11. SentOnce(n, a, d, u, t)
    BY <1>3, <1>4, <2>4, <2>7, <2>8, <2>9, <2>10 DEF SentOnce
  <2> QED
    BY <2>11 DEF t, u
<1> QED
  BY <1>7, <1>8 DEF d, k

\* The queue of a gateway that ends is gone.
LEMMA OnceEnded ==
  ASSUME NEW n, NEW a \in Seq(AskedPayloads), NEW c \in Seq(Nat),
         NEW r \in Seq(Routings), NEW s \in Seq(Messages), SentOnce(n, a, c, r, s)
  PROVE  SentOnce(n, a, <<>>, r, s)
<1>1. Len(<<>>) = 0 /\ 1 .. Len(<<>>) = {}
  OBVIOUS
<1>2. Len(s) \in Nat /\ Len(c) \in Nat /\ Len(a) \in Nat
  OBVIOUS
<1>3. Len(s) + Len(c) <= Len(a)
  BY DEF SentOnce
<1>4. Len(s) + Len(<<>>) <= Len(a)
  BY <1>1, <1>2, <1>3
<1> QED
  BY <1>1, <1>4 DEF SentOnce

\* What was sent was sent by its node, and is genuine.
LEMMA SentGenuine ==
  ASSUME Sending, NEW n \in Nodes, NEW i \in 1 .. Len(sent[n])
  PROVE  sent[n][i].from = n /\ Genuine(sent[n][i])
<1>1. /\ sent[n][i].from = n
      /\ sent[n][i].call \in 1 .. Len(asked[n])
      /\ MadeOf(sent[n][i].payload, asked[n][sent[n][i].call], n)
  BY DEF Sending, SentOnce
<1> QED
  BY <1>1 DEF Genuine, IsAsked, Asked

\* What clients publish is sent at most once, whatever happens.
LEMMA SendingNext ==
  ASSUME NEW n \in Nodes, Types, Sending, Step(n)
  PROVE  Sending'
<1> DEFINE Once(m) == SentOnce(m, asked[m], calls[m], routed[m], sent[m])
           OnceNext(m) == SentOnce(m, asked'[m], calls'[m], routed'[m], sent'[m])
<1>0. /\ \A m \in Nodes : Once(m)
      /\ asked \in [Nodes -> Seq(AskedPayloads)] /\ calls \in [Nodes -> Seq(Nat)]
      /\ routed \in [Nodes -> Seq(Routings)] /\ sent \in [Nodes -> Seq(Messages)]
  BY DEF Sending, Types
<1>1. SUFFICES \A m \in Nodes : OnceNext(m)
  BY DEF Sending
<1>2. ASSUME \A m \in Nodes : m # n =>
                /\ asked'[m] = asked[m] /\ calls'[m] = calls[m]
                /\ routed'[m] = routed[m] /\ sent'[m] = sent[m],
             OnceNext(n)
      PROVE  \A m \in Nodes : OnceNext(m)
  <2> SUFFICES ASSUME NEW m \in Nodes, m # n
               PROVE  OnceNext(m)
    BY <1>2
  <2>1. /\ asked'[m] = asked[m] /\ calls'[m] = calls[m]
        /\ routed'[m] = routed[m] /\ sent'[m] = sent[m]
    BY <1>2
  <2>2. Once(m)
    BY <1>0
  <2> QED
    BY <2>1, <2>2
<1>3. CASE ClientCall(n)
  <2>1. PICK p \in Callable :
           /\ asked' = [asked EXCEPT ![n] = Append(asked[n], p)]
           /\ \/ calls' = calls
              \/ calls' = [calls EXCEPT ![n] = Append(calls[n], Len(asked[n]) + 1)]
           /\ UNCHANGED <<routed, sent>>
    BY <1>3, ClientCallStep
  <2>2. /\ SentOnce(n, Append(asked[n], p), calls[n], routed[n], sent[n])
        /\ SentOnce(n, Append(asked[n], p), Append(calls[n], Len(asked[n]) + 1),
                    routed[n], sent[n])
    BY <1>0, OnceAsked
  <2>3. /\ asked'[n] = Append(asked[n], p)
        /\ calls'[n] \in {calls[n], Append(calls[n], Len(asked[n]) + 1)}
        /\ routed'[n] = routed[n] /\ sent'[n] = sent[n]
    BY <1>0, <2>1
  <2>4. OnceNext(n)
    BY <2>2, <2>3
  <2>5. \A m \in Nodes : m # n =>
           /\ asked'[m] = asked[m] /\ calls'[m] = calls[m]
           /\ routed'[m] = routed[m] /\ sent'[m] = sent[m]
    BY <1>0, <2>1
  <2> HIDE DEF OnceNext
  <2> QED
    BY <1>2, <2>4, <2>5
<1>4. CASE ClientSend(n)
  <2>1. PICK p \in ResponsePayloads \union Foreign :
           /\ asked' = [asked EXCEPT ![n] = Append(asked[n], p)]
           /\ routed' = [routed EXCEPT ![n] =
                 Append(routed[n], [num |-> Len(sent[n]) + 1, adapterId |-> 1])]
           /\ sent' = [sent EXCEPT ![n] =
                          Append(sent[n], Message(p, n, Len(asked[n]) + 1))]
           /\ calls' = calls
    BY <1>4, ClientSendStep
  <2> DEFINE e == [num |-> Len(sent[n]) + 1, adapterId |-> 1]
             x == Message(p, n, Len(asked[n]) + 1)
  <2>2. Len(sent[n]) \in Nat /\ Len(asked[n]) \in Nat
    BY <1>0
  <2>3. e \in Routings /\ e.num = Len(sent[n]) + 1
    BY <2>2 DEF Routings
  <2>4. x \in Messages
    <3>1. p \in WirePayloads
      BY DEF WirePayloads
    <3> QED
      BY <2>2, <3>1 DEF Message, Messages
  <2>5. /\ asked' = [asked EXCEPT ![n] = Append(asked[n], p)]
        /\ routed' = [routed EXCEPT ![n] = Append(routed[n], e)]
        /\ sent' = [sent EXCEPT ![n] = Append(sent[n], x)]
        /\ calls' = calls /\ x = Message(p, n, Len(asked[n]) + 1)
    BY <2>1
  <2> HIDE DEF e, x
  <2>6. SentOnce(n, Append(asked[n], p), calls[n], Append(routed[n], e), Append(sent[n], x))
    BY <1>0, <2>3, <2>4, <2>5, OnceSent
  <2>7. /\ asked'[n] = Append(asked[n], p) /\ calls'[n] = calls[n]
        /\ routed'[n] = Append(routed[n], e) /\ sent'[n] = Append(sent[n], x)
    BY <1>0, <2>5
  <2>8. OnceNext(n)
    BY <2>6, <2>7
  <2>9. \A m \in Nodes : m # n =>
           /\ asked'[m] = asked[m] /\ calls'[m] = calls[m]
           /\ routed'[m] = routed[m] /\ sent'[m] = sent[m]
    BY <1>0, <2>5
  <2> HIDE DEF OnceNext
  <2> QED
    BY <1>2, <2>8, <2>9
<1>5. CASE TakeCall(n)
  <2> DEFINE i == Head(calls[n])
             x == Message(PassedOn(asked[n][i], n), n, i)
             e == [num |-> Len(sent[n]) + 1, adapterId |-> 1]
  <2>1. /\ asked' = asked /\ i \in 1 .. Len(asked[n]) /\ calls[n] # <<>>
        /\ calls' = [calls EXCEPT ![n] = Tail(calls[n])]
        /\ \/ UNCHANGED <<routed, sent>>
           \/ asked[n][i] \in RequestPayloads /\ Publish(n, x)
    BY <1>5, TakeCallStep
  <2>2. /\ SentOnce(n, asked[n], Tail(calls[n]), routed[n], sent[n])
        /\ \A m \in Messages, f \in Routings :
              /\ f.num = Len(sent[n]) + 1
              /\ asked[n][i] \in RequestPayloads
              /\ m = x
              => SentOnce(n, asked[n], Tail(calls[n]), Append(routed[n], f),
                          Append(sent[n], m))
    BY <1>0, <2>1, OnceTaken
  <2>3. calls'[n] = Tail(calls[n]) /\ \A m \in Nodes : m # n => calls'[m] = calls[m]
    BY <1>0, <2>1
  <2>4. CASE UNCHANGED <<routed, sent>>
    <3>1. OnceNext(n)
      BY <2>1, <2>2, <2>3, <2>4
    <3> HIDE DEF OnceNext
    <3> QED
      BY <1>2, <2>1, <2>3, <2>4, <3>1
  <2>5. CASE asked[n][i] \in RequestPayloads /\ Publish(n, x)
    <3>1. PassedOn(asked[n][i], n) \in WirePayloads
      BY <2>5 DEF WirePayloads
    <3>2. x \in Messages
      BY <1>0, <2>1, <3>1 DEF Message, Messages
    <3>3. e \in Routings /\ e.num = Len(sent[n]) + 1
      BY <1>0 DEF Routings
    <3>4. /\ routed' = [routed EXCEPT ![n] = Append(routed[n], e)]
          /\ sent' = [sent EXCEPT ![n] = Append(sent[n], x)]
      BY <2>5, PublishStep
    <3>5. SentOnce(n, asked[n], Tail(calls[n]), Append(routed[n], e), Append(sent[n], x))
      BY <2>2, <2>5, <3>2, <3>3
    <3> HIDE DEF e, x
    <3>6. /\ routed'[n] = Append(routed[n], e) /\ sent'[n] = Append(sent[n], x)
          /\ \A m \in Nodes : m # n => routed'[m] = routed[m] /\ sent'[m] = sent[m]
      BY <1>0, <3>4
    <3>7. OnceNext(n)
      BY <2>1, <2>3, <3>5, <3>6
    <3> HIDE DEF OnceNext
    <3> QED
      BY <1>2, <2>1, <2>3, <3>6, <3>7
  <2> QED
    BY <2>1, <2>4, <2>5
<1>6. CASE TakeMessage(n)
  <2>1. /\ UNCHANGED <<asked, routed, sent>>
        /\ calls' = calls \/ calls' = [calls EXCEPT ![n] = <<>>]
    BY <1>6, TakeMessageStep
  <2>2. SentOnce(n, asked[n], <<>>, routed[n], sent[n])
    BY <1>0, OnceEnded
  <2>3. calls'[n] \in {calls[n], <<>>} /\ \A m \in Nodes : m # n => calls'[m] = calls[m]
    BY <1>0, <2>1
  <2>4. OnceNext(n)
    BY <1>0, <2>1, <2>2, <2>3
  <2> HIDE DEF OnceNext
  <2> QED
    BY <1>2, <2>1, <2>3, <2>4
<1>7. CASE Start(n) \/ Deliver(n) \/ Serve(n)
  <2>1. UNCHANGED <<asked, calls, sent>>
    BY <1>7 DEF Start, Deliver, Serve
  <2>2. routed' = routed
    BY <1>7, DeliverStep DEF Start, Serve
  <2> QED
    BY <1>0, <2>1, <2>2
<1> QED
  BY <1>3, <1>4, <1>5, <1>6, <1>7 DEF Step

-----------------------------------------------------------------------------
\* What has arrived stays sent.
LEMMA ArrivedKept ==
  ASSUME NEW n, NEW q \in Seq(Deliveries), NEW h \in SUBSET (Nodes \X Nat),
         NEW s \in [Nodes -> Seq(Messages)], NEW t \in [Nodes -> Seq(Messages)],
         \A m \in Nodes : Extends(s[m], t[m]), ArrivedAt(n, q, h, s)
  PROVE  ArrivedAt(n, q, h, t)
<1>1. ASSUME NEW i \in 1 .. Len(q)
      PROVE  /\ q[i].sender # n /\ q[i].sender \in Nodes
             /\ q[i].num \in 1 .. Len(t[q[i].sender])
             /\ t[q[i].sender][q[i].num] = s[q[i].sender][q[i].num]
  <2>1. q[i].sender \in Nodes
    <3>1. q[i] \in Deliveries
      OBVIOUS
    <3> QED
      BY <3>1 DEF Deliveries
  <2>2. Len(s[q[i].sender]) \in Nat /\ Len(t[q[i].sender]) \in Nat
    BY <2>1
  <2>3. q[i].sender # n /\ q[i].num \in 1 .. Len(s[q[i].sender])
    BY DEF ArrivedAt
  <2>4. Extends(s[q[i].sender], t[q[i].sender])
    BY <2>1
  <2> QED
    BY <2>1, <2>2, <2>3, <2>4 DEF Extends
<1>2. ASSUME NEW k \in h
      PROVE  \E i \in 1 .. Len(q) :
                q[i].sender = k[1] /\ t[k[1]][q[i].num].call = k[2]
  <2>1. PICK i \in 1 .. Len(q) : q[i].sender = k[1] /\ s[k[1]][q[i].num].call = k[2]
    BY DEF ArrivedAt
  <2> QED
    BY <1>1, <2>1
<1> QED
  BY <1>1, <1>2 DEF ArrivedAt

\* A message more arrives, which a gateway may be handed.
LEMMA ArrivedMore ==
  ASSUME NEW n, NEW q \in Seq(Deliveries), NEW h, NEW s, NEW d \in Deliveries,
         ArrivedAt(n, q, h, s), d.sender # n, d.num \in 1 .. Len(s[d.sender]),
         s[d.sender][d.num].from = d.sender
  PROVE  /\ ArrivedAt(n, Append(q, d), h, s)
         /\ ArrivedAt(n, Append(q, d), h \union {KeyOf(s[d.sender][d.num])}, s)
<1> DEFINE t == Append(q, d)
           l == Len(q)
           x == KeyOf(s[d.sender][d.num])
<1>1. /\ l \in Nat /\ Len(t) = l + 1 /\ t[l + 1] = d /\ \A i \in 1 .. l : t[i] = q[i]
      /\ \A i \in 1 .. (l + 1) : i \in 1 .. l \/ i = l + 1
      /\ \A i \in 1 .. l : i \in 1 .. (l + 1)
      /\ l + 1 \in 1 .. (l + 1)
  OBVIOUS
<1>2. x[1] = d.sender /\ x[2] = s[d.sender][d.num].call
  BY DEF KeyOf
<1> HIDE DEF t, l, x
<1>3. /\ \A i \in 1 .. l : q[i].sender # n /\ q[i].num \in 1 .. Len(s[q[i].sender])
      /\ \A k \in h : \E i \in 1 .. l :
            q[i].sender = k[1] /\ s[k[1]][q[i].num].call = k[2]
  BY DEF ArrivedAt, l
<1>4. \A i \in 1 .. Len(t) : t[i].sender # n /\ t[i].num \in 1 .. Len(s[t[i].sender])
  BY <1>1, <1>3
<1>5. \A k \in h : \E i \in 1 .. Len(t) :
         t[i].sender = k[1] /\ s[k[1]][t[i].num].call = k[2]
  BY <1>1, <1>3
<1>6. t[l + 1].sender = x[1] /\ s[x[1]][t[l + 1].num].call = x[2]
  BY <1>1, <1>2
<1>7. \E i \in 1 .. Len(t) : t[i].sender = x[1] /\ s[x[1]][t[i].num].call = x[2]
  BY <1>1, <1>6
<1>8. ArrivedAt(n, t, h, s) /\ ArrivedAt(n, t, h \union {x}, s)
  BY <1>4, <1>5, <1>7 DEF ArrivedAt
<1> QED
  BY <1>8 DEF t, x

\* What a gateway is handed has arrived, and it is not handed a message again.
LEMMA DeliverNew ==
  ASSUME NEW n \in Nodes, Types, Sending, Arrived, Deliver(n)
  PROVE  \E d \in Deliveries :
            /\ d.sender # n /\ d.num \in 1 .. Len(sent[d.sender])
            /\ received' = [received EXCEPT ![n] = Append(received[n], d)]
            /\ routed' = routed
            /\ KeyOf(sent[d.sender][d.num]) \notin handed[n]
            /\ \/ /\ gateway[n] = "up"
                  /\ incoming' = [incoming EXCEPT ![n] =
                                     Append(incoming[n], sent[d.sender][d.num])]
                  /\ handed' = [handed EXCEPT ![n] =
                                   handed[n] \union {KeyOf(sent[d.sender][d.num])}]
               \/ incoming' = incoming /\ handed' = handed
<1>1. PICK d \in Deliveries :
         /\ d.sender # n
         /\ \E i \in 1 .. Len(routed[d.sender]) : d.num = routed[d.sender][i].num
         /\ \A i \in 1 .. Len(received[n]) :
               received[n][i].sender = d.sender => received[n][i].num < d.num
         /\ received' = [received EXCEPT ![n] = Append(received[n], d)]
         /\ routed' = routed
         /\ \/ /\ gateway[n] = "up"
               /\ incoming' = [incoming EXCEPT ![n] =
                                  Append(incoming[n], sent[d.sender][d.num])]
               /\ handed' = [handed EXCEPT ![n] =
                                handed[n] \union {KeyOf(sent[d.sender][d.num])}]
            \/ incoming' = incoming /\ handed' = handed
  BY DeliverStep
<1>2. d.sender \in Nodes /\ d.num \in Nat
  BY DEF Deliveries
<1> DEFINE s == sent[d.sender]
<1>3. SentOnce(d.sender, asked[d.sender], calls[d.sender], routed[d.sender], s)
  BY <1>2 DEF Sending
<1>4. /\ Len(routed[d.sender]) = Len(s)
      /\ \A i \in 1 .. Len(routed[d.sender]) : routed[d.sender][i].num = i
      /\ \A i \in 1 .. Len(s) : s[i].from = d.sender
      /\ \A i, j \in 1 .. Len(s) : s[i].call = s[j].call => i = j
  BY <1>3 DEF SentOnce
<1>5. d.num \in 1 .. Len(s)
  BY <1>1, <1>4
<1>6. ASSUME KeyOf(s[d.num]) \in handed[n]
      PROVE  FALSE
  <2> DEFINE x == KeyOf(s[d.num])
  <2>1. x[1] = d.sender /\ x[2] = s[d.num].call
    BY <1>4, <1>5 DEF KeyOf
  <2>2. x \in handed[n]
    BY <1>6
  <2> HIDE DEF x
  <2>3. ArrivedAt(n, received[n], handed[n], sent)
    BY DEF Arrived
  <2>4. PICK i \in 1 .. Len(received[n]) :
           received[n][i].sender = x[1] /\ sent[x[1]][received[n][i].num].call = x[2]
    BY <2>2, <2>3 DEF ArrivedAt
  <2> DEFINE o == received[n][i]
  <2>5. o.sender = d.sender /\ s[o.num].call = s[d.num].call
    BY <2>1, <2>4
  <2>6. o.num \in 1 .. Len(s)
    BY <2>3, <2>5 DEF ArrivedAt
  <2>7. o.num < d.num
    BY <1>1, <2>5
  <2> HIDE DEF o, s
  <2>8. o.num = d.num
    BY <1>4, <1>5, <2>5, <2>6
  <2> QED
    BY <1>2, <2>7, <2>8
<1> HIDE DEF s
<1>7. d.num \in 1 .. Len(sent[d.sender]) /\ KeyOf(sent[d.sender][d.num]) \notin handed[n]
  BY <1>5, <1>6 DEF s
<1> QED
  BY <1>1, <1>7

\* A step keeps what is known of the received messages.
LEMMA ArrivedNext ==
  ASSUME NEW n \in Nodes, Types, Types', Sending, Arrived, Step(n)
  PROVE  Arrived'
<1>0. /\ received \in [Nodes -> Seq(Deliveries)] /\ sent \in [Nodes -> Seq(Messages)]
      /\ sent' \in [Nodes -> Seq(Messages)]
      /\ handed \in [Nodes -> SUBSET (Nodes \X Nat)]
      /\ \A m \in Nodes : ArrivedAt(m, received[m], handed[m], sent)
  BY DEF Types, Arrived
<1>1. CASE Deliver(n)
  <2>1. PICK d \in Deliveries :
           /\ d.sender # n /\ d.num \in 1 .. Len(sent[d.sender])
           /\ received' = [received EXCEPT ![n] = Append(received[n], d)]
           /\ \/ handed' = [handed EXCEPT ![n] =
                               handed[n] \union {KeyOf(sent[d.sender][d.num])}]
              \/ handed' = handed
    BY <1>1, DeliverNew
  <2>2. sent[d.sender][d.num].from = d.sender
    <3>1. d.sender \in Nodes
      BY DEF Deliveries
    <3> QED
      BY <2>1, <3>1, SentGenuine
  <2> DEFINE x == KeyOf(sent[d.sender][d.num])
  <2>3. /\ ArrivedAt(n, Append(received[n], d), handed[n], sent)
        /\ ArrivedAt(n, Append(received[n], d), handed[n] \union {x}, sent)
    <3>1. received[n] \in Seq(Deliveries) /\ ArrivedAt(n, received[n], handed[n], sent)
      BY <1>0
    <3> QED
      BY <2>1, <2>2, <3>1, ArrivedMore
  <2> HIDE DEF x
  <2>4. /\ received'[n] = Append(received[n], d)
        /\ handed'[n] \in {handed[n], handed[n] \union {x}}
        /\ \A m \in Nodes : m # n => received'[m] = received[m] /\ handed'[m] = handed[m]
    BY <1>0, <2>1 DEF x
  <2>5. sent' = sent
    BY <1>1 DEF Deliver
  <2>6. \A m \in Nodes : ArrivedAt(m, received'[m], handed'[m], sent)
    BY <1>0, <2>3, <2>4
  <2> QED
    BY <2>5, <2>6 DEF Arrived
<1>2. CASE ~Deliver(n)
  <2>1. received' = received /\ handed' = handed
    <3>1. CASE ClientCall(n)
      BY <3>1, ClientCallStep
    <3>2. CASE ClientSend(n)
      BY <3>2, ClientSendStep
    <3>3. CASE TakeCall(n)
      BY <3>3, TakeCallStep
    <3>4. CASE Start(n) \/ TakeMessage(n) \/ Serve(n)
      BY <3>4 DEF Start, TakeMessage, Serve
    <3> QED
      BY <1>2, <3>1, <3>2, <3>3, <3>4 DEF Step
  <2>2. \A m \in Nodes : Extends(sent[m], sent'[m])
    BY Kept
  <2>3. ASSUME NEW m \in Nodes
        PROVE  ArrivedAt(m, received[m], handed[m], sent')
    <3> DEFINE s == sent
               t == sent'
    <3>1. /\ received[m] \in Seq(Deliveries) /\ handed[m] \in SUBSET (Nodes \X Nat)
          /\ s \in [Nodes -> Seq(Messages)] /\ t \in [Nodes -> Seq(Messages)]
          /\ \A o \in Nodes : Extends(s[o], t[o])
          /\ ArrivedAt(m, received[m], handed[m], s)
      BY <1>0, <2>2
    <3> HIDE DEF s, t
    <3>2. ArrivedAt(m, received[m], handed[m], t)
      BY <3>1, ArrivedKept
    <3> QED
      BY <3>2 DEF t
  <2> QED
    BY <2>1, <2>3 DEF Arrived
<1> QED
  BY <1>1, <1>2

-----------------------------------------------------------------------------
\* Sequences without repetition: one more that is new, and one less.
LEMMA DistinctMore ==
  ASSUME NEW S, NEW s \in Seq(S), NEW e \in S, Distinct(s), e \notin ToSet(s)
  PROVE  Distinct(Append(s, e)) /\ ToSet(Append(s, e)) = ToSet(s) \union {e}
<1>1. /\ Len(Append(s, e)) = Len(s) + 1 /\ Len(s) \in Nat
      /\ Append(s, e)[Len(s) + 1] = e
      /\ \A i \in 1 .. Len(s) : Append(s, e)[i] = s[i]
      /\ \A i \in 1 .. (Len(s) + 1) : i \in 1 .. Len(s) \/ i = Len(s) + 1
  OBVIOUS
<1>2. \A i \in 1 .. Len(s) : s[i] # e
  BY ToSetMember
<1>3. Distinct(Append(s, e))
  BY <1>1, <1>2 DEF Distinct
<1> QED
  BY <1>3, ToSetAppend

\* Taking the head off a queue without repetitions leaves one without it.
LEMMA DistinctLess ==
  ASSUME NEW S, NEW s \in Seq(S), s # <<>>, Distinct(s)
  PROVE  /\ Distinct(Tail(s))
         /\ Head(s) \in ToSet(s) /\ Head(s) \notin ToSet(Tail(s))
         /\ ToSet(Tail(s)) \subseteq ToSet(s)
<1>1. /\ Len(s) \in Nat /\ Len(s) >= 1 /\ Head(s) = s[1] /\ 1 \in 1 .. Len(s)
      /\ Tail(s) \in Seq(S) /\ Len(Tail(s)) = Len(s) - 1
      /\ \A i \in 1 .. Len(Tail(s)) : Tail(s)[i] = s[i + 1]
      /\ \A i \in 1 .. (Len(s) - 1) : i + 1 \in 1 .. Len(s) /\ i + 1 # 1
  OBVIOUS
<1>2. \A i, j \in 1 .. Len(Tail(s)) : i + 1 = j + 1 => i = j
  BY <1>1
<1>3. Distinct(Tail(s))
  BY <1>1, <1>2 DEF Distinct
<1>4. Head(s) \notin ToSet(Tail(s))
  <2> SUFFICES ASSUME Head(s) \in ToSet(Tail(s))
               PROVE  FALSE
    OBVIOUS
  <2>1. PICK i \in 1 .. Len(Tail(s)) : Tail(s)[i] = Head(s)
    BY <1>1, ToSetMember
  <2>2. i + 1 \in 1 .. Len(s) /\ i + 1 # 1 /\ s[i + 1] = s[1]
    BY <1>1, <2>1
  <2> QED
    BY <1>1, <2>2 DEF Distinct
<1> QED
  BY <1>3, <1>4, ToSetHeadTail

\* A sequence is the function of its places.
LEMMA SequenceForm ==
  ASSUME NEW S, NEW s \in Seq(S)
  PROVE  s = [i \in 1 .. Len(s) |-> s[i]]
OBVIOUS

\* The calls of queues that grow and shrink.
Keys == Nodes \X Nat

\* The keys of a queue follow what is put into it and taken from it.
LEMMA MessageKeysSteps ==
  ASSUME NEW q \in Seq(Messages)
  PROVE  /\ MessageKeys(q) \in Seq(Keys)
         /\ \A m \in Messages :
               MessageKeys(Append(q, m)) = Append(MessageKeys(q), KeyOf(m))
         /\ q # <<>> => /\ MessageKeys(q) # <<>>
                        /\ Head(MessageKeys(q)) = KeyOf(Head(q))
                        /\ MessageKeys(Tail(q)) = Tail(MessageKeys(q))
<1> DEFINE k == MessageKeys(q)
<1>1. \A m \in Messages : KeyOf(m) \in Keys
  BY DEF Messages, KeyOf, Keys
<1>2. Len(q) \in Nat /\ \A i \in 1 .. Len(q) : q[i] \in Messages
  OBVIOUS
<1>3. k \in [1 .. Len(q) -> Keys] /\ \A i \in 1 .. Len(q) : k[i] = KeyOf(q[i])
  BY <1>1, <1>2 DEF MessageKeys
<1>4. k \in Seq(Keys) /\ Len(k) = Len(q)
  BY <1>2, <1>3, SeqDef, LenProperties
<1>5. ASSUME NEW m \in Messages
      PROVE  MessageKeys(Append(q, m)) = Append(k, KeyOf(m))
  <2> DEFINE t == Append(q, m)
             u == Append(k, KeyOf(m))
  <2>1. /\ Len(t) = Len(q) + 1 /\ t[Len(q) + 1] = m
        /\ \A i \in 1 .. Len(q) : t[i] = q[i]
    OBVIOUS
  <2> HIDE DEF k
  <2>2. /\ u \in Seq(Keys) /\ Len(u) = Len(q) + 1 /\ u[Len(q) + 1] = KeyOf(m)
        /\ \A i \in 1 .. Len(q) : u[i] = k[i]
    BY <1>1, <1>4, AppendProperties
  <2>3. u = [i \in 1 .. Len(u) |-> u[i]]
    BY <2>2, SequenceForm
  <2>4. \A i \in 1 .. (Len(q) + 1) : i \in 1 .. Len(q) \/ i = Len(q) + 1
    BY <1>2
  <2> HIDE DEF t, u
  <2>5. \A i \in 1 .. Len(t) : u[i] = KeyOf(t[i])
    BY <1>3, <2>1, <2>2, <2>4
  <2>6. MessageKeys(t) = u
    BY <2>1, <2>2, <2>3, <2>5 DEF MessageKeys
  <2> QED
    BY <2>6 DEF t, u
<1>6. ASSUME q # <<>>
      PROVE  /\ k # <<>> /\ Head(k) = KeyOf(Head(q))
             /\ MessageKeys(Tail(q)) = Tail(k)
  <2> DEFINE t == Tail(q)
             u == Tail(k)
  <2>1. /\ Len(q) >= 1 /\ Len(t) = Len(q) - 1 /\ Head(q) = q[1]
        /\ \A i \in 1 .. Len(t) : t[i] = q[i + 1]
    BY <1>6
  <2>0. \A i \in 1 .. (Len(q) - 1) : i + 1 \in 1 .. Len(q)
    BY <1>2
  <2> HIDE DEF k
  <2>2. k # <<>> /\ Head(k) = k[1]
    BY <1>2, <1>4, <2>1
  <2>3. /\ u \in Seq(Keys) /\ Len(u) = Len(q) - 1
        /\ \A i \in 1 .. Len(u) : u[i] = k[i + 1]
    BY <1>4, <2>2
  <2>4. u = [i \in 1 .. Len(u) |-> u[i]]
    BY <2>3, SequenceForm
  <2> HIDE DEF t, u
  <2>5. \A i \in 1 .. Len(t) : u[i] = KeyOf(t[i])
    BY <1>3, <2>0, <2>1, <2>3
  <2>6. MessageKeys(t) = u
    BY <2>1, <2>3, <2>4, <2>5 DEF MessageKeys
  <2>7. Head(k) = KeyOf(Head(q))
    BY <1>2, <1>3, <2>1, <2>2
  <2> QED
    BY <2>2, <2>6, <2>7 DEF t, u
<1> QED
  BY <1>4, <1>5, <1>6

\* So are those of the services.
LEMMA ServiceKeysSteps ==
  ASSUME NEW b \in Seq(Services)
  PROVE  /\ ServiceKeys(b) \in Seq(Keys)
         /\ \A c \in Services :
               ServiceKeys(Append(b, c)) = Append(ServiceKeys(b), KeyOf(c.message))
         /\ b # <<>> => /\ ServiceKeys(b) # <<>>
                        /\ Head(ServiceKeys(b)) = KeyOf(Head(b).message)
                        /\ ServiceKeys(Tail(b)) = Tail(ServiceKeys(b))
<1> DEFINE k == ServiceKeys(b)
<1>1. \A c \in Services : KeyOf(c.message) \in Keys
  BY DEF Services, Messages, KeyOf, Keys
<1>2. Len(b) \in Nat /\ \A i \in 1 .. Len(b) : b[i] \in Services
  OBVIOUS
<1>3. k \in [1 .. Len(b) -> Keys] /\ \A i \in 1 .. Len(b) : k[i] = KeyOf(b[i].message)
  BY <1>1, <1>2 DEF ServiceKeys
<1>4. k \in Seq(Keys) /\ Len(k) = Len(b)
  BY <1>2, <1>3, SeqDef, LenProperties
<1>5. ASSUME NEW c \in Services
      PROVE  ServiceKeys(Append(b, c)) = Append(k, KeyOf(c.message))
  <2> DEFINE t == Append(b, c)
             u == Append(k, KeyOf(c.message))
  <2>1. /\ Len(t) = Len(b) + 1 /\ t[Len(b) + 1] = c
        /\ \A i \in 1 .. Len(b) : t[i] = b[i]
    OBVIOUS
  <2> HIDE DEF k
  <2>2. /\ u \in Seq(Keys) /\ Len(u) = Len(b) + 1 /\ u[Len(b) + 1] = KeyOf(c.message)
        /\ \A i \in 1 .. Len(b) : u[i] = k[i]
    BY <1>1, <1>4, AppendProperties
  <2>3. u = [i \in 1 .. Len(u) |-> u[i]]
    BY <2>2, SequenceForm
  <2>4. \A i \in 1 .. (Len(b) + 1) : i \in 1 .. Len(b) \/ i = Len(b) + 1
    BY <1>2
  <2> HIDE DEF t, u
  <2>5. \A i \in 1 .. Len(t) : u[i] = KeyOf(t[i].message)
    BY <1>3, <2>1, <2>2, <2>4
  <2>6. ServiceKeys(t) = u
    BY <2>1, <2>2, <2>3, <2>5 DEF ServiceKeys
  <2> QED
    BY <2>6 DEF t, u
<1>6. ASSUME b # <<>>
      PROVE  /\ k # <<>> /\ Head(k) = KeyOf(Head(b).message)
             /\ ServiceKeys(Tail(b)) = Tail(k)
  <2> DEFINE t == Tail(b)
             u == Tail(k)
  <2>1. /\ Len(b) >= 1 /\ Len(t) = Len(b) - 1 /\ Head(b) = b[1]
        /\ \A i \in 1 .. Len(t) : t[i] = b[i + 1]
    BY <1>6
  <2>0. \A i \in 1 .. (Len(b) - 1) : i + 1 \in 1 .. Len(b)
    BY <1>2
  <2> HIDE DEF k
  <2>2. k # <<>> /\ Head(k) = k[1]
    BY <1>2, <1>4, <2>1
  <2>3. /\ u \in Seq(Keys) /\ Len(u) = Len(b) - 1
        /\ \A i \in 1 .. Len(u) : u[i] = k[i + 1]
    BY <1>4, <2>2
  <2>4. u = [i \in 1 .. Len(u) |-> u[i]]
    BY <2>3, SequenceForm
  <2> HIDE DEF t, u
  <2>5. \A i \in 1 .. Len(t) : u[i] = KeyOf(t[i].message)
    BY <1>3, <2>0, <2>1, <2>3
  <2>6. ServiceKeys(t) = u
    BY <2>1, <2>3, <2>4, <2>5 DEF ServiceKeys
  <2>7. Head(k) = KeyOf(Head(b).message)
    BY <1>2, <1>3, <2>1, <2>2
  <2> QED
    BY <2>2, <2>6, <2>7 DEF t, u
<1> QED
  BY <1>4, <1>5, <1>6

\* And those of what is performed, with the node.
LEMMA PerformedKeysSteps ==
  ASSUME NEW p \in Seq(Performances)
  PROVE  /\ PerformedKeys(p) \in Seq(Nodes \X Keys)
         /\ \A e \in Performances :
               PerformedKeys(Append(p, e)) = Append(PerformedKeys(p), <<e.at, KeyOf(e)>>)
<1> DEFINE k == PerformedKeys(p)
           K == Nodes \X Keys
<1>1. \A e \in Performances : <<e.at, KeyOf(e)>> \in K
  BY DEF Performances, KeyOf, Keys
<1>2. Len(p) \in Nat /\ \A i \in 1 .. Len(p) : p[i] \in Performances
  OBVIOUS
<1> HIDE DEF K
<1>3. k \in [1 .. Len(p) -> K] /\ \A i \in 1 .. Len(p) : k[i] = <<p[i].at, KeyOf(p[i])>>
  BY <1>1, <1>2 DEF PerformedKeys
<1>4. k \in Seq(K) /\ Len(k) = Len(p)
  BY <1>2, <1>3, SeqDef, LenProperties
<1>5. ASSUME NEW e \in Performances
      PROVE  PerformedKeys(Append(p, e)) = Append(k, <<e.at, KeyOf(e)>>)
  <2> DEFINE x == <<e.at, KeyOf(e)>>
             t == Append(p, e)
             u == Append(k, x)
  <2>1. /\ Len(t) = Len(p) + 1 /\ t[Len(p) + 1] = e
        /\ \A i \in 1 .. Len(p) : t[i] = p[i]
    OBVIOUS
  <2>0. x \in K /\ x = <<t[Len(p) + 1].at, KeyOf(t[Len(p) + 1])>>
    BY <1>1, <2>1
  <2> HIDE DEF k, x
  <2>2. /\ u \in Seq(K) /\ Len(u) = Len(p) + 1 /\ u[Len(p) + 1] = x
        /\ \A i \in 1 .. Len(p) : u[i] = k[i]
    BY <2>0, <1>4, AppendProperties
  <2>3. u = [i \in 1 .. Len(u) |-> u[i]]
    BY <2>2, SequenceForm
  <2>4. \A i \in 1 .. (Len(p) + 1) : i \in 1 .. Len(p) \/ i = Len(p) + 1
    BY <1>2
  <2> HIDE DEF t, u
  <2>5. \A i \in 1 .. Len(t) : u[i] = <<t[i].at, KeyOf(t[i])>>
    BY <1>3, <2>0, <2>1, <2>2, <2>4
  <2>6. PerformedKeys(t) = u
    BY <2>1, <2>2, <2>3, <2>5 DEF PerformedKeys
  <2> QED
    BY <2>6 DEF t, u, x
<1> QED
  BY <1>4, <1>5 DEF K

\* A gateway is handed a message it was not handed yet.
LEMMA PlaceHanded ==
  ASSUME NEW n, NEW k \in Seq(Keys), NEW b, NEW h, NEW p,
         OnePlace(n, k, b, h, p), NEW x \in Keys, x \notin h
  PROVE  OnePlace(n, Append(k, x), b, h \union {x}, p)
<1>1. x \notin ToSet(k) /\ x \notin ToSet(b) /\ <<n, x>> \notin ToSet(p)
  BY DEF OnePlace
<1>2. Distinct(Append(k, x)) /\ ToSet(Append(k, x)) = ToSet(k) \union {x}
  BY <1>1, DistinctMore DEF OnePlace
<1> QED
  BY <1>1, <1>2, Zenon DEF OnePlace

\* It takes one, and drops it or passes it to a service.
LEMMA PlaceTaken ==
  ASSUME NEW n, NEW k \in Seq(Keys), NEW b \in Seq(Keys), NEW h, NEW p,
         OnePlace(n, k, b, h, p), k # <<>>
  PROVE  /\ OnePlace(n, Tail(k), b, h, p)
         /\ OnePlace(n, Tail(k), Append(b, Head(k)), h, p)
<1>1. /\ Distinct(Tail(k)) /\ Head(k) \in ToSet(k) /\ Head(k) \notin ToSet(Tail(k))
      /\ ToSet(Tail(k)) \subseteq ToSet(k)
  BY DistinctLess DEF OnePlace
<1>2. Head(k) \in Keys /\ Head(k) \notin ToSet(b)
  <2>1. Head(k) \in Keys
    OBVIOUS
  <2> QED
    BY <1>1, <2>1, Zenon DEF OnePlace
<1>3. Distinct(Append(b, Head(k))) /\ ToSet(Append(b, Head(k))) = ToSet(b) \union {Head(k)}
  BY <1>2, DistinctMore DEF OnePlace
<1>4. OnePlace(n, Tail(k), b, h, p)
  BY <1>1, Zenon DEF OnePlace
<1>5. OnePlace(n, Tail(k), Append(b, Head(k)), h, p)
  BY <1>1, <1>3, Zenon DEF OnePlace
<1> QED
  BY <1>4, <1>5

\* It ends, and what waits for it is gone.
LEMMA PlaceEnded ==
  ASSUME NEW n, NEW k, NEW b, NEW h, NEW p, OnePlace(n, k, b, h, p)
  PROVE  OnePlace(n, <<>>, b, h, p)
<1>1. Distinct(<<>>)
  BY DEF Distinct
<1> QED
  BY <1>1, ToSetEmpty DEF OnePlace

\* A service takes a message, and drops or performs it.
LEMMA PlaceServed ==
  ASSUME NEW n \in Nodes, NEW k, NEW b \in Seq(Keys), NEW h,
         NEW p \in Seq(Nodes \X Keys), OnePlace(n, k, b, h, p), b # <<>>
  PROVE  /\ OnePlace(n, k, Tail(b), h, p)
         /\ OnePlace(n, k, Tail(b), h, Append(p, <<n, Head(b)>>))
         /\ <<n, Head(b)>> \in Nodes \X Keys /\ <<n, Head(b)>> \notin ToSet(p)
<1> DEFINE x == Head(b)
           d == Append(p, <<n, x>>)
<1>1. /\ Distinct(Tail(b)) /\ x \in ToSet(b) /\ x \notin ToSet(Tail(b))
      /\ ToSet(Tail(b)) \subseteq ToSet(b)
  BY DistinctLess DEF OnePlace
<1>2. x \in Keys
  OBVIOUS
<1> HIDE DEF x
<1>3. /\ x \in h /\ <<n, x>> \notin ToSet(p) /\ x \notin ToSet(k)
  BY <1>1 DEF OnePlace
<1>4. <<n, x>> \in Nodes \X Keys
  BY <1>2
<1>5. ToSet(d) = ToSet(p) \union {<<n, x>>}
  BY <1>4, ToSetAppend
<1> HIDE DEF d
<1>6. \A y : <<n, y>> \in ToSet(d) <=> (<<n, y>> \in ToSet(p) \/ y = x)
  BY <1>5
<1>7. OnePlace(n, k, Tail(b), h, p)
  BY <1>1, Zenon DEF OnePlace
<1>8. \A e \in ToSet(d) : e[1] = n => e[2] \in h
  <2>1. \A e \in ToSet(p) : e[1] = n => e[2] \in h
    BY DEF OnePlace
  <2> QED
    BY <1>3, <1>5, <2>1
<1>9. OnePlace(n, k, Tail(b), h, d)
  BY <1>1, <1>3, <1>6, <1>8, Zenon DEF OnePlace
<1> QED
  BY <1>3, <1>4, <1>7, <1>9 DEF x, d

\* What is performed at another node is in no place here.
LEMMA PlaceOther ==
  ASSUME NEW n \in Nodes, NEW m, m # n, NEW k, NEW b, NEW h,
         NEW p \in Seq(Nodes \X Keys), OnePlace(m, k, b, h, p), NEW x \in Keys
  PROVE  OnePlace(m, k, b, h, Append(p, <<n, x>>))
<1> DEFINE d == Append(p, <<n, x>>)
<1>1. ToSet(d) = ToSet(p) \union {<<n, x>>}
  BY ToSetAppend
<1> HIDE DEF d
<1>2. \A y : <<m, y>> \in ToSet(d) <=> <<m, y>> \in ToSet(p)
  BY <1>1
<1>3. \A e \in ToSet(d) : e[1] = m => e[2] \in h
  <2>1. \A e \in ToSet(p) : e[1] = m => e[2] \in h
    BY DEF OnePlace
  <2> QED
    BY <1>1, <2>1
<1>4. OnePlace(m, k, b, h, d)
  BY <1>2, <1>3, Zenon DEF OnePlace
<1> QED
  BY <1>4 DEF d

\* Each message a gateway was handed stays in one place, whatever happens.
LEMMA InOnePlaceNext ==
  ASSUME NEW n \in Nodes, Types, Sending, Arrived, InOnePlace, Step(n)
  PROVE  InOnePlace'
<1> DEFINE K(m) == MessageKeys(incoming[m])
           B(m) == ServiceKeys(inbox[m])
           P == PerformedKeys(performed)
           Placed(m) == OnePlace(m, K(m), B(m), handed[m], P)
           PlacedNext(m) == OnePlace(m, MessageKeys(incoming'[m]), ServiceKeys(inbox'[m]),
                                     handed'[m], PerformedKeys(performed'))
<1>0. /\ incoming \in [Nodes -> Seq(Messages)] /\ inbox \in [Nodes -> Seq(Services)]
      /\ handed \in [Nodes -> SUBSET Keys] /\ performed \in Seq(Performances)
      /\ Distinct(P) /\ \A m \in Nodes : Placed(m)
  BY DEF Types, InOnePlace, Keys
<1>1. /\ \A m \in Nodes : K(m) \in Seq(Keys) /\ B(m) \in Seq(Keys)
      /\ P \in Seq(Nodes \X Keys)
  BY <1>0, MessageKeysSteps, ServiceKeysSteps, PerformedKeysSteps
<1>2. SUFFICES Distinct(PerformedKeys(performed')) /\ \A m \in Nodes : PlacedNext(m)
  BY DEF InOnePlace
<1>3. ASSUME performed' = performed, PlacedNext(n),
             \A m \in Nodes : m # n =>
                /\ incoming'[m] = incoming[m] /\ inbox'[m] = inbox[m]
                /\ handed'[m] = handed[m]
      PROVE  Distinct(PerformedKeys(performed')) /\ \A m \in Nodes : PlacedNext(m)
  <2>1. Distinct(PerformedKeys(performed'))
    BY <1>0, <1>3
  <2>2. ASSUME NEW m \in Nodes, m # n
        PROVE  PlacedNext(m)
    <3>1. Placed(m)
      BY <1>0
    <3>2. incoming'[m] = incoming[m] /\ inbox'[m] = inbox[m] /\ handed'[m] = handed[m]
      BY <1>3, <2>2
    <3> QED
      BY <1>3, <3>1, <3>2
  <2> HIDE DEF PlacedNext
  <2> QED
    BY <1>3, <2>1, <2>2
<1>4. CASE Deliver(n)
  <2>1. PICK d \in Deliveries :
           /\ d.sender # n /\ d.num \in 1 .. Len(sent[d.sender])
           /\ KeyOf(sent[d.sender][d.num]) \notin handed[n]
           /\ \/ /\ incoming' = [incoming EXCEPT ![n] =
                                    Append(incoming[n], sent[d.sender][d.num])]
                 /\ handed' = [handed EXCEPT ![n] =
                                  handed[n] \union {KeyOf(sent[d.sender][d.num])}]
              \/ incoming' = incoming /\ handed' = handed
    BY <1>4, DeliverNew
  <2>2. inbox' = inbox /\ performed' = performed
    BY <1>4 DEF Deliver
  <2> DEFINE x == sent[d.sender][d.num]
             y == KeyOf(x)
  <2>3. x \in Messages
    <3>1. d.sender \in Nodes
      BY DEF Deliveries
    <3>2. sent[d.sender] \in Seq(Messages)
      BY <3>1 DEF Types
    <3> QED
      BY <2>1, <3>2
  <2>4. y \in Keys /\ y \notin handed[n]
    BY <2>1, <2>3 DEF Messages, KeyOf, Keys
  <2>5. \/ /\ incoming' = [incoming EXCEPT ![n] = Append(incoming[n], x)]
           /\ handed' = [handed EXCEPT ![n] = handed[n] \union {y}]
        \/ incoming' = incoming /\ handed' = handed
    BY <2>1
  <2>6. MessageKeys(Append(incoming[n], x)) = Append(K(n), y)
    BY <1>0, <2>3, MessageKeysSteps
  <2> HIDE DEF x, y
  <2>7. OnePlace(n, Append(K(n), y), B(n), handed[n] \union {y}, P)
    BY <1>0, <1>1, <2>4, PlaceHanded
  <2>8. CASE /\ incoming' = [incoming EXCEPT ![n] = Append(incoming[n], x)]
             /\ handed' = [handed EXCEPT ![n] = handed[n] \union {y}]
    <3>1. /\ incoming'[n] = Append(incoming[n], x) /\ handed'[n] = handed[n] \union {y}
          /\ \A m \in Nodes : m # n => incoming'[m] = incoming[m] /\ handed'[m] = handed[m]
      BY <1>0, <2>8
    <3>2. PlacedNext(n)
      BY <2>2, <2>6, <2>7, <3>1
    <3> HIDE DEF PlacedNext
    <3> QED
      BY <1>3, <2>2, <3>1, <3>2
  <2>9. CASE incoming' = incoming /\ handed' = handed
    BY <1>0, <2>2, <2>9
  <2> QED
    BY <2>5, <2>8, <2>9
<1>5. CASE TakeMessage(n)
  <2> DEFINE x == Head(incoming[n])
             call == [subject |-> Subject(ReqOf(x.payload), n), message |-> x]
  <2>1. /\ incoming[n] # <<>> /\ handed' = handed /\ performed' = performed
        /\ \/ incoming' = [incoming EXCEPT ![n] = <<>>] /\ inbox' = inbox
           \/ /\ incoming' = [incoming EXCEPT ![n] = Tail(incoming[n])]
              /\ \/ inbox' = inbox
                 \/ /\ call.subject \in Procedures[n]
                    /\ inbox' = [inbox EXCEPT ![n] = Append(inbox[n], call)]
    BY <1>5, TakeMessageStep
  <2>2. /\ K(n) # <<>> /\ Head(K(n)) = KeyOf(x)
        /\ MessageKeys(Tail(incoming[n])) = Tail(K(n))
    BY <1>0, <2>1, MessageKeysSteps
  <2>3. /\ OnePlace(n, Tail(K(n)), B(n), handed[n], P)
        /\ OnePlace(n, Tail(K(n)), Append(B(n), KeyOf(x)), handed[n], P)
        /\ OnePlace(n, <<>>, B(n), handed[n], P)
    BY <1>0, <1>1, <2>2, PlaceTaken, PlaceEnded
  <2>4. MessageKeys(<<>>) = <<>>
    BY DEF MessageKeys
  <2>5. ASSUME call.subject \in Procedures[n]
        PROVE  ServiceKeys(Append(inbox[n], call)) = Append(B(n), KeyOf(x))
    <3>1. x \in Messages
      BY <1>0, <2>1
    <3>2. call \in Services /\ call.message = x
      BY <2>5, <3>1, GatewayAssumption DEF Services
    <3> HIDE DEF call
    <3> QED
      BY <1>0, <3>2, ServiceKeysSteps
  <2> HIDE DEF call, x
  <2>6. CASE incoming' = [incoming EXCEPT ![n] = <<>>] /\ inbox' = inbox
    <3>1. incoming'[n] = <<>> /\ \A m \in Nodes : m # n => incoming'[m] = incoming[m]
      BY <1>0, <2>6
    <3>2. PlacedNext(n)
      BY <2>1, <2>3, <2>4, <2>6, <3>1
    <3> HIDE DEF PlacedNext
    <3> QED
      BY <1>3, <2>1, <2>6, <3>1, <3>2
  <2>7. CASE incoming' = [incoming EXCEPT ![n] = Tail(incoming[n])] /\ inbox' = inbox
    <3>1. incoming'[n] = Tail(incoming[n])
          /\ \A m \in Nodes : m # n => incoming'[m] = incoming[m]
      BY <1>0, <2>7
    <3>2. PlacedNext(n)
      BY <2>1, <2>2, <2>3, <2>7, <3>1
    <3> HIDE DEF PlacedNext
    <3> QED
      BY <1>3, <2>1, <2>7, <3>1, <3>2
  <2>8. CASE /\ incoming' = [incoming EXCEPT ![n] = Tail(incoming[n])]
             /\ call.subject \in Procedures[n]
             /\ inbox' = [inbox EXCEPT ![n] = Append(inbox[n], call)]
    <3>1. /\ incoming'[n] = Tail(incoming[n]) /\ inbox'[n] = Append(inbox[n], call)
          /\ \A m \in Nodes : m # n => incoming'[m] = incoming[m] /\ inbox'[m] = inbox[m]
      BY <1>0, <2>8
    <3>2. PlacedNext(n)
      BY <2>1, <2>2, <2>3, <2>5, <2>8, <3>1
    <3> HIDE DEF PlacedNext
    <3> QED
      BY <1>3, <2>1, <3>1, <3>2
  <2> HIDE DEF PlacedNext
  <2> QED
    BY <2>1, <2>6, <2>7, <2>8
<1>6. CASE Serve(n)
  <2> DEFINE call == Head(inbox[n])
             x == call.message
             e == [at |-> n, from |-> x.from, call |-> x.call, req |-> ReqOf(x.payload)]
             y == KeyOf(x)
  <2>1. /\ inbox[n] # <<>> /\ inbox' = [inbox EXCEPT ![n] = Tail(inbox[n])]
        /\ incoming' = incoming /\ handed' = handed
        /\ performed' = performed \/ performed' = Append(performed, e)
    BY <1>6, ServeStep
  <2>2. e \in Performances /\ e.at = n /\ KeyOf(e) = y
    <3>1. call \in Services
      BY <1>0, <2>1
    <3>2. x \in Messages
      BY <3>1 DEF Services
    <3> QED
      BY <3>2 DEF Messages, Performances, KeyOf
  <2>3. B(n) # <<>> /\ Head(B(n)) = y /\ ServiceKeys(Tail(inbox[n])) = Tail(B(n))
    BY <1>0, <2>1, ServiceKeysSteps
  <2> HIDE DEF call, x, e, y
  <2>4. /\ OnePlace(n, K(n), Tail(B(n)), handed[n], P)
        /\ OnePlace(n, K(n), Tail(B(n)), handed[n], Append(P, <<n, y>>))
        /\ <<n, y>> \in Nodes \X Keys /\ <<n, y>> \notin ToSet(P)
    <3>1. K(n) \in Seq(Keys) /\ B(n) \in Seq(Keys) /\ P \in Seq(Nodes \X Keys) /\ Placed(n)
      BY <1>0, <1>1
    <3> HIDE DEF K, B, P
    <3> QED
      BY <2>3, <3>1, PlaceServed
  <2>5. PerformedKeys(Append(performed, e)) = Append(P, <<n, y>>)
    BY <1>0, <2>2, PerformedKeysSteps
  <2>6. inbox'[n] = Tail(inbox[n]) /\ \A m \in Nodes : m # n => inbox'[m] = inbox[m]
    BY <1>0, <2>1
  <2>7. CASE performed' = performed
    <3>1. PlacedNext(n)
      BY <2>1, <2>3, <2>4, <2>6, <2>7
    <3> HIDE DEF PlacedNext
    <3> QED
      BY <1>3, <2>1, <2>6, <2>7, <3>1
  <2>8. CASE performed' = Append(performed, e)
    <3>1. PlacedNext(n)
      BY <2>1, <2>3, <2>4, <2>5, <2>6, <2>8
    <3>2. Distinct(Append(P, <<n, y>>))
      <4> HIDE DEF P
      <4> QED
        BY <1>0, <1>1, <2>4, DistinctMore
    <3>3. ASSUME NEW m \in Nodes, m # n
          PROVE  PlacedNext(m)
      <4>1. Placed(m) /\ y \in Keys
        BY <1>0, <2>4
      <4>2. OnePlace(m, K(m), B(m), handed[m], Append(P, <<n, y>>))
        <5> HIDE DEF K, B, P
        <5> QED
          BY <1>1, <3>3, <4>1, PlaceOther
      <4>3. incoming'[m] = incoming[m] /\ inbox'[m] = inbox[m] /\ handed'[m] = handed[m]
        BY <2>1, <2>6, <3>3
      <4> QED
        BY <2>5, <2>8, <4>2, <4>3
    <3>4. Distinct(PerformedKeys(performed'))
      BY <2>5, <2>8, <3>2
    <3> HIDE DEF PlacedNext
    <3> QED
      BY <3>1, <3>3, <3>4
  <2> QED
    BY <2>1, <2>7, <2>8
<1>7. CASE Start(n) \/ ClientCall(n) \/ ClientSend(n) \/ TakeCall(n)
  <2>1. UNCHANGED <<incoming, inbox, handed, performed>>
    BY <1>7, TakeCallStep DEF Start, ClientCall, ClientSend
  <2> QED
    BY <1>0, <2>1
<1> QED
  BY <1>4, <1>5, <1>6, <1>7 DEF Step

-----------------------------------------------------------------------------
\* What waits or was performed remains what was asked.
LEMMA StaysAsked ==
  ASSUME NEW n \in Nodes, Types, Types', Sending, Step(n)
  PROVE  /\ \A x \in Nodes, m \in Messages : FromOther(m, x) => FromOther(m, x)'
         /\ \A x \in Nodes, c \in Services : ForService(c, x) => ForService(c, x)'
         /\ \A p \in Performances : AskedAndDone(p) => AskedAndDone(p)'
<1>0. \A m \in Nodes : Extends(asked[m], asked'[m]) /\ Extends(sent[m], sent'[m])
  BY Kept
<1>1. ASSUME NEW m \in Messages
      PROVE  /\ IsAsked(m) => IsAsked(m)' /\ Asked(m)' = Asked(m)
             /\ Genuine(m) => Genuine(m)'
             /\ IsSent(m) => IsSent(m)'
             /\ Genuine(m) => IsAsked(m)
  <2>1. m.from \in Nodes
    BY DEF Messages
  <2>2. Extends(asked[m.from], asked'[m.from])
    BY <1>0, <2>1
  <2>3. /\ IsAsked(m) => IsAsked(m)' /\ Asked(m)' = Asked(m)
        /\ Genuine(m) => Genuine(m)'
    BY <2>1, <2>2, GenuineKept
  <2>4. IsSent(m) => IsSent(m)'
    BY <1>0, SentKept
  <2>5. Genuine(m) => IsAsked(m)
    BY DEF Genuine
  <2> QED
    BY <2>3, <2>4, <2>5
<1>2. \A x \in Nodes, m \in Messages : FromOther(m, x) => FromOther(m, x)'
  BY <1>1 DEF FromOther
<1>3. ASSUME NEW x \in Nodes, NEW c \in Services, ForService(c, x)
      PROVE  ForService(c, x)'
  <2> DEFINE m == c.message
  <2>1. m \in Messages
    BY DEF Services
  <2>2. /\ FromOther(m, x) /\ c.subject \in Procedures[x] /\ Asked(m) \in RequestPayloads
        /\ m.payload = PassedOn(Asked(m), m.from) /\ ForNode(ReqOf(m.payload), x)
    BY <1>3 DEF ForService
  <2>3. FromOther(m, x)' /\ Asked(m)' = Asked(m)
    BY <1>1, <1>2, <2>1, <2>2 DEF FromOther
  <2> QED
    BY <2>2, <2>3 DEF ForService
<1>4. ASSUME NEW p \in Performances, AskedAndDone(p)
      PROVE  AskedAndDone(p)'
  <2>1. p.from \in Nodes
    BY DEF Performances
  <2>2. IsAsked(p)
    BY <1>4 DEF AskedAndDone
  <2>3. IsAsked(p)' /\ Asked(p)' = Asked(p)
    BY <1>0, <2>1, <2>2, GenuineKept
  <2> QED
    BY <1>4, <2>3 DEF AskedAndDone
<1> QED
  BY <1>2, <1>3, <1>4

\* What arrives was sent by another node; only requests for this node are passed
\* to its services, which perform those that ask for the name they provide.
LEMMA WaitingNext ==
  ASSUME NEW n \in Nodes, Types, Types', Sending, Arrived, Waiting, Step(n)
  PROVE  Waiting'
<1>0. /\ incoming \in [Nodes -> Seq(Messages)] /\ inbox \in [Nodes -> Seq(Services)]
      /\ incoming' \in [Nodes -> Seq(Messages)] /\ inbox' \in [Nodes -> Seq(Services)]
  BY DEF Types
<1>1. /\ \A x \in Nodes : ToSet(incoming[x]) \subseteq Messages
      /\ \A x \in Nodes : ToSet(inbox[x]) \subseteq Services
  BY <1>0, ToSetMember
<1>2. /\ \A x \in Nodes : \A m \in ToSet(incoming[x]) : FromOther(m, x)'
      /\ \A x \in Nodes : \A c \in ToSet(inbox[x]) : ForService(c, x)'
  BY <1>1, StaysAsked DEF Waiting
<1>3. CASE Deliver(n)
  <2>1. PICK d \in Deliveries :
           /\ d.sender # n /\ d.num \in 1 .. Len(sent[d.sender])
           /\ \/ incoming' = [incoming EXCEPT ![n] =
                                 Append(incoming[n], sent[d.sender][d.num])]
              \/ incoming' = incoming
    BY <1>3, DeliverNew
  <2>2. inbox' = inbox /\ sent' = sent /\ asked' = asked
    BY <1>3 DEF Deliver
  <2> DEFINE m == sent[d.sender][d.num]
  <2>3. d.sender \in Nodes
    BY DEF Deliveries
  <2>4. m \in Messages /\ m \in ToSet(sent[d.sender])
    <3>1. sent[d.sender] \in Seq(Messages)
      BY <2>3 DEF Types
    <3> QED
      BY <2>1, <3>1, ToSetMember
  <2>5. m.from = d.sender /\ Genuine(m)
    BY <2>1, <2>3, SentGenuine
  <2>6. m.from # n /\ IsSent(m)
    BY <2>1, <2>3, <2>4, <2>5 DEF IsSent
  <2>7. FromOther(m, n)
    BY <2>5, <2>6 DEF FromOther
  <2> HIDE DEF m
  <2>8. FromOther(m, n)'
    <3>1. \A y \in Messages : FromOther(y, n) => FromOther(y, n)'
      BY StaysAsked
    <3>2. PICK z \in Messages : z = m
      BY <2>4
    <3>3. FromOther(z, n)
      BY <2>7, <3>2
    <3>4. FromOther(z, n)'
      BY <3>1, <3>3
    <3>5. m' = m
      BY <2>2 DEF m
    <3> QED
      BY <3>2, <3>4, <3>5
  <2>9. incoming' = [incoming EXCEPT ![n] = Append(incoming[n], m)] \/ incoming' = incoming
    BY <2>1 DEF m
  <2>10. ASSUME NEW x \in Nodes
         PROVE  \A y \in ToSet(incoming'[x]) : FromOther(y, x)'
    <3>1. \/ incoming'[x] = incoming[x]
          \/ x = n /\ incoming'[x] = Append(incoming[n], m)
      BY <1>0, <2>9
    <3>2. ToSet(Append(incoming[n], m)) = ToSet(incoming[n]) \union {m}
      BY <1>0, <2>4, ToSetAppend
    <3>3. CASE incoming'[x] = incoming[x]
      BY <1>2, <3>3
    <3>4. CASE x = n /\ incoming'[x] = Append(incoming[n], m)
      <4> SUFFICES ASSUME NEW y \in ToSet(incoming[n]) \union {m}
                   PROVE  FromOther(y, n)'
        BY <3>2, <3>4
      <4>1. CASE y \in ToSet(incoming[n])
        BY <1>2, <4>1
      <4>2. CASE y = m
        <5>1. m' = m
          BY <2>2 DEF m
        <5> QED
          BY <2>8, <4>2, <5>1
      <4> QED
        BY <4>1, <4>2
    <3> QED
      BY <3>1, <3>3, <3>4
  <2> QED
    BY <1>2, <2>2, <2>10 DEF Waiting
<1>4. CASE ~Deliver(n)
  <2>1. \A x \in Nodes : ToSet(incoming'[x]) \subseteq ToSet(incoming[x])
    <3>1. \/ incoming' = incoming
          \/ /\ incoming[n] # <<>>
             /\ incoming' = [incoming EXCEPT ![n] = Tail(incoming[n])]
          \/ incoming' = [incoming EXCEPT ![n] = <<>>]
      BY <1>4, TakeCallStep, TakeMessageStep, ServeStep DEF Step, Start, ClientCall, ClientSend
    <3>2. incoming[n] # <<>> => ToSet(Tail(incoming[n])) \subseteq ToSet(incoming[n])
      BY <1>0, ToSetHeadTail
    <3> QED
      BY <1>0, <3>1, <3>2, ToSetEmpty
  <2>2. CASE ~TakeMessage(n)
    <3>1. \A x \in Nodes : ToSet(inbox'[x]) \subseteq ToSet(inbox[x])
      <4>1. \/ inbox' = inbox
            \/ inbox[n] # <<>> /\ inbox' = [inbox EXCEPT ![n] = Tail(inbox[n])]
        BY <1>4, <2>2, TakeCallStep, ServeStep DEF Step, Start, ClientCall, ClientSend
      <4>2. inbox[n] # <<>> => ToSet(Tail(inbox[n])) \subseteq ToSet(inbox[n])
        BY <1>0, ToSetHeadTail
      <4> QED
        BY <1>0, <4>1, <4>2
    <3> QED
      BY <1>2, <2>1, <3>1 DEF Waiting
  <2>3. CASE TakeMessage(n)
    <3> DEFINE m == Head(incoming[n])
               req == ReqOf(m.payload)
               call == [subject |-> Subject(req, n), message |-> m]
    <3>1. /\ incoming[n] # <<>> /\ asked' = asked /\ sent' = sent
          /\ \/ inbox' = inbox
             \/ /\ NamesProcedure(req, ReqDefaults)
                /\ ForNode(req, n)
                /\ call.subject \in Procedures[n]
                /\ inbox' = [inbox EXCEPT ![n] = Append(inbox[n], call)]
      BY <2>3, TakeMessageStep
    <3>2. CASE inbox' = inbox
      BY <1>2, <2>1, <3>2 DEF Waiting
    <3>3. CASE /\ NamesProcedure(req, ReqDefaults) /\ ForNode(req, n)
               /\ call.subject \in Procedures[n]
               /\ inbox' = [inbox EXCEPT ![n] = Append(inbox[n], call)]
      <4>1. m \in ToSet(incoming[n]) /\ m \in Messages
        BY <1>0, <3>1, ToSetHeadTail
      <4>2. FromOther(m, n)
        BY <4>1 DEF Waiting
      <4>3. Asked(m) \in RequestPayloads /\ m.payload = PassedOn(Asked(m), m.from)
        BY <3>3, <4>2, OnlyRequests DEF FromOther
      <4>4. call.message = m /\ call \in Services
        BY <3>3, <4>1, GatewayAssumption DEF Services
      <4>5. PICK c \in Services : c = call
        BY <4>4
      <4>6. c.message = m /\ c.subject \in Procedures[n]
        BY <3>3, <4>4, <4>5
      <4> HIDE DEF call, m
      <4>7. ForService(c, n)
        BY <3>3, <4>2, <4>3, <4>6 DEF ForService
      <4>8. ForService(c, n)'
        BY <4>7, StaysAsked
      <4>9. ToSet(Append(inbox[n], c)) = ToSet(inbox[n]) \union {c}
        BY <1>0, ToSetAppend
      <4>10. /\ inbox'[n] = Append(inbox[n], c)
             /\ \A x \in Nodes : x # n => inbox'[x] = inbox[x]
        BY <1>0, <3>3, <4>5
      <4>11. ASSUME NEW x \in Nodes
             PROVE  \A y \in ToSet(inbox'[x]) : ForService(y, x)'
        <5>1. CASE x # n
          BY <1>2, <4>10, <5>1
        <5>2. CASE x = n
          <6>1. ToSet(inbox'[x]) = ToSet(inbox[n]) \union {c}
            BY <4>9, <4>10, <5>2
          <6> QED
            BY <1>2, <4>8, <5>2, <6>1
        <5> QED
          BY <5>1, <5>2
      <4> QED
        BY <1>2, <2>1, <4>11 DEF Waiting
    <3> QED
      BY <3>1, <3>2, <3>3
  <2> QED
    BY <2>2, <2>3
<1> QED
  BY <1>3, <1>4

\* What is performed is what was asked, where it was asked.
LEMMA PerformedNext ==
  ASSUME NEW n \in Nodes, Types, Types', Sending, Waiting, Performed, Step(n)
  PROVE  Performed'
<1>0. performed \in Seq(Performances) /\ inbox \in [Nodes -> Seq(Services)]
  BY DEF Types
<1>1. ToSet(performed) \subseteq Performances
  BY <1>0, ToSetMember
<1>2. \A p \in ToSet(performed) : AskedAndDone(p)'
  BY <1>1, StaysAsked DEF Performed
<1>3. CASE Serve(n)
  <2> DEFINE c == Head(inbox[n])
             m == c.message
             e == [at |-> n, from |-> m.from, call |-> m.call, req |-> ReqOf(m.payload)]
  <2>1. /\ inbox[n] # <<>> /\ asked' = asked
        /\ \/ performed' = performed
           \/ /\ Read(e.req.procedure, ProcedureDefaults, "name") = c.subject
              /\ performed' = Append(performed, e)
    BY <1>3, ServeStep
  <2>2. CASE performed' = performed
    BY <1>2, <2>2 DEF Performed
  <2>3. CASE /\ Read(e.req.procedure, ProcedureDefaults, "name") = c.subject
             /\ performed' = Append(performed, e)
    <3>1. c \in ToSet(inbox[n]) /\ c \in Services
      BY <1>0, <2>1, ToSetHeadTail
    <3>2. m \in Messages
      BY <3>1 DEF Services
    <3>3. ForService(c, n)
      BY <3>1 DEF Waiting
    <3>4. /\ m.from # n /\ IsAsked(m) /\ c.subject \in Procedures[n]
          /\ Asked(m) \in RequestPayloads
          /\ m.payload = PassedOn(Asked(m), m.from) /\ ForNode(ReqOf(m.payload), n)
      BY <3>3 DEF ForService, FromOther, Genuine
    <3>5. /\ e.at = n /\ e.from = m.from /\ e.call = m.call /\ e.req = ReqOf(m.payload)
          /\ e \in Performances
      BY <3>2 DEF Messages, Performances
    <3> HIDE DEF c, m, e
    <3>6. IsAsked(e) /\ Asked(e) = Asked(m)
      BY <3>4, <3>5 DEF IsAsked, Asked
    <3>7. AskedAndDone(e)
      BY <2>3, <3>4, <3>5, <3>6 DEF AskedAndDone
    <3>8. PICK p \in Performances : p = e
      BY <3>5
    <3>9. AskedAndDone(p)'
      BY <3>7, <3>8, StaysAsked
    <3>10. ToSet(performed') = ToSet(performed) \union {p}
      BY <1>0, <2>3, <3>8, ToSetAppend
    <3> QED
      BY <1>2, <3>9, <3>10 DEF Performed
  <2> QED
    BY <2>1, <2>2, <2>3
<1>4. CASE ~Serve(n)
  <2>1. performed' = performed
    BY <1>4, TakeCallStep, TakeMessageStep
       DEF Step, Start, ClientCall, ClientSend, Deliver
  <2> QED
    BY <1>2, <2>1 DEF Performed
<1> QED
  BY <1>3, <1>4

-----------------------------------------------------------------------------
\* All of it holds at the start.
LEMMA IInvInit == Init => IInv
<1> SUFFICES ASSUME Init
             PROVE  IInv
  OBVIOUS
<1>0. /\ gateway = [n \in Nodes |-> "down"]
      /\ asked = [n \in Nodes |-> <<>>] /\ calls = [n \in Nodes |-> <<>>]
      /\ routed = [n \in Nodes |-> <<>>] /\ received = [n \in Nodes |-> <<>>]
      /\ sent = [n \in Nodes |-> <<>>] /\ incoming = [n \in Nodes |-> <<>>]
      /\ inbox = [n \in Nodes |-> <<>>] /\ handed = [n \in Nodes |-> {}]
      /\ performed = <<>>
  BY DEF Init, Swarm!Init
<1>1. Types
  BY TypesInit
<1>2. Len(<<>>) = 0 /\ 1 .. 0 = {} /\ DOMAIN <<>> = {} /\ ToSet(<<>>) = {}
  BY ToSetEmpty
<1>3. Bounded
  <2>1. PlacesOf(asked) = {}
    BY <1>0, <1>2 DEF PlacesOf
  <2>2. Published = 0
    BY <2>1, FS_EmptySet DEF Published, PlacesOf
  <2>3. 0 <= MaxMessages
    BY GatewayAssumption
  <2> QED
    BY <1>0, <2>2, <2>3 DEF Bounded
<1>4. Sending
  <2>1. \A n : SentOnce(n, <<>>, <<>>, <<>>, <<>>)
    BY <1>2 DEF SentOnce
  <2> QED
    BY <1>0, <2>1 DEF Sending
<1>5. Arrived
  <2>1. \A n, s : ArrivedAt(n, <<>>, {}, s)
    BY <1>2 DEF ArrivedAt
  <2> QED
    BY <1>0, <2>1 DEF Arrived
<1>6. InOnePlace
  <2>1. Distinct(<<>>)
    BY <1>2 DEF Distinct
  <2>2. MessageKeys(<<>>) = <<>> /\ ServiceKeys(<<>>) = <<>> /\ PerformedKeys(<<>>) = <<>>
    BY <1>2 DEF MessageKeys, ServiceKeys, PerformedKeys
  <2>3. \A n : OnePlace(n, <<>>, <<>>, {}, <<>>)
    BY <1>2, <2>1 DEF OnePlace
  <2> QED
    BY <1>0, <2>1, <2>2, <2>3 DEF InOnePlace
<1>7. Waiting
  BY <1>0, <1>2 DEF Waiting
<1>8. Performed
  BY <1>0, <1>2 DEF Performed
<1> QED
  BY <1>1, <1>3, <1>4, <1>5, <1>6, <1>7, <1>8 DEF IInv

\* And every step keeps it.
LEMMA IInvNext == IInv /\ [Next]_vars => IInv'
<1> SUFFICES ASSUME IInv, [Next]_vars
             PROVE  IInv'
  OBVIOUS
<1>0. Types /\ Bounded /\ Sending /\ Arrived /\ InOnePlace /\ Waiting /\ Performed
  BY DEF IInv
<1>1. CASE Next
  <2>1. PICK n \in Nodes : Step(n)
    BY <1>1 DEF Next, Step
  <2>2. Types'
    BY <1>0, <2>1, TypesNext DEF Step
  <2>3. Bounded'
    BY <1>0, <2>1, <2>2, BoundedNext
  <2>4. Sending'
    BY <1>0, <2>1, SendingNext
  <2>5. Arrived'
    BY <1>0, <2>1, <2>2, ArrivedNext
  <2>6. InOnePlace'
    BY <1>0, <2>1, InOnePlaceNext
  <2>7. Waiting'
    BY <1>0, <2>1, <2>2, WaitingNext
  <2>8. Performed'
    BY <1>0, <2>1, <2>2, PerformedNext
  <2> QED
    BY <2>2, <2>3, <2>4, <2>5, <2>6, <2>7, <2>8 DEF IInv
<1>2. CASE UNCHANGED vars
  <2>0. /\ gateway' = gateway /\ asked' = asked /\ calls' = calls /\ routed' = routed
        /\ received' = received /\ sent' = sent /\ incoming' = incoming /\ inbox' = inbox
        /\ handed' = handed /\ performed' = performed
    BY <1>2 DEF vars
  <2>1. Types'
    BY <1>0, <2>0 DEF Types
  <2>2. Bounded' /\ Sending' /\ Arrived' /\ InOnePlace'
    BY <1>0, <2>0 DEF Bounded, Published, Sending, Arrived, InOnePlace
  <2>3. Waiting' /\ Performed'
    BY <1>0, <2>0
       DEF Waiting, Performed, ForService, FromOther, AskedAndDone, Genuine, IsAsked,
           Asked, IsSent
  <2> QED
    BY <2>1, <2>2, <2>3 DEF IInv
<1> QED
  BY <1>1, <1>2

\* The inductive invariant holds in every reachable state.
LEMMA IInvAlways == Spec => []IInv
BY IInvInit, IInvNext, PTL DEF Spec

\* Queues hold what was sent, histories what was asked, and the clients' messages
\* stay within their bound.
THEOREM TypeCorrect == Spec => []TypeOK
<1>1. IInv => TypeOK
  <2> SUFFICES ASSUME IInv
               PROVE  TypeOK
    OBVIOUS
  <2>0. Types /\ Bounded /\ Sending /\ Arrived /\ Waiting
    BY DEF IInv
  <2>1. gateway \in [Nodes -> {"down", "up", "ended"}] /\ Published <= MaxMessages
    BY <2>0 DEF Types, Bounded
  <2> SUFFICES ASSUME NEW n \in Nodes
               PROVE  /\ Len(sent[n]) <= Len(asked[n])
                      /\ Len(sent[n]) = Len(routed[n])
                      /\ ToSet(calls[n]) \subseteq DOMAIN asked[n]
                      /\ \A call \in handed[n] : call[2] \in DOMAIN asked[call[1]]
                      /\ \A message \in ToSet(incoming[n]) : IsSent(message)
                      /\ \A call \in ToSet(inbox[n]) :
                            call.subject \in Procedures[n] /\ IsSent(call.message)
                      /\ gateway[n] # "up" => calls[n] = <<>> /\ incoming[n] = <<>>
    BY <2>1 DEF TypeOK
  <2>2. /\ asked[n] \in Seq(AskedPayloads) /\ calls[n] \in Seq(Nat)
        /\ sent[n] \in Seq(Messages) /\ received[n] \in Seq(Deliveries)
        /\ handed[n] \in SUBSET (Nodes \X Nat)
    BY <2>0 DEF Types
  <2>3. SentOnce(n, asked[n], calls[n], routed[n], sent[n])
    BY <2>0 DEF Sending
  <2>4. Len(sent[n]) + Len(calls[n]) <= Len(asked[n]) /\ Len(routed[n]) = Len(sent[n])
        /\ \A i \in 1 .. Len(calls[n]) : calls[n][i] \in 1 .. Len(asked[n])
    BY <2>3 DEF SentOnce
  <2>5. Len(sent[n]) \in Nat /\ Len(calls[n]) \in Nat /\ Len(asked[n]) \in Nat
        /\ DOMAIN asked[n] = 1 .. Len(asked[n])
    BY <2>2
  <2>6. Len(sent[n]) <= Len(asked[n])
    <3>1. Len(sent[n]) + Len(calls[n]) <= Len(asked[n])
      BY <2>4
    <3> DEFINE s == Len(sent[n])
               c == Len(calls[n])
               a == Len(asked[n])
    <3>2. s \in Nat /\ c \in Nat /\ a \in Nat
      BY <2>5
    <3>3. s + c <= a
      BY <3>1
    <3> HIDE DEF s, c, a
    <3>4. s <= a
      BY <3>2, <3>3
    <3> QED
      BY <3>4 DEF s, a
  <2>7. ToSet(calls[n]) \subseteq DOMAIN asked[n]
    <3>1. SUFFICES ASSUME NEW k \in ToSet(calls[n])
                   PROVE  k \in DOMAIN asked[n]
      OBVIOUS
    <3>2. PICK i \in 1 .. Len(calls[n]) : calls[n][i] = k
      BY <2>2, ToSetMember
    <3>3. calls[n][i] \in 1 .. Len(asked[n])
      BY <2>4
    <3> QED
      BY <2>5, <3>2, <3>3, Zenon
  <2>8. ASSUME NEW k \in handed[n]
        PROVE  k[2] \in DOMAIN asked[k[1]]
    <3>1. ArrivedAt(n, received[n], handed[n], sent)
      BY <2>0 DEF Arrived
    <3>2. PICK i \in 1 .. Len(received[n]) :
             received[n][i].sender = k[1] /\ sent[k[1]][received[n][i].num].call = k[2]
      BY <3>1 DEF ArrivedAt
    <3> DEFINE d == received[n][i]
    <3>3. d \in Deliveries /\ d.sender = k[1] /\ sent[k[1]][d.num].call = k[2]
          /\ d.num \in 1 .. Len(sent[d.sender])
      BY <2>2, <3>1, <3>2 DEF ArrivedAt
    <3> HIDE DEF d
    <3>4. k[1] \in Nodes /\ d.num \in 1 .. Len(sent[k[1]])
      BY <3>3 DEF Deliveries
    <3>5. sent[k[1]][d.num].from = k[1] /\ Genuine(sent[k[1]][d.num])
      BY <2>0, <3>4, SentGenuine
    <3>6. k[2] \in 1 .. Len(asked[k[1]])
      BY <3>3, <3>5 DEF Genuine, IsAsked
    <3>7. asked[k[1]] \in Seq(AskedPayloads)
      BY <2>0, <3>4 DEF Types
    <3> QED
      BY <3>6, <3>7
  <2>9. /\ \A message \in ToSet(incoming[n]) : IsSent(message)
        /\ \A call \in ToSet(inbox[n]) :
              call.subject \in Procedures[n] /\ IsSent(call.message)
    BY <2>0 DEF Waiting, ForService, FromOther
  <2>10. gateway[n] # "up" => calls[n] = <<>> /\ incoming[n] = <<>>
    BY <2>0 DEF Bounded
  <2> QED
    BY <2>4, <2>6, <2>7, <2>8, <2>9, <2>10
<1> QED
  BY <1>1, IInvAlways, PTL

\* What the client of a performed call has asked for, and what was performed.
LEMMA PerformedRead ==
  ASSUME IInv, NEW i \in 1 .. Len(performed)
  PROVE  LET p == performed[i] IN
         /\ performed[i] \in ToSet(performed) /\ AskedAndDone(p)
         /\ \A property \in DOMAIN ReqDefaults :
               Read(p.req, ReqDefaults, property) =
                  IF property = "senderUhuraId" THEN p.from
                  ELSE Read(AskedFor(p), ReqDefaults, property)
<1> DEFINE p == performed[i]
<1>1. performed \in Seq(Performances) /\ Performed
  BY DEF IInv, Types
<1>2. p \in ToSet(performed) /\ p \in Performances
  BY <1>1, ToSetMember
<1>3. AskedAndDone(p)
  BY <1>1, <1>2 DEF Performed
<1>4. p.from \in Nodes
  BY <1>2 DEF Performances
<1> HIDE DEF p
<1>5. Asked(p) \in RequestPayloads /\ p.req = ReqOf(PassedOn(Asked(p), p.from))
  BY <1>3 DEF AskedAndDone
<1>6. AskedFor(p) = ReqOf(Asked(p))
  BY <1>4, <1>5, PassedRead DEF AskedFor, Asked
<1>7. \A property \in DOMAIN ReqDefaults :
         Read(p.req, ReqDefaults, property) =
            IF property = "senderUhuraId" THEN p.from
            ELSE Read(AskedFor(p), ReqDefaults, property)
  BY <1>4, <1>5, <1>6, PassedRead
<1> QED
  BY <1>2, <1>3, <1>7 DEF p

\* A service sees what was asked, with the node that called as its sender: in
\* every state, for every set of requests.
THEOREM ArrivesAsAskedCorrect == Spec => []ArrivesAsAsked
<1>1. IInv => ArrivesAsAsked
  <2> SUFFICES ASSUME IInv, NEW i \in DOMAIN performed
               PROVE  \A property \in DOMAIN ReqDefaults :
                         Read(performed[i].req, ReqDefaults, property) =
                            IF property = "senderUhuraId" THEN performed[i].from
                            ELSE Read(AskedFor(performed[i]), ReqDefaults, property)
    BY DEF ArrivesAsAsked
  <2>1. DOMAIN performed = 1 .. Len(performed)
    BY DEF IInv, Types
  <2> QED
    BY <2>1, PerformedRead
<1> QED
  BY <1>1, IInvAlways, PTL

\* A procedure is performed where it was asked of, by a service that provides it,
\* and once at each node.
THEOREM RunsWhereAskedCorrect == Spec => []RunsWhereAsked
<1>1. IInv => RunsWhereAsked
  <2> SUFFICES ASSUME IInv, NEW i \in DOMAIN performed
               PROVE  LET p == performed[i]
                          receiver == Read(AskedFor(p), ReqDefaults, "receiverUhuraId")
                      IN /\ receiver \in {p.at, BROADCAST}
                         /\ p.at # p.from
                         /\ Read(p.req.procedure, ProcedureDefaults, "name")
                               \in Procedures[p.at]
                         /\ \A j \in DOMAIN performed : j # i =>
                               \/ performed[j].at # p.at
                               \/ performed[j].from # p.from
                               \/ performed[j].call # p.call
    BY DEF RunsWhereAsked
  <2> DEFINE p == performed[i]
  <2>0. performed \in Seq(Performances) /\ InOnePlace
    BY DEF IInv, Types
  <2>1. DOMAIN performed = 1 .. Len(performed)
    BY <2>0
  <2>2. /\ AskedAndDone(p)
        /\ \A property \in DOMAIN ReqDefaults :
              Read(p.req, ReqDefaults, property) =
                 IF property = "senderUhuraId" THEN p.from
                 ELSE Read(AskedFor(p), ReqDefaults, property)
    BY <2>1, PerformedRead
  <2>3. ASSUME NEW j \in DOMAIN performed, j # i
        PROVE  \/ performed[j].at # p.at
               \/ performed[j].from # p.from
               \/ performed[j].call # p.call
    <3> DEFINE k == PerformedKeys(performed)
    <3>1. /\ Len(k) = Len(performed)
          /\ k[i] = <<p.at, KeyOf(p)>>
          /\ k[j] = <<performed[j].at, KeyOf(performed[j])>>
      <4>1. k \in Seq(Nodes \X Keys) /\ DOMAIN k = 1 .. Len(performed)
        BY <2>0, PerformedKeysSteps DEF PerformedKeys
      <4>2. Len(k) = Len(performed)
        <5> HIDE DEF k
        <5>1. DOMAIN k = 1 .. Len(k) /\ Len(k) \in Nat /\ Len(performed) \in Nat
          BY <2>0, <4>1
        <5> QED
          BY <4>1, <5>1
      <4> QED
        BY <2>1, <4>2 DEF PerformedKeys
    <3>2. Distinct(k)
      BY <2>0 DEF InOnePlace
    <3> HIDE DEF k
    <3>3. k[i] # k[j]
      BY <2>1, <2>3, <3>1, <3>2 DEF Distinct
    <3> QED
      BY <3>1, <3>3 DEF KeyOf
  <2> HIDE DEF p
  <2>4. "receiverUhuraId" \in DOMAIN ReqDefaults
    BY DEF ReqDefaults
  <2>5. Read(p.req, ReqDefaults, "receiverUhuraId")
           = Read(AskedFor(p), ReqDefaults, "receiverUhuraId")
    BY <2>2, <2>4
  <2>6. /\ Read(p.req, ReqDefaults, "receiverUhuraId") \in {BROADCAST, p.at}
        /\ p.at # p.from
        /\ Read(p.req.procedure, ProcedureDefaults, "name") \in Procedures[p.at]
    BY <2>2 DEF AskedAndDone, ForNode
  <2> QED
    BY <2>3, <2>5, <2>6 DEF p
<1> QED
  BY <1>1, IInvAlways, PTL
=============================================================================
