--------------------------- MODULE SequenceLemmas ---------------------------
(***************************************************************************)
(* What the proofs need to know of queues, numbers and sums.  The code     *)
(* appends to arrays (push), and NATS delivers a subscription's messages   *)
(* from the head: which elements a sequence holds after an append, or when *)
(* its head is taken, and that it stays in order.  Counts are made by      *)
(* induction over natural numbers (SetInduction), from which the folds of  *)
(* the community modules get their recursion (SumRecursion).               *)
(***************************************************************************)
EXTENDS SequencesExt, FiniteSetTheorems, SequenceTheorems, WellFoundedInduction, TLAPS

\* The empty sequence has an empty domain, and the empty set of elements.
LEMMA ToSetEmpty == DOMAIN <<>> = {} /\ ToSet(<<>>) = {}
BY DEF ToSet

\* The set of a sequence is that of what stands at its places.
LEMMA ToSetMember ==
  ASSUME NEW S, NEW s \in Seq(S)
  PROVE  /\ DOMAIN s = 1 .. Len(s)
         /\ ToSet(s) \subseteq S
         /\ \A i \in 1 .. Len(s) : s[i] \in ToSet(s)
         /\ \A e \in ToSet(s) : \E i \in 1 .. Len(s) : s[i] = e
<1>1. DOMAIN s = 1 .. Len(s) /\ \A i \in 1 .. Len(s) : s[i] \in S
  OBVIOUS
<1> QED
  BY <1>1 DEF ToSet

\* A sequence holds finitely many elements.
LEMMA ToSetFinite ==
  ASSUME NEW S, NEW s \in Seq(S)
  PROVE  IsFiniteSet(ToSet(s))
<1> DEFINE T == ToSet(s)
           f == [i \in 1 .. Len(s) |-> s[i]]
<1>1. /\ Len(s) \in Nat
      /\ \A i \in 1 .. Len(s) : s[i] \in T
      /\ \A e \in T : \E i \in 1 .. Len(s) : s[i] = e
  BY ToSetMember
<1> HIDE DEF T
<1>2. f \in Surjection(1 .. Len(s), T)
  BY <1>1 DEF Surjection
<1>3. ExistsSurjection(1 .. Len(s), T)
  BY <1>2, Zenon DEF ExistsSurjection
<1>4. IsFiniteSet(T)
  BY <1>1, <1>3, FS_NatSurjection
<1> QED
  BY <1>4 DEF T

\* A sequence over a set is one over every larger set.
LEMMA SeqWider ==
  ASSUME NEW S, NEW T, S \subseteq T, NEW s \in Seq(S)
  PROVE  s \in Seq(T)
<1>1. \A i \in 1 .. Len(s) : s[i] \in T
  OBVIOUS
<1>2. s = [i \in 1 .. Len(s) |-> s[i]] /\ Len(s) \in Nat
  OBVIOUS
<1>3. s \in [1 .. Len(s) -> T]
  BY <1>1, <1>2
<1> QED
  BY <1>2, <1>3, SeqDef

\* Appending to a sequence adds one element to its set.
LEMMA ToSetAppend ==
  ASSUME NEW S, NEW s \in Seq(S), NEW e \in S
  PROVE  ToSet(Append(s, e)) = ToSet(s) \union {e}
<1>1. DOMAIN Append(s, e) = 1 .. Len(s) + 1 /\ DOMAIN s = 1 .. Len(s)
  OBVIOUS
<1>2. \A i \in 1 .. Len(s) : Append(s, e)[i] = s[i]
  OBVIOUS
<1>3. Append(s, e)[Len(s) + 1] = e
  OBVIOUS
<1> QED
  BY <1>1, <1>2, <1>3 DEF ToSet

\* A sequence that is not empty holds its head, and what its tail holds.
LEMMA ToSetHeadTail ==
  ASSUME NEW S, NEW s \in Seq(S), s # <<>>
  PROVE  /\ Head(s) \in S
         /\ Tail(s) \in Seq(S)
         /\ ToSet(s) = {Head(s)} \union ToSet(Tail(s))
<1>1. /\ Head(s) \in S
      /\ Tail(s) \in Seq(S)
      /\ Len(Tail(s)) = Len(s) - 1
      /\ \A i \in 1 .. Len(Tail(s)) : Tail(s)[i] = s[i + 1]
  BY HeadTailProperties
<1>2. Head(s) = s[1] /\ 1 \in 1 .. Len(s)
  OBVIOUS
<1>3. \A i \in 1 .. Len(s) : i = 1 \/ i - 1 \in 1 .. Len(Tail(s))
  BY <1>1
<1>4. \A i \in 1 .. Len(Tail(s)) : i + 1 \in 1 .. Len(s)
  BY <1>1
<1>5. ASSUME NEW e \in ToSet(s)
      PROVE  e = Head(s) \/ e \in ToSet(Tail(s))
  <2>1. PICK i \in 1 .. Len(s) : s[i] = e
    BY ToSetMember
  <2>2. CASE i = 1
    BY <1>2, <2>1, <2>2
  <2>3. CASE i # 1
    <3>1. i - 1 \in 1 .. Len(Tail(s)) /\ Tail(s)[i - 1] = e
      BY <1>1, <1>3, <2>1, <2>3
    <3> QED
      BY <1>1, <3>1, ToSetMember
  <2> QED
    BY <2>2, <2>3
<1>6. Head(s) \in ToSet(s)
  BY <1>2, ToSetMember
<1>7. ASSUME NEW e \in ToSet(Tail(s))
      PROVE  e \in ToSet(s)
  <2>1. PICK i \in 1 .. Len(Tail(s)) : Tail(s)[i] = e
    BY <1>1, ToSetMember
  <2> QED
    BY <1>1, <1>4, <2>1, ToSetMember
<1> QED
  BY <1>1, <1>5, <1>6, <1>7

\* The sequence of no element is empty.
LEMMA SetToSeqEmpty == SetToSeq({}) = <<>>
<1>1. Cardinality({}) = 0
  BY FS_EmptySet
<1>2. SetToSeq({}) = CHOOSE f \in [1 .. 0 -> {}] : IsInjective(f)
  BY <1>1 DEF SetToSeq
<1>3. [1 .. 0 -> {}] = {<<>>}
  <2>1. <<>> \in [1 .. 0 -> {}]
    OBVIOUS
  <2>2. ASSUME NEW f \in [1 .. 0 -> {}]
        PROVE  f = <<>>
    <3>1. f \in Seq({})
      BY SeqDef
    <3>2. Len(f) = 0
      BY <3>1, LenProperties
    <3> QED
      BY <3>1, <3>2, EmptySeq
  <2> QED
    BY <2>1, <2>2
<1>4. IsInjective(<<>>)
  BY DEF IsInjective
<1> QED
  BY <1>2, <1>3, <1>4

\* The sequence of one element is that element.
LEMMA SetToSeqSingle ==
  ASSUME NEW e
  PROVE  SetToSeq({e}) = <<e>>
<1>1. Cardinality({e}) = 1
  BY FS_Singleton
<1>2. SetToSeq({e}) = CHOOSE f \in [1 .. 1 -> {e}] : IsInjective(f)
  BY <1>1 DEF SetToSeq
<1>3. <<e>> \in [1 .. 1 -> {e}] /\ IsInjective(<<e>>)
  BY DEF IsInjective
<1>4. \A f \in [1 .. 1 -> {e}] : f = <<e>>
  OBVIOUS
<1> QED
  BY <1>2, <1>3, <1>4

\* A concatenation holds what its parts hold, the first part first.
LEMMA ConcatPlaces ==
  ASSUME NEW S, NEW q \in Seq(S), NEW r \in Seq(S)
  PROVE  /\ q \o r \in Seq(S)
         /\ Len(q \o r) = Len(q) + Len(r)
         /\ \A i \in 1 .. Len(q) : (q \o r)[i] = q[i]
         /\ \A i \in 1 .. Len(r) : (q \o r)[Len(q) + i] = r[i]
         /\ \A i \in 1 .. Len(q \o r) :
               i \in 1 .. Len(q) \/ (i - Len(q) \in 1 .. Len(r)
                                        /\ (q \o r)[i] = r[i - Len(q)])
<1>1. /\ q \o r \in Seq(S)
      /\ Len(q \o r) = Len(q) + Len(r)
      /\ Len(q) \in Nat /\ Len(r) \in Nat
      /\ \A i \in 1 .. Len(q) + Len(r) :
            (q \o r)[i] = IF i <= Len(q) THEN q[i] ELSE r[i - Len(q)]
  BY ConcatProperties, LenProperties
<1>2. \A i \in 1 .. Len(q) : i \in 1 .. Len(q) + Len(r) /\ i <= Len(q)
  BY <1>1
<1>3. \A i \in 1 .. Len(r) : /\ Len(q) + i \in 1 .. Len(q) + Len(r)
                             /\ ~(Len(q) + i <= Len(q))
                             /\ (Len(q) + i) - Len(q) = i
  BY <1>1
<1>4. \A i \in 1 .. Len(q) + Len(r) :
         i \in 1 .. Len(q) \/ (i - Len(q) \in 1 .. Len(r) /\ ~(i <= Len(q)))
  BY <1>1
<1> QED
  BY <1>1, <1>2, <1>3, <1>4

\* A concatenation holds the elements of both parts.
LEMMA ToSetConcat ==
  ASSUME NEW S, NEW q \in Seq(S), NEW r \in Seq(S)
  PROVE  ToSet(q \o r) = ToSet(q) \union ToSet(r)
<1>1. /\ q \o r \in Seq(S)
      /\ Len(q \o r) = Len(q) + Len(r)
      /\ Len(q) \in Nat /\ Len(r) \in Nat
      /\ \A i \in 1 .. Len(q) : (q \o r)[i] = q[i]
      /\ \A i \in 1 .. Len(r) : (q \o r)[Len(q) + i] = r[i]
      /\ \A i \in 1 .. Len(q \o r) :
            i \in 1 .. Len(q) \/ (i - Len(q) \in 1 .. Len(r)
                                     /\ (q \o r)[i] = r[i - Len(q)])
  BY ConcatPlaces, LenProperties
<1>2. ASSUME NEW e \in ToSet(q \o r)
      PROVE  e \in ToSet(q) \union ToSet(r)
  <2>1. PICK i \in 1 .. Len(q \o r) : (q \o r)[i] = e
    BY <1>1, ToSetMember
  <2>2. CASE i \in 1 .. Len(q)
    BY <1>1, <2>1, <2>2, ToSetMember
  <2>3. CASE i - Len(q) \in 1 .. Len(r) /\ (q \o r)[i] = r[i - Len(q)]
    BY <2>1, <2>3, ToSetMember
  <2> QED
    BY <1>1, <2>2, <2>3
<1>3. ASSUME NEW e \in ToSet(q)
      PROVE  e \in ToSet(q \o r)
  <2>1. PICK i \in 1 .. Len(q) : q[i] = e
    BY ToSetMember
  <2>2. i \in 1 .. Len(q \o r) /\ (q \o r)[i] = e
    BY <1>1, <2>1
  <2> QED
    BY <1>1, <2>2, ToSetMember
<1>4. ASSUME NEW e \in ToSet(r)
      PROVE  e \in ToSet(q \o r)
  <2>1. PICK i \in 1 .. Len(r) : r[i] = e
    BY ToSetMember
  <2>2. Len(q) + i \in 1 .. Len(q \o r) /\ (q \o r)[Len(q) + i] = e
    BY <1>1, <2>1
  <2> QED
    BY <1>1, <2>2, ToSetMember
<1> QED
  BY <1>2, <1>3, <1>4

\* A queue of increasing numbers stays one when a greater is appended, and when
\* its head is taken; the head is the smallest.
LEMMA IncreasingAppend ==
  ASSUME NEW q \in Seq(Nat), NEW k \in Nat,
         \A i, j \in 1 .. Len(q) : i < j => q[i] < q[j],
         \A x \in ToSet(q) : x < k
  PROVE  \A i, j \in 1 .. Len(Append(q, k)) :
            i < j => Append(q, k)[i] < Append(q, k)[j]
<1>1. /\ Len(Append(q, k)) = Len(q) + 1
      /\ \A i \in 1 .. Len(q) : Append(q, k)[i] = q[i]
      /\ Append(q, k)[Len(q) + 1] = k
  BY AppendProperties
<1>2. \A i \in 1 .. Len(q) : q[i] < k
  BY ToSetMember
<1> QED
  BY <1>1, <1>2

\* Without its head it is still increasing, and the head was the smallest.
LEMMA IncreasingTail ==
  ASSUME NEW q \in Seq(Nat), q # <<>>,
         \A i, j \in 1 .. Len(q) : i < j => q[i] < q[j]
  PROVE  /\ \A i, j \in 1 .. Len(Tail(q)) : i < j => Tail(q)[i] < Tail(q)[j]
         /\ \A x \in ToSet(Tail(q)) : Head(q) < x
<1>1. /\ Tail(q) \in Seq(Nat)
      /\ Len(Tail(q)) = Len(q) - 1
      /\ \A i \in 1 .. Len(Tail(q)) : Tail(q)[i] = q[i + 1]
      /\ Head(q) = q[1] /\ Len(q) \in Nat /\ Len(q) >= 1
  OBVIOUS
<1>2. \A i \in 1 .. Len(Tail(q)) : i + 1 \in 1 .. Len(q) /\ Head(q) < Tail(q)[i]
  BY <1>1
<1>3. \A x \in ToSet(Tail(q)) : Head(q) < x
  <2> SUFFICES ASSUME NEW x \in ToSet(Tail(q))
               PROVE  Head(q) < x
    OBVIOUS
  <2>1. PICK i \in 1 .. Len(Tail(q)) : Tail(q)[i] = x
    BY <1>1, ToSetMember
  <2> QED
    BY <1>2, <2>1
<1>4. \A i, j \in 1 .. Len(Tail(q)) : i < j => Tail(q)[i] < Tail(q)[j]
  BY <1>1
<1> QED
  BY <1>3, <1>4

\* A set of natural numbers that is not empty has a least element.
LEMMA LeastNatural ==
  ASSUME NEW T, T \subseteq Nat, T # {}
  PROVE  \E x \in T : \A y \in T : x <= y
<1> DEFINE R == {ss \in Nat \X Nat : ss[1] < ss[2]}
<1>1. IsWellFoundedOn(R, Nat)
  BY NatLessThanWellFounded, Zenon DEF OpToRel
<1> HIDE DEF R
<1>2. PICK x \in T : \A y \in T : <<y, x>> \notin R
  BY <1>1, WFMin, Zenon
<1>3. \A y \in T : ~(y < x)
  BY <1>2 DEF R
<1> QED
  BY <1>3

\* And one that is bounded has a greatest.
LEMMA GreatestNatural ==
  ASSUME NEW T, NEW b \in Nat, T \subseteq 0 .. b, T # {}
  PROVE  \E x \in T : \A y \in T : y <= x
<1> DEFINE U == {k \in 0 .. b : b - k \in T}
<1>1. U \subseteq Nat
  OBVIOUS
<1>6. U # {}
  <2>1. PICK y \in T : y \in 0 .. b
    OBVIOUS
  <2>2. b - y \in 0 .. b /\ b - (b - y) = y
    BY <2>1
  <2> QED
    BY <2>2
<1>2. PICK k \in U : \A l \in U : k <= l
  BY <1>1, <1>6, LeastNatural
<1>3. b - k \in T
  OBVIOUS
<1>4. \A y \in T : b - y \in U
  OBVIOUS
<1>5. \A y \in T : y <= b - k
  BY <1>2, <1>4
<1> QED
  BY <1>3, <1>5

\* A set of natural numbers that has 0, and with each number the next, has all.
LEMMA SetInduction ==
  ASSUME NEW T, 0 \in T, \A n \in Nat : n \in T => n + 1 \in T
  PROVE  \A n \in Nat : n \in T
<1> DEFINE U == Nat \ T
<1> SUFFICES ASSUME U # {}
             PROVE  FALSE
  OBVIOUS
<1>1. PICK x \in U : \A y \in U : x <= y
  BY LeastNatural
<1>2. x \in Nat /\ x # 0 /\ x - 1 \in Nat /\ (x - 1) + 1 = x
  OBVIOUS
<1>3. x - 1 \notin U
  BY <1>1, <1>2
<1> QED
  BY <1>2, <1>3

-----------------------------------------------------------------------------
\* A sum over a set takes one element after another: some function has that
\* recursion for all sets of up to n elements.
Picked(s) == CHOOSE x \in s : TRUE

SumsTo(g, K, w, n) ==
    \A s \in SUBSET K :
        Cardinality(s) <= n =>
            g[s] = IF s = {} THEN 0
                   ELSE w[CHOOSE x \in s : TRUE] + g[s \ {CHOOSE x \in s : TRUE}]

\* The function by which the folds of the community modules define a sum.
SumsOver(g, K, w) ==
    g = [s \in SUBSET K |->
            IF s = {} THEN 0
            ELSE w[CHOOSE x \in s : TRUE] + g[s \ {CHOOSE x \in s : TRUE}]]

SumOf(K, w) == CHOOSE g : SumsOver(g, K, w)

\* Taking the element picked out of a finite set leaves one less.
LEMMA PickedOut ==
  ASSUME NEW K, IsFiniteSet(K), NEW s \in SUBSET K, s # {}
  PROVE  /\ Picked(s) \in s
         /\ s \ {Picked(s)} \in SUBSET K
         /\ Cardinality(s) \in Nat
         /\ Cardinality(s \ {Picked(s)}) = Cardinality(s) - 1
<1>1. IsFiniteSet(s)
  BY FS_Subset
<1>2. Picked(s) \in s
  BY DEF Picked
<1>3. Cardinality(s \ {Picked(s)}) = Cardinality(s) - 1
  BY <1>1, <1>2, FS_RemoveElement
<1> QED
  BY <1>1, <1>2, <1>3, FS_CardinalityType

\* A subset of a finite set has a size, and without any is empty.
LEMMA SubsetSize ==
  ASSUME NEW K, IsFiniteSet(K), NEW s \in SUBSET K
  PROVE  Cardinality(s) \in Nat /\ (Cardinality(s) <= 0 => s = {})
<1>1. IsFiniteSet(s)
  BY FS_Subset
<1> QED
  BY <1>1, FS_CardinalityType, FS_EmptySet

\* The recursion of a sum has a solution: by induction on the size of the sets it
\* is a solution for.
LEMMA SumSolvable ==
  ASSUME NEW K, IsFiniteSet(K), NEW w \in [K -> Nat]
  PROVE  \E g : SumsOver(g, K, w)
<1> DEFINE T == {n \in Nat : \E g \in [SUBSET K -> Nat] : SumsTo(g, K, w, n)}
<1>1. 0 \in T
  <2> DEFINE z == [s \in SUBSET K |-> 0]
  <2>1. ASSUME NEW s \in SUBSET K, Cardinality(s) <= 0
        PROVE  s = {}
    BY <2>1, SubsetSize
  <2>2. SumsTo(z, K, w, 0)
    BY <2>1 DEF SumsTo
  <2> QED
    BY <2>2
<1>2. ASSUME NEW n \in Nat, n \in T
      PROVE  n + 1 \in T
  <2>1. PICK g \in [SUBSET K -> Nat] : SumsTo(g, K, w, n)
    BY <1>2
  <2> DEFINE f == [s \in SUBSET K |-> IF s = {} THEN 0
                                      ELSE w[Picked(s)] + g[s \ {Picked(s)}]]
  <2>2. f \in [SUBSET K -> Nat]
    <3>1. ASSUME NEW s \in SUBSET K, s # {}
          PROVE  w[Picked(s)] + g[s \ {Picked(s)}] \in Nat
      <4>1. Picked(s) \in K /\ s \ {Picked(s)} \in SUBSET K
        BY <3>1, PickedOut
      <4>2. w[Picked(s)] \in Nat /\ g[s \ {Picked(s)}] \in Nat
        BY <4>1
      <4> QED
        BY <4>2
    <3> QED
      BY <3>1
  <2>3. ASSUME NEW s \in SUBSET K, Cardinality(s) <= n
        PROVE  g[s] = f[s]
    BY <2>1, <2>3 DEF SumsTo, Picked
  <2>4. ASSUME NEW s \in SUBSET K, Cardinality(s) <= n + 1, s # {}
        PROVE  f[s] = w[Picked(s)] + f[s \ {Picked(s)}]
    <3>1. s \ {Picked(s)} \in SUBSET K /\ Cardinality(s \ {Picked(s)}) <= n
      BY <2>4, PickedOut
    <3>2. g[s \ {Picked(s)}] = f[s \ {Picked(s)}]
      BY <2>3, <3>1
    <3>3. f[s] = w[Picked(s)] + g[s \ {Picked(s)}]
      BY <2>4
    <3> QED
      BY <3>2, <3>3
  <2>5. {} \in SUBSET K /\ f[{}] = 0
    OBVIOUS
  <2> HIDE DEF f
  <2>6. SumsTo(f, K, w, n + 1)
    BY <2>4, <2>5 DEF SumsTo, Picked
  <2> QED
    BY <2>2, <2>6
<1>3. \A n \in Nat : n \in T
  BY <1>1, <1>2, SetInduction
<1>4. Cardinality(K) \in Nat
  BY FS_CardinalityType
<1>5. PICK g \in [SUBSET K -> Nat] : SumsTo(g, K, w, Cardinality(K))
  BY <1>3, <1>4
<1>6. \A s \in SUBSET K : Cardinality(s) <= Cardinality(K)
  BY FS_Subset
<1>7. \A s \in SUBSET K :
         g[s] = IF s = {} THEN 0
                ELSE w[CHOOSE x \in s : TRUE] + g[s \ {CHOOSE x \in s : TRUE}]
  BY <1>5, <1>6 DEF SumsTo
<1>8. g = [s \in SUBSET K |-> g[s]]
  OBVIOUS
<1>9. g = [s \in SUBSET K |->
             IF s = {} THEN 0
             ELSE w[CHOOSE x \in s : TRUE] + g[s \ {CHOOSE x \in s : TRUE}]]
  BY <1>7, <1>8, Zenon
<1> QED
  BY <1>9 DEF SumsOver

\* So the sum has that recursion.
LEMMA SumRecursion ==
  ASSUME NEW K, IsFiniteSet(K), NEW w \in [K -> Nat]
  PROVE  /\ SumOf(K, w) \in [SUBSET K -> Nat]
         /\ SumOf(K, w)[{}] = 0
         /\ \A s \in SUBSET K :
               s # {} => SumOf(K, w)[s] = w[Picked(s)] + SumOf(K, w)[s \ {Picked(s)}]
<1> DEFINE g == SumOf(K, w)
           Typed(s) == g[s] \in Nat
           T == {n \in Nat : \A s \in SUBSET K : Cardinality(s) <= n => Typed(s)}
<1>1. g = [s \in SUBSET K |->
             IF s = {} THEN 0
             ELSE w[CHOOSE x \in s : TRUE] + g[s \ {CHOOSE x \in s : TRUE}]]
  <2>1. SumsOver(g, K, w)
    BY SumSolvable, Zenon DEF SumOf
  <2> QED
    BY <2>1 DEF SumsOver
<1> HIDE DEF g
<1>2. g[{}] = 0 /\ \A s \in SUBSET K :
         s # {} => g[s] = w[Picked(s)] + g[s \ {Picked(s)}]
  BY <1>1 DEF Picked
<1>9. Typed({})
  BY <1>2
<1>3. 0 \in T
  <2>1. ASSUME NEW s \in SUBSET K, Cardinality(s) <= 0
        PROVE  s = {}
    BY <2>1, SubsetSize
  <2> HIDE DEF Typed
  <2> QED
    BY <1>9, <2>1
<1>4. ASSUME NEW n \in Nat, n \in T
      PROVE  n + 1 \in T
  <2> HIDE DEF Typed
  <2> SUFFICES ASSUME NEW s \in SUBSET K, Cardinality(s) <= n + 1, s # {}
               PROVE  Typed(s)
    BY <1>9
  <2> USE DEF Typed
  <2>1. /\ Picked(s) \in K /\ s \ {Picked(s)} \in SUBSET K
        /\ Cardinality(s \ {Picked(s)}) <= n
    BY PickedOut
  <2>2. g[s \ {Picked(s)}] \in Nat /\ w[Picked(s)] \in Nat
    BY <1>4, <2>1
  <2> QED
    BY <1>2, <2>2
<1>5. \A n \in Nat : n \in T
  BY <1>3, <1>4, SetInduction
<1>6. \A s \in SUBSET K : g[s] \in Nat
  BY <1>5, SubsetSize
<1>7. g = [s \in SUBSET K |-> g[s]]
  BY <1>1
<1>8. g \in [SUBSET K -> Nat]
  BY <1>6, <1>7
<1> QED
  BY <1>2, <1>8 DEF g

\* One more in one place is one more in the sum.
LEMMA SumIncrement ==
  ASSUME NEW K, IsFiniteSet(K), NEW w \in [K -> Nat], NEW m \in K
  PROVE  SumOf(K, [w EXCEPT ![m] = w[m] + 1])[K] = SumOf(K, w)[K] + 1
<1> DEFINE v == [w EXCEPT ![m] = w[m] + 1]
           f == SumOf(K, w)
           g == SumOf(K, v)
           more(s) == IF m \in s THEN 1 ELSE 0
           Adds(s) == g[s] = f[s] + more(s)
           T == {n \in Nat : \A s \in SUBSET K : Cardinality(s) <= n => Adds(s)}
<1>1. /\ v \in [K -> Nat] /\ v[m] = w[m] + 1
      /\ \A x \in K : x # m => v[x] = w[x]
  OBVIOUS
<1> HIDE DEF v
<1>2. /\ f \in [SUBSET K -> Nat] /\ f[{}] = 0
      /\ \A s \in SUBSET K : s # {} => f[s] = w[Picked(s)] + f[s \ {Picked(s)}]
  BY SumRecursion
<1>3. /\ g \in [SUBSET K -> Nat] /\ g[{}] = 0
      /\ \A s \in SUBSET K : s # {} => g[s] = v[Picked(s)] + g[s \ {Picked(s)}]
  BY <1>1, SumRecursion
<1> HIDE DEF f, g
<1>9. Adds({})
  BY <1>2, <1>3
<1>4. 0 \in T
  <2>1. ASSUME NEW s \in SUBSET K, Cardinality(s) <= 0
        PROVE  s = {}
    BY <2>1, SubsetSize
  <2> HIDE DEF Adds
  <2> QED
    BY <1>9, <2>1
<1>5. ASSUME NEW n \in Nat, n \in T
      PROVE  n + 1 \in T
  <2> HIDE DEF Adds
  <2> SUFFICES ASSUME NEW s \in SUBSET K, Cardinality(s) <= n + 1, s # {}
               PROVE  Adds(s)
    BY <1>9
  <2> USE DEF Adds
  <2> DEFINE p == Picked(s)
             r == s \ {p}
  <2>1. p \in s /\ p \in K /\ r \in SUBSET K /\ Cardinality(r) <= n
    BY PickedOut
  <2>2. g[s] = v[p] + g[r] /\ f[s] = w[p] + f[r]
    BY <1>2, <1>3
  <2>3. g[r] = f[r] + more(r)
    BY <1>5, <2>1
  <2>4. /\ p = m => more(s) = 1 /\ more(r) = 0
        /\ p # m => more(s) = more(r)
        /\ more(r) \in Nat
    BY <2>1
  <2>5. f[r] \in Nat /\ g[r] \in Nat /\ w[p] \in Nat
    BY <1>2, <1>3, <2>1
  <2> HIDE DEF p, r, more
  <2>6. CASE p = m
    BY <1>1, <2>2, <2>3, <2>4, <2>5, <2>6
  <2>7. CASE p # m
    BY <1>1, <2>1, <2>2, <2>3, <2>4, <2>5, <2>7
  <2> QED
    BY <2>6, <2>7
<1>6. \A n \in Nat : n \in T
  BY <1>4, <1>5, SetInduction
<1>7. Cardinality(K) \in Nat /\ K \in SUBSET K
  BY FS_CardinalityType
<1>8. g[K] = f[K] + 1
  BY <1>6, <1>7
<1> QED
  BY <1>8 DEF f, g, v
=============================================================================
