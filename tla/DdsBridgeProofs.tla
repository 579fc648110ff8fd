-------------------------- MODULE DdsBridgeProofs --------------------------
(***************************************************************************)
(* Proofs about DdsBridge, for any number of nodes, messages and samples a *)
(* reader keeps: what a bridge publishes, has taken and is yet to take is  *)
(* in the order in which each core handed it over.                         *)
(***************************************************************************)
EXTENDS DdsBridge, SequenceLemmas

Samples == [writer : Nodes, num : Nat, content : {"text", "empty"}]

Publications == [subject : {Subject}, sample : Samples]

\* Every variable has its type.
DdsTypeOK ==
    /\ bridge \in [Nodes -> {"down", "registering", "serving", "ended"}]
    /\ registered \in [Nodes -> BOOLEAN]
    /\ handed \in [Nodes -> Seq({"text", "binary"})]
    /\ pending \in [Nodes -> Seq(Nat)]
    /\ loop \in [Nodes -> {"poll", "forward", "sleep"}]
    /\ cache \in [Nodes -> Seq(Samples)]
    /\ samples \in [Nodes -> Seq(Samples)]
    /\ published \in [Nodes -> Seq(Publications)]

\* The samples that n has published.
Forwarded(n) == [i \in DOMAIN published[n] |-> published[n][i].sample]

\* Of two samples of one writer x is the older.
Older(x, y) == x.writer = y.writer => x.num < y.num

AllOlder(S, T) == \A x \in S, y \in T : Older(x, y)

\* The samples of each writer are in order.
InSequence(q) == \A i, j \in 1 .. Len(q) : i < j => Older(q[i], q[j])

\* What n has published, has taken and will take are in order, one after another.
ReadInOrder(n) ==
    /\ InSequence(Forwarded(n)) /\ InSequence(samples[n]) /\ InSequence(cache[n])
    /\ AllOlder(ToSet(Forwarded(n)), ToSet(samples[n]))
    /\ AllOlder(ToSet(Forwarded(n)), ToSet(cache[n]))
    /\ AllOlder(ToSet(samples[n]), ToSet(cache[n]))

\* The samples that n has read or holds.
Had(n) == ToSet(Forwarded(n)) \union ToSet(samples[n]) \union ToSet(cache[n])

\* A bridge's queue is increasing, and none of it is younger than what its core
\* has handed over, or older than a sample of it that was written.
PendingInOrder(n) ==
    /\ \A i, j \in 1 .. Len(pending[n]) : i < j => pending[n][i] < pending[n][j]
    /\ \A k \in ToSet(pending[n]) : k <= Len(handed[n])

WrittenBefore(n) ==
    \A x \in Had(n) :
        /\ x.num <= Len(handed[x.writer])
        /\ \A k \in ToSet(pending[x.writer]) : x.num < k

\* Only a bridge that serves, and is registered, has samples.
HeldByServing(n) ==
    /\ bridge[n] = "serving" => registered[n]
    /\ Had(n) # {} => bridge[n] = "serving"

DdsInv ==
    \A n \in Nodes : /\ ReadInOrder(n) /\ PendingInOrder(n)
                     /\ WrittenBefore(n) /\ HeldByServing(n)

-----------------------------------------------------------------------------
\* A sequence stays in order when a younger sample is appended, when its head is
\* taken, and when another that is younger follows it.
LEMMA OrderAppend ==
  ASSUME NEW q \in Seq(Samples), NEW x \in Samples, InSequence(q),
         AllOlder(ToSet(q), {x})
  PROVE  Append(q, x) \in Seq(Samples) /\ InSequence(Append(q, x))
<1>1. /\ Append(q, x) \in Seq(Samples)
      /\ Len(Append(q, x)) = Len(q) + 1 /\ Len(q) \in Nat
      /\ \A i \in 1 .. Len(q) : Append(q, x)[i] = q[i]
      /\ Append(q, x)[Len(q) + 1] = x
  BY AppendProperties
<1>2. \A i \in 1 .. Len(q) : Older(q[i], x)
  BY ToSetMember DEF AllOlder
<1>3. \A i, j \in 1 .. Len(Append(q, x)) : i < j =>
         /\ i \in 1 .. Len(q)
         /\ j \in 1 .. Len(q) \/ j = Len(q) + 1
  BY <1>1
<1> QED
  BY <1>1, <1>2, <1>3 DEF InSequence

\* Taking the head of an ordered queue leaves it ordered, and the head is older
\* than what is left.
LEMMA OrderTail ==
  ASSUME NEW q \in Seq(Samples), q # <<>>, InSequence(q)
  PROVE  /\ InSequence(Tail(q))
         /\ AllOlder({Head(q)}, ToSet(Tail(q)))
<1>1. /\ Tail(q) \in Seq(Samples) /\ Len(q) \in Nat /\ Len(q) >= 1
      /\ Len(Tail(q)) = Len(q) - 1
      /\ Head(q) = q[1]
      /\ \A i \in 1 .. Len(Tail(q)) : Tail(q)[i] = q[i + 1]
  BY HeadTailProperties, EmptySeq
<1>2. \A i \in 1 .. Len(Tail(q)) : i + 1 \in 1 .. Len(q) /\ 1 < i + 1 /\ 1 \in 1 .. Len(q)
  BY <1>1
<1>3. ASSUME NEW i \in 1 .. Len(Tail(q)), NEW j \in 1 .. Len(Tail(q)), i < j
      PROVE  Older(Tail(q)[i], Tail(q)[j])
  <2>1. i + 1 < j + 1
    BY <1>1, <1>3
  <2> QED
    BY <1>1, <1>2, <2>1 DEF InSequence
<1>4. ASSUME NEW y \in ToSet(Tail(q))
      PROVE  Older(Head(q), y)
  <2>1. PICK i \in 1 .. Len(Tail(q)) : Tail(q)[i] = y
    BY <1>1, ToSetMember
  <2> QED
    BY <1>1, <1>2, <2>1 DEF InSequence
<1> QED
  BY <1>3, <1>4 DEF InSequence, AllOlder

\* An ordered queue behind an older one gives an ordered queue.
LEMMA OrderConcat ==
  ASSUME NEW q \in Seq(Samples), NEW r \in Seq(Samples), InSequence(q), InSequence(r),
         AllOlder(ToSet(q), ToSet(r))
  PROVE  q \o r \in Seq(Samples) /\ InSequence(q \o r)
<1>1. /\ q \o r \in Seq(Samples)
      /\ Len(q \o r) = Len(q) + Len(r)
      /\ Len(q) \in Nat /\ Len(r) \in Nat
      /\ \A i \in 1 .. Len(q) : (q \o r)[i] = q[i]
      /\ \A i \in 1 .. Len(q \o r) :
            i \in 1 .. Len(q) \/ (i - Len(q) \in 1 .. Len(r)
                                     /\ (q \o r)[i] = r[i - Len(q)])
  BY ConcatPlaces, LenProperties
<1>2. \A i \in 1 .. Len(q), j \in 1 .. Len(r) : Older(q[i], r[j])
  BY ToSetMember DEF AllOlder
<1> SUFFICES ASSUME NEW i \in 1 .. Len(q \o r), NEW j \in 1 .. Len(q \o r), i < j
             PROVE  Older((q \o r)[i], (q \o r)[j])
  BY <1>1 DEF InSequence
<1>3. CASE i \in 1 .. Len(q) /\ j \in 1 .. Len(q)
  BY <1>1, <1>3 DEF InSequence
<1>4. CASE i \in 1 .. Len(q) /\ j \notin 1 .. Len(q)
  BY <1>1, <1>2, <1>4
<1>5. CASE i \notin 1 .. Len(q)
  <2>1. j \notin 1 .. Len(q)
    BY <1>1, <1>5
  <2>2. i - Len(q) < j - Len(q)
    BY <1>1
  <2> QED
    BY <1>1, <1>5, <2>1, <2>2 DEF InSequence
<1> QED
  BY <1>3, <1>4, <1>5

\* Forwarded is a sequence of samples, as long as published.
LEMMA ForwardedSeq ==
  ASSUME DdsTypeOK, NEW n \in Nodes
  PROVE  /\ Forwarded(n) \in Seq(Samples)
         /\ Len(Forwarded(n)) = Len(published[n])
         /\ \A i \in 1 .. Len(published[n]) : Forwarded(n)[i] = published[n][i].sample
<1>1. published[n] \in Seq(Publications) /\ DOMAIN published[n] = 1 .. Len(published[n])
      /\ Len(published[n]) \in Nat
  BY DEF DdsTypeOK
<1>2. \A i \in 1 .. Len(published[n]) : published[n][i].sample \in Samples
  <2>1. \A p \in Publications : p.sample \in Samples
    BY DEF Publications
  <2> QED
    BY <1>1, <2>1
<1>3. Forwarded(n) \in [1 .. Len(published[n]) -> Samples]
  BY <1>1, <1>2 DEF Forwarded
<1>4. Forwarded(n) \in Seq(Samples)
  BY <1>1, <1>3, SeqDef
<1>5. Len(Forwarded(n)) = Len(published[n])
  BY <1>1, <1>3, <1>4, LenProperties
<1> QED
  BY <1>1, <1>4, <1>5 DEF Forwarded

\* The bridges start with nothing written, held or forwarded.
LEMMA DdsInit == Init => DdsTypeOK /\ DdsInv
<1> SUFFICES ASSUME Init
             PROVE  DdsTypeOK /\ DdsInv
  OBVIOUS
<1>1. DdsTypeOK
  BY DEF Init, DdsTypeOK
<1> SUFFICES ASSUME NEW n \in Nodes
             PROVE  /\ ReadInOrder(n) /\ PendingInOrder(n)
                    /\ WrittenBefore(n) /\ HeldByServing(n)
  BY <1>1 DEF DdsInv
<1>2. /\ published[n] = <<>> /\ samples[n] = <<>> /\ cache[n] = <<>>
      /\ pending[n] = <<>> /\ bridge[n] = "down"
  BY DEF Init
<1>3. Forwarded(n) \in Seq(Samples) /\ Len(Forwarded(n)) = 0
  BY <1>1, <1>2, ForwardedSeq
<1>4. Forwarded(n) = <<>>
  BY <1>3, EmptySeq
<1>5. InSequence(<<>>) /\ ToSet(<<>>) = {} /\ Len(<<>>) = 0
  BY ToSetEmpty DEF InSequence
<1>6. Had(n) = {}
  BY <1>2, <1>4, <1>5 DEF Had
<1>7. ReadInOrder(n)
  BY <1>2, <1>4, <1>5 DEF ReadInOrder, AllOlder
<1>8. PendingInOrder(n)
  BY <1>2, <1>5 DEF PendingInOrder
<1> QED
  BY <1>2, <1>6, <1>7, <1>8 DEF WrittenBefore, HeldByServing

\* The sample written for a place of what a core has handed over.
LEMMA SampleType ==
  ASSUME DdsTypeOK, NEW n \in Nodes, NEW i \in Nat
  PROVE  /\ Sample(n, i) \in Samples
         /\ Sample(n, i).writer = n /\ Sample(n, i).num = i
BY DEF Sample, Samples, Content

\* What a reader holds after a sample has arrived is a part of what it held,
\* and the sample.
LEMMA KeptOrder ==
  ASSUME NEW q \in Seq(Samples), NEW x \in Samples, InSequence(q), AllOlder(ToSet(q), {x})
  PROVE  /\ Kept(q, x) \in Seq(Samples)
         /\ InSequence(Kept(q, x))
         /\ ToSet(Kept(q, x)) \subseteq ToSet(q) \union {x}
<1>1. CASE Len(q) = Depth
  <2>1. q # <<>>
    BY <1>1, DdsAssumption
  <2>2. /\ Tail(q) \in Seq(Samples) /\ ToSet(Tail(q)) \subseteq ToSet(q)
        /\ InSequence(Tail(q))
    BY <2>1, ToSetHeadTail, OrderTail
  <2>3. AllOlder(ToSet(Tail(q)), {x})
    BY <2>2 DEF AllOlder
  <2> DEFINE t == Tail(q)
  <2> HIDE DEF t
  <2>4. Append(t, x) \in Seq(Samples) /\ InSequence(Append(t, x))
    BY <2>2, <2>3, OrderAppend DEF t
  <2>5. ToSet(Append(t, x)) = ToSet(t) \union {x}
    <3>1. t \in Seq(Samples)
      BY <2>2 DEF t
    <3> QED
      BY <3>1, ToSetAppend
  <2> QED
    BY <1>1, <2>2, <2>4, <2>5 DEF Kept, t
<1>2. CASE Len(q) # Depth
  <2>1. Append(q, x) \in Seq(Samples) /\ InSequence(Append(q, x))
    BY OrderAppend
  <2>2. ToSet(Append(q, x)) = ToSet(q) \union {x}
    BY ToSetAppend
  <2> QED
    BY <1>2, <2>1, <2>2 DEF Kept
<1> QED
  BY <1>1, <1>2

\* A core hands over something newer than all it has handed over.
LEMMA HandsOverStep ==
  ASSUME DdsTypeOK, DdsInv, NEW n \in Nodes, CoreHandsOver(n)
  PROVE  DdsTypeOK' /\ DdsInv'
<1> DEFINE K == {"text", "binary"}
           k == Len(handed'[n])
<1>1. PICK kind \in K : handed' = [handed EXCEPT ![n] = Append(@, kind)]
  BY DEF CoreHandsOver
<1>2. /\ \/ pending' = pending
         \/ pending' = [pending EXCEPT ![n] = Append(@, k)]
      /\ UNCHANGED <<bridge, registered, loop, cache, samples, published>>
  BY DEF CoreHandsOver
<1>3. handed \in [Nodes -> Seq(K)] /\ pending \in [Nodes -> Seq(Nat)]
  BY DEF DdsTypeOK
<1> HIDE DEF K
<1>4. handed[n] \in Seq(K) /\ Append(handed[n], kind) \in Seq(K)
      /\ Len(Append(handed[n], kind)) = Len(handed[n]) + 1 /\ Len(handed[n]) \in Nat
  BY <1>1, <1>3, AppendProperties
<1>5. handed' \in [Nodes -> Seq(K)] /\ k = Len(handed[n]) + 1 /\ k \in Nat
  BY <1>1, <1>3, <1>4
<1>6. \A m \in Nodes : Len(handed[m]) \in Nat /\ Len(handed'[m]) \in Nat
                       /\ Len(handed[m]) <= Len(handed'[m])
  <2> SUFFICES ASSUME NEW m \in Nodes
               PROVE  Len(handed[m]) \in Nat /\ Len(handed'[m]) \in Nat
                      /\ Len(handed[m]) <= Len(handed'[m])
    OBVIOUS
  <2>1. Len(handed[m]) \in Nat
    BY <1>3
  <2>2. CASE m = n
    BY <1>4, <1>5, <2>2
  <2>3. CASE m # n
    BY <1>1, <1>3, <2>1, <2>3
  <2> QED
    BY <2>2, <2>3
<1> HIDE DEF k
<1>7. pending' \in [Nodes -> Seq(Nat)]
  <2>1. pending[n] \in Seq(Nat)
    BY <1>3
  <2>2. Append(pending[n], k) \in Seq(Nat)
    BY <1>5, <2>1, AppendProperties
  <2>3. CASE pending' = [pending EXCEPT ![n] = Append(@, k)]
    BY <1>3, <2>2, <2>3
  <2> QED
    BY <1>2, <1>3, <2>3
<1>8. DdsTypeOK'
  BY <1>2, <1>5, <1>7 DEF DdsTypeOK, K
<1>9. \A m \in Nodes : /\ pending[m] \in Seq(Nat) /\ ToSet(pending[m]) \subseteq Nat
                       /\ Len(pending[m]) \in Nat
  BY <1>3, ToSetMember
<1>10. \A m \in Nodes : \/ pending'[m] = pending[m]
                        \/ m = n /\ pending'[m] = Append(pending[m], k)
  BY <1>2, <1>3
<1>11. \A m \in Nodes : ToSet(pending'[m]) \subseteq ToSet(pending[m])
                           \union {x \in {k} : m = n}
  <2> SUFFICES ASSUME NEW m \in Nodes
               PROVE  ToSet(pending'[m]) \subseteq ToSet(pending[m]) \union {x \in {k} : m = n}
    OBVIOUS
  <2>1. pending[m] \in Seq(Nat) /\ k \in Nat
    BY <1>3, <1>5
  <2>2. ToSet(Append(pending[m], k)) = ToSet(pending[m]) \union {k}
    BY <2>1, ToSetAppend
  <2> QED
    BY <1>10, <2>2
<1> SUFFICES ASSUME NEW m \in Nodes
             PROVE  /\ ReadInOrder(m)' /\ PendingInOrder(m)'
                    /\ WrittenBefore(m)' /\ HeldByServing(m)'
  BY <1>8 DEF DdsInv
<1>12. Forwarded(m)' = Forwarded(m) /\ Had(m)' = Had(m)
  BY <1>2 DEF Forwarded, Had
<1>13. ReadInOrder(m)' /\ HeldByServing(m)'
  BY <1>2, <1>12 DEF DdsInv, ReadInOrder, HeldByServing
<1>14. PendingInOrder(m)'
  <2>1. \A i, j \in 1 .. Len(pending[m]) : i < j => pending[m][i] < pending[m][j]
    BY DEF DdsInv, PendingInOrder
  <2>2. \A x \in ToSet(pending[m]) : x <= Len(handed[m]) /\ x \in Nat
    BY <1>9 DEF DdsInv, PendingInOrder
  <2>3. \A x \in ToSet(pending'[m]) : x <= Len(handed'[m])
    <3>1. \A x \in ToSet(pending[m]) : x <= Len(handed'[m])
      BY <1>6, <2>2
    <3>2. m = n => k <= Len(handed'[m])
      BY <1>6, <1>5 DEF k
    <3> QED
      BY <1>11, <3>1, <3>2
  <2>4. \A i, j \in 1 .. Len(pending'[m]) : i < j => pending'[m][i] < pending'[m][j]
    <3>1. CASE pending'[m] = pending[m]
      BY <2>1, <3>1
    <3>2. CASE m = n /\ pending'[m] = Append(pending[m], k)
      <4>1. \A x \in ToSet(pending[m]) : x < k
        BY <1>4, <1>5, <2>2, <3>2
      <4>2. \A i, j \in 1 .. Len(Append(pending[m], k)) :
               i < j => Append(pending[m], k)[i] < Append(pending[m], k)[j]
        BY <1>5, <1>9, <2>1, <4>1, IncreasingAppend
      <4> QED
        BY <3>2, <4>2
    <3> QED
      BY <1>10, <3>1, <3>2
  <2> QED
    BY <2>3, <2>4 DEF PendingInOrder
<1>15. WrittenBefore(m)'
  <2> SUFFICES ASSUME NEW x \in Had(m)
               PROVE  /\ x.num <= Len(handed'[x.writer])
                      /\ \A y \in ToSet(pending'[x.writer]) : x.num < y
    BY <1>12 DEF WrittenBefore
  <2>1. x.writer \in Nodes /\ x.num \in Nat
    <3>1. /\ Forwarded(m) \in Seq(Samples) /\ samples[m] \in Seq(Samples)
          /\ cache[m] \in Seq(Samples)
      BY ForwardedSeq DEF DdsTypeOK
    <3>2. x \in Samples
      BY <3>1, ToSetMember DEF Had
    <3> QED
      BY <3>2 DEF Samples
  <2>2. /\ x.num <= Len(handed[x.writer])
        /\ \A y \in ToSet(pending[x.writer]) : x.num < y
    BY DEF DdsInv, WrittenBefore
  <2>3. x.num <= Len(handed'[x.writer])
    BY <1>6, <2>1, <2>2
  <2>4. x.writer = n => x.num < k
    BY <1>4, <1>5, <2>1, <2>2
  <2> QED
    BY <1>11, <2>1, <2>2, <2>3, <2>4
<1> QED
  BY <1>13, <1>14, <1>15

\* The types and places of the samples a bridge has.
LEMMA HadTyped ==
  ASSUME DdsTypeOK, NEW n \in Nodes
  PROVE  /\ Forwarded(n) \in Seq(Samples) /\ samples[n] \in Seq(Samples)
         /\ cache[n] \in Seq(Samples)
         /\ \A x \in Had(n) : x \in Samples /\ x.writer \in Nodes /\ x.num \in Nat
<1>1. /\ Forwarded(n) \in Seq(Samples) /\ samples[n] \in Seq(Samples)
      /\ cache[n] \in Seq(Samples)
  BY ForwardedSeq DEF DdsTypeOK
<1>2. \A x \in Had(n) : x \in Samples
  BY <1>1, ToSetMember DEF Had
<1> QED
  BY <1>1, <1>2 DEF Samples

\* The sample of the oldest message a bridge has is younger than what any reader
\* has had of that bridge, and older than what follows.
LEMMA MessageHandlerStep ==
  ASSUME DdsTypeOK, DdsInv, NEW n \in Nodes, message_handler(n)
  PROVE  DdsTypeOK' /\ DdsInv'
<1> DEFINE k == Head(pending[n])
           x == Sample(n, k)
<1>1. /\ pending \in [Nodes -> Seq(Nat)] /\ pending[n] \in Seq(Nat) /\ pending[n] # <<>>
      /\ pending' = [pending EXCEPT ![n] = Tail(@)]
      /\ cache \in [Nodes -> Seq(Samples)]
      /\ UNCHANGED <<bridge, registered, handed, loop, samples, published>>
  BY DEF message_handler, DdsTypeOK
<1>2. PICK readers \in SUBSET {m \in Nodes : bridge[m] = "serving"} :
         cache' = [m \in Nodes |-> IF m \in readers THEN Kept(cache[m], x) ELSE cache[m]]
  BY DEF message_handler
<1>3. /\ k \in Nat /\ Tail(pending[n]) \in Seq(Nat)
      /\ ToSet(pending[n]) = {k} \union ToSet(Tail(pending[n]))
  BY <1>1, ToSetHeadTail
<1>4. /\ \A i, j \in 1 .. Len(Tail(pending[n])) :
            i < j => Tail(pending[n])[i] < Tail(pending[n])[j]
      /\ \A y \in ToSet(Tail(pending[n])) : k < y
  BY <1>1, IncreasingTail DEF DdsInv, PendingInOrder
<1>5. x \in Samples /\ x.writer = n /\ x.num = k
  BY <1>3, SampleType
<1>6. k <= Len(handed[n])
  BY <1>3 DEF DdsInv, PendingInOrder
<1> HIDE DEF k, x
<1>7. \A m \in Nodes : ToSet(pending'[m]) \subseteq ToSet(pending[m])
  BY <1>1, <1>3
<1>8. ASSUME NEW m \in Nodes
      PROVE  AllOlder(Had(m), {x})
  <2>1. \A y \in Had(m) : y.writer = n => y.num < k
    BY <1>3 DEF DdsInv, WrittenBefore
  <2> QED
    BY <1>5, <2>1 DEF AllOlder, Older
<1>9. ASSUME NEW m \in Nodes
      PROVE  /\ cache'[m] \in Seq(Samples) /\ InSequence(cache'[m])
             /\ ToSet(cache'[m]) \subseteq ToSet(cache[m]) \union {x}
             /\ cache'[m] = cache[m] \/ bridge[m] = "serving"
  <2>1. cache[m] \in Seq(Samples) /\ InSequence(cache[m])
    BY <1>1 DEF DdsInv, ReadInOrder
  <2>2. AllOlder(ToSet(cache[m]), {x})
    BY <1>8 DEF AllOlder, Had
  <2>3. /\ Kept(cache[m], x) \in Seq(Samples)
        /\ InSequence(Kept(cache[m], x))
        /\ ToSet(Kept(cache[m], x)) \subseteq ToSet(cache[m]) \union {x}
    BY <1>5, <2>1, <2>2, KeptOrder
  <2> QED
    BY <1>2, <2>1, <2>3
<1>10. pending' \in [Nodes -> Seq(Nat)] /\ cache' \in [Nodes -> Seq(Samples)]
  <2>1. pending' \in [Nodes -> Seq(Nat)]
    BY <1>1, <1>3
  <2>2. cache' = [m \in Nodes |-> cache'[m]]
    BY <1>2
  <2> QED
    BY <1>9, <2>1, <2>2
<1>11. DdsTypeOK'
  BY <1>1, <1>10 DEF DdsTypeOK
<1> SUFFICES ASSUME NEW m \in Nodes
             PROVE  /\ ReadInOrder(m)' /\ PendingInOrder(m)'
                    /\ WrittenBefore(m)' /\ HeldByServing(m)'
  BY <1>11 DEF DdsInv
<1>12. Forwarded(m)' = Forwarded(m) /\ Had(m)' \subseteq Had(m) \union {x}
  BY <1>1, <1>9 DEF Forwarded, Had
<1>13. ReadInOrder(m)'
  <2>1. AllOlder(ToSet(Forwarded(m)), {x}) /\ AllOlder(ToSet(samples[m]), {x})
    BY <1>8 DEF AllOlder, Had
  <2>2. /\ AllOlder(ToSet(Forwarded(m)), ToSet(cache'[m]))
        /\ AllOlder(ToSet(samples[m]), ToSet(cache'[m]))
    BY <1>9, <2>1 DEF AllOlder, DdsInv, ReadInOrder
  <2> QED
    BY <1>1, <1>9, <1>12, <2>2 DEF DdsInv, ReadInOrder
<1>14. PendingInOrder(m)'
  <2>1. CASE m = n
    BY <1>1, <1>4, <1>7, <2>1 DEF DdsInv, PendingInOrder
  <2>2. CASE m # n
    BY <1>1, <2>2 DEF DdsInv, PendingInOrder
  <2> QED
    BY <2>1, <2>2
<1>15. WrittenBefore(m)'
  <2> SUFFICES ASSUME NEW y \in Had(m)'
               PROVE  /\ y.num <= Len(handed[y.writer])
                      /\ \A z \in ToSet(pending'[y.writer]) : y.num < z
    BY <1>1 DEF WrittenBefore
  <2>1. CASE y = x
    BY <1>1, <1>4, <1>5, <1>6, <2>1
  <2>2. CASE y \in Had(m)
    <3>1. y.writer \in Nodes
      BY <2>2, HadTyped
    <3> QED
      BY <1>7, <2>2, <3>1 DEF DdsInv, WrittenBefore
  <2> QED
    BY <1>12, <2>1, <2>2
<1>16. HeldByServing(m)'
  <2>1. Had(m)' = Had(m) \/ bridge[m] = "serving"
    BY <1>1, <1>9, <1>12 DEF Had
  <2> QED
    BY <1>1, <2>1 DEF DdsInv, HeldByServing
<1> QED
  BY <1>13, <1>14, <1>15, <1>16

\* The reader's samples join those taken, and follow them.
LEMMA TakeStep ==
  ASSUME DdsTypeOK, DdsInv, NEW n \in Nodes, Take(n)
  PROVE  DdsTypeOK' /\ DdsInv'
<1> DEFINE q == samples[n] \o cache[n]
<1>1. /\ samples' = [samples EXCEPT ![n] = q] /\ cache' = [cache EXCEPT ![n] = <<>>]
      /\ UNCHANGED <<bridge, registered, handed, pending, loop, published>>
  BY DEF Take, AfterTake
<1>2. /\ samples \in [Nodes -> Seq(Samples)] /\ cache \in [Nodes -> Seq(Samples)]
      /\ samples[n] \in Seq(Samples) /\ cache[n] \in Seq(Samples)
  BY DEF DdsTypeOK
<1>3. ReadInOrder(n)
  BY DEF DdsInv
<1>4. q \in Seq(Samples) /\ InSequence(q)
  BY <1>2, <1>3, OrderConcat DEF ReadInOrder
<1>5. ToSet(q) = ToSet(samples[n]) \union ToSet(cache[n])
  BY <1>2, ToSetConcat
<1> HIDE DEF q
<1>6. DdsTypeOK'
  BY <1>1, <1>2, <1>4 DEF DdsTypeOK
<1>7. \A m \in Nodes : Forwarded(m)' = Forwarded(m)
  BY <1>1 DEF Forwarded
<1>8. /\ samples'[n] = q /\ cache'[n] = <<>>
      /\ \A m \in Nodes : m # n => samples'[m] = samples[m] /\ cache'[m] = cache[m]
  BY <1>1, <1>2
<1>9. InSequence(<<>>) /\ ToSet(<<>>) = {}
  BY ToSetEmpty DEF InSequence
<1> SUFFICES ASSUME NEW m \in Nodes
             PROVE  /\ ReadInOrder(m)' /\ PendingInOrder(m)'
                    /\ WrittenBefore(m)' /\ HeldByServing(m)'
  BY <1>6 DEF DdsInv
<1>10. Had(m)' = Had(m)
  <2>1. CASE m = n
    BY <1>5, <1>7, <1>8, <1>9, <2>1 DEF Had
  <2>2. CASE m # n
    BY <1>7, <1>8, <2>2 DEF Had
  <2> QED
    BY <2>1, <2>2
<1>11. ReadInOrder(m)'
  <2>1. CASE m = n
    <3>1. AllOlder(ToSet(Forwarded(n)), ToSet(q))
      BY <1>3, <1>5 DEF ReadInOrder, AllOlder
    <3> QED
      BY <1>3, <1>4, <1>7, <1>8, <1>9, <2>1, <3>1 DEF ReadInOrder, AllOlder
  <2>2. CASE m # n
    BY <1>7, <1>8, <2>2 DEF DdsInv, ReadInOrder
  <2> QED
    BY <2>1, <2>2
<1>12. PendingInOrder(m)' /\ WrittenBefore(m)' /\ HeldByServing(m)'
  BY <1>1, <1>10 DEF DdsInv, PendingInOrder, WrittenBefore, HeldByServing
<1> QED
  BY <1>11, <1>12

\* The oldest sample taken joins those published, and is younger than all of them.
LEMMA ForwardStep ==
  ASSUME DdsTypeOK, DdsInv, NEW n \in Nodes, Forward(n)
  PROVE  DdsTypeOK' /\ DdsInv'
<1> DEFINE x == Head(samples[n])
           t == Tail(samples[n])
           p == [subject |-> Subject, sample |-> x]
           q == Append(published[n], p)
           f == Append(Forwarded(n), x)
<1>1. /\ published' = [published EXCEPT ![n] = q] /\ samples' = [samples EXCEPT ![n] = t]
      /\ loop' = [loop EXCEPT ![n] = IF samples'[n] = <<>> THEN "sleep" ELSE "forward"]
      /\ samples[n] # <<>>
      /\ UNCHANGED <<bridge, registered, handed, pending, cache>>
  BY DEF Forward
<1>2. /\ samples \in [Nodes -> Seq(Samples)] /\ published \in [Nodes -> Seq(Publications)]
      /\ samples[n] \in Seq(Samples) /\ published[n] \in Seq(Publications)
      /\ loop \in [Nodes -> {"poll", "forward", "sleep"}]
  BY DEF DdsTypeOK
<1>3. ReadInOrder(n)
  BY DEF DdsInv
<1>4. /\ x \in Samples /\ t \in Seq(Samples)
      /\ ToSet(samples[n]) = {x} \union ToSet(t)
  BY <1>1, <1>2, ToSetHeadTail
<1>5. InSequence(t) /\ AllOlder({x}, ToSet(t))
  BY <1>1, <1>2, <1>3, OrderTail DEF ReadInOrder
<1> HIDE DEF x, t
<1>6. p \in Publications /\ p.sample = x
  BY <1>4 DEF Publications
<1> HIDE DEF p
<1>7. /\ q \in Seq(Publications) /\ Len(q) = Len(published[n]) + 1
      /\ \A i \in 1 .. Len(published[n]) : q[i] = published[n][i]
      /\ q[Len(published[n]) + 1] = p
      /\ Len(published[n]) \in Nat
  BY <1>2, <1>6, AppendProperties
<1> HIDE DEF q
<1>8. /\ Forwarded(n) \in Seq(Samples) /\ Len(Forwarded(n)) = Len(published[n])
      /\ \A i \in 1 .. Len(published[n]) : Forwarded(n)[i] = published[n][i].sample
  BY ForwardedSeq
<1>9. DdsTypeOK'
  <2>1. samples' \in [Nodes -> Seq(Samples)] /\ published' \in [Nodes -> Seq(Publications)]
    BY <1>1, <1>2, <1>4, <1>7
  <2>2. loop' \in [Nodes -> {"poll", "forward", "sleep"}]
    BY <1>1, <1>2
  <2> QED
    BY <1>1, <2>1, <2>2 DEF DdsTypeOK
<1>10. /\ published'[n] = q /\ samples'[n] = t
       /\ \A m \in Nodes : m # n => published'[m] = published[m] /\ samples'[m] = samples[m]
  BY <1>1, <1>2
<1>11. AllOlder(ToSet(Forwarded(n)), {x})
  BY <1>3, <1>4 DEF ReadInOrder, AllOlder
<1>12. f \in Seq(Samples) /\ InSequence(f)
  BY <1>3, <1>4, <1>8, <1>11, OrderAppend DEF ReadInOrder
<1>13. ToSet(f) = ToSet(Forwarded(n)) \union {x}
  BY <1>4, <1>8, ToSetAppend
<1>14. Forwarded(n)' = f
  <2>1. /\ Forwarded(n)' \in Seq(Samples) /\ Len(Forwarded(n)') = Len(q)
        /\ \A i \in 1 .. Len(q) : Forwarded(n)'[i] = q[i].sample
    <3>1. Forwarded(n)' = [i \in DOMAIN q |-> q[i].sample]
      BY <1>10 DEF Forwarded
    <3>2. \A i \in 1 .. Len(q) : q[i].sample \in Samples
      <4>1. \A r \in Publications : r.sample \in Samples
        BY DEF Publications
      <4> QED
        BY <1>7, <4>1
    <3>3. DOMAIN q = 1 .. Len(q) /\ Len(q) \in Nat
      BY <1>7
    <3>4. Forwarded(n)' \in [1 .. Len(q) -> Samples]
      BY <3>1, <3>2, <3>3
    <3>5. Forwarded(n)' \in Seq(Samples)
      BY <3>3, <3>4, SeqDef
    <3>6. Len(Forwarded(n)') = Len(q)
      BY <3>3, <3>4, <3>5, LenProperties
    <3> QED
      BY <3>1, <3>3, <3>5, <3>6
  <2>2. /\ Len(f) = Len(Forwarded(n)) + 1
        /\ \A i \in 1 .. Len(Forwarded(n)) : f[i] = Forwarded(n)[i]
        /\ f[Len(Forwarded(n)) + 1] = x
    BY <1>4, <1>8, AppendProperties
  <2> HIDE DEF f
  <2>3. Len(f) = Len(q)
    BY <1>7, <1>8, <2>2
  <2>4. \A i \in 1 .. Len(q) : Forwarded(n)'[i] = f[i]
    <3> SUFFICES ASSUME NEW i \in 1 .. Len(q)
                 PROVE  q[i].sample = f[i]
      BY <2>1
    <3>1. CASE i \in 1 .. Len(published[n])
      BY <1>7, <1>8, <2>2, <3>1
    <3>2. CASE i = Len(published[n]) + 1
      BY <1>6, <1>7, <1>8, <2>2, <3>2
    <3> QED
      BY <1>7, <3>1, <3>2
  <2> QED
    BY <1>12, <2>1, <2>3, <2>4, SeqEqual
<1> HIDE DEF f
<1>15. \A m \in Nodes : m # n => Forwarded(m)' = Forwarded(m)
  BY <1>10 DEF Forwarded
<1> SUFFICES ASSUME NEW m \in Nodes
             PROVE  /\ ReadInOrder(m)' /\ PendingInOrder(m)'
                    /\ WrittenBefore(m)' /\ HeldByServing(m)'
  BY <1>9 DEF DdsInv
<1>16. Had(m)' = Had(m)
  <2>1. CASE m = n
    BY <1>1, <1>4, <1>10, <1>13, <1>14, <2>1 DEF Had
  <2>2. CASE m # n
    BY <1>1, <1>10, <1>15, <2>2 DEF Had
  <2> QED
    BY <2>1, <2>2
<1>17. ReadInOrder(m)'
  <2>1. CASE m = n
    <3>1. AllOlder(ToSet(f), ToSet(t)) /\ AllOlder(ToSet(f), ToSet(cache[n]))
      BY <1>3, <1>4, <1>5, <1>13 DEF ReadInOrder, AllOlder
    <3>2. AllOlder(ToSet(t), ToSet(cache[n]))
      BY <1>3, <1>4 DEF ReadInOrder, AllOlder
    <3> QED
      BY <1>1, <1>3, <1>5, <1>10, <1>12, <1>14, <2>1, <3>1, <3>2 DEF ReadInOrder
  <2>2. CASE m # n
    BY <1>1, <1>10, <1>15, <2>2 DEF DdsInv, ReadInOrder
  <2> QED
    BY <2>1, <2>2
<1>18. PendingInOrder(m)' /\ WrittenBefore(m)' /\ HeldByServing(m)'
  BY <1>1, <1>16 DEF DdsInv, PendingInOrder, WrittenBefore, HeldByServing
<1> QED
  BY <1>17, <1>18

\* Registering, failing and the ends of poll and sleep move no sample.
LEMMA OtherStep ==
  ASSUME DdsTypeOK, DdsInv, NEW n \in Nodes,
         \/ Request(n) \/ CoreRegister(n) \/ Accept(n) \/ Fail(n)
         \/ EndPoll(n) \/ EndSleep(n)
  PROVE  DdsTypeOK' /\ DdsInv'
<1>1. UNCHANGED <<handed, pending, cache, samples, published>>
  BY DEF Request, CoreRegister, Accept, Fail, EndPoll, EndSleep
<1>2. /\ bridge \in [Nodes -> {"down", "registering", "serving", "ended"}]
      /\ registered \in [Nodes -> BOOLEAN]
      /\ loop \in [Nodes -> {"poll", "forward", "sleep"}]
  BY DEF DdsTypeOK
<1>3. /\ bridge' \in [Nodes -> {"down", "registering", "serving", "ended"}]
      /\ registered' \in [Nodes -> BOOLEAN]
      /\ loop' \in [Nodes -> {"poll", "forward", "sleep"}]
  BY <1>2 DEF Request, CoreRegister, Accept, Fail, EndPoll, EndSleep, AfterFailure
<1>4. DdsTypeOK'
  BY <1>1, <1>3 DEF DdsTypeOK
<1>5. ASSUME NEW m \in Nodes
      PROVE  /\ bridge[m] = "serving" => bridge'[m] = "serving"
             /\ registered[m] => registered'[m]
             /\ bridge'[m] = "serving" => bridge[m] = "serving" \/ registered[m]
  BY <1>2 DEF Request, CoreRegister, Accept, Fail, EndPoll, EndSleep, AfterFailure
<1> SUFFICES ASSUME NEW m \in Nodes
             PROVE  /\ ReadInOrder(m)' /\ PendingInOrder(m)'
                    /\ WrittenBefore(m)' /\ HeldByServing(m)'
  BY <1>4 DEF DdsInv
<1>6. Forwarded(m)' = Forwarded(m) /\ Had(m)' = Had(m)
  BY <1>1 DEF Forwarded, Had
<1>7. ReadInOrder(m)' /\ PendingInOrder(m)' /\ WrittenBefore(m)'
  BY <1>1, <1>6 DEF DdsInv, ReadInOrder, PendingInOrder, WrittenBefore
<1>8. HeldByServing(m)'
  BY <1>5, <1>6 DEF DdsInv, HeldByServing
<1> QED
  BY <1>7, <1>8

\* Every step of a bridge, of DDS and of a core keeps the invariant.
LEMMA DdsNext ==
  ASSUME DdsTypeOK, DdsInv, [Next]_vars
  PROVE  DdsTypeOK' /\ DdsInv'
<1>1. CASE Next
  <2>1. PICK n \in Nodes :
           \/ Request(n) \/ CoreRegister(n) \/ Accept(n) \/ Fail(n)
           \/ CoreHandsOver(n) \/ message_handler(n) \/ Take(n) \/ EndPoll(n)
           \/ Forward(n) \/ EndSleep(n)
    BY <1>1 DEF Next
  <2>2. CASE CoreHandsOver(n)
    BY <2>2, HandsOverStep
  <2>3. CASE message_handler(n)
    BY <2>3, MessageHandlerStep
  <2>4. CASE Take(n)
    BY <2>4, TakeStep
  <2>5. CASE Forward(n)
    BY <2>5, ForwardStep
  <2>6. CASE \/ Request(n) \/ CoreRegister(n) \/ Accept(n) \/ Fail(n)
             \/ EndPoll(n) \/ EndSleep(n)
    BY <2>6, OtherStep
  <2> QED
    BY <2>1, <2>2, <2>3, <2>4, <2>5, <2>6
<1>2. CASE UNCHANGED vars
  <2>1. DdsTypeOK'
    BY <1>2 DEF vars, DdsTypeOK
  <2>2. \A m \in Nodes : Forwarded(m)' = Forwarded(m) /\ Had(m)' = Had(m)
    BY <1>2 DEF vars, Forwarded, Had
  <2> QED
    BY <1>2, <2>1, <2>2
       DEF vars, DdsInv, ReadInOrder, PendingInOrder, WrittenBefore, HeldByServing
<1> QED
  BY <1>1, <1>2

\* What the invariant says of the three parts of what a bridge reads, it says of
\* the whole.
LEMMA DdsInvBridged == DdsTypeOK /\ DdsInv => BridgedOnce
<1> SUFFICES ASSUME DdsTypeOK, DdsInv, NEW n \in Nodes
             PROVE  /\ \A i, j \in DOMAIN Read(n) :
                          i < j /\ Read(n)[i].writer = Read(n)[j].writer
                              => Read(n)[i].num < Read(n)[j].num
                    /\ \A sample \in ToSet(Read(n)) :
                          \A i \in DOMAIN pending[sample.writer] :
                              sample.num < pending[sample.writer][i]
                    /\ Read(n) # <<>> => registered[n] /\ bridge[n] = "serving"
                    /\ \A p \in ToSet(published[n]) : p.subject \notin CoreSubjects
  BY DEF BridgedOnce
<1> DEFINE q == Forwarded(n) \o samples[n]
           r == q \o cache[n]
<1>1. /\ Forwarded(n) \in Seq(Samples) /\ samples[n] \in Seq(Samples)
      /\ cache[n] \in Seq(Samples)
      /\ \A x \in Had(n) : x \in Samples /\ x.writer \in Nodes /\ x.num \in Nat
  BY HadTyped
<1>2. ReadInOrder(n)
  BY DEF DdsInv
<1>3. q \in Seq(Samples) /\ InSequence(q)
  BY <1>1, <1>2, OrderConcat DEF ReadInOrder
<1>4. ToSet(q) = ToSet(Forwarded(n)) \union ToSet(samples[n])
  BY <1>1, ToSetConcat
<1> HIDE DEF q
<1>5. AllOlder(ToSet(q), ToSet(cache[n]))
  BY <1>2, <1>4 DEF ReadInOrder, AllOlder
<1>6. r \in Seq(Samples) /\ InSequence(r)
  BY <1>1, <1>2, <1>3, <1>5, OrderConcat DEF ReadInOrder
<1>7. ToSet(r) = ToSet(q) \union ToSet(cache[n])
  BY <1>1, <1>3, ToSetConcat
<1>8. Read(n) = r
  BY DEF Read, Forwarded, q
<1> HIDE DEF r
<1>9. ToSet(r) = Had(n)
  BY <1>4, <1>7 DEF Had
<1>10. DOMAIN r = 1 .. Len(r) /\ \A i \in 1 .. Len(r) : r[i] \in ToSet(r)
  BY <1>6, ToSetMember
<1>11. \A i, j \in DOMAIN r : i < j /\ r[i].writer = r[j].writer => r[i].num < r[j].num
  BY <1>6, <1>10 DEF InSequence, Older
<1>12. ASSUME NEW x \in ToSet(r), NEW i \in DOMAIN pending[x.writer]
       PROVE  x.num < pending[x.writer][i]
  <2>1. x \in Had(n) /\ x.writer \in Nodes
    BY <1>1, <1>9
  <2>2. pending[x.writer] \in Seq(Nat)
    BY <2>1 DEF DdsTypeOK
  <2>3. pending[x.writer][i] \in ToSet(pending[x.writer])
    BY <2>2, ToSetMember
  <2> QED
    BY <2>1, <2>3 DEF DdsInv, WrittenBefore
<1>13. r # <<>> => registered[n] /\ bridge[n] = "serving"
  <2>1. ASSUME r # <<>>
        PROVE  1 \in 1 .. Len(r)
    <3>1. Len(r) \in Nat /\ Len(r) # 0
      BY <1>6, <2>1, EmptySeq, LenProperties
    <3> QED
      BY <3>1
  <2>2. r # <<>> => Had(n) # {}
    BY <1>9, <1>10, <2>1
  <2> QED
    BY <2>2 DEF DdsInv, HeldByServing
<1>14. \A p \in ToSet(published[n]) : p.subject \notin CoreSubjects
  <2>1. published[n] \in Seq(Publications)
    BY DEF DdsTypeOK
  <2>2. ToSet(published[n]) \subseteq Publications
    BY <2>1, ToSetMember
  <2>3. \A p \in Publications : p.subject = Subject
    BY DEF Publications
  <2> QED
    BY <2>2, <2>3 DEF Subject, CoreSubjects
<1> QED
  BY <1>8, <1>11, <1>12, <1>13, <1>14

\* Whatever readers lose and however polls, awaits and handlers interleave, a
\* bridge forwards each sample at most once, those of a writer in the order in
\* which its core handed them over, only when registered, and to no core: for
\* any number of nodes and messages and any depth of the readers.
THEOREM BridgedOnceCorrect == Spec => []BridgedOnce
<1>1. Init => DdsTypeOK /\ DdsInv
  BY DdsInit
<1>2. (DdsTypeOK /\ DdsInv) /\ [Next]_vars => (DdsTypeOK /\ DdsInv)'
  BY DdsNext
<1>3. DdsTypeOK /\ DdsInv => BridgedOnce
  BY DdsInvBridged
<1> QED
  BY <1>1, <1>2, <1>3, PTL DEF Spec
=============================================================================
