-------------------------- MODULE LinkTableProofs --------------------------
(***************************************************************************)
(* Proofs about LinkTable, for any senders, any table size, cadences and   *)
(* clocks: the window is what was heard last, a link nothing comes from    *)
(* decays, and a table that is large enough for ten seconds loses nothing. *)
(***************************************************************************)
EXTENDS LinkTable, SequenceLemmas

Frames == [timestamp : Int, cadence : Cadences \union {Undefined}]

Arrivals == [frame : Frames, at : Nat]

\* Every variable has its type.
LinkTypeOK ==
    /\ now \in Nat
    /\ link \in [Senders -> Seq(Frames)]
    /\ arrivals \in [Senders -> Seq(Arrivals)]

\* Frames arrive in the order of the local time, none before now, and are
\* stamped with it up to what a sender's clock is off.
Timely(node) ==
    /\ \A i, j \in 1 .. Len(arrivals[node]) :
          i < j => arrivals[node][i].at <= arrivals[node][j].at
    /\ \A i \in 1 .. Len(arrivals[node]) :
          /\ arrivals[node][i].at <= now
          /\ \E o \in Offsets \union {0} :
                arrivals[node][i].frame.timestamp = arrivals[node][i].at + o

LinkInv == LinkTypeOK /\ KeepsNewest /\ \A node \in Senders : Timely(node)

-----------------------------------------------------------------------------
\* What the table keeps of so many frames heard.
LEMMA KeptBounds ==
  ASSUME NEW h \in Nat
  PROVE  /\ Kept(h) \in Nat /\ Kept(h) <= h
         /\ Kept(h) = 0 <=> h = 0
         /\ Kept(h) # h => MaxFrames \in Nat /\ MaxFrames <= Kept(h)
         /\ \/ /\ Kept(h) # 0 /\ MaxFrames # Undefined /\ Kept(h) >= MaxFrames
               /\ Kept(h + 1) = Kept(h)
            \/ /\ ~(Kept(h) # 0 /\ MaxFrames # Undefined /\ Kept(h) >= MaxFrames)
               /\ Kept(h) = h /\ Kept(h + 1) = h + 1
<1>1. CASE MaxFrames = Undefined
  BY <1>1 DEF Kept
<1>2. CASE MaxFrames \in Nat
  <2>1. MaxFrames # Undefined
    BY <1>2, UndefinedAssumption
  <2> QED
    BY <1>2, <2>1 DEF Kept
<1> QED
  BY <1>1, <1>2, FramesAssumption

\* A frame that arrives takes its place behind those kept, and the oldest goes
\* exactly when the table is full.
LEMMA AddedKeepsNewest ==
  ASSUME NEW q \in Seq(Frames), NEW heard \in Seq(Arrivals), NEW a \in Arrivals,
         Len(q) = Kept(Len(heard)),
         \A i \in 1 .. Len(q) : q[i] = heard[Len(heard) - Len(q) + i].frame
  PROVE  LET r == Added(q, a.frame)
             now_heard == Append(heard, a)
         IN /\ r \in Seq(Frames)
            /\ Len(r) = Kept(Len(now_heard))
            /\ \A i \in 1 .. Len(r) :
                  r[i] = now_heard[Len(now_heard) - Len(r) + i].frame
<1> DEFINE f == a.frame
           h == Len(heard)
           l == Len(q)
           A == Append(heard, a)
           t == Tail(q)
<1>1. f \in Frames /\ h \in Nat /\ l \in Nat /\ (q # <<>> <=> l # 0)
  BY EmptySeq, LenProperties DEF Arrivals
<1>2. /\ Len(A) = h + 1 /\ A[h + 1] = a
      /\ \A i \in 1 .. h : A[i] = heard[i]
  BY AppendProperties
<1>3. /\ l = Kept(h) /\ l <= h
      /\ \A i \in 1 .. l : q[i] = heard[h - l + i].frame
  BY <1>1, KeptBounds
<1>4. \/ /\ l # 0 /\ MaxFrames # Undefined /\ l >= MaxFrames
         /\ Kept(h + 1) = l
      \/ /\ ~(l # 0 /\ MaxFrames # Undefined /\ l >= MaxFrames)
         /\ l = h /\ Kept(h + 1) = h + 1
  BY <1>1, <1>3, KeptBounds
<1>5. Added(q, f) = IF l # 0 /\ MaxFrames # Undefined /\ l >= MaxFrames
                    THEN Append(t, f) ELSE Append(q, f)
  BY <1>1 DEF Added, Full
<1>6. /\ Append(q, f) \in Seq(Frames) /\ Len(Append(q, f)) = l + 1
      /\ \A i \in 1 .. l : Append(q, f)[i] = q[i]
      /\ Append(q, f)[l + 1] = f
  BY <1>1, AppendProperties
<1>7. l # 0 => /\ t \in Seq(Frames) /\ Len(t) = l - 1
               /\ \A i \in 1 .. l - 1 : t[i] = q[i + 1]
  BY <1>1, HeadTailProperties
<1> HIDE DEF t
<1>8. l # 0 => /\ Append(t, f) \in Seq(Frames) /\ Len(Append(t, f)) = l
               /\ \A i \in 1 .. l - 1 : Append(t, f)[i] = t[i]
               /\ Append(t, f)[l] = f
  <2> SUFFICES ASSUME l # 0
               PROVE  /\ Append(t, f) \in Seq(Frames) /\ Len(Append(t, f)) = l
                      /\ \A i \in 1 .. l - 1 : Append(t, f)[i] = t[i]
                      /\ Append(t, f)[l] = f
    OBVIOUS
  <2>1. t \in Seq(Frames) /\ Len(t) = l - 1
    BY <1>7
  <2>2. /\ Append(t, f) \in Seq(Frames) /\ Len(Append(t, f)) = Len(t) + 1
        /\ \A i \in 1 .. Len(t) : Append(t, f)[i] = t[i]
        /\ Append(t, f)[Len(t) + 1] = f
    BY <1>1, <2>1, AppendProperties
  <2>3. Len(t) + 1 = l
    BY <1>1, <2>1
  <2> QED
    BY <2>1, <2>2, <2>3
<1> HIDE DEF f, A, h, l
<1>9. CASE l # 0 /\ MaxFrames # Undefined /\ l >= MaxFrames
  <2> DEFINE r == Append(t, f)
  <2>1. /\ Added(q, f) = r /\ Kept(h + 1) = l /\ r \in Seq(Frames) /\ Len(r) = l
        /\ \A i \in 1 .. l - 1 : r[i] = t[i]
        /\ r[l] = f
    BY <1>4, <1>5, <1>8, <1>9
  <2> HIDE DEF r
  <2>2. ASSUME NEW i \in 1 .. l
        PROVE  r[i] = A[(h + 1) - l + i].frame
    <3>1. CASE i = l
      <4>1. (h + 1) - l + i = h + 1
        BY <1>1, <3>1
      <4> QED
        BY <1>2, <2>1, <3>1, <4>1 DEF f
    <3>2. CASE i # l
      <4>1. i \in 1 .. l - 1 /\ i + 1 \in 1 .. l
        BY <1>1, <3>2
      <4>2. r[i] = heard[h - l + (i + 1)].frame
        BY <1>3, <1>7, <1>9, <2>1, <4>1
      <4>3. h - l + (i + 1) = (h + 1) - l + i /\ (h + 1) - l + i \in 1 .. h
        <5>1. h \in Nat /\ l \in Nat /\ l <= h /\ i \in Nat /\ 1 <= i /\ i <= l - 1
          BY <1>1, <1>3, <4>1
        <5> QED
          BY <5>1
      <4> QED
        BY <1>2, <4>2, <4>3
    <3> QED
      BY <3>1, <3>2
  <2> QED
    BY <1>2, <2>1, <2>2 DEF A, f
<1>10. CASE ~(l # 0 /\ MaxFrames # Undefined /\ l >= MaxFrames)
  <2> DEFINE r == Append(q, f)
  <2>1. /\ Added(q, f) = r /\ Kept(h + 1) = h + 1 /\ l = h
        /\ r \in Seq(Frames) /\ Len(r) = h + 1
        /\ \A i \in 1 .. h : r[i] = q[i]
        /\ r[h + 1] = f
    BY <1>4, <1>5, <1>6, <1>10
  <2> HIDE DEF r
  <2>2. ASSUME NEW i \in 1 .. h + 1
        PROVE  r[i] = A[(h + 1) - (h + 1) + i].frame
    <3>1. (h + 1) - (h + 1) + i = i
      BY <1>1
    <3>2. CASE i = h + 1
      BY <1>2, <2>1, <3>1, <3>2 DEF f
    <3>3. CASE i # h + 1
      <4>1. i \in 1 .. h /\ h - l + i = i
        BY <1>1, <2>1, <3>3
      <4> QED
        BY <1>2, <1>3, <2>1, <3>1, <4>1
    <3> QED
      BY <3>2, <3>3
  <2> QED
    BY <1>2, <2>1, <2>2 DEF A, f
<1> QED
  BY <1>9, <1>10

\* The table is empty at first, and the clock counts.
LEMMA LinkInit == Init => LinkInv
<1> SUFFICES ASSUME Init
             PROVE  LinkInv
  OBVIOUS
<1>1. LinkTypeOK
  BY TimeAssumption DEF Init, LinkTypeOK
<1>2. \A node \in Senders : link[node] = <<>> /\ arrivals[node] = <<>>
  BY DEF Init
<1>3. Len(<<>>) = 0 /\ Kept(0) = 0
  BY KeptBounds
<1>4. KeepsNewest
  BY <1>2, <1>3 DEF KeepsNewest
<1>5. \A node \in Senders : Timely(node)
  BY <1>2, <1>3 DEF Timely
<1> QED
  BY <1>1, <1>4, <1>5 DEF LinkInv

\* Time passes: nothing that has arrived comes to lie in the future.
LEMMA TickStep ==
  ASSUME LinkInv, Tick
  PROVE  LinkInv'
<1>1. now \in Nat /\ now' = now + 1 /\ UNCHANGED <<link, arrivals>>
  BY DEF Tick, LinkInv, LinkTypeOK
<1>2. LinkTypeOK'
  BY <1>1 DEF LinkInv, LinkTypeOK
<1>3. KeepsNewest'
  BY <1>1 DEF LinkInv, KeepsNewest
<1>4. ASSUME NEW node \in Senders
      PROVE  Timely(node)'
  <2>1. Timely(node)
    BY DEF LinkInv
  <2>2. \A i \in 1 .. Len(arrivals[node]) : arrivals[node][i].at \in Nat
    <3>1. arrivals[node] \in Seq(Arrivals)
      BY DEF LinkInv, LinkTypeOK
    <3>2. \A i \in 1 .. Len(arrivals[node]) : arrivals[node][i] \in Arrivals
      BY <3>1
    <3> QED
      BY <3>2 DEF Arrivals
  <2>3. \A i \in 1 .. Len(arrivals[node]) : arrivals[node][i].at <= now + 1
    BY <1>1, <2>1, <2>2 DEF Timely
  <2> QED
    BY <1>1, <2>1, <2>3 DEF Timely
<1> QED
  BY <1>2, <1>3, <1>4 DEF LinkInv

\* A frame is heard: it is stamped, kept, and the last to have arrived.
LEMMA AddFrameStep ==
  ASSUME LinkInv, NEW node \in Senders, addFrame(node)
  PROVE  LinkInv'
<1>1. PICK timestamp \in {Undefined} \union {now + o : o \in Offsets},
           cadence \in Cadences \union {Undefined} :
         LET frame == [timestamp |-> Stamped(timestamp), cadence |-> cadence]
         IN /\ link' = [link EXCEPT ![node] = Added(@, frame)]
            /\ arrivals' = [arrivals EXCEPT ![node] =
                               Append(@, [frame |-> frame, at |-> now])]
  BY DEF addFrame
<1> DEFINE f == [timestamp |-> Stamped(timestamp), cadence |-> cadence]
           a == [frame |-> f, at |-> now]
           q == link[node]
           heard == arrivals[node]
<1>2. /\ link' = [link EXCEPT ![node] = Added(q, f)]
      /\ arrivals' = [arrivals EXCEPT ![node] = Append(heard, a)]
      /\ now' = now
  BY <1>1 DEF addFrame
<1>3. /\ now \in Nat /\ link \in [Senders -> Seq(Frames)]
      /\ arrivals \in [Senders -> Seq(Arrivals)]
      /\ q \in Seq(Frames) /\ heard \in Seq(Arrivals)
  BY DEF LinkInv, LinkTypeOK
<1>4. PICK o \in Offsets \union {0} : Stamped(timestamp) = now + o /\ o \in Int
  <2>1. CASE timestamp = Undefined
    <3>1. Stamped(timestamp) = now + 0
      BY <1>3, <2>1 DEF Stamped
    <3> QED
      BY <3>1
  <2>2. CASE timestamp # Undefined
    BY <2>2, TimeAssumption DEF Stamped
  <2> QED
    BY <2>1, <2>2
<1>5. f \in Frames
  BY <1>3, <1>4, TimeAssumption DEF Frames
<1>6. a \in Arrivals /\ a.frame = f /\ a.at = now
  BY <1>3, <1>5 DEF Arrivals
<1>7. f.timestamp = now + o
  BY <1>4
<1> HIDE DEF f, a, q, heard
<1>8. /\ Len(q) = Kept(Len(heard))
      /\ \A i \in 1 .. Len(q) : q[i] = heard[Len(heard) - Len(q) + i].frame
  BY DEF LinkInv, KeepsNewest, q, heard
<1>9. /\ Added(q, f) \in Seq(Frames)
      /\ Len(Added(q, f)) = Kept(Len(Append(heard, a)))
      /\ \A i \in 1 .. Len(Added(q, f)) :
            Added(q, f)[i] = Append(heard, a)[Len(Append(heard, a)) - Len(Added(q, f)) + i].frame
  BY <1>3, <1>6, <1>8, AddedKeepsNewest
<1>10. /\ Append(heard, a) \in Seq(Arrivals) /\ Len(Append(heard, a)) = Len(heard) + 1
       /\ Len(heard) \in Nat
       /\ \A i \in 1 .. Len(heard) : Append(heard, a)[i] = heard[i]
       /\ Append(heard, a)[Len(heard) + 1] = a
  BY <1>3, <1>6, AppendProperties, LenProperties
<1>11. LinkTypeOK'
  BY <1>2, <1>3, <1>9, <1>10 DEF LinkTypeOK
<1>12. /\ link'[node] = Added(q, f) /\ arrivals'[node] = Append(heard, a)
       /\ \A m \in Senders : m # node => link'[m] = link[m] /\ arrivals'[m] = arrivals[m]
  BY <1>2, <1>3
<1>13. KeepsNewest'
  <2> SUFFICES ASSUME NEW m \in Senders
               PROVE  /\ Len(link'[m]) = Kept(Len(arrivals'[m]))
                      /\ \A i \in 1 .. Kept(Len(arrivals'[m])) :
                            link'[m][i] = arrivals'[m][Len(arrivals'[m])
                                             - Kept(Len(arrivals'[m])) + i].frame
    BY DEF KeepsNewest
  <2>1. CASE m = node
    <3>1. link'[m] = Added(q, f) /\ arrivals'[m] = Append(heard, a)
      BY <1>12, <2>1
    <3> HIDE DEF KeepsNewest
    <3> QED
      BY <1>9, <3>1
  <2>2. CASE m # node
    BY <1>12, <2>2 DEF LinkInv, KeepsNewest
  <2> QED
    BY <2>1, <2>2
<1>14. ASSUME NEW m \in Senders
       PROVE  Timely(m)'
  <2>1. Timely(m)
    BY DEF LinkInv
  <2>2. CASE m # node
    BY <1>2, <1>12, <2>1, <2>2 DEF Timely
  <2>3. CASE m = node
    <3>1. /\ \A i, j \in 1 .. Len(heard) : i < j => heard[i].at <= heard[j].at
          /\ \A i \in 1 .. Len(heard) :
                /\ heard[i].at <= now
                /\ \E p \in Offsets \union {0} : heard[i].frame.timestamp = heard[i].at + p
      BY <2>1, <2>3 DEF Timely, heard
    <3>2. \A i, j \in 1 .. Len(heard) + 1 :
             i < j => Append(heard, a)[i].at <= Append(heard, a)[j].at
      <4> SUFFICES ASSUME NEW i \in 1 .. Len(heard) + 1, NEW j \in 1 .. Len(heard) + 1,
                          i < j
                   PROVE  Append(heard, a)[i].at <= Append(heard, a)[j].at
        OBVIOUS
      <4>1. i \in 1 .. Len(heard)
        BY <1>10
      <4>2. CASE j = Len(heard) + 1
        BY <1>6, <1>10, <3>1, <4>1, <4>2
      <4>3. CASE j \in 1 .. Len(heard)
        BY <1>10, <3>1, <4>1, <4>3
      <4> QED
        BY <1>10, <4>2, <4>3
    <3>3. ASSUME NEW i \in 1 .. Len(heard) + 1
          PROVE  /\ Append(heard, a)[i].at <= now
                 /\ \E p \in Offsets \union {0} :
                       Append(heard, a)[i].frame.timestamp = Append(heard, a)[i].at + p
      <4>1. CASE i \in 1 .. Len(heard)
        BY <1>10, <3>1, <4>1
      <4>2. CASE i = Len(heard) + 1
        <5>1. Append(heard, a)[i] = a
          BY <1>10, <4>2
        <5>2. a.at <= now
          BY <1>3, <1>6
        <5> QED
          BY <1>6, <1>7, <5>1, <5>2
      <4> QED
        BY <1>10, <4>1, <4>2
    <3>4. arrivals'[m] = Append(heard, a) /\ now' = now
      BY <1>2, <1>12, <2>3
    <3>5. Len(arrivals'[m]) = Len(heard) + 1
      BY <1>10, <3>4
    <3> QED
      BY <3>2, <3>3, <3>4, <3>5 DEF Timely
  <2> QED
    BY <2>2, <2>3
<1> QED
  BY <1>11, <1>13, <1>14 DEF LinkInv

\* The inductive invariant of the link table holds of every behaviour: the table
\* has the newest frames of each sender, and those came in the order of time.
THEOREM LinkInvCorrect == Spec => []LinkInv
<1>1. LinkInv /\ [Next]_vars => LinkInv'
  <2> SUFFICES ASSUME LinkInv, [Next]_vars
               PROVE  LinkInv'
    OBVIOUS
  <2>1. CASE Tick
    BY <2>1, TickStep
  <2>2. CASE \E node \in Senders : addFrame(node)
    BY <2>2, AddFrameStep
  <2>3. CASE UNCHANGED vars
    <3>1. LinkTypeOK' /\ KeepsNewest'
      BY <2>3 DEF vars, LinkInv, LinkTypeOK, KeepsNewest
    <3>2. \A node \in Senders : Timely(node)'
      BY <2>3 DEF vars, LinkInv, Timely
    <3> QED
      BY <3>1, <3>2 DEF LinkInv
  <2> QED
    BY <2>1, <2>2, <2>3 DEF Next
<1> QED
  BY <1>1, LinkInit, PTL DEF Spec

\* The window is the newest frames heard, in their order, for every table size
\* (0 and none included) and any number of frames and senders.
THEOREM KeepsNewestCorrect == Spec => []KeepsNewest
<1>1. LinkInv => KeepsNewest
  BY DEF LinkInv
<1> QED
  BY <1>1, LinkInvCorrect, PTL

\* Every frame ever heard from a sender, in order.
All(node) == [i \in DOMAIN arrivals[node] |-> arrivals[node][i].frame]

\* All frames that ever arrived from a sender, as a sequence.
LEMMA AllTyped ==
  ASSUME LinkInv, NEW node \in Senders
  PROVE  /\ All(node) \in Seq(Frames) /\ Len(All(node)) = Len(arrivals[node])
         /\ \A i \in 1 .. Len(arrivals[node]) :
               /\ All(node)[i] = arrivals[node][i].frame
               /\ arrivals[node][i].at \in Nat /\ arrivals[node][i].frame \in Frames
<1>1. /\ arrivals[node] \in Seq(Arrivals) /\ Len(arrivals[node]) \in Nat
      /\ DOMAIN arrivals[node] = 1 .. Len(arrivals[node])
  BY DEF LinkInv, LinkTypeOK
<1>2. \A i \in 1 .. Len(arrivals[node]) :
         arrivals[node][i].at \in Nat /\ arrivals[node][i].frame \in Frames
  <2>1. \A a \in Arrivals : a.at \in Nat /\ a.frame \in Frames
    BY DEF Arrivals
  <2> QED
    BY <1>1, <2>1
<1>3. All(node) \in [1 .. Len(arrivals[node]) -> Frames]
  BY <1>1, <1>2 DEF All
<1>4. All(node) \in Seq(Frames)
  BY <1>1, <1>3, SeqDef
<1>5. Len(All(node)) = Len(arrivals[node])
  BY <1>1, <1>3, <1>4, LenProperties
<1> QED
  BY <1>1, <1>2, <1>4, <1>5 DEF All

\* The last cadence announced is one: there is a last place where one is.
LEMMA CadenceType ==
  ASSUME NEW q \in Seq(Frames)
  PROVE  /\ LastCadence(q) \in Cadences \union {Fallback}
         /\ LastCadence(q) \in Nat \ {0}
<1> SUFFICES LastCadence(q) \in Cadences \union {Fallback}
  BY TimeAssumption
<1> DEFINE announced == {i \in DOMAIN q : q[i].cadence # Undefined}
<1>1. CASE announced = {}
  BY <1>1, TimeAssumption DEF LastCadence
<1>2. CASE announced # {}
  <2>1. DOMAIN q = 1 .. Len(q) /\ Len(q) \in Nat /\ \A i \in 1 .. Len(q) : q[i] \in Frames
    OBVIOUS
  <2>2. announced \subseteq 0 .. Len(q)
    BY <2>1
  <2>3. \E i \in announced : \A j \in announced : j <= i
    BY <1>2, <2>1, <2>2, GreatestNatural
  <2> DEFINE k == CHOOSE i \in announced : \A j \in announced : j <= i
  <2>4. k \in announced
    BY <2>3
  <2>5. LastCadence(q) = q[k].cadence
    BY <1>2 DEF LastCadence
  <2> HIDE DEF k
  <2>6. q[k].cadence # Undefined /\ q[k] \in Frames
    BY <2>1, <2>4
  <2> QED
    BY <2>5, <2>6 DEF Frames
<1> QED
  BY <1>1, <1>2

\* A pdr needs no more than so many recent frames that they fill ten seconds.
LEMMA PdrFull ==
  ASSUME NEW q \in Seq(Frames), NEW k \in Nat, Cardinality(Recent(q)) \in Nat,
         Cardinality(Recent(q)) >= k, k * LastCadence(q) >= TEN_SECONDS
  PROVE  Pdr(q) = FullPdr
<1> DEFINE c == LastCadence(q)
           r == Cardinality(Recent(q))
<1>1. c \in Nat /\ r \in Nat /\ r >= k /\ k * c >= TEN_SECONDS /\ TEN_SECONDS \in Nat \ {0}
  BY CadenceType, TimeAssumption
<1>2. Pdr(q) = AtMost(100 * TEN_SECONDS, 100 * r * c)
  BY DEF Pdr, FullPdr
<1> HIDE DEF c, r
<1>3. 100 * r * c >= 100 * TEN_SECONDS /\ 100 * r * c \in Nat
  BY <1>1
<1> QED
  BY <1>1, <1>2, <1>3 DEF AtMost, FullPdr

\* The recent frames of a sequence are finitely many.
LEMMA RecentFinite ==
  ASSUME NEW q \in Seq(Frames)
  PROVE  /\ Recent(q) \subseteq 1 .. Len(q)
         /\ IsFiniteSet(Recent(q)) /\ Cardinality(Recent(q)) \in Nat
<1>1. Recent(q) \subseteq 1 .. Len(q) /\ Len(q) \in Nat
  BY DEF Recent
<1>2. IsFiniteSet(1 .. Len(q))
  BY <1>1, FS_Interval
<1>3. IsFiniteSet(Recent(q))
  BY <1>1, <1>2, FS_Subset
<1> QED
  BY <1>1, <1>3, FS_CardinalityType

\* What a sender has not sent lately is not recent: its frames are stamped no
\* later than its clock is ahead.
LEMMA SilentDecays == LinkInv => SilentLinkDecays
<1> SUFFICES ASSUME LinkInv, NEW node \in Senders, Silent(node)
             PROVE  Pdr(link[node]) = 0
  BY DEF SilentLinkDecays
<1> DEFINE q == link[node]
           h == Len(arrivals[node])
<1>1. q \in Seq(Frames) /\ arrivals[node] \in Seq(Arrivals) /\ h \in Nat /\ now \in Nat
      /\ DOMAIN arrivals[node] = 1 .. h /\ DOMAIN q = 1 .. Len(q) /\ Len(q) \in Nat
  BY DEF LinkInv, LinkTypeOK
<1>2. /\ Len(q) = Kept(h) /\ Kept(h) \in Nat /\ Kept(h) <= h
      /\ \A i \in 1 .. Kept(h) : q[i] = arrivals[node][h - Kept(h) + i].frame
  BY <1>1, KeptBounds DEF LinkInv, KeepsNewest
<1>3. ASSUME NEW i \in 1 .. Len(q)
      PROVE  ~(q[i].timestamp > now - TEN_SECONDS)
  <2> DEFINE j == h - Kept(h) + i
  <2>1. j \in 1 .. h
    BY <1>1, <1>2
  <2>2. q[i] = arrivals[node][j].frame
    BY <1>2
  <2> HIDE DEF j
  <2>3. PICK o \in Offsets \union {0} :
           arrivals[node][j].frame.timestamp = arrivals[node][j].at + o
    BY <2>1 DEF LinkInv, Timely
  <2>4. arrivals[node][j].at + o <= now - TEN_SECONDS
    BY <1>1, <2>1 DEF Silent
  <2>5. arrivals[node][j].at \in Nat /\ o \in Int /\ TEN_SECONDS \in Nat
    BY <2>1, AllTyped, TimeAssumption
  <2>6. q[i].timestamp = arrivals[node][j].at + o
    BY <2>2, <2>3
  <2> DEFINE at == arrivals[node][j].at
             stamp == q[i].timestamp
  <2>7. /\ now \in Nat /\ at \in Nat /\ o \in Int /\ TEN_SECONDS \in Nat
        /\ at + o <= now - TEN_SECONDS /\ stamp = at + o
    BY <1>1, <2>4, <2>5, <2>6
  <2> HIDE DEF at, stamp
  <2>8. ~(stamp > now - TEN_SECONDS)
    BY <2>7
  <2> QED
    BY <2>8 DEF stamp
<1>4. Recent(q) = {}
  BY <1>1, <1>3 DEF Recent
<1>5. Cardinality(Recent(q)) = 0
  BY <1>4, FS_EmptySet
<1> DEFINE c == LastCadence(q)
<1>6. c \in Nat /\ TEN_SECONDS \in Nat \ {0}
  BY <1>1, CadenceType, TimeAssumption
<1>7. Pdr(q) = AtMost(100 * TEN_SECONDS, 100 * 0 * c)
  BY <1>5 DEF Pdr, FullPdr
<1> HIDE DEF c
<1>8. 100 * 0 * c = 0 /\ ~(100 * TEN_SECONDS <= 0)
  BY <1>6
<1>9. AtMost(100 * TEN_SECONDS, 100 * 0 * c) = 100 * 0 * c
  BY <1>8 DEF AtMost
<1> QED
  BY <1>7, <1>8, <1>9

\* A link nothing has come from for ten seconds, and as long as its sender's
\* clock may be ahead, has a pdr of 0, whatever frames the table keeps of it.
THEOREM SilentLinkDecaysCorrect == Spec => []SilentLinkDecays
BY SilentDecays, LinkInvCorrect, PTL

\* If the clocks agree, what the table has dropped changes the number of recent
\* frames only when it still keeps maxFrames of them.
LEMMA RecentKept ==
  ASSUME LinkInv, NEW node \in Senders, ClocksAgree(node)
  PROVE  LET kept == Cardinality(Recent(link[node]))
             all == Cardinality(Recent(All(node)))
         IN kept = all \/ (MaxFrames \in Nat /\ MaxFrames <= kept /\ MaxFrames <= all)
<1> DEFINE q == link[node]
           A == All(node)
           h == Len(arrivals[node])
           l == Kept(h)
           d == h - l
<1>1. q \in Seq(Frames) /\ h \in Nat /\ now \in Nat /\ TEN_SECONDS \in Nat
      /\ DOMAIN q = 1 .. Len(q) /\ DOMAIN arrivals[node] = 1 .. h
  BY TimeAssumption DEF LinkInv, LinkTypeOK
<1>2. /\ Len(q) = l /\ l \in Nat /\ l <= h
      /\ \A i \in 1 .. l : q[i] = arrivals[node][d + i].frame
      /\ l # h => MaxFrames \in Nat /\ MaxFrames <= l
  BY <1>1, KeptBounds DEF LinkInv, KeepsNewest
<1>3. /\ A \in Seq(Frames) /\ Len(A) = h /\ DOMAIN A = 1 .. h
      /\ \A i \in 1 .. h : /\ A[i] = arrivals[node][i].frame
                           /\ arrivals[node][i].at \in Nat
  BY <1>1, AllTyped
<1>4. \A i \in 1 .. h : A[i].timestamp = arrivals[node][i].at /\ A[i].timestamp \in Nat
  BY <1>1, <1>3 DEF ClocksAgree
<1>5. \A i, j \in 1 .. h : i < j => A[i].timestamp <= A[j].timestamp
  BY <1>4 DEF LinkInv, Timely
<1>6. IsFiniteSet(Recent(q)) /\ IsFiniteSet(Recent(A))
  BY <1>1, <1>3, RecentFinite
<1>7. /\ \A i : i \in Recent(q) <=> i \in 1 .. l /\ q[i].timestamp > now - TEN_SECONDS
      /\ \A i : i \in Recent(A) <=> i \in 1 .. h /\ A[i].timestamp > now - TEN_SECONDS
  BY <1>1, <1>2, <1>3 DEF Recent
<1>8. d = h - l
  OBVIOUS
<1> HIDE DEF q, A, h, l, d
<1>9. d \in Nat /\ d + l = h /\ (d # 0 => l # h)
  BY <1>1, <1>2, <1>8
<1>10. \A i \in 1 .. l : d + i \in 1 .. h /\ q[i] = A[d + i]
  <2> SUFFICES ASSUME NEW i \in 1 .. l
               PROVE  d + i \in 1 .. h /\ q[i] = A[d + i]
    OBVIOUS
  <2>1. d + i \in 1 .. h
    BY <1>1, <1>2, <1>9
  <2> QED
    BY <1>2, <1>3, <2>1
<1>11. CASE \E j \in Recent(A) : j <= d
  <2>1. PICK j \in Recent(A) : j <= d
    BY <1>11
  <2>2. j \in 1 .. h /\ A[j].timestamp > now - TEN_SECONDS
    BY <1>7
  <2>3. MaxFrames \in Nat /\ MaxFrames <= l
    BY <1>2, <1>9, <2>1, <2>2
  <2>4. \A i \in (d + 1) .. h : i \in 1 .. h /\ j < i
    BY <1>1, <1>9, <2>1, <2>2
  <2>5. \A i \in (d + 1) .. h : A[i].timestamp > now - TEN_SECONDS
    BY <1>1, <1>4, <1>5, <2>2, <2>4
  <2>6. (d + 1) .. h \subseteq Recent(A)
    BY <1>7, <2>4, <2>5
  <2>7. 1 .. l \subseteq Recent(q)
    <3>1. \A i \in 1 .. l : d + i \in (d + 1) .. h
      BY <1>2, <1>9
    <3> QED
      BY <1>7, <1>10, <2>5, <3>1
  <2>8. Cardinality((d + 1) .. h) = l /\ Cardinality(1 .. l) = l
    <3>1. /\ Cardinality((d + 1) .. h) = IF d + 1 > h THEN 0 ELSE h - (d + 1) + 1
          /\ d + 1 \in Int /\ h \in Int
      BY <1>1, <1>9, FS_Interval
    <3>2. Cardinality(1 .. l) = IF 1 > l THEN 0 ELSE l - 1 + 1
      BY <1>2, FS_Interval
    <3> QED
      BY <1>1, <1>2, <1>9, <3>1, <3>2
  <2>9. l <= Cardinality(Recent(A))
    BY <1>6, <2>6, <2>8, FS_Subset
  <2>10. l <= Cardinality(Recent(q))
    BY <1>6, <2>7, <2>8, FS_Subset
  <2>11. Cardinality(Recent(A)) \in Nat /\ Cardinality(Recent(q)) \in Nat
    BY <1>6, FS_CardinalityType
  <2>12. MaxFrames <= Cardinality(Recent(q)) /\ MaxFrames <= Cardinality(Recent(A))
    BY <1>2, <2>3, <2>9, <2>10, <2>11
  <2> QED
    BY <2>3, <2>12 DEF q, A
<1>12. CASE ~\E j \in Recent(A) : j <= d
  <2> DEFINE f == [i \in Recent(q) |-> d + i]
  <2>1. \A i \in Recent(q) : d + i \in Recent(A) /\ i \in Nat
    BY <1>7, <1>10
  <2>2. ASSUME NEW j \in Recent(A)
        PROVE  \E i \in Recent(q) : f[i] = j
    <3>1. j \in 1 .. h /\ ~(j <= d) /\ A[j].timestamp > now - TEN_SECONDS
      BY <1>7, <1>12
    <3>2. j - d \in 1 .. l /\ d + (j - d) = j
      BY <1>1, <1>2, <1>9, <3>1
    <3>3. j - d \in Recent(q)
      BY <1>7, <1>10, <3>1, <3>2
    <3> QED
      BY <3>2, <3>3
  <2>3. f \in [Recent(q) -> Recent(A)]
    BY <2>1
  <2>4. \A i, j \in Recent(q) : f[i] = f[j] => i = j
    BY <1>9, <2>1
  <2>5. f \in Bijection(Recent(q), Recent(A))
    BY <2>2, <2>3, <2>4 DEF Bijection, Injection, Surjection, IsInjective
  <2>6. ExistsBijection(Recent(q), Recent(A))
    BY <2>5 DEF ExistsBijection
  <2>7. Cardinality(Recent(A)) = Cardinality(Recent(q))
    BY <1>6, <2>6, FS_Bijection
  <2> QED
    BY <2>7 DEF q, A
<1> QED
  BY <1>11, <1>12

\* With maxFrames recent frames, or as many as were heard, the pdr is the same.
LEMMA WindowEnough == LinkInv => WindowSuffices
<1> SUFFICES ASSUME LinkInv, NEW node \in Senders, ClocksAgree(node),
                    MaxFrames # Undefined =>
                       MaxFrames * LastCadence(link[node]) >= TEN_SECONDS,
                    LastCadence(link[node]) = LastCadence(All(node))
             PROVE  Pdr(link[node]) = Pdr(All(node))
  BY DEF WindowSuffices, All
<1>1. link[node] \in Seq(Frames) /\ All(node) \in Seq(Frames)
  BY AllTyped DEF LinkInv, LinkTypeOK
<1>2. CASE Cardinality(Recent(link[node])) = Cardinality(Recent(All(node)))
  BY <1>2 DEF Pdr
<1>3. CASE /\ MaxFrames \in Nat
           /\ MaxFrames <= Cardinality(Recent(link[node]))
           /\ MaxFrames <= Cardinality(Recent(All(node)))
  <2>1. MaxFrames * LastCadence(link[node]) >= TEN_SECONDS
    BY <1>3, UndefinedAssumption
  <2>2. /\ Cardinality(Recent(link[node])) \in Nat
        /\ Cardinality(Recent(All(node))) \in Nat
    BY <1>1, RecentFinite
  <2>3. Pdr(link[node]) = FullPdr
    BY <1>1, <1>3, <2>1, <2>2, PdrFull
  <2>4. Pdr(All(node)) = FullPdr
    BY <1>1, <1>3, <2>1, <2>2, PdrFull
  <2> QED
    BY <2>3, <2>4
<1> QED
  BY <1>2, <1>3, RecentKept

\* A table that can hold the frames expected in ten seconds loses nothing by its
\* bound: if the clocks agree, the pdr is that of everything ever heard.
THEOREM WindowSufficesCorrect == Spec => []WindowSuffices
BY WindowEnough, LinkInvCorrect, PTL

\* Multiples of a cadence keep their order, and lie a cadence apart.
LEMMA MultiplesApart ==
  ASSUME NEW c \in Nat, NEW j \in Nat, NEW k \in Nat, j < k
  PROVE  j * c \in Nat /\ k * c \in Nat /\ j * c + c <= k * c
OBVIOUS

\* A frame in each of the windows of a cadence's length that make up ten seconds
\* are as many recent frames as windows: no frame lies in two of them.
LEMMA FullEnough == LinkInv => FullLink
<1> SUFFICES ASSUME LinkInv, NEW node \in Senders, ClocksAgree(node),
                    MaxFrames # Undefined =>
                       MaxFrames * LastCadence(link[node]) >= TEN_SECONDS,
                    TEN_SECONDS % LastCadence(link[node]) = 0,
                    \A t \in (now - TEN_SECONDS + 1) .. now :
                       \E i \in DOMAIN arrivals[node] :
                          /\ arrivals[node][i].frame.timestamp > t - LastCadence(link[node])
                          /\ arrivals[node][i].frame.timestamp <= t
             PROVE  Pdr(link[node]) = FullPdr
  BY DEF FullLink
<1> DEFINE q == link[node]
           A == All(node)
           c == LastCadence(q)
           K == TEN_SECONDS \div c
           t(k) == now - TEN_SECONDS + k * c
<1>1. /\ q \in Seq(Frames) /\ A \in Seq(Frames) /\ DOMAIN A = DOMAIN arrivals[node]
      /\ \A i \in DOMAIN A : A[i].timestamp = arrivals[node][i].frame.timestamp
                             /\ A[i].timestamp \in Int
  <2>1. \A i \in 1 .. Len(arrivals[node]) : arrivals[node][i].frame.timestamp \in Int
    BY AllTyped DEF Frames
  <2>2. link[node] \in Seq(Frames) /\ arrivals[node] \in Seq(Arrivals)
    BY DEF LinkInv, LinkTypeOK
  <2>3. /\ All(node) \in Seq(Frames) /\ Len(All(node)) = Len(arrivals[node])
        /\ \A i \in 1 .. Len(arrivals[node]) : All(node)[i] = arrivals[node][i].frame
    BY AllTyped
  <2>4. DOMAIN All(node) = 1 .. Len(All(node))
        /\ DOMAIN arrivals[node] = 1 .. Len(arrivals[node])
    BY <2>2, <2>3
  <2> QED
    BY <2>1, <2>2, <2>3, <2>4
<1>2. c \in Nat \ {0} /\ now \in Nat /\ TEN_SECONDS \in Nat \ {0}
  BY <1>1, CadenceType, TimeAssumption DEF LinkInv, LinkTypeOK
<1>3. ASSUME NEW s \in (now - TEN_SECONDS + 1) .. now
      PROVE  \E i \in DOMAIN A : A[i].timestamp > s - c /\ A[i].timestamp <= s
  BY <1>1
<1>4. TEN_SECONDS % c = 0
  OBVIOUS
<1> HIDE DEF q, A, c
<1>5. K \in Nat /\ K * c = TEN_SECONDS
  BY <1>2, <1>4
<1> HIDE DEF K
<1>6. ASSUME NEW k \in 1 .. K
      PROVE  t(k) \in (now - TEN_SECONDS + 1) .. now /\ k * c \in Nat
             /\ t(k) - c >= now - TEN_SECONDS
  <2>1. 0 * c + c <= k * c /\ k * c \in Nat /\ 0 * c = 0
    BY <1>2, <1>5, MultiplesApart
  <2>2. k * c <= K * c
    BY <1>2, <1>5
  <2> QED
    BY <1>2, <1>5, <2>1, <2>2
<1>7. ASSUME NEW j \in 1 .. K, NEW k \in 1 .. K, j < k
      PROVE  t(j) <= t(k) - c
  <2>1. j * c \in Nat /\ k * c \in Nat /\ j * c + c <= k * c
    BY <1>2, <1>5, <1>7, MultiplesApart
  <2> QED
    BY <1>2, <2>1
<1>8. \A k \in 1 .. K : t(k) \in Int
  BY <1>2, <1>6
<1> HIDE DEF t
<1> DEFINE f == [k \in 1 .. K |->
                    CHOOSE i \in DOMAIN A : A[i].timestamp > t(k) - c /\ A[i].timestamp <= t(k)]
<1>9. ASSUME NEW k \in 1 .. K
      PROVE  f[k] \in DOMAIN A /\ A[f[k]].timestamp > t(k) - c /\ A[f[k]].timestamp <= t(k)
  <2>1. \E i \in DOMAIN A : A[i].timestamp > t(k) - c /\ A[i].timestamp <= t(k)
    BY <1>3, <1>6
  <2>2. f[k] = CHOOSE i \in DOMAIN A : A[i].timestamp > t(k) - c /\ A[i].timestamp <= t(k)
    OBVIOUS
  <2> HIDE DEF f
  <2> QED
    BY <2>1, <2>2
<1>10. \A k \in 1 .. K : f[k] \in Recent(A)
  <2> SUFFICES ASSUME NEW k \in 1 .. K
               PROVE  f[k] \in Recent(A)
    OBVIOUS
  <2>1. A[f[k]].timestamp \in Int /\ f[k] \in DOMAIN A /\ A[f[k]].timestamp > t(k) - c
    BY <1>1, <1>9 DEF A
  <2>2. A[f[k]].timestamp > now - TEN_SECONDS
    BY <1>2, <1>6, <1>8, <2>1
  <2> QED
    BY <2>1, <2>2 DEF Recent
<1>11. ASSUME NEW j \in 1 .. K, NEW k \in 1 .. K, j < k
       PROVE  f[j] # f[k]
  <2>1. A[f[j]].timestamp <= t(j) /\ A[f[k]].timestamp > t(k) - c
    BY <1>9
  <2>2. A[f[j]].timestamp \in Int /\ A[f[k]].timestamp \in Int
    BY <1>1, <1>9 DEF A
  <2> HIDE DEF f
  <2> QED
    BY <1>2, <1>7, <1>8, <1>11, <2>1, <2>2
<1>12. f \in [1 .. K -> Recent(A)]
  BY <1>10
<1> HIDE DEF f
<1>13. f \in Injection(1 .. K, Recent(A))
  <2>1. \A j, k \in 1 .. K : f[j] = f[k] => j = k
    BY <1>5, <1>11
  <2> QED
    BY <1>12, <2>1 DEF Injection, IsInjective
<1>14. IsFiniteSet(Recent(A)) /\ Cardinality(Recent(A)) \in Nat
       /\ Cardinality(Recent(q)) \in Nat
  BY <1>1, RecentFinite DEF A, q
<1>15. Cardinality(1 .. K) = K
  BY <1>5, FS_Interval
<1>16. K <= Cardinality(Recent(A))
  BY <1>13, <1>14, <1>15, FS_Injection
<1>17. CASE Cardinality(Recent(q)) = Cardinality(Recent(A))
  <2>1. Cardinality(Recent(q)) >= K /\ K * LastCadence(q) >= TEN_SECONDS
    BY <1>5, <1>2, <1>14, <1>16, <1>17 DEF c
  <2>2. q \in Seq(Frames)
    BY <1>1 DEF q
  <2> QED
    BY <1>5, <1>14, <2>1, <2>2, PdrFull DEF q
<1>18. CASE MaxFrames \in Nat /\ MaxFrames <= Cardinality(Recent(q))
  <2>1. MaxFrames * LastCadence(q) >= TEN_SECONDS
    BY <1>18, UndefinedAssumption DEF q
  <2>2. q \in Seq(Frames) /\ Cardinality(Recent(q)) >= MaxFrames
    BY <1>1, <1>14, <1>18 DEF q
  <2> QED
    BY <1>14, <1>18, <2>1, <2>2, PdrFull DEF q
<1> QED
  BY <1>17, <1>18, RecentKept DEF q, A

\* A sender whose heartbeats have all come in for ten seconds has a full pdr,
\* in any table that can hold them and for every cadence that divides the period.
THEOREM FullLinkCorrect == Spec => []FullLink
BY FullEnough, LinkInvCorrect, PTL

-----------------------------------------------------------------------------
\* The mean of the pdrs.
\* The function by which MapThenSumSet is defined.
SumOver(K) ==
    CHOOSE g : g = [s \in SUBSET K |->
        IF s = {} THEN 0
        ELSE Pdr(link[CHOOSE x \in s : TRUE]) + g[s \ {CHOOSE x \in s : TRUE}]]

\* A pdr is at most full, and 0 just when there are no recent frames.
LEMMA PdrBounds ==
  ASSUME NEW q \in Seq(Frames)
  PROVE  /\ Pdr(q) \in 0 .. FullPdr
         /\ Pdr(q) = 0 <=> Recent(q) = {}
<1> DEFINE c == LastCadence(q)
           r == Cardinality(Recent(q))
<1>1. /\ c \in Nat /\ c # 0 /\ r \in Nat /\ (r = 0 <=> Recent(q) = {})
      /\ TEN_SECONDS \in Nat /\ TEN_SECONDS # 0
  BY CadenceType, RecentFinite, FS_EmptySet, TimeAssumption
<1>2. Pdr(q) = AtMost(100 * TEN_SECONDS, 100 * r * c)
  BY DEF Pdr, FullPdr
<1> HIDE DEF c, r
<1>3. 100 * r * c \in Nat /\ (100 * r * c = 0 <=> r = 0)
  BY <1>1
<1>4. 100 * TEN_SECONDS \in Nat /\ 100 * TEN_SECONDS # 0
  BY <1>1
<1>5. Pdr(q) \in 0 .. 100 * TEN_SECONDS /\ (Pdr(q) = 0 <=> r = 0)
  BY <1>2, <1>3, <1>4 DEF AtMost
<1> QED
  BY <1>1, <1>5 DEF FullPdr

\* A full pdr is a positive number.
LEMMA FullPdrType == FullPdr \in Nat \ {0}
BY TimeAssumption DEF FullPdr

\* The sum of pdrs is defined: its recursion has a solution.
LEMMA SumExists ==
  ASSUME NEW K, IsFiniteSet(K), \A x \in K : Pdr(link[x]) \in Nat
  PROVE  \E g : g = [s \in SUBSET K |->
            IF s = {} THEN 0
            ELSE Pdr(link[CHOOSE x \in s : TRUE]) + g[s \ {CHOOSE x \in s : TRUE}]]
<1> DEFINE w == [x \in K |-> Pdr(link[x])]
           total == SumOf(K, w)
<1>1. w \in [K -> Nat] /\ \A x \in K : w[x] = Pdr(link[x])
  OBVIOUS
<1> HIDE DEF w
<1>2. /\ total \in [SUBSET K -> Nat] /\ total[{}] = 0
      /\ \A s \in SUBSET K : s # {} => total[s] = w[Picked(s)] + total[s \ {Picked(s)}]
  BY <1>1, SumRecursion
<1> HIDE DEF total
<1>3. \A s \in SUBSET K : s # {} => Picked(s) \in K
  BY PickedOut
<1>4. \A s \in SUBSET K :
         total[s] = IF s = {} THEN 0
                ELSE Pdr(link[CHOOSE x \in s : TRUE]) + total[s \ {CHOOSE x \in s : TRUE}]
  BY <1>1, <1>2, <1>3 DEF Picked
<1>5. total = [s \in SUBSET K |-> total[s]]
  BY <1>2
<1>6. total = [s \in SUBSET K |->
             IF s = {} THEN 0
             ELSE Pdr(link[CHOOSE x \in s : TRUE]) + total[s \ {CHOOSE x \in s : TRUE}]]
  BY <1>4, <1>5, Zenon
<1> QED
  BY <1>6, Zenon

\* A sum is at least each of its terms, and at most full for each that is not 0.
LEMMA SumBounds ==
  ASSUME NEW K, IsFiniteSet(K), \A x \in K : Pdr(link[x]) \in 0 .. FullPdr
  PROVE  /\ SumOver(K)[K] \in Nat
         /\ SumOver(K)[K] <= FullPdr * Cardinality({x \in K : Pdr(link[x]) # 0})
         /\ \A x \in K : Pdr(link[x]) <= SumOver(K)[K]
<1> DEFINE g == SumOver(K)
           N(s) == {x \in s : Pdr(link[x]) # 0}
           Bounded(s) == /\ g[s] \in Nat
                         /\ g[s] <= FullPdr * Cardinality(N(s))
                         /\ \A x \in s : Pdr(link[x]) <= g[s]
           T == {n \in Nat : \A s \in SUBSET K : Cardinality(s) <= n => Bounded(s)}
<1>1. g = [s \in SUBSET K |->
             IF s = {} THEN 0
             ELSE Pdr(link[CHOOSE x \in s : TRUE]) + g[s \ {CHOOSE x \in s : TRUE}]]
  <2>1. \A x \in K : Pdr(link[x]) \in Nat
    BY FullPdrType
  <2> HIDE DEF Pdr
  <2> QED
    BY <2>1, SumExists DEF SumOver
<1>2. g[{}] = 0 /\ \A s \in SUBSET K :
         s # {} => g[s] = Pdr(link[Picked(s)]) + g[s \ {Picked(s)}]
  BY <1>1 DEF Picked
<1> HIDE DEF g
<1>3. Bounded({})
  <2>1. Cardinality(N({})) = 0
    BY FS_EmptySet
  <2>2. FullPdr * 0 = 0
    BY FullPdrType
  <2> HIDE DEF N
  <2> QED
    BY <1>2, <2>1, <2>2
<1>4. 0 \in T
  <2>1. ASSUME NEW s \in SUBSET K, Cardinality(s) <= 0
        PROVE  s = {}
    BY <2>1, SubsetSize
  <2> HIDE DEF Bounded
  <2> QED
    BY <1>3, <2>1
<1>5. ASSUME NEW n \in Nat, n \in T
      PROVE  n + 1 \in T
  <2> HIDE DEF Bounded
  <2> SUFFICES ASSUME NEW s \in SUBSET K, Cardinality(s) <= n + 1, s # {}
               PROVE  Bounded(s)
    BY <1>3
  <2> USE DEF Bounded
  <2> DEFINE p == Picked(s)
             r == s \ {p}
  <2>1. p \in s /\ p \in K /\ r \in SUBSET K /\ Cardinality(r) <= n
    BY PickedOut
  <2>2. g[s] = Pdr(link[p]) + g[r]
    BY <1>2
  <2>3. Bounded(r)
    BY <1>5, <2>1
  <2>4. Pdr(link[p]) \in 0 .. FullPdr
    BY <2>1
  <2>5. N(s) = IF Pdr(link[p]) # 0 THEN N(r) \union {p} ELSE N(r)
    BY <2>1
  <2>6. p \notin N(r) /\ IsFiniteSet(N(r))
    BY <2>1, FS_Subset
  <2>7. Cardinality(N(r) \union {p}) = Cardinality(N(r)) + 1 /\ Cardinality(N(r)) \in Nat
    BY <2>6, FS_AddElement, FS_CardinalityType
  <2>8. \A x \in s : x = p \/ x \in r
    OBVIOUS
  <2>9. \A x \in s : Pdr(link[x]) \in 0 .. FullPdr
    OBVIOUS
  <2>10. Cardinality(N(s)) = IF Pdr(link[p]) # 0 THEN Cardinality(N(r)) + 1
                             ELSE Cardinality(N(r))
    BY <2>5, <2>7
  <2> HIDE DEF N, p, r
  <2>11. g[s] \in Nat /\ g[s] <= FullPdr * Cardinality(N(s))
    BY <2>2, <2>3, <2>4, <2>7, <2>10, FullPdrType
  <2>12. \A x \in s : Pdr(link[x]) <= g[s]
    <3> SUFFICES ASSUME NEW x \in s
                 PROVE  Pdr(link[x]) <= g[s]
      OBVIOUS
    <3>1. CASE x = p
      BY <2>2, <2>3, <2>4, <3>1
    <3>2. CASE x \in r
      BY <2>2, <2>3, <2>4, <2>9, <3>2
    <3> QED
      BY <2>8, <3>1, <3>2
  <2> QED
    BY <2>11, <2>12
<1> HIDE DEF Bounded
<1>6. \A n \in Nat : n \in T
  BY <1>4, <1>5, SetInduction
<1>7. Cardinality(K) \in Nat /\ K \in SUBSET K
  BY FS_CardinalityType
<1>8. Bounded(K)
  BY <1>6, <1>7
<1> QED
  BY <1>8 DEF Bounded, g

\* The mean counts every sender that was ever heard, and only those that are
\* not silent give anything to it.
LEMMA MeanShared == LinkInv => SilentWeighOnMean
<1> DEFINE heard == {node \in Senders : arrivals[node] # <<>>}
           alive == {node \in heard : ~Silent(node)}
           sum == SumOver(Known)[Known]
<1> SUFFICES ASSUME LinkInv
             PROVE  /\ updateAll.of * Cardinality(heard)
                          <= FullPdr * Cardinality(alive) * updateAll.by
                    /\ updateAll.of = 0 <=> \A node \in alive : Recent(link[node]) = {}
  BY DEF SilentWeighOnMean
<1>1. \A node \in Senders : /\ link[node] \in Seq(Frames)
                            /\ arrivals[node] \in Seq(Arrivals)
  BY DEF LinkInv, LinkTypeOK
<1>2. ASSUME NEW node \in Senders
      PROVE  link[node] # <<>> <=> arrivals[node] # <<>>
  <2>1. Len(arrivals[node]) \in Nat /\ Len(link[node]) = Kept(Len(arrivals[node]))
    BY <1>1 DEF LinkInv, KeepsNewest
  <2>2. Len(link[node]) = 0 <=> Len(arrivals[node]) = 0
    BY <2>1, KeptBounds
  <2> QED
    BY <1>1, <2>2, EmptySeq
<1>3. Known = heard
  BY <1>2 DEF Known
<1>4. \A node \in Senders : Silent(node) => Pdr(link[node]) = 0
  BY SilentDecays DEF SilentLinkDecays
<1>5. ASSUME NEW node \in Senders
      PROVE  /\ Pdr(link[node]) \in 0 .. FullPdr
             /\ Pdr(link[node]) = 0 <=> Recent(link[node]) = {}
  BY <1>1, PdrBounds
<1>6. IsFiniteSet(Known) /\ IsFiniteSet(alive)
  BY <1>3, SendersAssumption, FS_Subset
<1>7. /\ sum \in Nat
      /\ sum <= FullPdr * Cardinality({x \in Known : Pdr(link[x]) # 0})
      /\ \A x \in Known : Pdr(link[x]) <= sum
  <2>1. \A x \in Known : Pdr(link[x]) \in 0 .. FullPdr
    BY <1>5 DEF Known
  <2> QED
    BY <1>6, <2>1, SumBounds
<1>8. updateAll = OverKnown(sum)
  <2> HIDE DEF Pdr, Known
  <2> QED
    BY DEF updateAll, MapThenSumSet, MapThenFoldSet, SumOver
<1> HIDE DEF sum
<1> DEFINE k == Cardinality(Known)
           a == Cardinality(alive)
<1>9. k \in Nat /\ a \in Nat
  BY <1>6, FS_CardinalityType
<1>10. {x \in Known : Pdr(link[x]) # 0} \subseteq alive
  BY <1>3, <1>4
<1>11. sum <= FullPdr * a
  <2> DEFINE p == Cardinality({x \in Known : Pdr(link[x]) # 0})
  <2>1. p <= a /\ p \in Nat
    BY <1>6, <1>10, FS_Subset, FS_CardinalityType
  <2>2. sum <= FullPdr * p
    BY <1>7
  <2> HIDE DEF p, a, FullPdr
  <2>3. FullPdr * p <= FullPdr * a /\ FullPdr * p \in Nat /\ FullPdr * a \in Nat
    BY <1>9, <2>1, FullPdrType
  <2> QED
    BY <1>7, <2>2, <2>3
<1>12. sum = 0 <=> \A node \in alive : Recent(link[node]) = {}
  <2>1. ASSUME \A node \in alive : Recent(link[node]) = {}
        PROVE  sum = 0
    <3>1. {x \in Known : Pdr(link[x]) # 0} = {}
      BY <1>3, <1>5, <1>10, <2>1
    <3> QED
      BY <1>7, <3>1, FS_EmptySet, FullPdrType
  <2>2. ASSUME sum = 0, NEW node \in alive
        PROVE  Recent(link[node]) = {}
    <3>1. node \in Known /\ node \in Senders
      BY <1>3
    <3>2. Pdr(link[node]) \in 0 .. FullPdr /\ Pdr(link[node]) <= 0
      BY <1>5, <1>7, <2>2, <3>1
    <3>3. Pdr(link[node]) = 0
      BY <3>2, FullPdrType
    <3> QED
      BY <1>5, <3>1, <3>3
  <2> QED
    BY <2>1, <2>2
<1> HIDE DEF k, a
<1>13. CASE Known = {}
  <2>1. updateAll.of = 0 /\ updateAll.by = 1
    BY <1>8, <1>13 DEF OverKnown
  <2>2. Cardinality(heard) = 0 /\ alive = {} /\ Cardinality(alive) = 0
    BY <1>3, <1>13, FS_EmptySet
  <2>3. updateAll.of * Cardinality(heard) = 0
        /\ FullPdr * Cardinality(alive) * updateAll.by = 0
    <3> HIDE DEF FullPdr, heard, alive
    <3> QED
      BY <2>1, <2>2, FullPdrType
  <2> QED
    BY <2>1, <2>2, <2>3
<1>14. CASE Known # {}
  <2>1. updateAll.of = sum /\ updateAll.by = k /\ Cardinality(heard) = k
    BY <1>3, <1>8, <1>14 DEF OverKnown, k
  <2>2. sum * k <= FullPdr * a * k
    <3> HIDE DEF FullPdr
    <3> DEFINE f == FullPdr * a
    <3>1. f \in Nat /\ sum <= f
      BY <1>9, <1>11, FullPdrType
    <3> HIDE DEF f
    <3>2. sum * k <= f * k
      BY <1>7, <1>9, <3>1
    <3> QED
      BY <3>2 DEF f
  <2> QED
    BY <1>12, <2>1, <2>2 DEF a
<1> QED
  BY <1>13, <1>14 DEF a

\* A sender that has left weighs on the mean for ever: however good the other
\* links are, updateAll gives no more than their share of all senders ever heard,
\* and it is 0 exactly when none of them has a recent frame.
THEOREM SilentWeighOnMeanCorrect == Spec => []SilentWeighOnMean
BY MeanShared, LinkInvCorrect, PTL
=============================================================================
