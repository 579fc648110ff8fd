----------------------------- MODULE LinkTable -----------------------------
(***************************************************************************)
(* A link table (src/lib/common/linkTable.js): for each remote node the    *)
(* last frames heard from it, and the packet delivery ratio (pdr) they     *)
(* give over the last ten seconds.                                         *)
(*                                                                         *)
(* The table is passive.  Frames are added by whoever receives a heartbeat *)
(* (the BLE mesh adapter, and the core once its call is enabled again);    *)
(* the pdr is computed when it is asked for, and nothing ever removes a    *)
(* node.  A frame is stamped by its sender's clock, or on arrival when it  *)
(* carries no timestamp.  Time is counted in units of which TEN_SECONDS    *)
(* make up the observation period.                                         *)
(***************************************************************************)
EXTENDS Integers, FiniteSets, Sequences, FiniteSetsExt

CONSTANTS
    Senders,      \* the remote nodes
    MaxFrames,    \* the constructor's argument, Undefined if it is left out
    TEN_SECONDS,  \* the period the pdr is computed over
    Cadences,     \* heartbeat periods a frame may announce
    Fallback,     \* the cadence assumed when no frame announces one (1000 ms)
    Undefined,    \* JavaScript's undefined
    Offsets,      \* how far a sender's clock may be ahead (behind if negative)
    MaxTime,      \* bound: the clock
    MaxHeard      \* bound: frames heard from each sender

ASSUME SendersAssumption == IsFiniteSet(Senders)

ASSUME TimeAssumption ==
    /\ TEN_SECONDS \in Nat \ {0}
    /\ Cadences \subseteq Nat \ {0}
    /\ Fallback \in Nat \ {0}
    /\ Offsets \subseteq Int
    /\ \A o \in Offsets : TEN_SECONDS + o > 0
    /\ MaxTime \in Nat
    /\ MaxHeard \in [Senders -> Nat]

ASSUME UndefinedAssumption == Undefined \notin Int

ASSUME FramesAssumption == MaxFrames \in Nat \/ MaxFrames = Undefined

VARIABLES
    now,      \* the clock of the node that keeps the table
    link,     \* frames kept per sender: those of the DataFrame link[node].frames
    arrivals  \* history: every frame heard from a sender, with when it arrived

vars == <<now, link, arrivals>>

-----------------------------------------------------------------------------
\* "if (!frame.timestamp)": a frame without a timestamp gets the local time.
Stamped(timestamp) == IF timestamp = Undefined THEN now ELSE timestamp

\* Mutant: the length after the append is compared.
FullAfterAppend(frames) == MaxFrames # Undefined /\ Len(frames) + 1 >= MaxFrames

\* dataFrame.values.length >= this.maxFrames, which undefined never satisfies.
Full(frames) == MaxFrames # Undefined /\ Len(frames) >= MaxFrames

\* Append, then drop the oldest if the table was full before; the first frame
\* of a sender makes its DataFrame.
Added(frames, frame) ==
    IF frames # <<>> /\ Full(frames)
    THEN Append(Tail(frames), frame)
    ELSE Append(frames, frame)

\* Mutant: a frame counts at exactly ten seconds of age (>= for >).
RecentInclusive(frames) ==
    {i \in DOMAIN frames : frames[i].timestamp >= now - TEN_SECONDS}

\* Mutant: the period is one unit short.
RecentShort(frames) ==
    {i \in DOMAIN frames : frames[i].timestamp > now - TEN_SECONDS + 1}

\* Indices of the frames of the last ten seconds.
Recent(frames) ==
    {i \in DOMAIN frames : frames[i].timestamp > now - TEN_SECONDS}

\* The cadence announced last, and the fallback if no kept frame has one.
LastCadence(frames) ==
    LET announced == {i \in DOMAIN frames : frames[i].cadence # Undefined}
    IN IF announced = {} THEN Fallback
       ELSE frames[CHOOSE i \in announced : \A j \in announced : j <= i].cadence

AtMost(x, y) == IF x <= y THEN x ELSE y

\* 100 per cent.  A pdr is counted in units of 1 / TEN_SECONDS per cent, in which
\* all pdrs are whole numbers: the code divides floats, nothing is rounded down.
FullPdr == 100 * TEN_SECONDS

\* recent / (TEN_SECONDS / cadence) * 100, at most 100.
Pdr(frames) ==
    AtMost(FullPdr, 100 * Cardinality(Recent(frames)) * LastCadence(frames))

\* The senders with an entry in the table: nothing takes one out.
Known == {node \in Senders : link[node] # <<>>}

\* Mutant: a sender without recent frames does not count.
SumOverRecent(total) == [of |-> total, by |-> Max({1} \union
    {Cardinality({node \in Known : Recent(link[node]) # {}})})]

\* The fraction pdr / nodesCount, and 0 instead of 0 / 0, which is no number.
OverKnown(total) ==
    IF Known = {} THEN [of |-> 0, by |-> 1]
    ELSE [of |-> total, by |-> Cardinality(Known)]

\* updateAll: the mean of the pdrs of the senders, a fraction.
updateAll == OverKnown(MapThenSumSet(LAMBDA node : Pdr(link[node]), Known))

-----------------------------------------------------------------------------
\* Clocks count from 1970, never from near 0.
Init ==
    /\ now = TEN_SECONDS
    /\ link = [node \in Senders |-> <<>>]
    /\ arrivals = [node \in Senders |-> <<>>]

\* addFrame(node, frame), for a heartbeat that has just arrived.  Of the columns
\* of a frame only the two the pdr depends on are kept.
addFrame(node) ==
    /\ Len(arrivals[node]) < MaxHeard[node]
    /\ \E timestamp \in {Undefined} \union {now + o : o \in Offsets},
          cadence \in Cadences \union {Undefined} :
          LET frame == [timestamp |-> Stamped(timestamp), cadence |-> cadence]
          IN /\ link' = [link EXCEPT ![node] = Added(@, frame)]
             /\ arrivals' = [arrivals EXCEPT ![node] =
                                Append(@, [frame |-> frame, at |-> now])]
    /\ UNCHANGED now

Tick ==
    /\ now < MaxTime
    /\ now' = now + 1
    /\ UNCHANGED <<link, arrivals>>

Next == Tick \/ \E node \in Senders : addFrame(node)

Spec == Init /\ [][Next]_vars

-----------------------------------------------------------------------------
\* How many frames the table keeps of those heard: all of them up to
\* maxFrames, but at least one (a table of 0 keeps the newest), and without a
\* maxFrames all of them for ever.
Kept(heard) ==
    IF MaxFrames = Undefined \/ heard <= MaxFrames THEN heard
    ELSE IF MaxFrames = 0 THEN 1 ELSE MaxFrames

\* The window is the newest frames heard, in their order: appending before
\* dropping, and dropping by index, neither loses a new frame nor keeps an old
\* one in its place.
KeepsNewest ==
    \A node \in Senders :
        LET heard == Len(arrivals[node]) IN
        /\ Len(link[node]) = Kept(heard)
        /\ \A i \in 1 .. Kept(heard) :
              link[node][i] = arrivals[node][heard - Kept(heard) + i].frame

\* Nothing has come from a sender for ten seconds, and as long as its clock may
\* be ahead.
Silent(node) ==
    \A i \in DOMAIN arrivals[node] : \A o \in Offsets \union {0} :
        arrivals[node][i].at + o <= now - TEN_SECONDS

\* A link nothing has come from for ten seconds, and as long as its sender's
\* clock may be ahead, has a pdr of 0, although the table keeps its frames.
SilentLinkDecays ==
    \A node \in Senders :
        Silent(node) => Pdr(link[node]) = 0

\* The timestamps of a sender's frames are those of their arrivals.
ClocksAgree(node) ==
    \A i \in DOMAIN arrivals[node] :
        arrivals[node][i].frame.timestamp = arrivals[node][i].at

\* A table that can hold the frames expected in ten seconds loses nothing by
\* its bound: if the clocks agree, the pdr is that of everything ever heard.
WindowSuffices ==
    \A node \in Senders :
        LET all == [i \in DOMAIN arrivals[node] |-> arrivals[node][i].frame]
        IN /\ ClocksAgree(node)
           /\ MaxFrames # Undefined =>
                 MaxFrames * LastCadence(link[node]) >= TEN_SECONDS
           /\ LastCadence(link[node]) = LastCadence(all)
           => Pdr(link[node]) = Pdr(all)

\* A sender whose heartbeats have all come in, one per announced cadence and
\* for at least ten seconds, has a pdr of 100 in any table that can hold them.
FullLink ==
    \A node \in Senders :
        LET heard == arrivals[node]
            c == LastCadence(link[node])
        IN /\ heard # <<>>
           /\ ClocksAgree(node)
           /\ MaxFrames # Undefined => MaxFrames * c >= TEN_SECONDS
           /\ TEN_SECONDS % c = 0
           /\ \A t \in (now - TEN_SECONDS + 1) .. now :
                 \E i \in DOMAIN heard : /\ heard[i].frame.timestamp > t - c
                                         /\ heard[i].frame.timestamp <= t
           => Pdr(link[node]) = FullPdr

\* A sender that has left weighs on the mean for ever.  However good the other
\* links are, updateAll gives no more than their share of all senders ever
\* heard, and it falls to 0 exactly when the last of them has no recent frame.
SilentWeighOnMean ==
    LET heard == {node \in Senders : arrivals[node] # <<>>}
        alive == {node \in heard : ~Silent(node)}
    IN /\ updateAll.of * Cardinality(heard)
              <= FullPdr * Cardinality(alive) * updateAll.by
       /\ updateAll.of = 0 <=> \A node \in alive : Recent(link[node]) = {}
=============================================================================
