--------------------------- MODULE MeshTestProofs ---------------------------
(***************************************************************************)
(* Proofs about MeshTest, for every number of nodes, threads, tests and    *)
(* exceptions.                                                             *)
(***************************************************************************)
EXTENDS MeshTest, SequenceLemmas

-----------------------------------------------------------------------------
\* What a call of network_test is doing, after it went on to x.
LEMMA GoesOn ==
    ASSUME test \in [Nodes -> [Origins -> TestRec]], NEW n \in Nodes, NEW o \in Origins,
           NEW x \in {"idle", "count", "reset", "announce", "enter", "start"},
           test' = [test EXCEPT ![n][o].at = x]
    PROVE  /\ test' \in [Nodes -> [Origins -> TestRec]]
           /\ test'[n][o].at = x
           /\ \A m \in Nodes : \A p \in Origins :
                 m # n \/ p # o => test'[m][p] = test[m][p]
<1>1. test' = [test EXCEPT ![n] = [test[n] EXCEPT ![o] = [test[n][o] EXCEPT !.at = x]]]
  OBVIOUS
<1>2. [test[n][o] EXCEPT !.at = x] \in TestRec /\ [test[n][o] EXCEPT !.at = x].at = x
  <2>1. test[n][o] \in TestRec
    OBVIOUS
  <2>2. \A y \in TestRec : [y EXCEPT !.at = x] \in TestRec /\ [y EXCEPT !.at = x].at = x
    BY DEF TestRec
  <2> QED
    BY <2>1, <2>2
<1> PICK r \in TestRec : r.at = x /\ test' = [test EXCEPT ![n] = [test[n] EXCEPT ![o] = r]]
  BY <1>1, <1>2
<1>3. /\ test' \in [Nodes -> [Origins -> TestRec]]
      /\ test'[n][o] = r
      /\ \A m \in Nodes : \A p \in Origins : m # n \/ p # o => test'[m][p] = test[m][p]
  OBVIOUS
<1> QED
  BY <1>3

\* What a thread is doing, after it went on to x.
LEMMA RunsOn ==
    ASSUME runner \in [Nodes -> [Runners -> RunnerRec]], NEW n \in Nodes, NEW t \in Runners,
           NEW x \in {"none", "looking", "due", "sent", "counting", "ended"},
           runner' = [runner EXCEPT ![n][t].at = x]
    PROVE  /\ runner' \in [Nodes -> [Runners -> RunnerRec]]
           /\ runner'[n][t].at = x
           /\ \A m \in Nodes : \A u \in Runners :
                 m # n \/ u # t => runner'[m][u] = runner[m][u]
<1>1. runner' = [runner EXCEPT ![n] = [runner[n] EXCEPT ![t] = [runner[n][t] EXCEPT !.at = x]]]
  OBVIOUS
<1>2. [runner[n][t] EXCEPT !.at = x] \in RunnerRec /\ [runner[n][t] EXCEPT !.at = x].at = x
  <2>1. runner[n][t] \in RunnerRec
    OBVIOUS
  <2>2. \A y \in RunnerRec : [y EXCEPT !.at = x] \in RunnerRec /\ [y EXCEPT !.at = x].at = x
    BY DEF RunnerRec
  <2> QED
    BY <2>1, <2>2
<1> PICK r \in RunnerRec : r.at = x /\ runner' = [runner EXCEPT ![n] = [runner[n] EXCEPT ![t] = r]]
  BY <1>1, <1>2
<1>3. /\ runner' \in [Nodes -> [Runners -> RunnerRec]]
      /\ runner'[n][t] = r
      /\ \A m \in Nodes : \A u \in Runners : m # n \/ u # t => runner'[m][u] = runner[m][u]
  OBVIOUS
<1> QED
  BY <1>3

-----------------------------------------------------------------------------
\* The type invariant: every variable keeps its type.
THEOREM TypeCorrect == Spec => []TypeOK
<1> USE RunnersAssumption, TestBounds
<1>1. Init => TypeOK
  BY DEF Init, TypeOK, NotStarted, NoTest, RunnerRec, TestRec
<1>2. TypeOK /\ [Next]_vars => TypeOK'
  <2> SUFFICES ASSUME TypeOK, [Next]_vars
               PROVE  TypeOK'
    OBVIOUS
  <2> USE DEF TypeOK
  <2>0. /\ NoTest \in TestRec
        /\ Looking \in RunnerRec /\ Ended \in RunnerRec
    BY DEF NoTest, Looking, Ended, TestRec, RunnerRec
  <2>a. ASSUME NEW n \in Nodes, NEW o \in Origins, NEW k \in Nat, NEW b \in BOOLEAN,
               Begin(n, o, k, b)
        PROVE  /\ test' \in [Nodes -> [Origins -> TestRec]]
               /\ asked' \in [Nodes -> Seq(Nat)]
    <3>1. [at |-> "count", n |-> k, to_mesh |-> b] \in TestRec
      BY DEF TestRec
    <3>2. Append(asked[n], k) \in Seq(Nat)
      OBVIOUS
    <3> QED
      BY <2>a, <3>1, <3>2 DEF Begin
  <2>1. ASSUME NEW n \in Nodes, RequestTest(n)
        PROVE  TypeOK'
    <3>1. PICK c \in Connections, ask \in Asks[n] : Begin(n, c, ask[1], ask[2])
      BY <2>1 DEF RequestTest
    <3>2. ask[1] \in Nat /\ ask[2] \in BOOLEAN /\ c \in Origins
      BY DEF Origins
    <3>3. /\ test' \in [Nodes -> [Origins -> TestRec]]
          /\ asked' \in [Nodes -> Seq(Nat)]
      BY <2>a, <3>1, <3>2
    <3> QED
      BY <2>1, <3>1, <3>3, SMTT(30) DEF RequestTest, Begin, counters
  <2>2. ASSUME NEW n \in Nodes, HearTest(n)
        PROVE  TypeOK'
    <3>1. /\ Head(heard[n]) \in Nat /\ Tail(heard[n]) \in Seq(Nat)
          /\ "callback" \in Origins
      BY <2>2 DEF HearTest, Origins
    <3>2. /\ test' \in [Nodes -> [Origins -> TestRec]]
          /\ asked' \in [Nodes -> Seq(Nat)]
      <4>1. Begin(n, "callback", Head(heard[n]), FALSE)
        BY <2>2 DEF HearTest, ToMeshWhenHeard
      <4> QED
        BY <2>a, <3>1, <4>1
    <3> QED
      BY <2>2, <3>1, <3>2 DEF HearTest, Begin, counters
  <2>3. ASSUME NEW n \in Nodes, NEW o \in Origins, SetCount(n, o)
        PROVE  TypeOK'
    <3>1. test' \in [Nodes -> [Origins -> TestRec]]
      BY <2>3, GoesOn DEF SetCount
    <3>2. test[n][o].n \in Nat
      BY DEF TestRec
    <3> QED
      BY <2>3, <3>1, <3>2 DEF SetCount
  <2>4. ASSUME NEW n \in Nodes, NEW o \in Origins, ResetCounter(n, o)
        PROVE  TypeOK'
    <3>1. test' \in [Nodes -> [Origins -> TestRec]]
      BY <2>4, GoesOn DEF ResetCounter
    <3> QED
      BY <2>4, <3>1 DEF ResetCounter
  <2>5. ASSUME NEW n \in Nodes, NEW o \in Origins, Announce(n, o)
        PROVE  TypeOK'
    <3>1. CASE /\ \E hearers \in SUBSET Hearers(n) :
                     heard' = [h \in Nodes |->
                                  IF h \in hearers
                                  THEN Append(heard[h], TEST_N_PACKETS[n])
                                  ELSE heard[h]]
               /\ test' = [test EXCEPT ![n][o].at = "enter"]
               /\ UNCHANGED faults
      <4>1. test' \in [Nodes -> [Origins -> TestRec]]
        BY <3>1, GoesOn
      <4>2. TEST_N_PACKETS[n] \in Nat
        OBVIOUS
      <4>3. heard' \in [Nodes -> Seq(Nat)]
        <5>1. \A h \in Nodes : /\ heard[h] \in Seq(Nat)
                              /\ Append(heard[h], TEST_N_PACKETS[n]) \in Seq(Nat)
          BY <4>2
        <5> QED
          BY <3>1, <5>1
      <4> QED
        BY <2>5, <3>1, <4>1, <4>3 DEF Announce, counters
    <3>2. CASE /\ faults < MaxFaults
               /\ faults' = faults + 1
               /\ test' = [test EXCEPT ![n][o] = NoTest]
               /\ UNCHANGED heard
      <4>1. test' \in [Nodes -> [Origins -> TestRec]]
        BY <2>0, <3>2
      <4>2. faults' \in 0 .. MaxFaults
        BY <3>2
      <4> QED
        BY <2>5, <3>2, <4>1, <4>2 DEF Announce, counters
    <3> QED
      BY <2>5, <3>1, <3>2 DEF Announce
  <2>6. ASSUME NEW n \in Nodes, NEW o \in Origins, EnterFirst(n, o)
        PROVE  TypeOK'
    <3>1. test' \in [Nodes -> [Origins -> TestRec]]
      BY <2>6, GoesOn DEF EnterFirst
    <3> QED
      BY <2>6, <3>1, SMTT(30) DEF EnterFirst, counters
  <2>7. ASSUME NEW n \in Nodes, NEW o \in Origins, StartRunner(n, o)
        PROVE  TypeOK'
    <3>1. test' \in [Nodes -> [Origins -> TestRec]]
      BY <2>0, <2>7 DEF StartRunner
    <3>2. runner' \in [Nodes -> [Runners -> RunnerRec]]
      BY <2>0, <2>7 DEF StartRunner
    <3> QED
      BY <2>7, <3>1, <3>2 DEF StartRunner, counters
  <2>8. ASSUME NEW n \in Nodes, NEW t \in Runners, TakeEvent(n, t)
        PROVE  TypeOK'
    <3>1. CASE runner' = [runner EXCEPT ![n][t].at = "due"] /\ queue' = [queue EXCEPT ![n] = @ - 1]
                  /\ queue[n] > 0
      <4>1. runner' \in [Nodes -> [Runners -> RunnerRec]]
        BY <3>1, RunsOn
      <4>2. queue' \in [Nodes -> Nat]
        BY <3>1
      <4> QED
        BY <2>8, <4>1, <4>2 DEF TakeEvent, counters
    <3>2. CASE runner' = [runner EXCEPT ![n][t] = Ended] /\ UNCHANGED queue
      <4>1. runner' \in [Nodes -> [Runners -> RunnerRec]]
        BY <2>0, <3>2
      <4> QED
        BY <2>8, <3>2, <4>1 DEF TakeEvent, counters
    <3> QED
      BY <2>8, <3>1, <3>2 DEF TakeEvent, AnyEvent
  <2>9. ASSUME NEW n \in Nodes, NEW t \in Runners, SendPacket(n, t)
        PROVE  TypeOK'
    <3>1. runner' \in [Nodes -> [Runners -> RunnerRec]]
      <4>1. CASE runner' = [runner EXCEPT ![n][t].at = "sent"]
        BY <4>1, RunsOn
      <4>2. CASE runner' = [runner EXCEPT ![n][t] = Looking]
        BY <2>0, <4>2
      <4>3. CASE runner' = [runner EXCEPT ![n][t] = Ended]
        BY <2>0, <4>3
      <4> QED
        BY <2>9, <4>1, <4>2, <4>3 DEF SendPacket
    <3>2. attempts' \in [Nodes -> Nat]
      <4>1. UNCHANGED attempts \/ attempts' = [attempts EXCEPT ![n] = @ + 1]
        BY <2>9 DEF SendPacket
      <4>2. attempts \in [Nodes -> Nat] /\ attempts[n] + 1 \in Nat
        OBVIOUS
      <4>3. CASE UNCHANGED attempts
        BY <4>2, <4>3
      <4>4. CASE attempts' = [attempts EXCEPT ![n] = @ + 1]
        <5> HIDE DEF TypeOK
        <5> QED BY <4>2, <4>4
      <4> QED
        BY <4>1, <4>3, <4>4
    <3>3. faults' \in 0 .. MaxFaults
      <4>1. faults' = faults \/ (faults < MaxFaults /\ faults' = faults + 1)
        BY <2>9 DEF SendPacket
      <4> QED
        BY <4>1
    <3> QED
      BY <2>9, <3>1, <3>2, <3>3 DEF SendPacket, counters
  <2>10. ASSUME NEW n \in Nodes, NEW t \in Runners, ReadCounter(n, t)
         PROVE  TypeOK'
    <3>1. [at |-> "counting", count |-> TEST_CURRENT_N_PACKETS[n]] \in RunnerRec
      BY DEF RunnerRec
    <3>2. runner' \in [Nodes -> [Runners -> RunnerRec]]
      BY <2>10, <3>1 DEF ReadCounter
    <3> QED
      BY <2>10, <3>2 DEF ReadCounter, counters
  <2>11. ASSUME NEW n \in Nodes, NEW t \in Runners, CountPacket(n, t)
         PROVE  TypeOK'
    <3>1. runner' \in [Nodes -> [Runners -> RunnerRec]]
      BY <2>0, <2>11 DEF CountPacket
    <3>2. runner[n][t].count + 1 \in Nat
      BY DEF RunnerRec
    <3>3. queue' \in [Nodes -> Nat]
      BY <2>11 DEF CountPacket
    <3>4. TEST_CURRENT_N_PACKETS' \in [Nodes -> Nat]
      BY <2>11, <3>2 DEF CountPacket
    <3> QED
      BY <2>11, <3>1, <3>3, <3>4 DEF CountPacket
  <2>12. ASSUME NEW n \in Nodes, Setup(n)
         PROVE  TypeOK'
    <3>1. setupDone' \in [Nodes -> BOOLEAN]
      BY <2>12 DEF Setup
    <3> QED
      BY <2>12, <3>1 DEF Setup, counters
  <2>13. CASE UNCHANGED vars
    BY <2>13 DEF vars, counters
  <2> QED
    BY <2>13, <2>1, <2>2, <2>3, <2>4, <2>5, <2>6, <2>7, <2>8, <2>9, <2>10, <2>11, <2>12
       DEF Next, TestStep, RunnerStep
<1> QED
  BY <1>1, <1>2, PTL DEF Spec

-----------------------------------------------------------------------------
\* The sets that EventsHaveThreads counts are finite.
LEMMA FiniteSides ==
    ASSUME NEW n \in Nodes
    PROVE  /\ IsFiniteSet(LookingAt(n)) /\ IsFiniteSet(LookingAt(n)')
           /\ IsFiniteSet(Starting(n)) /\ IsFiniteSet(Starting(n)')
<1>1. IsFiniteSet(Origins)
  BY ConnectionsAssumption, FS_AddElement DEF Origins
<1>2. LookingAt(n) \subseteq Runners /\ LookingAt(n)' \subseteq Runners
  BY DEF LookingAt
<1>3. Starting(n) \subseteq Origins /\ Starting(n)' \subseteq Origins
  BY DEF Starting
<1> QED
  BY <1>1, <1>2, <1>3, RunnersAssumption, FS_Subset

\* A step that adds no event to a queue, and takes no thread and no starting
\* call from it, keeps its side of the count.
LEMMA NoneTaken ==
    ASSUME TypeOK, NEW n \in Nodes, EventsHaveThreads,
           queue'[n] = queue[n],
           LookingAt(n) \subseteq LookingAt(n)', Starting(n) \subseteq Starting(n)'
    PROVE  queue'[n] <= Cardinality(LookingAt(n)') + Cardinality(Starting(n)')
<1>1. /\ Cardinality(LookingAt(n)) <= Cardinality(LookingAt(n)')
      /\ Cardinality(Starting(n)) <= Cardinality(Starting(n)')
  BY FiniteSides, FS_Subset
<1>2. /\ Cardinality(LookingAt(n)) \in Nat /\ Cardinality(LookingAt(n)') \in Nat
      /\ Cardinality(Starting(n)) \in Nat /\ Cardinality(Starting(n)') \in Nat
  BY FiniteSides, FS_CardinalityType
<1>3. queue[n] <= Cardinality(LookingAt(n)) + Cardinality(Starting(n)) /\ queue[n] \in Nat
  BY DEF EventsHaveThreads, TypeOK
<1> HIDE DEF LookingAt, Starting
<1> QED
  BY <1>1, <1>2, <1>3

\* A step of n alone has to keep only the count of n.
LEMMA OnlyOne ==
    ASSUME NEW n \in Nodes, EventsHaveThreads,
           \A m \in Nodes \ {n} :
              queue'[m] = queue[m] /\ runner'[m] = runner[m] /\ test'[m] = test[m],
           queue'[n] <= Cardinality(LookingAt(n)') + Cardinality(Starting(n)')
    PROVE  EventsHaveThreads'
<1>1. \A m \in Nodes \ {n} :
         /\ queue'[m] = queue[m]
         /\ LookingAt(m)' = LookingAt(m)
         /\ Starting(m)' = Starting(m)
  BY DEF LookingAt, Starting
<1>2. \A m \in Nodes \ {n} :
         queue'[m] <= Cardinality(LookingAt(m)') + Cardinality(Starting(m)')
  BY <1>1 DEF EventsHaveThreads
<1> QED
  BY <1>2 DEF EventsHaveThreads

-----------------------------------------------------------------------------
\* No thread returns before its time, and none that dies leaves an event of the
\* scheduler behind, however the tests of a node overlap: a step that enters
\* an event adds a thread or a call that will look for it, and a thread stops
\* looking only with an event in hand or before an empty queue.
THEOREM EventsHaveThreadsCorrect == Spec => []EventsHaveThreads
<1>1. Init => EventsHaveThreads
  <2> SUFFICES ASSUME Init, NEW n \in Nodes
               PROVE  queue[n] <= Cardinality(LookingAt(n)) + Cardinality(Starting(n))
    BY DEF EventsHaveThreads
  <2>1. /\ Cardinality(LookingAt(n)) \in Nat /\ Cardinality(Starting(n)) \in Nat
    BY FiniteSides, FS_CardinalityType
  <2>2. queue[n] = 0
    BY DEF Init
  <2> QED
    BY <2>1, <2>2
<1>2. TypeOK /\ TypeOK' /\ EventsHaveThreads /\ [Next]_vars => EventsHaveThreads'
  <2> SUFFICES ASSUME TypeOK, TypeOK', EventsHaveThreads, [Next]_vars
               PROVE  EventsHaveThreads'
    OBVIOUS
  <2>s. ASSUME NEW n \in Nodes,
               \A m \in Nodes \ {n} :
                  queue'[m] = queue[m] /\ runner'[m] = runner[m] /\ test'[m] = test[m],
               queue'[n] = queue[n],
               LookingAt(n) \subseteq LookingAt(n)', Starting(n) \subseteq Starting(n)'
        PROVE  EventsHaveThreads'
    BY <2>s, NoneTaken, OnlyOne
  <2>b. ASSUME NEW n \in Nodes, NEW o \in Origins, test[n][o].at # "start",
               NEW r \in TestRec, test' = [test EXCEPT ![n][o] = r],
               UNCHANGED <<queue, runner>>
        PROVE  EventsHaveThreads'
    <3>1. LookingAt(n)' = LookingAt(n)
      BY <2>b DEF LookingAt
    <3>2. Starting(n) \subseteq Starting(n)'
      BY <2>b, SMTT(30) DEF Starting, TypeOK
    <3> QED
      BY <2>s, <2>b, <3>1, <3>2 DEF TypeOK
  <2>c. ASSUME NEW n \in Nodes, NEW o \in Origins, test[n][o].at # "start",
               NEW x \in {"idle", "count", "reset", "announce", "enter", "start"},
               test' = [test EXCEPT ![n][o].at = x],
               UNCHANGED <<queue, runner>>
        PROVE  EventsHaveThreads'
    <3>1. LookingAt(n)' = LookingAt(n)
      BY <2>c DEF LookingAt
    <3>2. Starting(n) \subseteq Starting(n)'
      BY <2>c, GoesOn, SMTT(30) DEF Starting, TypeOK
    <3> QED
      BY <2>s, <2>c, <3>1, <3>2 DEF TypeOK
  <2>1. ASSUME NEW n \in Nodes, NEW o \in Origins, NEW k \in Nat, NEW b \in BOOLEAN,
               Begin(n, o, k, b)
        PROVE  EventsHaveThreads'
    <3>1. [at |-> "count", n |-> k, to_mesh |-> b] \in TestRec
      BY DEF TestRec
    <3> QED
      BY <2>1, <2>b, <3>1 DEF Begin
  <2>2. ASSUME NEW n \in Nodes, RequestTest(n)
        PROVE  EventsHaveThreads'
    <3>1. PICK c \in Connections, ask \in Asks[n] : Begin(n, c, ask[1], ask[2])
      BY <2>2 DEF RequestTest
    <3>2. ask[1] \in Nat /\ ask[2] \in BOOLEAN /\ c \in Origins
      BY TestBounds DEF Origins
    <3> QED
      BY <2>1, <3>1, <3>2
  <2>3. ASSUME NEW n \in Nodes, HearTest(n)
        PROVE  EventsHaveThreads'
    <3>1. Head(heard[n]) \in Nat /\ "callback" \in Origins
      <4>1. heard[n] \in Seq(Nat) /\ heard[n] # <<>>
        BY <2>3 DEF HearTest, TypeOK
      <4> QED
        BY <4>1 DEF Origins
    <3>2. Begin(n, "callback", Head(heard[n]), FALSE)
      BY <2>3 DEF HearTest, ToMeshWhenHeard
    <3> QED
      BY <2>1, <3>1, <3>2
  <2>4. ASSUME NEW n \in Nodes, NEW o \in Origins, SetCount(n, o)
        PROVE  EventsHaveThreads'
    BY <2>4, <2>c DEF SetCount
  <2>5. ASSUME NEW n \in Nodes, NEW o \in Origins, ResetCounter(n, o)
        PROVE  EventsHaveThreads'
    BY <2>5, <2>c DEF ResetCounter
  <2>6. ASSUME NEW n \in Nodes, NEW o \in Origins, Announce(n, o)
        PROVE  EventsHaveThreads'
    <3>1. NoTest \in TestRec
      BY DEF NoTest, TestRec
    <3>2. CASE test' = [test EXCEPT ![n][o].at = "enter"]
      BY <2>6, <2>c, <3>2 DEF Announce
    <3>3. CASE test' = [test EXCEPT ![n][o] = NoTest]
      BY <2>6, <2>b, <3>1, <3>3 DEF Announce
    <3> QED
      BY <2>6, <3>2, <3>3 DEF Announce
  <2>7. ASSUME NEW n \in Nodes, NEW o \in Origins, EnterFirst(n, o)
        PROVE  EventsHaveThreads'
    <3>1. /\ queue'[n] = queue[n] + 1
          /\ \A m \in Nodes \ {n} :
                queue'[m] = queue[m] /\ runner'[m] = runner[m] /\ test'[m] = test[m]
          /\ LookingAt(n)' = LookingAt(n)
      BY <2>7 DEF EnterFirst, TypeOK, LookingAt
    <3>2. Starting(n)' = Starting(n) \cup {o} /\ o \notin Starting(n)
      <4>1. /\ test'[n][o].at = "start"
            /\ \A p \in Origins : p # o => test'[n][p] = test[n][p]
        BY <2>7, GoesOn DEF EnterFirst, TypeOK
      <4>2. test[n][o].at = "enter"
        BY <2>7 DEF EnterFirst
      <4> QED
        BY <4>1, <4>2 DEF Starting
    <3>3. Cardinality(Starting(n)') = Cardinality(Starting(n)) + 1
      BY <3>2, FiniteSides, FS_AddElement
    <3>4. queue'[n] <= Cardinality(LookingAt(n)') + Cardinality(Starting(n)')
      <4>1. Cardinality(LookingAt(n)) \in Nat /\ Cardinality(Starting(n)) \in Nat
        BY FiniteSides, FS_CardinalityType
      <4>2. queue[n] <= Cardinality(LookingAt(n)) + Cardinality(Starting(n)) /\ queue[n] \in Nat
        BY DEF EventsHaveThreads, TypeOK
      <4>3. Cardinality(LookingAt(n)') = Cardinality(LookingAt(n))
        BY <3>1
      <4> QED
        BY <3>1, <3>3, <4>1, <4>2, <4>3
    <3> QED
      BY <3>1, <3>4, OnlyOne
  <2>8. ASSUME NEW n \in Nodes, NEW o \in Origins, StartRunner(n, o)
        PROVE  EventsHaveThreads'
    <3>1. PICK u \in Runners : Started(n) = {u} /\ runner[n][u] = NotStarted
      BY <2>8 DEF StartRunner, Started
    <3>2. /\ runner'[n][u] = Looking
          /\ \A v \in Runners : v # u => runner'[n][v] = runner[n][v]
          /\ \A m \in Nodes \ {n} :
                queue'[m] = queue[m] /\ runner'[m] = runner[m] /\ test'[m] = test[m]
          /\ queue'[n] = queue[n]
      BY <2>8, <3>1 DEF StartRunner, TypeOK
    <3>3. LookingAt(n)' = LookingAt(n) \cup {u} /\ u \notin LookingAt(n)
      BY <3>1, <3>2 DEF LookingAt, NotStarted, Looking
    <3>4. Starting(n)' = Starting(n) \ {o} /\ o \in Starting(n)
      <4>1. /\ test'[n][o].at = "idle"
            /\ \A p \in Origins : p # o => test'[n][p] = test[n][p]
        BY <2>8 DEF StartRunner, TypeOK, NoTest
      <4> QED
        BY <2>8, <4>1 DEF Starting, StartRunner
    <3>5. /\ Cardinality(LookingAt(n)') = Cardinality(LookingAt(n)) + 1
          /\ Cardinality(Starting(n)') = Cardinality(Starting(n)) - 1
      <4>1. Cardinality(LookingAt(n)') = Cardinality(LookingAt(n)) + 1
        BY <3>3, FiniteSides, FS_AddElement
      <4>2. Cardinality(Starting(n)') = Cardinality(Starting(n)) - 1
        BY <3>4, FiniteSides, FS_RemoveElement
      <4> QED
        BY <4>1, <4>2
    <3>6. queue'[n] <= Cardinality(LookingAt(n)') + Cardinality(Starting(n)')
      <4>1. Cardinality(LookingAt(n)) \in Nat /\ Cardinality(Starting(n)) \in Nat
        BY FiniteSides, FS_CardinalityType
      <4>2. queue[n] <= Cardinality(LookingAt(n)) + Cardinality(Starting(n)) /\ queue[n] \in Nat
        BY DEF EventsHaveThreads, TypeOK
      <4> QED
        BY <3>2, <3>5, <4>1, <4>2
    <3> QED
      BY <3>2, <3>6, OnlyOne
  <2>9. ASSUME NEW n \in Nodes, NEW t \in Runners, TakeEvent(n, t)
        PROVE  EventsHaveThreads'
    <3>1. /\ \A m \in Nodes \ {n} :
                queue'[m] = queue[m] /\ runner'[m] = runner[m] /\ test'[m] = test[m]
          /\ Starting(n)' = Starting(n)
      BY <2>9 DEF TakeEvent, TypeOK, Starting
    <3>2. /\ Cardinality(LookingAt(n)) \in Nat /\ Cardinality(LookingAt(n)') \in Nat
          /\ Cardinality(Starting(n)) \in Nat
      BY FiniteSides, FS_CardinalityType
    <3>3. CASE /\ queue' = [queue EXCEPT ![n] = @ - 1]
               /\ runner' = [runner EXCEPT ![n][t].at = "due"]
      <4>1. LookingAt(n)' = LookingAt(n) \ {t} /\ t \in LookingAt(n)
        <5>1. /\ runner'[n][t].at = "due"
              /\ \A u \in Runners : u # t => runner'[n][u] = runner[n][u]
          BY <3>3, RunsOn DEF TypeOK
        <5>2. runner[n][t].at = "looking"
          BY <2>9 DEF TakeEvent
        <5> QED
          BY <5>1, <5>2 DEF LookingAt
      <4>2. Cardinality(LookingAt(n)') = Cardinality(LookingAt(n)) - 1
        BY <4>1, FiniteSides, FS_RemoveElement
      <4>3. /\ queue[n] <= Cardinality(LookingAt(n)) + Cardinality(Starting(n))
            /\ queue[n] \in Nat /\ queue'[n] = queue[n] - 1
        BY <3>3 DEF EventsHaveThreads, TypeOK
      <4>4. Cardinality(Starting(n)') = Cardinality(Starting(n))
        BY <3>1
      <4>5. queue'[n] <= Cardinality(LookingAt(n)') + Cardinality(Starting(n)')
        BY <3>2, <4>2, <4>3, <4>4
      <4> QED
        BY <3>1, <4>5, OnlyOne
    <3>4. CASE ~AnyEvent(n) /\ UNCHANGED queue
      <4>1. queue'[n] = 0
        BY <3>4 DEF AnyEvent, TypeOK
      <4>2. Cardinality(Starting(n)') = Cardinality(Starting(n))
        BY <3>1
      <4>3. queue'[n] <= Cardinality(LookingAt(n)') + Cardinality(Starting(n)')
        BY <3>2, <4>1, <4>2
      <4> QED
        BY <3>1, <4>3, OnlyOne
    <3> QED
      BY <2>9, <3>3, <3>4 DEF TakeEvent
  <2>10. ASSUME NEW n \in Nodes, NEW t \in Runners, SendPacket(n, t)
         PROVE  EventsHaveThreads'
    <3>1. /\ \A m \in Nodes \ {n} :
                queue'[m] = queue[m] /\ runner'[m] = runner[m] /\ test'[m] = test[m]
          /\ queue'[n] = queue[n]
          /\ Starting(n)' = Starting(n)
      BY <2>10 DEF SendPacket, TypeOK, Starting
    <3>2. \A u \in Runners : u # t => runner'[n][u] = runner[n][u]
      BY <2>10, RunsOn DEF SendPacket, TypeOK
    <3>3. LookingAt(n) \subseteq LookingAt(n)'
      BY <2>10, <3>2 DEF SendPacket, LookingAt
    <3> QED
      BY <2>s, <3>1, <3>3
  <2>11. ASSUME NEW n \in Nodes, NEW t \in Runners, ReadCounter(n, t)
         PROVE  EventsHaveThreads'
    <3>1. /\ \A m \in Nodes \ {n} :
                queue'[m] = queue[m] /\ runner'[m] = runner[m] /\ test'[m] = test[m]
          /\ queue'[n] = queue[n]
          /\ Starting(n)' = Starting(n)
      BY <2>11 DEF ReadCounter, TypeOK, Starting
    <3>2. LookingAt(n) \subseteq LookingAt(n)'
      BY <2>11 DEF ReadCounter, LookingAt, TypeOK
    <3> QED
      BY <2>s, <3>1, <3>2
  <2>12. ASSUME NEW n \in Nodes, NEW t \in Runners, CountPacket(n, t)
         PROVE  EventsHaveThreads'
    <3>1. /\ \A m \in Nodes \ {n} :
                queue'[m] = queue[m] /\ runner'[m] = runner[m] /\ test'[m] = test[m]
          /\ queue'[n] = queue[n] + 1
          /\ Starting(n)' = Starting(n)
      BY <2>12 DEF CountPacket, TypeOK, Starting
    <3>2. LookingAt(n)' = LookingAt(n) \cup {t} /\ t \notin LookingAt(n)
      <4>1. /\ runner'[n][t].at = "looking"
            /\ \A u \in Runners : u # t => runner'[n][u] = runner[n][u]
        BY <2>12 DEF CountPacket, TypeOK, Looking
      <4> QED
        BY <2>12, <4>1 DEF CountPacket, LookingAt
    <3>3. Cardinality(LookingAt(n)') = Cardinality(LookingAt(n)) + 1
      BY <3>2, FiniteSides, FS_AddElement
    <3>4. queue'[n] <= Cardinality(LookingAt(n)') + Cardinality(Starting(n)')
      <4>1. Cardinality(LookingAt(n)) \in Nat /\ Cardinality(Starting(n)) \in Nat
        BY FiniteSides, FS_CardinalityType
      <4>2. queue[n] <= Cardinality(LookingAt(n)) + Cardinality(Starting(n)) /\ queue[n] \in Nat
        BY DEF EventsHaveThreads, TypeOK
      <4>3. Cardinality(Starting(n)') = Cardinality(Starting(n))
        BY <3>1
      <4> QED
        BY <3>1, <3>3, <4>1, <4>2, <4>3
    <3> QED
      BY <3>1, <3>4, OnlyOne
  <2>13. ASSUME NEW n \in Nodes, Setup(n)
         PROVE  EventsHaveThreads'
    BY <2>13 DEF Setup, EventsHaveThreads, LookingAt, Starting
  <2>14. CASE UNCHANGED vars
    BY <2>14 DEF vars, counters, EventsHaveThreads, LookingAt, Starting
  <2> QED
    BY <2>14, <2>2, <2>3, <2>4, <2>5, <2>6, <2>7, <2>8, <2>9, <2>10, <2>11, <2>12, <2>13
       DEF Next, TestStep, RunnerStep
<1> QED
  BY <1>1, <1>2, TypeCorrect, PTL DEF Spec

\* What a node's only test was asked for is a number.
LEMMA FirstOfOne ==
  ASSUME NEW s \in Seq(Nat), Len(s) = 1
  PROVE  s[1] \in Nat
<1>1. 1 \in 1 .. Len(s)
  OBVIOUS
<1> QED
  BY <1>1, ElementOfSeq

-----------------------------------------------------------------------------
\* SoloTestExact, made inductive.  While a node has been asked for nothing, it
\* does nothing.
Resting(n) == \A o \in Origins : test[n][o].at = "idle"

NoThreads(n) == \A t \in Runners : runner[n][t].at = "none"

Fresh(n) ==
    /\ Resting(n) /\ NoThreads(n)
    /\ queue[n] = 0 /\ attempts[n] = 0 /\ TEST_CURRENT_N_PACKETS[n] = 0

\* Its only test is still in network_test: nothing is sent, and the one event is
\* in the queue just before the thread is started.
Preparing(n) ==
    \E o \in Origins :
        /\ test[n][o].at # "idle" /\ test[n][o].n = asked[n][1]
        /\ \A p \in Origins : p # o => test[n][p].at = "idle"
        /\ NoThreads(n)
        /\ test[n][o].at # "count" => TEST_N_PACKETS[n] = asked[n][1]
        /\ queue[n] = IF test[n][o].at = "start" THEN 1 ELSE 0
        /\ attempts[n] = 0 /\ TEST_CURRENT_N_PACKETS[n] = 0

\* What a thread at each of its steps knows of the sendings tried.
Progress(n, t) ==
    LET k == TEST_CURRENT_N_PACKETS[n] IN
    /\ attempts[n] <= asked[n][1]
    /\ runner[n][t].at \in {"due", "sent", "counting", "ended"} => queue[n] = 0
    /\ runner[n][t].at = "looking" =>
          \/ queue[n] = 1 /\ attempts[n] = k
          \/ queue[n] = 0 /\ attempts[n] = k /\ attempts[n] = asked[n][1]
    /\ runner[n][t].at = "due" => attempts[n] = k
    /\ runner[n][t].at = "sent" => attempts[n] = k + 1
    /\ runner[n][t].at = "counting" => attempts[n] = runner[n][t].count + 1
    /\ runner[n][t].at = "ended" => attempts[n] = asked[n][1] \/ faults > 0

\* Its only test is a chain in its only thread.
Running(n) ==
    \E t \in Runners :
        /\ Resting(n)
        /\ runner[n][t].at # "none"
        /\ \A u \in Runners : u # t => runner[n][u].at = "none"
        /\ TEST_N_PACKETS[n] = asked[n][1]
        /\ Progress(n, t)

\* Its announcement raised, and the test was never started.
NeverStarted(n) ==
    /\ Resting(n) /\ NoThreads(n)
    /\ queue[n] = 0 /\ attempts[n] = 0 /\ faults > 0

Solo(n) ==
    /\ asked[n] = <<>> => Fresh(n)
    /\ Len(asked[n]) = 1 => Preparing(n) \/ Running(n) \/ NeverStarted(n)

SoloInv == \A n \in Nodes : Solo(n)

\* A node that takes no step is where it was, with faults perhaps elsewhere.
LEMMA SoloElsewhere ==
  ASSUME TypeOK, NEW n \in Nodes, Solo(n),
         /\ TEST_N_PACKETS'[n] = TEST_N_PACKETS[n]
         /\ TEST_CURRENT_N_PACKETS'[n] = TEST_CURRENT_N_PACKETS[n]
         /\ queue'[n] = queue[n] /\ runner'[n] = runner[n] /\ test'[n] = test[n]
         /\ attempts'[n] = attempts[n] /\ asked'[n] = asked[n]
         /\ faults' >= faults /\ faults' \in Nat
  PROVE  Solo(n)'
<1>1. faults \in Nat /\ (faults > 0 => faults' > 0)
  BY DEF TypeOK
<1>2. Resting(n)' = Resting(n) /\ NoThreads(n)' = NoThreads(n)
  BY DEF Resting, NoThreads
<1>3. Fresh(n) => Fresh(n)'
  BY <1>2 DEF Fresh
<1>4. Preparing(n) => Preparing(n)'
  BY <1>2 DEF Preparing
<1>5. \A t \in Runners : Progress(n, t) => Progress(n, t)'
  BY <1>1 DEF Progress
<1>6. Running(n) => Running(n)'
  BY <1>2, <1>5 DEF Running
<1>7. NeverStarted(n) => NeverStarted(n)'
  BY <1>1, <1>2 DEF NeverStarted
<1> QED
  BY <1>3, <1>4, <1>6, <1>7 DEF Solo

\* The only test of a node begins when nothing has been asked for.
LEMMA SoloBegin ==
  ASSUME TypeOK, TypeOK', NEW n \in Nodes, Solo(n), NEW o \in Origins,
         NEW k \in Nat, NEW b \in BOOLEAN, Begin(n, o, k, b)
  PROVE  Solo(n)'
<1>1. /\ asked[n] \in Seq(Nat) /\ asked' = [asked EXCEPT ![n] = Append(@, k)]
      /\ asked \in [Nodes -> Seq(Nat)]
      /\ UNCHANGED <<counters, queue, runner, attempts, faults>>
      /\ test' = [test EXCEPT ![n][o] = [at |-> "count", n |-> k, to_mesh |-> b]]
      /\ test \in [Nodes -> [Origins -> TestRec]]
  BY DEF Begin, TypeOK
<1>2. asked'[n] = Append(asked[n], k)
  BY <1>1
<1>3. /\ Len(Append(asked[n], k)) = Len(asked[n]) + 1 /\ Len(asked[n]) \in Nat
      /\ Append(asked[n], k)[Len(asked[n]) + 1] = k
  BY <1>1, AppendProperties
<1>4. Len(asked'[n]) = Len(asked[n]) + 1 /\ asked'[n] # <<>>
  <2>1. Len(asked'[n]) = Len(asked[n]) + 1
    BY <1>2, <1>3
  <2> QED
    BY <1>3, <2>1
<1> SUFFICES ASSUME Len(asked'[n]) = 1
             PROVE  Preparing(n)'
  BY <1>4 DEF Solo
<1>5. Len(asked[n]) = 0 /\ asked[n] = <<>>
  BY <1>1, <1>3, <1>4, EmptySeq
<1>6. asked'[n][1] = k
  BY <1>2, <1>3, <1>5
<1>7. Fresh(n)
  BY <1>5 DEF Solo
<1>8. /\ test'[n][o].at = "count" /\ test'[n][o].n = k
      /\ \A p \in Origins : p # o => test'[n][p] = test[n][p]
  BY <1>1
<1>9. NoThreads(n)' /\ queue'[n] = 0 /\ attempts'[n] = 0 /\ TEST_CURRENT_N_PACKETS'[n] = 0
  BY <1>1, <1>7 DEF Fresh, NoThreads, counters
<1> QED
  BY <1>6, <1>7, <1>8, <1>9 DEF Preparing, Fresh, Resting

\* The calls of network_test prepare it: only then is a call not at rest.
LEMMA SoloPrepare ==
  ASSUME TypeOK, TypeOK', NEW n \in Nodes, Solo(n), NEW o \in Origins, TestStep(n, o)
  PROVE  Solo(n)'
<1> USE DEF TypeOK
<1>1. UNCHANGED <<asked, attempts>> /\ test[n][o].at # "idle"
  BY DEF TestStep, SetCount, ResetCounter, Announce, EnterFirst, StartRunner
<1>2. ~Resting(n) /\ asked[n] # <<>>
  BY <1>1 DEF Resting, Solo, Fresh
<1> SUFFICES ASSUME Len(asked[n]) = 1
             PROVE  Preparing(n)' \/ Running(n)' \/ NeverStarted(n)'
  BY <1>1, <1>2 DEF Solo
<1>3. Preparing(n)
  BY <1>2 DEF Solo, Running, NeverStarted
<1>4. /\ test[n][o].n = asked[n][1]
      /\ \A p \in Origins : p # o => test[n][p].at = "idle"
      /\ NoThreads(n)
      /\ test[n][o].at # "count" => TEST_N_PACKETS[n] = asked[n][1]
      /\ queue[n] = IF test[n][o].at = "start" THEN 1 ELSE 0
      /\ attempts[n] = 0 /\ TEST_CURRENT_N_PACKETS[n] = 0
  BY <1>1, <1>3 DEF Preparing
<1>5. test \in [Nodes -> [Origins -> TestRec]] /\ asked[n][1] \in Nat
  <2>1. asked[n] \in Seq(Nat) /\ Len(asked[n]) = 1
    OBVIOUS
  <2>2. asked[n][1] \in Nat
    BY <2>1, FirstOfOne
  <2> QED
    BY <2>2
<1>6. ASSUME NEW x \in {"idle", "count", "reset", "announce", "enter", "start"},
             test' = [test EXCEPT ![n][o].at = x]
      PROVE  /\ test'[n][o].at = x /\ test'[n][o].n = asked[n][1]
             /\ \A p \in Origins : p # o => test'[n][p].at = "idle"
  <2>1. /\ test'[n][o].at = x
        /\ \A p \in Origins : p # o => test'[n][p] = test[n][p]
    BY <1>5, <1>6, GoesOn
  <2>2. test'[n][o].n = test[n][o].n
    BY <1>5, <1>6 DEF TestRec
  <2>3. ASSUME NEW p \in Origins, p # o
        PROVE  test'[n][p].at = "idle"
    BY <1>4, <2>1, <2>3
  <2>4. test'[n][o].n = asked[n][1]
    BY <1>4, <2>2
  <2> QED
    BY <2>1, <2>3, <2>4
<1>7. CASE SetCount(n, o)
  <2>1. test'[n][o].at = "reset" /\ test'[n][o].n = asked[n][1]
        /\ \A p \in Origins : p # o => test'[n][p].at = "idle"
    BY <1>6, <1>7 DEF SetCount
  <2>2. TEST_N_PACKETS'[n] = asked[n][1] /\ queue'[n] = 0 /\ TEST_CURRENT_N_PACKETS'[n] = 0
        /\ NoThreads(n)'
    BY <1>4, <1>7 DEF SetCount, NoThreads
  <2> QED
    BY <1>1, <1>4, <2>1, <2>2 DEF Preparing
<1>8. CASE ResetCounter(n, o)
  <2>1. PICK x \in {"announce", "enter"} : test' = [test EXCEPT ![n][o].at = x]
    BY <1>8 DEF ResetCounter
  <2>2. test'[n][o].at = x /\ test'[n][o].n = asked[n][1]
        /\ \A p \in Origins : p # o => test'[n][p].at = "idle"
    BY <1>6, <2>1
  <2>3. TEST_N_PACKETS'[n] = asked[n][1] /\ queue'[n] = 0 /\ TEST_CURRENT_N_PACKETS'[n] = 0
        /\ NoThreads(n)'
    BY <1>4, <1>8 DEF ResetCounter, NoThreads
  <2> QED
    BY <1>1, <1>4, <2>2, <2>3 DEF Preparing
<1>9. CASE Announce(n, o)
  <2>1. TEST_N_PACKETS'[n] = asked[n][1] /\ queue'[n] = 0 /\ TEST_CURRENT_N_PACKETS'[n] = 0
        /\ NoThreads(n)'
    BY <1>4, <1>9 DEF Announce, NoThreads, counters
  <2>2. CASE test' = [test EXCEPT ![n][o].at = "enter"]
    <3>1. test'[n][o].at = "enter" /\ test'[n][o].n = asked[n][1]
          /\ \A p \in Origins : p # o => test'[n][p].at = "idle"
      BY <1>6, <2>2
    <3> QED
      BY <1>1, <1>4, <2>1, <3>1 DEF Preparing
  <2>3. CASE test' = [test EXCEPT ![n][o] = NoTest] /\ faults' = faults + 1
    <3>1. test'[n][o].at = "idle" /\ \A p \in Origins : p # o => test'[n][p].at = "idle"
      BY <1>4, <1>5, <2>3 DEF NoTest
    <3>2. Resting(n)' /\ faults' > 0
      BY <2>3, <3>1 DEF Resting
    <3> QED
      BY <1>1, <1>4, <2>1, <3>2 DEF NeverStarted
  <2> QED
    BY <1>9, <2>2, <2>3 DEF Announce
<1>10. CASE EnterFirst(n, o)
  <2>1. test'[n][o].at = "start" /\ test'[n][o].n = asked[n][1]
        /\ \A p \in Origins : p # o => test'[n][p].at = "idle"
    BY <1>6, <1>10 DEF EnterFirst
  <2>2. TEST_N_PACKETS'[n] = asked[n][1] /\ queue'[n] = 1 /\ TEST_CURRENT_N_PACKETS'[n] = 0
        /\ NoThreads(n)'
    BY <1>4, <1>10 DEF EnterFirst, NoThreads, counters
  <2> QED
    BY <1>1, <1>4, <2>1, <2>2 DEF Preparing
<1>11. CASE StartRunner(n, o)
  <2>1. PICK u \in Runners : Started(n) = {u} /\ runner[n][u] = NotStarted
    BY <1>11 DEF StartRunner, Started
  <2>2. /\ runner'[n][u] = Looking
        /\ \A v \in Runners : v # u => runner'[n][v].at = "none"
    BY <1>4, <1>11, <2>1 DEF StartRunner, NoThreads
  <2>3. Resting(n)'
    <3>1. test'[n][o].at = "idle" /\ \A p \in Origins : p # o => test'[n][p].at = "idle"
      BY <1>4, <1>5, <1>11 DEF StartRunner, NoTest
    <3> QED
      BY <3>1 DEF Resting
  <2>4. TEST_N_PACKETS'[n] = asked[n][1] /\ queue'[n] = 1 /\ TEST_CURRENT_N_PACKETS'[n] = 0
        /\ attempts'[n] = 0 /\ asked'[n] = asked[n]
    BY <1>1, <1>4, <1>11 DEF StartRunner, counters
  <2>5. runner'[n][u].at = "looking"
    BY <2>2 DEF Looking
  <2>6. Progress(n, u)'
    BY <1>5, <2>4, <2>5 DEF Progress
  <2> QED
    BY <2>2, <2>3, <2>4, <2>5, <2>6 DEF Running
<1> QED
  BY <1>7, <1>8, <1>9, <1>10, <1>11 DEF TestStep

\* A thread's steps carry the chain on: only then is a thread between its start
\* and its end.
LEMMA SoloRun ==
  ASSUME TypeOK, TypeOK', NEW n \in Nodes, Solo(n), NEW t \in Runners, RunnerStep(n, t)
  PROVE  Solo(n)'
<1> USE DEF TypeOK
<1>1. UNCHANGED <<asked, test, TEST_N_PACKETS>> /\ runner[n][t].at \notin {"none", "ended"}
  BY DEF RunnerStep, TakeEvent, SendPacket, ReadCounter, CountPacket, counters
<1>2. ~NoThreads(n) /\ asked[n] # <<>>
  BY <1>1 DEF NoThreads, Solo, Fresh
<1> SUFFICES ASSUME Len(asked[n]) = 1
             PROVE  Running(n)'
  BY <1>1, <1>2 DEF Solo
<1>3. Running(n)
  BY <1>2 DEF Solo, Preparing, NeverStarted
<1>4. /\ Resting(n)
      /\ \A u \in Runners : u # t => runner[n][u].at = "none"
      /\ TEST_N_PACKETS[n] = asked[n][1]
      /\ Progress(n, t)
  BY <1>1, <1>3 DEF Running
<1>5. runner \in [Nodes -> [Runners -> RunnerRec]] /\ asked[n][1] \in Nat
      /\ queue[n] \in Nat /\ attempts[n] \in Nat /\ TEST_CURRENT_N_PACKETS[n] \in Nat
      /\ faults \in Nat
  <2>1. asked[n] \in Seq(Nat) /\ Len(asked[n]) = 1
    OBVIOUS
  <2>2. asked[n][1] \in Nat
    BY <2>1, FirstOfOne
  <2> QED
    BY <2>2
<1>6. Resting(n)' /\ TEST_N_PACKETS'[n] = asked'[n][1] /\ asked'[n] = asked[n]
  BY <1>1, <1>4 DEF Resting
<1>7. ASSUME NEW r \in RunnerRec, r.at # "none",
             runner' = [runner EXCEPT ![n][t] = r], Progress(n, t)'
      PROVE  Running(n)'
  <2>1. runner'[n][t] = r /\ \A u \in Runners : u # t => runner'[n][u].at = "none"
    BY <1>4, <1>5, <1>7
  <2> QED
    BY <1>6, <1>7, <2>1 DEF Running
<1>8. ASSUME NEW x \in {"looking", "due", "sent", "counting", "ended"},
             runner' = [runner EXCEPT ![n][t].at = x]
      PROVE  /\ runner'[n][t].at = x
             /\ Progress(n, t)' => Running(n)'
  <2>1. /\ runner'[n][t].at = x
        /\ \A u \in Runners : u # t => runner'[n][u].at = "none"
    BY <1>4, <1>5, <1>8, RunsOn
  <2> QED
    BY <1>6, <2>1 DEF Running
<1>9. Looking \in RunnerRec /\ Ended \in RunnerRec /\ Looking.at = "looking" /\ Ended.at = "ended"
  BY DEF Looking, Ended, RunnerRec
<1>10. CASE TakeEvent(n, t)
  <2>1. CASE AnyEvent(n) /\ queue' = [queue EXCEPT ![n] = @ - 1]
             /\ runner' = [runner EXCEPT ![n][t].at = "due"]
    <3>1. runner'[n][t].at = "due"
      BY <1>8, <2>1
    <3>2. Progress(n, t)'
      BY <1>4, <1>5, <1>6, <1>10, <2>1, <3>1 DEF Progress, TakeEvent, AnyEvent, counters
    <3> QED
      BY <1>8, <2>1, <3>2
  <2>2. CASE ~AnyEvent(n) /\ UNCHANGED queue /\ runner' = [runner EXCEPT ![n][t] = Ended]
    <3>1. runner'[n][t] = Ended
      BY <1>5, <2>2
    <3>2. Progress(n, t)'
      BY <1>4, <1>5, <1>6, <1>9, <1>10, <2>2, <3>1 DEF Progress, TakeEvent, AnyEvent, counters
    <3> QED
      BY <1>7, <1>9, <2>2, <3>2
  <2> QED
    BY <1>10, <2>1, <2>2 DEF TakeEvent
<1>11. CASE SendPacket(n, t)
  <2>1. UNCHANGED <<queue, TEST_CURRENT_N_PACKETS>> /\ runner[n][t].at = "due"
    BY <1>11 DEF SendPacket, counters
  <2>2. CASE ~MoreToSend(n) /\ runner' = [runner EXCEPT ![n][t] = Looking]
             /\ UNCHANGED <<attempts, faults>>
    <3>1. runner'[n][t] = Looking
      BY <1>5, <2>2
    <3>2. Progress(n, t)'
      BY <1>4, <1>5, <1>6, <1>9, <2>1, <2>2, <3>1 DEF Progress, MoreToSend
    <3> QED
      BY <1>7, <1>9, <2>2, <3>2
  <2>3. CASE MoreToSend(n) /\ runner' = [runner EXCEPT ![n][t].at = "sent"]
             /\ attempts' = [attempts EXCEPT ![n] = @ + 1] /\ UNCHANGED faults
    <3>1. runner'[n][t].at = "sent"
      BY <1>8, <2>3
    <3>2. attempts'[n] = attempts[n] + 1
      BY <2>3
    <3>3. Progress(n, t)'
      BY <1>4, <1>5, <1>6, <2>1, <2>3, <3>1, <3>2 DEF Progress, MoreToSend
    <3> QED
      BY <1>8, <2>3, <3>3
  <2>4. CASE MoreToSend(n) /\ faults' = faults + 1
             /\ attempts' = [attempts EXCEPT ![n] = @ + 1]
             /\ runner' = [runner EXCEPT ![n][t] = Ended]
    <3>1. runner'[n][t] = Ended
      BY <1>5, <2>4
    <3>2. attempts'[n] = attempts[n] + 1
      BY <2>4
    <3>3. Progress(n, t)'
      BY <1>4, <1>5, <1>6, <1>9, <2>1, <2>4, <3>1, <3>2 DEF Progress, MoreToSend
    <3> QED
      BY <1>7, <1>9, <2>4, <3>3
  <2> QED
    BY <1>11, <2>2, <2>3, <2>4 DEF SendPacket
<1>12. CASE ReadCounter(n, t)
  <2> DEFINE r == [at |-> "counting", count |-> TEST_CURRENT_N_PACKETS[n]]
  <2>1. runner' = [runner EXCEPT ![n][t] = r] /\ r \in RunnerRec /\ runner[n][t].at = "sent"
        /\ UNCHANGED <<queue, TEST_CURRENT_N_PACKETS, attempts, faults>>
    BY <1>5, <1>12 DEF ReadCounter, RunnerRec, counters
  <2>2. runner'[n][t] = r
    BY <1>5, <2>1
  <2>3. Progress(n, t)'
    BY <1>4, <1>5, <1>6, <2>1, <2>2 DEF Progress
  <2> QED
    BY <1>7, <2>1, <2>3
<1>13. CASE CountPacket(n, t)
  <2>1. runner' = [runner EXCEPT ![n][t] = Looking] /\ runner[n][t].at = "counting"
        /\ TEST_CURRENT_N_PACKETS'[n] = runner[n][t].count + 1
        /\ queue'[n] = queue[n] + 1
        /\ UNCHANGED <<attempts, faults>>
    BY <1>13 DEF CountPacket
  <2>2. runner'[n][t] = Looking
    BY <1>5, <2>1
  <2>3. Progress(n, t)'
    BY <1>4, <1>5, <1>6, <1>9, <2>1, <2>2 DEF Progress
  <2> QED
    BY <1>7, <1>9, <2>1, <2>3
<1> QED
  BY <1>10, <1>11, <1>12, <1>13 DEF RunnerStep

\* Every step of a node keeps what is known of its only test, and leaves the other
\* nodes where they were.
LEMMA SoloNext ==
  ASSUME TypeOK, TypeOK', SoloInv, [Next]_vars
  PROVE  SoloInv'
<1> USE DEF SoloInv
<1>1. faults' >= faults /\ faults' \in Nat
  <2>1. faults' = faults \/ faults' = faults + 1
    <3>1. ASSUME NEW n \in Nodes, RequestTest(n) \/ HearTest(n)
          PROVE  faults' = faults
      BY <3>1 DEF RequestTest, HearTest, Begin
    <3>2. ASSUME NEW n \in Nodes, NEW o \in Origins, TestStep(n, o)
          PROVE  faults' = faults \/ faults' = faults + 1
      BY <3>2 DEF TestStep, SetCount, ResetCounter, Announce, EnterFirst, StartRunner
    <3>3. ASSUME NEW n \in Nodes, NEW t \in Runners, RunnerStep(n, t)
          PROVE  faults' = faults \/ faults' = faults + 1
      BY <3>3 DEF RunnerStep, TakeEvent, SendPacket, ReadCounter, CountPacket
    <3>4. ASSUME NEW n \in Nodes, Setup(n)
          PROVE  faults' = faults
      BY <3>4 DEF Setup
    <3>5. UNCHANGED vars => faults' = faults
      BY DEF vars
    <3> QED
      BY <3>1, <3>2, <3>3, <3>4, <3>5 DEF Next
  <2> QED
    BY <2>1 DEF TypeOK
<1>2. ASSUME NEW n \in Nodes, Solo(n)',
             \A m \in Nodes : m # n =>
                /\ TEST_N_PACKETS'[m] = TEST_N_PACKETS[m]
                /\ TEST_CURRENT_N_PACKETS'[m] = TEST_CURRENT_N_PACKETS[m]
                /\ queue'[m] = queue[m] /\ runner'[m] = runner[m] /\ test'[m] = test[m]
                /\ attempts'[m] = attempts[m] /\ asked'[m] = asked[m]
      PROVE  SoloInv'
  BY <1>1, <1>2, SoloElsewhere
<1>3. ASSUME NEW n \in Nodes, NEW o \in Origins, NEW k \in Nat, NEW b \in BOOLEAN,
             Begin(n, o, k, b)
      PROVE  SoloInv'
  <2>1. Solo(n)'
    BY <1>3, SoloBegin
  <2> QED
    BY <1>2, <1>3, <2>1 DEF Begin, counters, TypeOK
<1>4. ASSUME NEW n \in Nodes, RequestTest(n)
      PROVE  SoloInv'
  <2>1. PICK c \in Connections, ask \in Asks[n] : Begin(n, c, ask[1], ask[2])
    BY <1>4 DEF RequestTest
  <2>2. ask[1] \in Nat /\ ask[2] \in BOOLEAN /\ c \in Origins
    BY TestBounds DEF Origins
  <2> QED
    BY <1>3, <2>1, <2>2
<1>5. ASSUME NEW n \in Nodes, HearTest(n)
      PROVE  SoloInv'
  <2>1. Head(heard[n]) \in Nat /\ "callback" \in Origins
    <3>1. heard[n] \in Seq(Nat) /\ heard[n] # <<>>
      BY <1>5 DEF HearTest, TypeOK
    <3> QED
      BY <3>1 DEF Origins
  <2>2. Begin(n, "callback", Head(heard[n]), FALSE)
    BY <1>5 DEF HearTest, ToMeshWhenHeard
  <2> QED
    BY <1>3, <2>1, <2>2
<1>6. ASSUME NEW n \in Nodes, NEW o \in Origins, TestStep(n, o)
      PROVE  SoloInv'
  <2>1. Solo(n)'
    BY <1>6, SoloPrepare
  <2>2. \A m \in Nodes : m # n =>
           /\ TEST_N_PACKETS'[m] = TEST_N_PACKETS[m]
           /\ TEST_CURRENT_N_PACKETS'[m] = TEST_CURRENT_N_PACKETS[m]
           /\ queue'[m] = queue[m] /\ runner'[m] = runner[m] /\ test'[m] = test[m]
           /\ attempts'[m] = attempts[m] /\ asked'[m] = asked[m]
    BY <1>6 DEF TestStep, SetCount, ResetCounter, Announce, EnterFirst, StartRunner,
                counters, TypeOK
  <2> QED
    BY <1>2, <2>1, <2>2
<1>7. ASSUME NEW n \in Nodes, NEW t \in Runners, RunnerStep(n, t)
      PROVE  SoloInv'
  <2>1. Solo(n)'
    BY <1>7, SoloRun
  <2>2. \A m \in Nodes : m # n =>
           /\ TEST_N_PACKETS'[m] = TEST_N_PACKETS[m]
           /\ TEST_CURRENT_N_PACKETS'[m] = TEST_CURRENT_N_PACKETS[m]
           /\ queue'[m] = queue[m] /\ runner'[m] = runner[m] /\ test'[m] = test[m]
           /\ attempts'[m] = attempts[m] /\ asked'[m] = asked[m]
    BY <1>7 DEF RunnerStep, TakeEvent, SendPacket, ReadCounter, CountPacket,
                counters, TypeOK
  <2> QED
    BY <1>2, <2>1, <2>2
<1>8. ASSUME NEW n \in Nodes, Setup(n)
      PROVE  SoloInv'
  BY <1>1, <1>8, SoloElsewhere DEF Setup, counters
<1>9. CASE UNCHANGED vars
  BY <1>1, <1>9, SoloElsewhere DEF vars, counters
<1> QED
  BY <1>4, <1>5, <1>6, <1>7, <1>8, <1>9 DEF Next

\* A test that is the only one of its node tries to send as many packets as it
\* was asked for, no more, and not fewer unless a sending raised what is not
\* caught: whatever the other nodes do, whenever the device is set up, and at
\* every step of the threads.
THEOREM SoloTestExactCorrect == Spec => []SoloTestExact
<1>1. Init => SoloInv
  BY DEF Init, SoloInv, Solo, Fresh, Resting, NoThreads, NoTest, NotStarted
<1>2. TypeOK /\ TypeOK' /\ SoloInv /\ [Next]_vars => SoloInv'
  BY SoloNext
<1>3. TypeOK /\ SoloInv => SoloTestExact
  <2> SUFFICES ASSUME TypeOK, SoloInv, NEW n \in Nodes, Len(asked[n]) = 1
               PROVE  /\ attempts[n] <= asked[n][1]
                      /\ Quiet(n) /\ faults = 0 => attempts[n] = asked[n][1]
    BY DEF SoloTestExact
  <2>1. Preparing(n) \/ Running(n) \/ NeverStarted(n)
    BY DEF SoloInv, Solo
  <2>2. asked[n][1] \in Nat /\ faults \in Nat
    <3>1. asked[n] \in Seq(Nat) /\ Len(asked[n]) = 1
      BY DEF TypeOK
    <3>2. asked[n][1] \in Nat
      BY <3>1, FirstOfOne
    <3>3. faults \in Nat
      BY TestBounds DEF TypeOK
    <3> QED
      BY <3>2, <3>3
  <2>3. CASE Preparing(n)
    BY <2>2, <2>3 DEF Preparing, Quiet
  <2>4. CASE Running(n)
    BY <2>2, <2>4 DEF Running, Progress, Quiet
  <2>5. CASE NeverStarted(n)
    BY <2>2, <2>5 DEF NeverStarted
  <2> QED
    BY <2>1, <2>3, <2>4, <2>5
<1> QED
  BY <1>1, <1>2, <1>3, TypeCorrect, PTL DEF Spec

-----------------------------------------------------------------------------
\* SpreadsOnce, made inductive.  The service calls of other nodes that still
\* have their announcement to send.
Announces(m, c) ==
    \/ test[m][c].at = "announce"
    \/ test[m][c].to_mesh /\ test[m][c].at \in {"count", "reset"}

Calls(n) == (Nodes \ {n}) \X Connections

Pending(n) == {p \in Calls(n) : Announces(p[1], p[2])}

\* A test that was heard of is not announced.
HeardStay ==
    \A n \in Nodes : ~test[n]["callback"].to_mesh /\ test[n]["callback"].at # "announce"

\* What a node was given and has heard, with what it may yet hear of, was asked
\* for by a client.
Told(n) == Len(asked[n]) + Len(heard[n])

Spread(n) == Told(n) + Cardinality(Pending(n)) <= SumFunction(requested)

SpreadInv == HeardStay /\ \A n \in Nodes : Spread(n)

\* The requests of all nodes, as a sum by recursion.
LEMMA SumOfRequests ==
  ASSUME NEW w \in [Nodes -> Nat]
  PROVE  SumFunction(w) = SumOf(Nodes, w)[Nodes]
<1>1. DOMAIN w = Nodes
  OBVIOUS
<1>2. SumFunction(w) = SumFunctionOnSet(w, Nodes)
  BY <1>1 DEF SumFunction
<1> QED
  BY <1>2, Zenon DEF SumFunctionOnSet, FoldFunctionOnSet, MapThenFoldSet, SumOf, SumsOver

\* A request adds one to their sum.
LEMMA OneMoreRequest ==
  ASSUME TypeOK, NEW m \in Nodes, requested' = [requested EXCEPT ![m] = requested[m] + 1]
  PROVE  /\ SumFunction(requested) \in Nat
         /\ SumFunction(requested') = SumFunction(requested) + 1
<1>1. requested \in [Nodes -> Nat]
  BY DEF TypeOK
<1>2. requested' \in [Nodes -> Nat]
  BY <1>1
<1>3. SumOf(Nodes, requested) \in [SUBSET Nodes -> Nat]
  BY <1>1, NodesAssumption, SumRecursion
<1>4. SumOf(Nodes, requested')[Nodes] = SumOf(Nodes, requested)[Nodes] + 1
  BY <1>1, NodesAssumption, SumIncrement
<1>5. /\ SumFunction(requested) = SumOf(Nodes, requested)[Nodes]
      /\ SumFunction(requested') = SumOf(Nodes, requested')[Nodes]
  BY <1>1, <1>2, SumOfRequests
<1>6. SumOf(Nodes, requested)[Nodes] \in Nat
  BY <1>3
<1> QED
  BY <1>4, <1>5, <1>6

\* What waits to be announced is counted.
LEMMA PendingFinite ==
  ASSUME NEW n \in Nodes
  PROVE  /\ IsFiniteSet(Pending(n)) /\ IsFiniteSet(Pending(n)')
         /\ Cardinality(Pending(n)) \in Nat /\ Cardinality(Pending(n)') \in Nat
<1>1. IsFiniteSet(Calls(n))
  <2>1. IsFiniteSet(Nodes \ {n})
    BY NodesAssumption, FS_Subset
  <2> QED
    BY <2>1, ConnectionsAssumption, FS_Product DEF Calls
<1>2. IsFiniteSet(Pending(n)) /\ IsFiniteSet(Pending(n)')
  <2>1. Pending(n) \subseteq Calls(n) /\ Pending(n)' \subseteq Calls(n)
    BY DEF Pending
  <2> QED
    BY <1>1, <2>1, FS_Subset
<1> QED
  BY <1>2, FS_CardinalityType

\* The numbers that Spread compares.
LEMMA SpreadNumbers ==
  ASSUME TypeOK, NEW n \in Nodes
  PROVE  /\ Told(n) \in Nat
         /\ Len(asked[n]) <= Told(n)
         /\ SumFunction(requested) \in Nat
<1> DEFINE i == Len(asked[n])
           j == Len(heard[n])
<1>1. asked[n] \in Seq(Nat) /\ heard[n] \in Seq(Nat) /\ requested \in [Nodes -> Nat]
  BY DEF TypeOK
<1>2. SumOf(Nodes, requested) \in [SUBSET Nodes -> Nat]
  BY <1>1, NodesAssumption, SumRecursion
<1>3. SumFunction(requested) \in Nat
  BY <1>1, <1>2, SumOfRequests
<1>4. i \in Nat /\ j \in Nat
  BY <1>1
<1>5. Told(n) = i + j
  BY DEF Told
<1> HIDE DEF i, j
<1>6. Told(n) \in Nat /\ i <= Told(n)
  BY <1>4, <1>5
<1> QED
  BY <1>3, <1>6 DEF i

\* How what is told changes with the two queues.
LEMMA ToldAfter ==
  ASSUME TypeOK, TypeOK', NEW n \in Nodes
  PROVE  /\ Told(n)' \in Nat
         /\ asked'[n] = asked[n] /\ heard'[n] = heard[n] => Told(n)' = Told(n)
         /\ Len(asked'[n]) = Len(asked[n]) + 1 /\ heard'[n] = heard[n]
               => Told(n)' = Told(n) + 1
         /\ Len(asked'[n]) = Len(asked[n]) + 1 /\ Len(heard'[n]) = Len(heard[n]) - 1
               => Told(n)' = Told(n)
         /\ asked'[n] = asked[n] /\ Len(heard'[n]) <= Len(heard[n]) + 1
               => Told(n)' <= Told(n) + 1
<1> DEFINE i == Len(asked[n])
           j == Len(heard[n])
           k == Len(asked'[n])
           l == Len(heard'[n])
<1>1. /\ asked[n] \in Seq(Nat) /\ asked'[n] \in Seq(Nat)
      /\ heard[n] \in Seq(Nat) /\ heard'[n] \in Seq(Nat)
  BY DEF TypeOK
<1>2. i \in Nat /\ j \in Nat /\ k \in Nat /\ l \in Nat
  BY <1>1
<1>3. Told(n) = i + j /\ Told(n)' = k + l
  BY DEF Told
<1>4. (asked'[n] = asked[n] => k = i) /\ (heard'[n] = heard[n] => l = j)
  OBVIOUS
<1> HIDE DEF i, j, k, l
<1>5. /\ Told(n)' \in Nat
      /\ k = i /\ l = j => Told(n)' = Told(n)
      /\ k = i + 1 /\ l = j => Told(n)' = Told(n) + 1
      /\ k = i + 1 /\ l = j - 1 => Told(n)' = Told(n)
      /\ k = i /\ l <= j + 1 => Told(n)' <= Told(n) + 1
  BY <1>2, <1>3
<1> USE DEF i, j, k, l
<1> QED
  BY <1>4, <1>5, Zenon

\* A call of a client is one test asked for, and one that may be announced.
LEMMA SpreadRequest ==
  ASSUME TypeOK, TypeOK', SpreadInv, NEW m \in Nodes, RequestTest(m)
  PROVE  SpreadInv'
<1>1. PICK c \in Connections, ask \in Asks[m] : Begin(m, c, ask[1], ask[2])
  BY DEF RequestTest
<1>2. /\ test[m][c].at = "idle"
      /\ asked' = [asked EXCEPT ![m] = Append(@, ask[1])]
      /\ ask[1] \in Nat
      /\ heard' = heard
      /\ requested' = [requested EXCEPT ![m] = requested[m] + 1]
  <2>1. ask[1] \in Nat
    BY TestBounds
  <2> QED
    BY <1>1, <2>1 DEF Begin, RequestTest
<1>3. \A x \in Nodes : \A p \in Origins :
         x # m \/ p # c => test'[x][p] = test[x][p]
  BY <1>1 DEF Begin, TypeOK
<1>4. HeardStay'
  BY <1>3, ConnectionsAssumption DEF SpreadInv, HeardStay, Origins
<1>5. ASSUME NEW n \in Nodes
      PROVE  Spread(n)'
  <2>1. SumFunction(requested') = SumFunction(requested) + 1
    BY <1>2, OneMoreRequest
  <2>2. Told(n) \in Nat /\ SumFunction(requested) \in Nat
    BY SpreadNumbers
  <2>3. Told(n) + Cardinality(Pending(n)) <= SumFunction(requested)
    BY DEF SpreadInv, Spread
  <2>4. Cardinality(Pending(n)) \in Nat /\ Cardinality(Pending(n)') \in Nat
    BY PendingFinite
  <2>5. heard'[n] = heard[n]
    BY <1>2
  <2>6. CASE n = m
    <3>1. Told(n)' = Told(n) + 1
      <4>1. asked[n] \in Seq(Nat) /\ heard[n] \in Seq(Nat)
        BY DEF TypeOK
      <4>2. asked'[n] = Append(asked[n], ask[1])
        BY <1>2, <2>6 DEF TypeOK
      <4>3. Len(asked'[n]) = Len(asked[n]) + 1
        BY <1>2, <4>1, <4>2
      <4> QED
        BY <2>5, <4>3, ToldAfter, Zenon
    <3>2. Pending(n)' = Pending(n)
      BY <1>3, <2>6 DEF Pending, Announces, Calls, Origins
    <3> HIDE DEF Pending
    <3> QED
      BY <2>1, <2>2, <2>3, <2>4, <2>5, <3>1, <3>2 DEF Spread
  <2>7. CASE n # m
    <3>1. Told(n)' = Told(n)
      <4>1. asked'[n] = asked[n]
        BY <1>2, <2>7 DEF TypeOK
      <4> QED
        BY <2>5, <4>1, ToldAfter
    <3>2. Pending(n)' \subseteq Pending(n) \cup {<<m, c>>}
      BY <1>3 DEF Pending, Announces, Calls, Origins
    <3>3. Cardinality(Pending(n)') <= Cardinality(Pending(n)) + 1
      <4>1. /\ IsFiniteSet(Pending(n) \cup {<<m, c>>})
            /\ Cardinality(Pending(n) \cup {<<m, c>>}) =
                  IF <<m, c>> \in Pending(n) THEN Cardinality(Pending(n))
                  ELSE Cardinality(Pending(n)) + 1
        BY PendingFinite, FS_AddElement
      <4>2. Cardinality(Pending(n)') <= Cardinality(Pending(n) \cup {<<m, c>>})
        BY <3>2, <4>1, FS_Subset
      <4> HIDE DEF Pending
      <4> QED
        BY <2>4, <4>1, <4>2
    <3> QED
      BY <2>1, <2>2, <2>3, <2>4, <2>5, <3>1, <3>3 DEF Spread
  <2> QED
    BY <2>6, <2>7
<1> QED
  BY <1>4, <1>5 DEF SpreadInv

\* A test that was heard of is one that is not heard again.
LEMMA SpreadHear ==
  ASSUME TypeOK, TypeOK', SpreadInv, NEW m \in Nodes, HearTest(m)
  PROVE  SpreadInv'
<1>1. /\ heard[m] # <<>> /\ heard[m] \in Seq(Nat) /\ asked[m] \in Seq(Nat)
      /\ heard' = [heard EXCEPT ![m] = Tail(@)]
      /\ requested' = requested
  BY DEF HearTest, TypeOK
<1>2. Head(heard[m]) \in Nat /\ Len(Tail(heard[m])) = Len(heard[m]) - 1
  BY <1>1
<1>3. Begin(m, "callback", Head(heard[m]), FALSE)
  BY DEF HearTest, ToMeshWhenHeard
<1>4. /\ test' = [test EXCEPT ![m]["callback"] =
                     [at |-> "count", n |-> Head(heard[m]), to_mesh |-> FALSE]]
      /\ asked' = [asked EXCEPT ![m] = Append(@, Head(heard[m]))]
  BY <1>3 DEF Begin
<1>5. /\ test'[m]["callback"] = [at |-> "count", n |-> Head(heard[m]), to_mesh |-> FALSE]
      /\ \A x \in Nodes : \A p \in Origins :
            x # m \/ p # "callback" => test'[x][p] = test[x][p]
  <2>1. "callback" \in Origins /\ test \in [Nodes -> [Origins -> TestRec]]
    BY DEF Origins, TypeOK
  <2> QED
    BY <1>4, <2>1
<1>6. HeardStay'
  BY <1>5 DEF SpreadInv, HeardStay, Origins
<1>7. ASSUME NEW n \in Nodes
      PROVE  Spread(n)'
  <2>1. Pending(n)' = Pending(n)
    BY <1>5, ConnectionsAssumption DEF Pending, Announces, Calls, Origins
  <2>2. Told(n)' = Told(n)
    <3>1. CASE n = m
      <4>1. /\ asked'[n] = Append(asked[n], Head(heard[m]))
            /\ heard'[n] = Tail(heard[n])
        BY <1>1, <1>4, <3>1 DEF TypeOK
      <4>2. asked[n] \in Seq(Nat) /\ heard[n] \in Seq(Nat)
        BY <1>1, <3>1
      <4>3. /\ Len(asked'[n]) = Len(asked[n]) + 1
            /\ Len(heard'[n]) = Len(heard[n]) - 1
        BY <1>2, <3>1, <4>1, <4>2
      <4> QED
        BY <4>3, ToldAfter, Zenon
    <3>2. CASE n # m
      <4>1. asked'[n] = asked[n] /\ heard'[n] = heard[n]
        BY <1>1, <1>4, <3>2 DEF TypeOK
      <4> QED
        BY <4>1, ToldAfter
    <3> QED
      BY <3>1, <3>2
  <2>3. Told(n) + Cardinality(Pending(n)) <= SumFunction(requested)
    BY DEF SpreadInv, Spread
  <2> QED
    BY <1>1, <2>1, <2>2, <2>3 DEF Spread
<1> QED
  BY <1>6, <1>7 DEF SpreadInv

\* A call that goes on, without being about to announce more than it was.
LEMMA SpreadGoOn ==
  ASSUME TypeOK, TypeOK', SpreadInv,
         UNCHANGED <<asked, heard, requested>>,
         \A x \in Nodes : \A c \in Connections : Announces(x, c)' => Announces(x, c),
         HeardStay'
  PROVE  SpreadInv'
<1> SUFFICES ASSUME NEW n \in Nodes
             PROVE  Spread(n)'
  BY DEF SpreadInv
<1>1. Pending(n)' \subseteq Pending(n)
  BY DEF Pending, Calls
<1>2. Cardinality(Pending(n)') <= Cardinality(Pending(n))
  BY <1>1, PendingFinite, FS_Subset
<1>3. Told(n) + Cardinality(Pending(n)) <= SumFunction(requested)
  BY DEF SpreadInv, Spread
<1>4. /\ Told(n) \in Nat /\ SumFunction(requested) \in Nat
      /\ Cardinality(Pending(n)) \in Nat /\ Cardinality(Pending(n)') \in Nat
  BY PendingFinite, SpreadNumbers
<1>5. Told(n)' = Told(n)
  BY ToldAfter
<1>6. SumFunction(requested') = SumFunction(requested)
  OBVIOUS
<1> QED
  BY <1>2, <1>3, <1>4, <1>5, <1>6 DEF Spread

\* An announcement is made by a call of a client, and once; each of the others
\* hears it at most once.
LEMMA SpreadAnnounce ==
  ASSUME TypeOK, TypeOK', SpreadInv, NEW m \in Nodes, NEW o \in Origins, Announce(m, o)
  PROVE  SpreadInv'
<1>1. o \in Connections /\ o # "callback" /\ test[m][o].at = "announce"
  BY ConnectionsAssumption DEF Announce, Origins, SpreadInv, HeardStay
<1>2. /\ asked' = asked /\ requested' = requested
      /\ test'[m][o].at \in {"enter", "idle"}
      /\ \A x \in Nodes : \A p \in Origins :
            x # m \/ p # o => test'[x][p] = test[x][p]
  <2>0. asked' = asked /\ requested' = requested
    BY DEF Announce
  <2>1. CASE test' = [test EXCEPT ![m][o].at = "enter"]
    BY <2>0, <2>1, GoesOn DEF TypeOK
  <2>2. CASE test' = [test EXCEPT ![m][o] = NoTest]
    BY <2>0, <2>2 DEF TypeOK, NoTest
  <2> QED
    BY <2>1, <2>2 DEF Announce
<1>3. HeardStay'
  BY <1>1, <1>2 DEF SpreadInv, HeardStay, Origins
<1>4. heard'[m] = heard[m]
      /\ \A x \in Nodes \ {m} : Len(heard'[x]) <= Len(heard[x]) + 1
  <2>1. CASE UNCHANGED heard
    BY <2>1 DEF TypeOK
  <2>2. CASE \E hearers \in SUBSET Hearers(m) :
                heard' = [h \in Nodes |->
                             IF h \in hearers
                             THEN Append(heard[h], TEST_N_PACKETS[m])
                             ELSE heard[h]]
    <3>1. TEST_N_PACKETS[m] \in Nat /\ \A x \in Nodes : heard[x] \in Seq(Nat)
      BY DEF TypeOK
    <3>2. \A x \in Nodes : Len(Append(heard[x], TEST_N_PACKETS[m])) = Len(heard[x]) + 1
      BY <3>1
    <3>3. \A x \in Nodes : Len(heard[x]) \in Nat
      BY <3>1
    <3>4. m \notin Hearers(m)
      BY DEF Hearers
    <3> QED
      BY <2>2, <3>2, <3>3, <3>4
  <2> QED
    BY <2>1, <2>2 DEF Announce
<1>5. ASSUME NEW n \in Nodes
      PROVE  Spread(n)'
  <2>1. Told(n) + Cardinality(Pending(n)) <= SumFunction(requested)
    BY DEF SpreadInv, Spread
  <2>2. /\ Told(n) \in Nat /\ Told(n)' \in Nat /\ SumFunction(requested) \in Nat
        /\ Cardinality(Pending(n)) \in Nat /\ Cardinality(Pending(n)') \in Nat
    BY PendingFinite, SpreadNumbers, ToldAfter
  <2>3. asked'[n] = asked[n] /\ SumFunction(requested') = SumFunction(requested)
    BY <1>2
  <2>4. CASE n = m
    <3>1. Pending(n)' = Pending(n)
      BY <1>2, <2>4 DEF Pending, Announces, Calls, Origins
    <3>2. Told(n)' = Told(n)
      BY <1>4, <2>3, <2>4, ToldAfter
    <3> QED
      BY <2>1, <2>3, <3>1, <3>2 DEF Spread
  <2>5. CASE n # m
    <3>1. <<m, o>> \in Pending(n) /\ Pending(n)' = Pending(n) \ {<<m, o>>}
      BY <1>1, <1>2, <2>5 DEF Pending, Announces, Calls, Origins
    <3>2. Cardinality(Pending(n)') = Cardinality(Pending(n)) - 1
      BY <3>1, PendingFinite, FS_RemoveElement
    <3>3. Told(n)' <= Told(n) + 1
      <4>1. Len(heard'[n]) <= Len(heard[n]) + 1
        BY <1>4, <2>5
      <4> QED
        BY <2>3, <4>1, ToldAfter, Zenon
    <3> QED
      BY <2>1, <2>2, <2>3, <3>2, <3>3 DEF Spread
  <2> QED
    BY <2>4, <2>5
<1> QED
  BY <1>3, <1>5 DEF SpreadInv

\* A call that does not announce sends nothing that others hear.
LEMMA SpreadPrepare ==
  ASSUME TypeOK, TypeOK', SpreadInv, NEW m \in Nodes, NEW o \in Origins, TestStep(m, o)
  PROVE  SpreadInv'
<1>g. ASSUME NEW x \in {"reset", "enter", "start"} \cup
                       (IF test[m][o].to_mesh THEN {"announce"} ELSE {}),
             test[m][o].at \in {"count", "reset", "enter"},
             x = "reset" => test[m][o].at = "count",
             x = "announce" => test[m][o].at = "reset",
             test' = [test EXCEPT ![m][o].at = x],
             UNCHANGED <<asked, heard, requested>>
      PROVE  SpreadInv'
  <2>1. /\ test'[m][o].at = x /\ test'[m][o].to_mesh = test[m][o].to_mesh
        /\ \A y \in Nodes : \A p \in Origins : y # m \/ p # o => test'[y][p] = test[y][p]
    <3>1. test' = [test EXCEPT ![m] = [test[m] EXCEPT ![o] = [test[m][o] EXCEPT !.at = x]]]
      BY <1>g
    <3>2. test[m][o] \in TestRec /\ test \in [Nodes -> [Origins -> TestRec]]
      BY DEF TypeOK
    <3>3. \A y \in TestRec : [y EXCEPT !.at = x].at = x
                             /\ [y EXCEPT !.at = x].to_mesh = y.to_mesh
      BY DEF TestRec
    <3>4. test'[m][o] = [test[m][o] EXCEPT !.at = x]
      BY <3>1, <3>2
    <3>5. \A y \in Nodes : \A p \in Origins : y # m \/ p # o => test'[y][p] = test[y][p]
      BY <3>1, <3>2
    <3> QED
      BY <3>2, <3>3, <3>4, <3>5
  <2>2. HeardStay'
    BY <1>g, <2>1 DEF SpreadInv, HeardStay, Origins
  <2>3. \A y \in Nodes : \A c \in Connections : Announces(y, c)' => Announces(y, c)
    BY <1>g, <2>1 DEF Announces, Origins
  <2> QED
    BY <1>g, <2>2, <2>3, SpreadGoOn
<1>1. CASE SetCount(m, o)
  BY <1>1, <1>g DEF SetCount
<1>2. CASE ResetCounter(m, o)
  BY <1>2, <1>g DEF ResetCounter
<1>3. CASE Announce(m, o)
  BY <1>3, SpreadAnnounce
<1>4. CASE EnterFirst(m, o)
  BY <1>4, <1>g DEF EnterFirst
<1>5. CASE StartRunner(m, o)
  <2>1. /\ test' = [test EXCEPT ![m][o] = NoTest]
        /\ UNCHANGED <<asked, heard, requested>>
    BY <1>5 DEF StartRunner
  <2>2. /\ test'[m][o] = NoTest
        /\ \A y \in Nodes : \A p \in Origins : y # m \/ p # o => test'[y][p] = test[y][p]
    BY <2>1 DEF TypeOK
  <2>3. /\ HeardStay'
        /\ \A y \in Nodes : \A c \in Connections : Announces(y, c)' => Announces(y, c)
    BY <2>2 DEF SpreadInv, HeardStay, Announces, NoTest, Origins
  <2> QED
    BY <2>1, <2>3, SpreadGoOn
<1> QED
  BY <1>1, <1>2, <1>3, <1>4, <1>5 DEF TestStep

\* A test for the mesh is run once by each node that hears of it: no node is
\* given more tests than clients asked for in all, since those who hear do not
\* announce again, whatever the order of the calls and whichever are lost.
THEOREM SpreadsOnceCorrect == Spec => []SpreadsOnce
<1>1. Init => SpreadInv
  <2> SUFFICES ASSUME Init
               PROVE  SpreadInv
    OBVIOUS
  <2>1. HeardStay /\ \A x \in Nodes : \A c \in Connections : ~Announces(x, c)
    BY DEF Init, HeardStay, Announces, NoTest, Origins
  <2>2. ASSUME NEW n \in Nodes
        PROVE  Spread(n)
    <3>1. Pending(n) = {}
      BY <2>1 DEF Pending, Calls
    <3>2. Cardinality(Pending(n)) = 0
      BY <3>1, FS_EmptySet
    <3>3. Told(n) = 0
      BY DEF Init, Told
    <3>4. SumFunction(requested) \in Nat
      <4>1. requested \in [Nodes -> Nat]
        BY DEF Init
      <4>2. SumOf(Nodes, requested) \in [SUBSET Nodes -> Nat]
        BY <4>1, NodesAssumption, SumRecursion
      <4> QED
        BY <4>1, <4>2, SumOfRequests
    <3> HIDE DEF Pending
    <3> QED
      BY <3>2, <3>3, <3>4 DEF Spread
  <2> QED
    BY <2>1, <2>2 DEF SpreadInv
<1>2. TypeOK /\ TypeOK' /\ SpreadInv /\ [Next]_vars => SpreadInv'
  <2> SUFFICES ASSUME TypeOK, TypeOK', SpreadInv, [Next]_vars
               PROVE  SpreadInv'
    OBVIOUS
  <2>1. ASSUME UNCHANGED <<asked, heard, requested, test>>
        PROVE  SpreadInv'
    <3>1. /\ HeardStay'
          /\ \A y \in Nodes : \A c \in Connections : Announces(y, c)' => Announces(y, c)
      BY <2>1 DEF SpreadInv, HeardStay, Announces
    <3> QED
      BY <2>1, <3>1, SpreadGoOn
  <2>2. ASSUME NEW n \in Nodes, NEW t \in Runners, RunnerStep(n, t)
        PROVE  SpreadInv'
    BY <2>1, <2>2 DEF RunnerStep, TakeEvent, SendPacket, ReadCounter, CountPacket
  <2>3. ASSUME NEW n \in Nodes, Setup(n)
        PROVE  SpreadInv'
    BY <2>1, <2>3 DEF Setup
  <2>4. CASE UNCHANGED vars
    BY <2>1, <2>4 DEF vars
  <2> QED
    BY <2>2, <2>3, <2>4, SpreadRequest, SpreadHear, SpreadPrepare DEF Next
<1>3. TypeOK /\ SpreadInv => SpreadsOnce
  <2> SUFFICES ASSUME TypeOK, SpreadInv, NEW n \in Nodes
               PROVE  Len(asked[n]) <= SumFunction(requested)
    BY DEF SpreadsOnce
  <2>1. Told(n) + Cardinality(Pending(n)) <= SumFunction(requested)
    BY DEF SpreadInv, Spread
  <2>2. /\ Told(n) \in Nat /\ SumFunction(requested) \in Nat
        /\ Cardinality(Pending(n)) \in Nat
    BY PendingFinite, SpreadNumbers
  <2>3. Len(asked[n]) <= Told(n)
    BY SpreadNumbers
  <2>4. asked[n] \in Seq(Nat)
    BY DEF TypeOK
  <2> QED
    BY <2>1, <2>2, <2>3, <2>4
<1> QED
  BY <1>1, <1>2, <1>3, TypeCorrect, PTL DEF Spec
=============================================================================
