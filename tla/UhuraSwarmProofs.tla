-------------------------- MODULE UhuraSwarmProofs --------------------------
(***************************************************************************)
(* Proofs about AdapterRegistration, for every set of nodes and adapters   *)
(* and every number of crashes, timeouts and restarts; and, resting on     *)
(* them, about UhuraSwarm, which extends it: that its processes register   *)
(* as AdapterRegistration says, that nobody receives what nobody else      *)
(* sent, and that while no core restarts the swarm is a best-effort        *)
(* broadcast.                                                              *)
(***************************************************************************)
EXTENDS UhuraSwarm, SequenceLemmas

(***************************************************************************)
(* AdapterRegistration.                                                    *)
(***************************************************************************)
\* Queues and registry entries hold requests of the node's own adapters, and
\* an adapter's registration is never from a later run than the current one.
Provenance ==
    /\ \A n \in Nodes : \A i \in 1 .. Len(requests[n]) :
          NodeOf[requests[n][i].adapter] = n
    /\ \A n \in Nodes : \A i \in 1 .. Len(adapter_list[n]) :
          NodeOf[adapter_list[n][i].adapter] = n
    /\ \A a \in Adapters : assigned[a].run <= coreRun[NodeOf[a]]

\* The counter of the registry is the length of its list, whose ids count up.
IdsCountUp ==
    \A n \in Nodes :
        /\ progressiveId[n] = Len(adapter_list[n])
        /\ \A i \in 1 .. Len(adapter_list[n]) : adapter_list[n][i].id = i

-----------------------------------------------------------------------------
\* The type invariant: every variable keeps its type.
THEOREM TypeCorrect == Spec => []TypeOK
<1> USE NodesAssumption, BoundsAssumption
<1>1. Init => TypeOK
  BY DEF Init, TypeOK, Phases, Registration, Unregistered
<1>2. TypeOK /\ [Next]_regVars => TypeOK'
  <2> SUFFICES ASSUME TypeOK, [Next]_regVars
               PROVE  TypeOK'
    OBVIOUS
  <2> USE DEF TypeOK
  <2>1. ASSUME NEW n \in Nodes, CoreStart(n)
        PROVE  TypeOK'
    BY <2>1 DEF CoreStart, adapterVars
  <2>2. ASSUME NEW n \in Nodes, CoreCrash(n)
        PROVE  TypeOK'
    BY <2>2 DEF CoreCrash, Registration, Unregistered
  <2>3. ASSUME NEW n \in Nodes, CoreRegister(n)
        PROVE  TypeOK'
    <3> DEFINE r == Head(requests[n])
               entry == [id |-> generateAdapterId(n), type |-> TypeOf[r.adapter],
                         adapter |-> r.adapter, req |-> r.req]
    <3>1. r \in Request /\ Tail(requests[n]) \in Seq(Request)
      BY <2>3 DEF CoreRegister
    <3>2. entry \in Entry /\ generateAdapterId(n) \in Nat \ {0}
      <4>1. r.adapter \in Adapters /\ r.req \in Nat
        BY <3>1 DEF Request
      <4>2. TypeOf[r.adapter] \in Types
        BY <4>1 DEF Types
      <4>3. generateAdapterId(n) \in Nat \ {0}
        BY DEF generateAdapterId
      <4> QED
        BY <4>1, <4>2, <4>3 DEF Entry
    <3>3. /\ progressiveId' = [progressiveId EXCEPT ![n] = @ + 1]
          /\ adapter_list' = [adapter_list EXCEPT ![n] = Append(@, entry)]
      BY <2>3 DEF CoreRegister
    <3>6. progressiveId' \in [Nodes -> Nat] /\ adapter_list' \in [Nodes -> Seq(Entry)]
      <4> HIDE DEF entry
      <4> QED BY <3>2, <3>3
    <3>4. linkTables' \in [Nodes -> Seq(Types)]
      <4>1. linkTables' = [linkTables EXCEPT ![n] = WithTable(@, entry.type)]
        BY <2>3 DEF CoreRegister
      <4>2. WithTable(linkTables[n], entry.type) \in Seq(Types)
        BY <3>2 DEF WithTable, Entry
      <4> QED
        BY <4>1, <4>2
    <3>5. assigned' \in [Adapters -> Registration]
      BY <2>3, <3>1, <3>2 DEF CoreRegister, Registration, Request
    <3> QED
      BY <2>3, <3>1, <3>6, <3>4, <3>5 DEF CoreRegister
  <2>4. ASSUME NEW a \in Adapters, AdapterStart(a)
        PROVE  TypeOK'
    BY <2>4 DEF AdapterStart, coreVars, Phases
  <2>5. ASSUME NEW a \in Adapters, AdapterRequest(a)
        PROVE  TypeOK'
    <3>1. [adapter |-> a, req |-> requestNo[a] + 1] \in Request
      BY DEF Request
    <3>2. requests' \in [Nodes -> Seq(Request)] /\ requestNo' \in [Adapters -> Nat]
      <4>1. NodeOf[a] \in Nodes
        OBVIOUS
      <4>2. Append(requests[NodeOf[a]], [adapter |-> a, req |-> requestNo[a] + 1])
               \in Seq(Request)
        BY <3>1, <4>1
      <4>3. CASE coreUp[NodeOf[a]]
        <5>1. requests' = [requests EXCEPT ![NodeOf[a]] =
                  Append(@, [adapter |-> a, req |-> requestNo[a] + 1])]
          BY <2>5, <4>3 DEF AdapterRequest
        <5>2. requestNo' = [requestNo EXCEPT ![a] = @ + 1]
          BY <2>5, <4>3 DEF AdapterRequest
        <5> QED
          BY <4>1, <4>2, <5>1, <5>2
      <4>4. CASE ~coreUp[NodeOf[a]]
        BY <2>5, <4>4 DEF AdapterRequest
      <4> QED
        BY <4>3, <4>4
    <3>3. phase' \in [Adapters -> Phases]
      BY <2>5 DEF AdapterRequest, Phases
    <3> QED
      BY <2>5, <3>2, <3>3 DEF AdapterRequest, coreVars
  <2>6. ASSUME NEW a \in Adapters, Exit(a), faults' \in 0 .. MaxFaults
        PROVE  TypeOK'
    BY <2>6 DEF Exit, coreVars, Phases, Registration, Unregistered
  <2>7. ASSUME NEW a \in Adapters,
               AdapterTimeout(a) \/ AdapterGiveUp(a) \/ AdapterCrash(a)
        PROVE  TypeOK'
    <3>1. Exit(a)
      BY <2>7 DEF AdapterTimeout, AdapterGiveUp, AdapterCrash
    <3>2. faults' \in 0 .. MaxFaults
      BY <2>7 DEF AdapterTimeout, AdapterGiveUp, AdapterCrash
    <3> QED
      BY <2>6, <3>1, <3>2
  <2>8. ASSUME NEW a \in Adapters, AdapterAccept(a)
        PROVE  TypeOK'
    BY <2>8 DEF AdapterAccept, coreVars, Phases
  <2>9. CASE UNCHANGED regVars
    BY <2>9 DEF regVars, coreVars, adapterVars
  <2> QED
    BY <2>1, <2>2, <2>3, <2>4, <2>5, <2>7, <2>8, <2>9 DEF Next
<1> QED
  BY <1>1, <1>2, PTL DEF Spec
-----------------------------------------------------------------------------
\* Giving a type its link table adds that type to those with a table.
LEMMA ToSetWithTable ==
  ASSUME NEW S, NEW tables \in Seq(S), NEW type \in S
  PROVE  ToSet(WithTable(tables, type)) = ToSet(tables) \union {type}
BY ToSetAppend DEF WithTable

\* An adapter that is down or booting holds no registration.
UnregisteredUntilWaiting ==
    \A a \in Adapters :
        phase[a] \in {"down", "booting"} => assigned[a] = Unregistered

\* What makes the safety of the registry inductive.
Inv ==
    /\ TypeOK
    /\ Provenance
    /\ IdsCountUp
    /\ UnregisteredUntilWaiting
    /\ TablesMatch
    /\ IssuedByRegistry
    /\ DistinctIds

\* Before anything has started, no registry, queue or adapter holds anything.
LEMMA InvInit == Init => Inv
<1> USE NodesAssumption, BoundsAssumption
<1>1. Init => TypeOK
  BY DEF Init, TypeOK, Phases, Registration, Unregistered
<1>2. Init => Provenance /\ IdsCountUp /\ UnregisteredUntilWaiting
  BY DEF Init, Provenance, IdsCountUp, UnregisteredUntilWaiting, Unregistered
<1>3. Init => TablesMatch
  BY ToSetEmpty DEF Init, TablesMatch, TypesListed
<1>4. Init => IssuedByRegistry /\ DistinctIds
  BY DEF Init, IssuedByRegistry, DistinctIds, Registered, Unregistered
<1> QED
  BY <1>1, <1>2, <1>3, <1>4 DEF Inv

\* The core comes up: every registration held is from an earlier run.
LEMMA CoreStartInv ==
  ASSUME Inv, TypeOK', NEW n \in Nodes, CoreStart(n)
  PROVE  Inv'
<1> USE NodesAssumption DEF Inv, TypeOK
<1>1. /\ coreRun' = [coreRun EXCEPT ![n] = @ + 1]
      /\ coreUp' = [coreUp EXCEPT ![n] = TRUE]
      /\ UNCHANGED <<progressiveId, adapter_list, linkTables, requests, phase,
                     requestNo, assigned>>
  BY DEF CoreStart, adapterVars
<1>2. Provenance' /\ IdsCountUp' /\ UnregisteredUntilWaiting'
  <2>1. \A a \in Adapters : assigned[a].run <= coreRun[NodeOf[a]]
    BY DEF Provenance
  <2>2. ASSUME NEW a \in Adapters
        PROVE  assigned[a].run <= coreRun'[NodeOf[a]]
    <3>1. coreRun[NodeOf[a]] \in Nat /\ assigned[a].run \in Nat
      BY DEF Registration
    <3>2. coreRun'[NodeOf[a]] \in {coreRun[NodeOf[a]], coreRun[NodeOf[a]] + 1}
      BY <1>1
    <3> HIDE DEF Inv, TypeOK
    <3> QED
      BY <2>1, <3>1, <3>2
  <2> QED
    BY <1>1, <2>2 DEF Provenance, IdsCountUp, UnregisteredUntilWaiting
<1>3. TablesMatch' /\ DistinctIds'
  BY <1>1 DEF TablesMatch, TypesListed, DistinctIds
<1>4. IssuedByRegistry'
  <2> SUFFICES ASSUME NEW a \in Adapters, Registered(a)'
               PROVE  Registered(a)
    BY <1>1 DEF IssuedByRegistry
  <2>1. NodeOf[a] # n
    BY <1>1 DEF Registered, Provenance, Registration
  <2> QED
    BY <1>1, <2>1 DEF Registered
<1> QED
  BY <1>2, <1>3, <1>4

\* The core dies: nobody of its node is registered with a running core.
LEMMA CoreCrashInv ==
  ASSUME Inv, TypeOK', NEW n \in Nodes, CoreCrash(n)
  PROVE  Inv'
<1> USE NodesAssumption DEF Inv, TypeOK
<1>1. /\ coreUp' = [coreUp EXCEPT ![n] = FALSE]
      /\ progressiveId' = [progressiveId EXCEPT ![n] = 0]
      /\ adapter_list' = [adapter_list EXCEPT ![n] = <<>>]
      /\ linkTables' = [linkTables EXCEPT ![n] = <<>>]
      /\ requests' = [requests EXCEPT ![n] = <<>>]
      /\ UNCHANGED <<coreRun, phase, requestNo>>
  BY DEF CoreCrash
<1>2. \A a \in Adapters : assigned'[a] = assigned[a] \/ assigned'[a] = Unregistered
  BY DEF CoreCrash
<1>3. \A a \in Adapters : NodeOf[a] # n => assigned'[a] = assigned[a]
  BY DEF CoreCrash
<1>4. Provenance'
  <2>1. \A m \in Nodes : \A i \in 1 .. Len(requests'[m]) :
           NodeOf[requests'[m][i].adapter] = m
    BY <1>1 DEF Provenance
  <2>2. \A m \in Nodes : \A i \in 1 .. Len(adapter_list'[m]) :
           NodeOf[adapter_list'[m][i].adapter] = m
    BY <1>1 DEF Provenance
  <2>3. \A a \in Adapters : assigned'[a].run <= coreRun'[NodeOf[a]]
    <3> SUFFICES ASSUME NEW a \in Adapters
                 PROVE  assigned'[a].run <= coreRun[NodeOf[a]]
      BY <1>1
    <3>1. assigned[a].run <= coreRun[NodeOf[a]] /\ 0 <= coreRun[NodeOf[a]]
      BY DEF Provenance
    <3>2. Unregistered.run = 0
      BY DEF Unregistered
    <3> QED
      BY <1>2, <3>1, <3>2
  <2> QED
    BY <2>1, <2>2, <2>3 DEF Provenance
<1>5. IdsCountUp'
  BY <1>1 DEF IdsCountUp
<1>9. UnregisteredUntilWaiting'
  BY <1>1, <1>2 DEF UnregisteredUntilWaiting
<1>6. TablesMatch'
  <2> SUFFICES ASSUME NEW m \in Nodes
               PROVE  TypesListed(m)' = ToSet(linkTables'[m])
    BY DEF TablesMatch
  <2>1. CASE m = n
    BY <1>1, <2>1, ToSetEmpty DEF TypesListed
  <2>2. CASE m # n
    BY <1>1, <2>2 DEF TablesMatch, TypesListed
  <2> QED
    BY <2>1, <2>2
<1>7. IssuedByRegistry'
  <2> SUFFICES ASSUME NEW a \in Adapters, Registered(a)'
               PROVE  (\E i \in DOMAIN adapter_list[NodeOf[a]] :
                          /\ adapter_list[NodeOf[a]][i].id = assigned[a].id
                          /\ adapter_list[NodeOf[a]][i].adapter = a
                          /\ adapter_list[NodeOf[a]][i].req = requestNo[a])'
    BY DEF IssuedByRegistry
  <2>1. NodeOf[a] # n
    BY <1>1 DEF Registered
  <2>2. Registered(a) /\ adapter_list'[NodeOf[a]] = adapter_list[NodeOf[a]]
    BY <1>1, <1>3, <2>1 DEF Registered
  <2> QED
    <3>1. requestNo' = requestNo /\ assigned'[a] = assigned[a]
      BY <1>1, <1>3, <2>1
    <3>2. PICK i \in DOMAIN adapter_list[NodeOf[a]] :
             /\ adapter_list[NodeOf[a]][i].id = assigned[a].id
             /\ adapter_list[NodeOf[a]][i].adapter = a
             /\ adapter_list[NodeOf[a]][i].req = requestNo[a]
      BY <2>2 DEF IssuedByRegistry
    <3> QED
      BY <2>2, <3>1, <3>2
<1>8. DistinctIds'
  <2>1. \A a \in Adapters : assigned'[a].id # 0 => assigned'[a] = assigned[a]
    BY <1>2 DEF Unregistered
  <2>2. DistinctIds
    OBVIOUS
  <2> HIDE DEF Inv, TypeOK
  <2> QED
    BY <2>1, <2>2 DEF DistinctIds
<1> QED
  BY <1>4, <1>5, <1>6, <1>7, <1>8, <1>9

\* The core enters an adapter in the registry: its id is new, its type gets a
\* link table, and it alone may learn of a registration.
LEMMA CoreRegisterInv ==
  ASSUME Inv, TypeOK', NEW n \in Nodes, CoreRegister(n)
  PROVE  Inv'
<1> USE NodesAssumption
<1> DEFINE r == Head(requests[n])
           len == Len(adapter_list[n])
           entry == [id |-> generateAdapterId(n), type |-> TypeOf[r.adapter],
                     adapter |-> r.adapter, req |-> r.req]
<1>1. /\ progressiveId' = [progressiveId EXCEPT ![n] = @ + 1]
      /\ adapter_list' = [adapter_list EXCEPT ![n] = Append(@, entry)]
      /\ linkTables' = [linkTables EXCEPT ![n] = WithTable(@, entry.type)]
      /\ requests' = [requests EXCEPT ![n] = Tail(@)]
      /\ UNCHANGED <<coreUp, coreRun, phase, requestNo>>
      /\ coreUp[n] /\ requests[n] # <<>>
  BY DEF CoreRegister
<1>2. r \in Request /\ NodeOf[r.adapter] = n
  BY <1>1 DEF Inv, TypeOK, Provenance
<1>3. /\ len \in Nat /\ generateAdapterId(n) = len + 1
      /\ entry \in Entry /\ entry.id = len + 1
  <2>1. len \in Nat
    BY DEF Inv, TypeOK
  <2>3. generateAdapterId(n) = len + 1
    BY DEF Inv, IdsCountUp, generateAdapterId
  <2>2. r.adapter \in Adapters /\ r.req \in Nat /\ TypeOf[r.adapter] \in Types
    BY <1>2 DEF Request, Types
  <2> QED
    BY <2>1, <2>2, <2>3 DEF Entry
<1>4. assigned' = IF Awaited(r)
                  THEN [assigned EXCEPT ![r.adapter] =
                           [id |-> len + 1, run |-> coreRun[n]]]
                  ELSE assigned
  BY <1>3 DEF CoreRegister
<1>5. /\ Len(adapter_list'[n]) = len + 1
      /\ adapter_list'[n][len + 1] = entry
      /\ \A i \in 1 .. len : adapter_list'[n][i] = adapter_list[n][i]
  <2> HIDE DEF entry
  <2> QED
    BY <1>1, <1>3 DEF Inv, TypeOK
<1>6. \A m \in Nodes : m # n => /\ adapter_list'[m] = adapter_list[m]
                                /\ requests'[m] = requests[m]
                                /\ progressiveId'[m] = progressiveId[m]
                                /\ linkTables'[m] = linkTables[m]
  <2> HIDE DEF entry
  <2> QED
    BY <1>1 DEF Inv, TypeOK
<1>7. \A a \in Adapters :
         \/ assigned'[a] = assigned[a]
         \/ /\ a = r.adapter
            /\ Awaited(r)
            /\ assigned'[a] = [id |-> len + 1, run |-> coreRun[n]]
  BY <1>4 DEF Inv, TypeOK
<1> HIDE DEF r, len, entry
<1>8. Provenance'
  <2>1. ASSUME NEW m \in Nodes, NEW i \in 1 .. Len(requests'[m])
        PROVE  NodeOf[requests'[m][i].adapter] = m
    <3>1. CASE m = n
      <4>1. requests'[m] = Tail(requests[n]) /\ requests[n] \in Seq(Request)
        BY <1>1, <3>1 DEF Inv, TypeOK
      <4>2. \A j \in 1 .. Len(Tail(requests[n])) :
               j + 1 \in 1 .. Len(requests[n])
               /\ Tail(requests[n])[j] = requests[n][j + 1]
        BY <1>1, <4>1, HeadTailProperties
      <4>3. i + 1 \in 1 .. Len(requests[n]) /\ requests'[m][i] = requests[n][i + 1]
        BY <4>1, <4>2
      <4> QED
        BY <3>1, <4>3 DEF Inv, Provenance
    <3>2. CASE m # n
      BY <1>6, <3>2 DEF Inv, Provenance
    <3> QED
      BY <3>1, <3>2
  <2>2. ASSUME NEW m \in Nodes, NEW i \in 1 .. Len(adapter_list'[m])
        PROVE  NodeOf[adapter_list'[m][i].adapter] = m
    <3>1. CASE m = n /\ i = len + 1
      BY <1>2, <1>5, <3>1 DEF entry
    <3>2. CASE m = n /\ i # len + 1
      BY <1>3, <1>5, <3>2 DEF Inv, Provenance, len
    <3>3. CASE m # n
      BY <1>6, <3>3 DEF Inv, Provenance
    <3> QED
      BY <3>1, <3>2, <3>3
  <2>3. ASSUME NEW a \in Adapters
        PROVE  assigned'[a].run <= coreRun'[NodeOf[a]]
    <3>1. assigned[a].run <= coreRun[NodeOf[a]] /\ coreRun' = coreRun
      BY <1>1 DEF Inv, Provenance
    <3>2. coreRun[n] \in Nat
      BY DEF Inv, TypeOK
    <3> QED
      BY <1>2, <1>7, <3>1, <3>2
  <2> QED
    BY <2>1, <2>2, <2>3 DEF Provenance
<1>9. IdsCountUp'
  <2> SUFFICES ASSUME NEW m \in Nodes
               PROVE  /\ progressiveId'[m] = Len(adapter_list'[m])
                      /\ \A i \in DOMAIN adapter_list'[m] : adapter_list'[m][i].id = i
    BY DEF IdsCountUp
  <2>1. DOMAIN adapter_list'[m] = 1 .. Len(adapter_list'[m])
    BY DEF TypeOK
  <2>2. DOMAIN adapter_list[m] = 1 .. Len(adapter_list[m])
    BY DEF Inv, TypeOK
  <2>3. CASE m = n
    <3>1. progressiveId'[n] = len + 1
      BY <1>1 DEF Inv, TypeOK, IdsCountUp, len
    <3>2. \A i \in 1 .. len + 1 : adapter_list'[n][i].id = i
      BY <1>3, <1>5, <2>2, <2>3 DEF Inv, IdsCountUp, len
    <3> QED
      BY <1>5, <2>1, <2>3, <3>1, <3>2
  <2>4. CASE m # n
    BY <1>6, <2>2, <2>4 DEF Inv, IdsCountUp
  <2> QED
    BY <2>3, <2>4
<1>10. UnregisteredUntilWaiting'
  BY <1>1, <1>7 DEF Inv, UnregisteredUntilWaiting, Awaited
<1>11. TablesMatch'
  <2> SUFFICES ASSUME NEW m \in Nodes
               PROVE  TypesListed(m)' = ToSet(linkTables'[m])
    BY DEF TablesMatch
  <2>1. DOMAIN adapter_list'[m] = 1 .. Len(adapter_list'[m])
    BY DEF TypeOK
  <2>2. DOMAIN adapter_list[m] = 1 .. Len(adapter_list[m])
    BY DEF Inv, TypeOK
  <2>3. TypesListed(m) = ToSet(linkTables[m])
    BY DEF Inv, TablesMatch
  <2>4. CASE m = n
    <3>1. TypesListed(n)' = TypesListed(n) \union {entry.type}
      <4> DEFINE new == adapter_list'[n]
                 old == adapter_list[n]
      <4>1. /\ DOMAIN new = 1 .. len + 1 /\ DOMAIN old = 1 .. len /\ len \in Nat
            /\ new[len + 1] = entry /\ \A i \in 1 .. len : new[i] = old[i]
        BY <1>3, <1>5, <2>1, <2>2, <2>4 DEF len
      <4>2. /\ TypesListed(n)' = {new[i].type : i \in DOMAIN new}
            /\ TypesListed(n) = {old[i].type : i \in DOMAIN old}
        BY DEF TypesListed
      <4> HIDE DEF new, old
      <4>3. 1 .. len + 1 = (1 .. len) \union {len + 1}
        BY <4>1
      <4>4. {new[i].type : i \in DOMAIN new}
               = {old[i].type : i \in DOMAIN old} \union {entry.type}
        BY <4>1, <4>3
      <4> QED
        BY <4>2, <4>4
    <3>2. linkTables'[n] = WithTable(linkTables[n], entry.type)
      BY <1>1 DEF Inv, TypeOK
    <3>3. linkTables[n] \in Seq(Types) /\ entry.type \in Types
      BY <1>3 DEF Inv, TypeOK, Entry
    <3> QED
      BY <2>3, <2>4, <3>1, <3>2, <3>3, ToSetWithTable
  <2>5. CASE m # n
    BY <1>6, <2>3, <2>5 DEF TypesListed
  <2> QED
    BY <2>4, <2>5
<1>12. IssuedByRegistry'
  <2> SUFFICES ASSUME NEW a \in Adapters, Registered(a)'
               PROVE  \E i \in DOMAIN adapter_list'[NodeOf[a]] :
                          /\ adapter_list'[NodeOf[a]][i].id = assigned'[a].id
                          /\ adapter_list'[NodeOf[a]][i].adapter = a
                          /\ adapter_list'[NodeOf[a]][i].req = requestNo'[a]
    BY DEF IssuedByRegistry
  <2>0. NodeOf[a] \in Nodes
    OBVIOUS
  <2>1. DOMAIN adapter_list'[NodeOf[a]] = 1 .. Len(adapter_list'[NodeOf[a]])
    BY <2>0 DEF TypeOK
  <2>2. DOMAIN adapter_list[NodeOf[a]] = 1 .. Len(adapter_list[NodeOf[a]])
    BY <2>0 DEF Inv, TypeOK
  <2>3. CASE assigned'[a] = assigned[a]
    <3>1. Registered(a)
      BY <1>1, <2>3 DEF Registered
    <3>2. PICK i \in DOMAIN adapter_list[NodeOf[a]] :
             /\ adapter_list[NodeOf[a]][i].id = assigned[a].id
             /\ adapter_list[NodeOf[a]][i].adapter = a
             /\ adapter_list[NodeOf[a]][i].req = requestNo[a]
      BY <3>1 DEF Inv, IssuedByRegistry
    <3>3. /\ i \in DOMAIN adapter_list'[NodeOf[a]]
          /\ adapter_list'[NodeOf[a]][i] = adapter_list[NodeOf[a]][i]
      BY <1>3, <1>5, <1>6, <2>0, <2>1, <2>2 DEF len
    <3> QED
      BY <1>1, <2>3, <3>2, <3>3
  <2>4. CASE /\ a = r.adapter
             /\ Awaited(r)
             /\ assigned'[a] = [id |-> len + 1, run |-> coreRun[n]]
    <3>1. len + 1 \in DOMAIN adapter_list'[NodeOf[a]]
      BY <1>2, <1>3, <1>5, <2>1, <2>4
    <3>2. requestNo'[a] = r.req
      BY <1>1, <2>4 DEF Awaited
    <3> QED
      BY <1>2, <1>3, <1>5, <2>4, <3>1, <3>2 DEF entry
  <2> QED
    BY <1>7, <2>3, <2>4
<1>13. DistinctIds'
  <2>1. \A b \in Adapters :
           /\ NodeOf[b] = n
           /\ assigned[b].id # 0
           /\ assigned[b].run = coreRun[n]
           => assigned[b].id # len + 1
    <3> SUFFICES ASSUME NEW b \in Adapters, NodeOf[b] = n, assigned[b].id # 0,
                        assigned[b].run = coreRun[n]
                 PROVE  assigned[b].id # len + 1
      OBVIOUS
    <3>1. Registered(b)
      BY <1>1 DEF Registered
    <3>2. PICK i \in DOMAIN adapter_list[n] : adapter_list[n][i].id = assigned[b].id
      BY <3>1 DEF Inv, IssuedByRegistry
    <3>3. i \in 1 .. len /\ adapter_list[n][i].id = i
      BY DEF Inv, TypeOK, IdsCountUp, len
    <3> QED
      BY <1>3, <3>2, <3>3
  <2>2. DistinctIds
    BY DEF Inv
  <2> QED
    BY <1>2, <1>7, <2>1, <2>2 DEF DistinctIds
<1> QED
  BY <1>8, <1>9, <1>10, <1>11, <1>12, <1>13 DEF Inv

\* A step of adapters leaves the core alone: registrations are kept or given
\* up, and an adapter that makes a new request has none.
LEMMA AdapterStepInv ==
  ASSUME Inv, TypeOK', UNCHANGED coreVars,
         \A n \in Nodes : \A i \in 1 .. Len(requests'[n]) :
             NodeOf[requests'[n][i].adapter] = n,
         \A a \in Adapters :
             \/ assigned'[a] = assigned[a] /\ requestNo'[a] = requestNo[a]
             \/ assigned'[a] = Unregistered,
         UnregisteredUntilWaiting'
  PROVE  Inv'
<1> USE NodesAssumption
<1>1. UNCHANGED <<coreUp, coreRun, progressiveId, adapter_list, linkTables>>
  BY DEF coreVars
<1>2. Unregistered.id = 0 /\ Unregistered.run = 0
  BY DEF Unregistered
<1>3. Provenance'
  <2> SUFFICES ASSUME NEW a \in Adapters
               PROVE  assigned'[a].run <= coreRun[NodeOf[a]]
    BY <1>1 DEF Inv, Provenance
  <2>1. assigned[a].run <= coreRun[NodeOf[a]] /\ 0 <= coreRun[NodeOf[a]]
    BY DEF Inv, TypeOK, Provenance
  <2> QED
    BY <1>2, <2>1
<1>4. IdsCountUp' /\ TablesMatch'
  BY <1>1 DEF Inv, IdsCountUp, TablesMatch, TypesListed
<1>5. IssuedByRegistry'
  <2> SUFFICES ASSUME NEW a \in Adapters, Registered(a)'
               PROVE  /\ Registered(a)
                      /\ assigned'[a] = assigned[a]
                      /\ requestNo'[a] = requestNo[a]
    BY <1>1 DEF Inv, IssuedByRegistry
  <2>1. assigned'[a].id # 0
    BY DEF Registered
  <2>2. assigned'[a] = assigned[a] /\ requestNo'[a] = requestNo[a]
    BY <1>2, <2>1
  <2> QED
    BY <1>1, <2>2 DEF Registered
<1>6. DistinctIds'
  BY <1>2 DEF Inv, DistinctIds
<1> QED
  BY <1>3, <1>4, <1>5, <1>6 DEF Inv

\* Each of an adapter's steps is such a step.
LEMMA AdapterInv ==
  ASSUME Inv, TypeOK', NEW a \in Adapters,
         \/ AdapterStart(a) \/ AdapterRequest(a) \/ AdapterAccept(a)
         \/ AdapterTimeout(a) \/ AdapterGiveUp(a) \/ AdapterCrash(a)
  PROVE  Inv'
<1> USE NodesAssumption
<1> DEFINE FromOwn(q) == \A n \in Nodes : \A i \in 1 .. Len(q[n]) :
                            NodeOf[q[n][i].adapter] = n
<1>1. FromOwn(requests)
  BY DEF Inv, Provenance
<1>2. CASE AdapterStart(a)
  <2>1. UNCHANGED <<coreVars, requests, requestNo, assigned>>
        /\ UnregisteredUntilWaiting'
    BY <1>2 DEF AdapterStart, Inv, TypeOK, UnregisteredUntilWaiting
  <2> QED
    BY <1>1, <2>1, AdapterStepInv
<1>3. CASE AdapterRequest(a)
  <2>1. UNCHANGED <<coreVars, assigned>>
    BY <1>3 DEF AdapterRequest
  <2>2. assigned[a] = Unregistered
    BY <1>3 DEF AdapterRequest, Inv, UnregisteredUntilWaiting
  <2>3. \A b \in Adapters : b # a => requestNo'[b] = requestNo[b]
    BY <1>3 DEF AdapterRequest, Inv, TypeOK
  <2>4. UnregisteredUntilWaiting'
    BY <1>3, <2>1, <2>2 DEF AdapterRequest, Inv, TypeOK, UnregisteredUntilWaiting
  <2>5. FromOwn(requests')
    <3>1. CASE requests' = requests
      BY <1>1, <3>1
    <3>2. CASE requests' # requests
      <4> DEFINE m == NodeOf[a]
                 new == [adapter |-> a, req |-> requestNo[a] + 1]
      <4>1. requests' = [requests EXCEPT ![m] = Append(@, new)]
        BY <1>3, <3>2 DEF AdapterRequest
      <4>2. m \in Nodes /\ requests[m] \in Seq(Request) /\ NodeOf[new.adapter] = m
        BY DEF Inv, TypeOK
      <4>3. /\ Len(requests'[m]) = Len(requests[m]) + 1
            /\ requests'[m][Len(requests[m]) + 1] = new
            /\ \A i \in 1 .. Len(requests[m]) : requests'[m][i] = requests[m][i]
        <5> HIDE DEF new, m
        <5> QED
          BY <4>1, <4>2 DEF Inv, TypeOK
      <4>4. \A n \in Nodes : n # m => requests'[n] = requests[n]
        BY <4>1 DEF Inv, TypeOK
      <4> HIDE DEF new, m
      <4>5. \A i \in 1 .. Len(requests'[m]) : NodeOf[requests'[m][i].adapter] = m
        BY <1>1, <4>2, <4>3
      <4> QED
        BY <1>1, <4>4, <4>5
    <3> QED
      BY <3>1, <3>2
  <2> QED
    BY <2>1, <2>2, <2>3, <2>4, <2>5, AdapterStepInv
<1>4. CASE AdapterAccept(a)
  <2>1. UNCHANGED <<coreVars, requests, requestNo, assigned>>
        /\ UnregisteredUntilWaiting'
    BY <1>4 DEF AdapterAccept, Inv, TypeOK, UnregisteredUntilWaiting
  <2> QED
    BY <1>1, <2>1, AdapterStepInv
<1>5. CASE AdapterTimeout(a) \/ AdapterGiveUp(a) \/ AdapterCrash(a)
  <2>1. Exit(a)
    BY <1>5 DEF AdapterTimeout, AdapterGiveUp, AdapterCrash
  <2>2. UNCHANGED <<coreVars, requests, requestNo>>
    BY <2>1 DEF Exit
  <2>3. \A b \in Adapters :
           assigned'[b] = IF b = a THEN Unregistered ELSE assigned[b]
    BY <2>1 DEF Exit, Inv, TypeOK
  <2>4. UnregisteredUntilWaiting'
    BY <2>1, <2>3 DEF Exit, Inv, TypeOK, UnregisteredUntilWaiting
  <2> QED
    BY <1>1, <2>2, <2>3, <2>4, AdapterStepInv
<1> QED
  BY <1>2, <1>3, <1>4, <1>5

\* The invariant holds of every behaviour: by case over the processes' steps.
THEOREM InvCorrect == Spec => []Inv
<1>1. Init => Inv
  BY InvInit
<1>2. Inv /\ TypeOK' /\ [Next]_regVars => Inv'
  <2> SUFFICES ASSUME Inv, TypeOK', [Next]_regVars
               PROVE  Inv'
    OBVIOUS
  <2>1. ASSUME NEW n \in Nodes, CoreStart(n) \/ CoreCrash(n) \/ CoreRegister(n)
        PROVE  Inv'
    BY <2>1, CoreStartInv, CoreCrashInv, CoreRegisterInv
  <2>2. ASSUME NEW a \in Adapters,
               \/ AdapterStart(a) \/ AdapterRequest(a) \/ AdapterAccept(a)
               \/ AdapterTimeout(a) \/ AdapterGiveUp(a) \/ AdapterCrash(a)
        PROVE  Inv'
    BY <2>2, AdapterInv
  <2>3. CASE UNCHANGED regVars
    BY <2>3 DEF regVars, coreVars, adapterVars, Inv, TypeOK, Provenance, IdsCountUp,
                UnregisteredUntilWaiting, TablesMatch, TypesListed,
                IssuedByRegistry, DistinctIds, Registered
  <2> QED
    BY <2>1, <2>2, <2>3 DEF Next
<1> QED
  BY <1>1, <1>2, TypeCorrect, PTL DEF Spec

\* The types in the registry are those with a link table, whatever restarts.
THEOREM TablesMatchCorrect == Spec => []TablesMatch
<1>1. Inv => TablesMatch
  BY DEF Inv
<1> QED
  BY <1>1, InvCorrect, PTL

\* A registration of the running core is the one its registry has on record.
THEOREM IssuedByRegistryCorrect == Spec => []IssuedByRegistry
<1>1. Inv => IssuedByRegistry
  BY DEF Inv
<1> QED
  BY <1>1, InvCorrect, PTL

\* No two adapters hold the same id of the same run of a core.
THEOREM DistinctIdsCorrect == Spec => []DistinctIds
<1>1. Inv => DistinctIds
  BY DEF Inv
<1> QED
  BY <1>1, InvCorrect, PTL
-----------------------------------------------------------------------------
\* A registry entry has the type of the adapter that asked for it, and is of
\* one of its requests.
EntriesTyped ==
    \A n \in Nodes : \A i \in 1 .. Len(adapter_list[n]) :
        /\ adapter_list[n][i].type = TypeOf[adapter_list[n][i].adapter]
        /\ adapter_list[n][i].req <= requestNo[adapter_list[n][i].adapter]

\* No request is younger than the last its adapter made.
RequestsMade ==
    \A n \in Nodes : \A r \in ToSet(requests[n]) : r.req <= requestNo[r.adapter]

\* Registrations are from a run of a core, and whoever serves has one.
RunsKnown ==
    /\ \A n \in Nodes : coreUp[n] => coreRun[n] # 0
    /\ \A a \in Adapters :
          /\ assigned[a].id # 0 => assigned[a].run # 0
          /\ phase[a] = "serving" => assigned[a].id # 0

\* The request an adapter waits with is answered once it is in the registry.
EntriesAnswered ==
    \A n \in Nodes : \A i \in 1 .. Len(adapter_list[n]) :
        LET e == adapter_list[n][i] IN
        phase[e.adapter] = "waiting" /\ e.req = requestNo[e.adapter]
            => assigned[e.adapter].id # 0

\* Is the last request of a in the queue or the registry of its core?
Entered(a) ==
    \/ [adapter |-> a, req |-> requestNo[a]] \in ToSet(requests[NodeOf[a]])
    \/ \E i \in 1 .. Len(adapter_list[NodeOf[a]]) :
          /\ adapter_list[NodeOf[a]][i].adapter = a
          /\ adapter_list[NodeOf[a]][i].req = requestNo[a]

\* The adapters of n that wait or serve with a request the core has.
Holders(n) ==
    {a \in Adapters : /\ NodeOf[a] = n
                      /\ phase[a] \in {"waiting", "serving"}
                      /\ Entered(a)}

\* How many entries and requests the core of n has.
Held(n) == Len(adapter_list[n]) + Len(requests[n])

\* What a core has of requests and entries is one for each holder, and what
\* faults have left behind.
Accounted == \A n \in Nodes : Held(n) <= Cardinality(Holders(n)) + faults

\* What makes the bound of the registry inductive, beside Inv.
CountInv ==
    /\ EntriesTyped
    /\ RequestsMade
    /\ RunsKnown
    /\ EntriesAnswered
    /\ Accounted
\* There are finitely many holders, for there are finitely many adapters.
LEMMA HoldersFinite ==
  ASSUME NEW n \in Nodes
  PROVE  /\ IsFiniteSet(Holders(n))
         /\ Cardinality(Holders(n)) \in Nat
         /\ Cardinality(Holders(n)) <= Cardinality({a \in Adapters : NodeOf[a] = n})
         /\ Cardinality({a \in Adapters : NodeOf[a] = n}) \in Nat
         /\ IsFiniteSet(Holders(n)')
         /\ Cardinality(Holders(n)') \in Nat
<1>1. IsFiniteSet({a \in Adapters : NodeOf[a] = n})
  BY FS_Subset, NodesAssumption
<1>2. Holders(n) \in SUBSET {a \in Adapters : NodeOf[a] = n}
  BY DEF Holders
<1>3. Holders(n)' \in SUBSET {a \in Adapters : NodeOf[a] = n}
  BY DEF Holders
<1> QED
  BY <1>1, <1>2, <1>3, FS_Subset, FS_CardinalityType

\* More holders are not fewer.
LEMMA HoldersGrow ==
  ASSUME NEW n \in Nodes, Holders(n) \subseteq Holders(n)'
  PROVE  Cardinality(Holders(n)) <= Cardinality(Holders(n)')
BY HoldersFinite, FS_Subset

\* A process that leaves takes at most itself from the holders.
LEMMA HoldersLose ==
  ASSUME NEW n \in Nodes, NEW a, Holders(n) \subseteq Holders(n)' \union {a}
  PROVE  Cardinality(Holders(n)) <= Cardinality(Holders(n)') + 1
<1>2. IsFiniteSet(Holders(n)')
  BY HoldersFinite
<1>3. Cardinality(Holders(n)') \in Nat
  BY HoldersFinite
<1>4. /\ IsFiniteSet(Holders(n)' \union {a})
      /\ Cardinality(Holders(n)' \union {a}) \in Nat
      /\ Cardinality(Holders(n)' \union {a}) <= Cardinality(Holders(n)') + 1
  BY <1>2, <1>3, FS_AddElement
<1>5. Cardinality(Holders(n)) <= Cardinality(Holders(n)' \union {a})
  BY <1>4, FS_Subset
<1>6. Cardinality(Holders(n)) \in Nat
  BY HoldersFinite
<1> QED
  BY <1>3, <1>4, <1>5, <1>6

\* A process that joins the holders adds itself.
LEMMA HoldersGain ==
  ASSUME NEW n \in Nodes, NEW a, a \notin Holders(n), a \in Holders(n)',
         Holders(n) \subseteq Holders(n)'
  PROVE  Cardinality(Holders(n)) + 1 <= Cardinality(Holders(n)')
<1>2. IsFiniteSet(Holders(n)')
  BY HoldersFinite
<1>3. /\ IsFiniteSet(Holders(n))
      /\ Cardinality(Holders(n) \union {a}) = Cardinality(Holders(n)) + 1
  BY HoldersFinite, FS_AddElement
<1>4. Cardinality(Holders(n) \union {a}) <= Cardinality(Holders(n)')
  BY <1>2, FS_Subset
<1> QED
  BY <1>3, <1>4

\* The count starts with no entry, no request and no fault.
LEMMA CountInit == Init => CountInv
<1> USE NodesAssumption, BoundsAssumption
<1> SUFFICES ASSUME Init
             PROVE  CountInv
  OBVIOUS
<1>1. EntriesTyped /\ RunsKnown /\ EntriesAnswered
  BY DEF Init, EntriesTyped, RunsKnown, EntriesAnswered, Unregistered
<1>2. RequestsMade
  BY ToSetEmpty DEF Init, RequestsMade
<1>3. Accounted
  <2> SUFFICES ASSUME NEW n \in Nodes
               PROVE  Held(n) <= Cardinality(Holders(n)) + faults
    BY DEF Accounted
  <2>1. Held(n) = 0 /\ faults = 0
    BY DEF Init, Held
  <2>2. Cardinality(Holders(n)) \in Nat
    BY HoldersFinite
  <2> QED
    BY <2>1, <2>2
<1> QED
  BY <1>1, <1>2, <1>3 DEF CountInv

\* The core starts, with a registry that is empty.
LEMMA CoreStartCount ==
  ASSUME Inv, CountInv, NEW n \in Nodes, CoreStart(n)
  PROVE  CountInv'
<1> USE NodesAssumption
<1>1. /\ coreUp' = [coreUp EXCEPT ![n] = TRUE]
      /\ coreRun' = [coreRun EXCEPT ![n] = @ + 1]
      /\ UNCHANGED <<adapter_list, requests, phase, requestNo, assigned, faults>>
  BY DEF CoreStart, adapterVars
<1>2. \A m \in Nodes : coreUp'[m] => coreRun'[m] # 0
  BY <1>1 DEF CountInv, RunsKnown, Inv, TypeOK
<1>3. RunsKnown'
  BY <1>1, <1>2 DEF CountInv, RunsKnown
<1>4. EntriesTyped' /\ RequestsMade' /\ EntriesAnswered'
  BY <1>1 DEF CountInv, EntriesTyped, RequestsMade, EntriesAnswered
<1>5. \A m \in Nodes : Holders(m)' = Holders(m)
  BY <1>1 DEF Holders, Entered
<1>6. Accounted'
  BY <1>1, <1>5 DEF CountInv, Accounted, Held
<1> QED
  BY <1>3, <1>4, <1>6 DEF CountInv

\* The core dies: it has no entry and no request left to account for.
LEMMA CoreCrashCount ==
  ASSUME Inv, CountInv, NEW n \in Nodes, CoreCrash(n)
  PROVE  CountInv'
<1> USE NodesAssumption
<1>1. /\ coreUp' = [coreUp EXCEPT ![n] = FALSE]
      /\ adapter_list' = [adapter_list EXCEPT ![n] = <<>>]
      /\ requests' = [requests EXCEPT ![n] = <<>>]
      /\ UNCHANGED <<coreRun, phase, requestNo, faults>>
  BY DEF CoreCrash
<1>2. \A a \in Adapters :
         \/ assigned'[a] = assigned[a]
         \/ assigned'[a] = Unregistered /\ phase[a] = "waiting" /\ NodeOf[a] = n
  BY DEF CoreCrash
<1>3. /\ adapter_list'[n] = <<>> /\ requests'[n] = <<>>
      /\ \A m \in Nodes : m # n => /\ adapter_list'[m] = adapter_list[m]
                                   /\ requests'[m] = requests[m]
  BY <1>1 DEF Inv, TypeOK
<1>4. RunsKnown'
  <2>1. \A m \in Nodes : coreUp'[m] => coreUp[m]
    BY <1>1 DEF Inv, TypeOK
  <2>2. ASSUME NEW a \in Adapters
        PROVE  /\ assigned'[a].id # 0 => assigned'[a].run # 0
               /\ phase[a] = "serving" => assigned'[a].id # 0
    <3>1. \/ assigned'[a] = assigned[a]
          \/ assigned'[a].id = 0 /\ phase[a] = "waiting"
      BY <1>2 DEF Unregistered
    <3> QED
      BY <3>1 DEF CountInv, RunsKnown
  <2> QED
    BY <1>1, <2>1, <2>2 DEF CountInv, RunsKnown
<1>5. EntriesTyped'
  BY <1>1, <1>3 DEF CountInv, EntriesTyped
<1>6. RequestsMade'
  BY <1>1, <1>3, ToSetEmpty DEF CountInv, RequestsMade
<1>7. EntriesAnswered'
  <2> SUFFICES ASSUME NEW m \in Nodes, NEW i \in 1 .. Len(adapter_list'[m]),
                      NEW e, e = adapter_list'[m][i],
                      phase[e.adapter] = "waiting", e.req = requestNo[e.adapter]
               PROVE  assigned'[e.adapter].id # 0
    BY <1>1 DEF EntriesAnswered
  <2>1. m # n /\ adapter_list'[m] = adapter_list[m]
    BY <1>3
  <2>2. NodeOf[e.adapter] = m /\ assigned[e.adapter].id # 0
    BY <2>1 DEF Inv, Provenance, CountInv, EntriesAnswered
  <2>3. e \in Entry
    BY <2>1, ElementOfSeq DEF Inv, TypeOK
  <2> QED
    BY <1>2, <2>1, <2>2, <2>3 DEF Entry
<1>8. Accounted'
  <2> SUFFICES ASSUME NEW m \in Nodes
               PROVE  Held(m)' <= Cardinality(Holders(m)') + faults'
    BY DEF Accounted
  <2>1. CASE m = n
    <3>2. Cardinality(Holders(m)') \in Nat
      BY HoldersFinite
    <3>3. faults' \in Nat
      BY <1>1, BoundsAssumption DEF Inv, TypeOK
    <3>4. Held(m)' = 0
      <4>1. adapter_list'[m] = <<>> /\ requests'[m] = <<>>
        BY <1>3, <2>1
      <4> QED
        BY <4>1 DEF Held
    <3> QED
      BY <3>2, <3>3, <3>4
  <2>2. CASE m # n
    <3>1. Holders(m)' = Holders(m)
      BY <1>1, <1>3, <2>2 DEF Holders, Entered
    <3> QED
      BY <1>1, <1>3, <2>2, <3>1 DEF CountInv, Accounted, Held
  <2> QED
    BY <2>1, <2>2
<1> QED
  BY <1>4, <1>5, <1>6, <1>7, <1>8 DEF CountInv
\* The core moves a request from its queue to its registry, and answers it if
\* its adapter still waits for that.
LEMMA CoreRegisterCount ==
  ASSUME Inv, TypeOK', CountInv, NEW n \in Nodes, CoreRegister(n)
  PROVE  CountInv'
<1> USE NodesAssumption
<1> DEFINE r == Head(requests[n])
           len == Len(adapter_list[n])
           entry == [id |-> generateAdapterId(n), type |-> TypeOf[r.adapter],
                     adapter |-> r.adapter, req |-> r.req]
           granted == [id |-> generateAdapterId(n), run |-> coreRun[n]]
<1>1. /\ adapter_list' = [adapter_list EXCEPT ![n] = Append(@, entry)]
      /\ requests' = [requests EXCEPT ![n] = Tail(@)]
      /\ assigned' = IF Awaited(r) THEN [assigned EXCEPT ![r.adapter] = granted]
                     ELSE assigned
      /\ UNCHANGED <<coreUp, coreRun, phase, requestNo, faults>>
      /\ coreUp[n] /\ requests[n] # <<>>
  BY DEF CoreRegister
<1>2. /\ requests[n] \in Seq(Request)
      /\ r \in Request
      /\ requests'[n] = Tail(requests[n])
      /\ Len(requests'[n]) = Len(requests[n]) - 1
      /\ ToSet(requests[n]) = {r} \union ToSet(requests'[n])
  <2>1. requests[n] \in Seq(Request) /\ requests'[n] = Tail(requests[n])
    BY <1>1 DEF Inv, TypeOK
  <2> QED
    BY <1>1, <2>1, ToSetHeadTail, HeadTailProperties
<1>3. /\ len \in Nat
      /\ Len(adapter_list'[n]) = len + 1
      /\ adapter_list'[n][len + 1] = entry
      /\ \A i \in 1 .. len : adapter_list'[n][i] = adapter_list[n][i]
  <2>1. adapter_list[n] \in Seq(Entry) /\ len \in Nat
    BY DEF Inv, TypeOK
  <2>2. entry \in Entry
    <3>1. r.adapter \in Adapters /\ r.req \in Nat
      BY <1>2 DEF Request
    <3>2. TypeOf[r.adapter] \in Types
      BY <3>1 DEF Types
    <3>3. generateAdapterId(n) \in Nat \ {0}
      BY DEF generateAdapterId, Inv, TypeOK
    <3> QED
      BY <3>1, <3>2, <3>3 DEF Entry
  <2>3. adapter_list'[n] = Append(adapter_list[n], entry)
    <3> HIDE DEF entry
    <3> QED
      BY <1>1 DEF Inv, TypeOK
  <2> HIDE DEF entry
  <2> QED
    BY <2>1, <2>2, <2>3, AppendProperties
<1>4. \A m \in Nodes : m # n => /\ adapter_list'[m] = adapter_list[m]
                                /\ requests'[m] = requests[m]
  BY <1>1 DEF Inv, TypeOK
<1>5. /\ granted.id # 0 /\ granted.run # 0
      /\ \A a \in Adapters :
            \/ assigned'[a] = assigned[a] /\ ~(Awaited(r) /\ a = r.adapter)
            \/ assigned'[a] = granted
  <2>1. granted.id # 0
    BY DEF generateAdapterId, Inv, TypeOK
  <2>2. granted.run # 0
    BY <1>1 DEF CountInv, RunsKnown
  <2>3. assigned \in [Adapters -> Registration]
    BY DEF Inv, TypeOK
  <2> HIDE DEF granted
  <2> QED
    BY <1>1, <2>1, <2>2, <2>3
<1> HIDE DEF r, len, granted
<1>6. RunsKnown'
  BY <1>1, <1>5 DEF CountInv, RunsKnown
<1>7. EntriesTyped'
  <2> SUFFICES ASSUME NEW m \in Nodes, NEW i \in 1 .. Len(adapter_list'[m]),
                      NEW e, e = adapter_list'[m][i]
               PROVE  /\ e.type = TypeOf[e.adapter]
                      /\ e.req <= requestNo[e.adapter]
    BY <1>1 DEF EntriesTyped
  <2>1. CASE m = n /\ i = len + 1
    <3>1. r.req <= requestNo[r.adapter]
      BY <1>2 DEF CountInv, RequestsMade
    <3> QED
      BY <1>3, <2>1, <3>1
  <2>2. CASE m = n /\ i # len + 1
    BY <1>3, <2>2 DEF CountInv, EntriesTyped, len
  <2>3. CASE m # n
    BY <1>4, <2>3 DEF CountInv, EntriesTyped
  <2> QED
    BY <2>1, <2>2, <2>3
<1>8. RequestsMade'
  BY <1>1, <1>2, <1>4 DEF CountInv, RequestsMade
<1>9. EntriesAnswered'
  <2> SUFFICES ASSUME NEW m \in Nodes, NEW i \in 1 .. Len(adapter_list'[m]),
                      NEW e, e = adapter_list'[m][i],
                      phase[e.adapter] = "waiting", e.req = requestNo[e.adapter]
               PROVE  assigned'[e.adapter].id # 0
    <3>1. phase' = phase /\ requestNo' = requestNo
      BY <1>1
    <3> QED
      BY <3>1, Zenon DEF EntriesAnswered
  <2>1. CASE m = n /\ i = len + 1
    <3>1. e.adapter = r.adapter /\ Awaited(r) /\ r.adapter \in Adapters
      BY <1>2, <1>3, <2>1 DEF Awaited, Request
    <3> QED
      BY <1>5, <3>1
  <2>2. CASE ~(m = n /\ i = len + 1)
    <3>1. i \in 1 .. Len(adapter_list[m]) /\ e = adapter_list[m][i]
      BY <1>3, <1>4, <2>2 DEF len
    <3>4. e \in Entry
      BY <3>1, ElementOfSeq DEF Inv, TypeOK
    <3>2. e.adapter \in Adapters
      BY <3>4 DEF Entry
    <3>3. assigned[e.adapter].id # 0
      BY <3>1 DEF CountInv, EntriesAnswered
    <3> QED
      BY <1>5, <3>2, <3>3
  <2> QED
    BY <2>1, <2>2
<1>10. Accounted'
  <2> SUFFICES ASSUME NEW m \in Nodes
               PROVE  Held(m)' <= Cardinality(Holders(m)') + faults'
    BY DEF Accounted
  <2>1. Held(m)' = Held(m)
    <3>1. /\ adapter_list \in [Nodes -> Seq(Entry)]
          /\ adapter_list' \in [Nodes -> Seq(Entry)]
          /\ requests \in [Nodes -> Seq(Request)]
          /\ requests' \in [Nodes -> Seq(Request)]
      BY DEF Inv, TypeOK
    <3>2. CASE m = n
      <4>1. Len(requests'[n]) = Len(requests[n]) - 1
        BY <1>2
      <4>2. Len(adapter_list'[n]) = Len(adapter_list[n]) + 1
        BY <1>3 DEF len
      <4> QED
        BY <3>1, <3>2, <4>1, <4>2 DEF Held
    <3>3. CASE m # n
      BY <1>4, <3>3 DEF Held
    <3> QED
      BY <3>2, <3>3
  <2>2. ASSUME NEW a \in Holders(m)
        PROVE  a \in Holders(m)'
    <3>1. a \in Adapters /\ NodeOf[a] = m /\ phase'[a] \in {"waiting", "serving"}
      BY <1>1 DEF Holders
    <3>2. Entered(a)
      BY DEF Holders
    <3>3. Entered(a)'
      <4>1. CASE m # n
        BY <1>1, <1>4, <3>1, <3>2, <4>1 DEF Entered
      <4>2. CASE m = n /\ [adapter |-> a, req |-> requestNo[a]] \in ToSet(requests'[n])
        BY <1>1, <3>1, <4>2 DEF Entered
      <4>3. CASE m = n /\ [adapter |-> a, req |-> requestNo[a]] = r
        <5>1. len + 1 \in 1 .. Len(adapter_list'[n])
          BY <1>3
        <5>2. entry.adapter = a /\ entry.req = requestNo'[a]
          BY <1>1, <4>3
        <5> HIDE DEF entry
        <5> QED
          BY <1>3, <3>1, <4>3, <5>1, <5>2 DEF Entered
      <4>4. ASSUME m = n, NEW i \in 1 .. Len(adapter_list[n]),
                   adapter_list[n][i].adapter = a,
                   adapter_list[n][i].req = requestNo[a]
            PROVE  Entered(a)'
        <5>1. i \in 1 .. Len(adapter_list'[n]) /\ adapter_list'[n][i] = adapter_list[n][i]
          BY <1>3 DEF len
        <5> QED
          BY <1>1, <3>1, <4>4, <5>1 DEF Entered
      <4> QED
        BY <1>2, <3>1, <3>2, <4>1, <4>2, <4>3, <4>4 DEF Entered
    <3> QED
      BY <3>1, <3>3 DEF Holders
  <2>3. Cardinality(Holders(m)) <= Cardinality(Holders(m)')
    BY <2>2, HoldersGrow
  <2>4. Held(m) <= Cardinality(Holders(m)) + faults
    BY DEF CountInv, Accounted
  <2>5. Held(m) \in Nat
    BY DEF Inv, TypeOK, Held
  <2>7. faults \in Nat /\ faults' = faults
    BY <1>1, BoundsAssumption DEF Inv, TypeOK
  <2>6. Cardinality(Holders(m)) \in Nat /\ Cardinality(Holders(m)') \in Nat
    BY HoldersFinite
  <2> QED
    BY <2>1, <2>3, <2>4, <2>5, <2>6, <2>7
<1> QED
  BY <1>6, <1>7, <1>8, <1>9, <1>10 DEF CountInv
\* What a step of adapters has to show: the registry and the runs stay, and so
\* do the numbers of requests in the registry or older.
LEMMA AdapterStepCount ==
  ASSUME Inv, CountInv, UNCHANGED <<coreUp, coreRun, adapter_list>>,
         RunsKnown', RequestsMade',
         \A a \in Adapters : requestNo[a] <= requestNo'[a] /\ requestNo'[a] \in Nat,
         \A a \in Adapters :
             phase'[a] = "waiting" =>
                 \/ /\ phase[a] = "waiting"
                    /\ requestNo'[a] = requestNo[a]
                    /\ assigned'[a] = assigned[a]
                 \/ requestNo'[a] = requestNo[a] + 1
  PROVE  EntriesTyped' /\ EntriesAnswered'
<1>1. \A n \in Nodes : \A i \in 1 .. Len(adapter_list[n]) :
         /\ adapter_list[n][i].adapter \in Adapters
         /\ adapter_list[n][i].req \in Nat
         /\ adapter_list[n][i].req <= requestNo[adapter_list[n][i].adapter]
  <2> SUFFICES ASSUME NEW n \in Nodes, NEW i \in 1 .. Len(adapter_list[n]),
                      NEW e, e = adapter_list[n][i]
               PROVE  /\ e.adapter \in Adapters
                      /\ e.req \in Nat
                      /\ e.req <= requestNo[e.adapter]
    OBVIOUS
  <2>1. e \in Entry
    BY ElementOfSeq DEF Inv, TypeOK
  <2> QED
    BY <2>1 DEF Entry, CountInv, EntriesTyped
<1>2. requestNo \in [Adapters -> Nat]
  BY DEF Inv, TypeOK
<1>3. ASSUME NEW n \in Nodes, NEW i \in 1 .. Len(adapter_list'[n]),
             NEW e, e = adapter_list'[n][i]
      PROVE  /\ e.type = TypeOf[e.adapter]
             /\ e.req <= requestNo'[e.adapter]
             /\ phase'[e.adapter] = "waiting" /\ e.req = requestNo'[e.adapter]
                    => assigned'[e.adapter].id # 0
  <2>1. i \in 1 .. Len(adapter_list[n]) /\ e = adapter_list[n][i]
    BY <1>3
  <2>2. e.adapter \in Adapters /\ e.req \in Nat /\ e.req <= requestNo[e.adapter]
    BY <1>1, <2>1
  <2>3. requestNo[e.adapter] \in Nat /\ requestNo[e.adapter] <= requestNo'[e.adapter]
    BY <1>2, <2>2
  <2>7. requestNo'[e.adapter] \in Nat
    BY <2>2
  <2>4. e.type = TypeOf[e.adapter]
    BY <2>1 DEF CountInv, EntriesTyped
  <2>5. e.req <= requestNo'[e.adapter]
    BY <2>2, <2>3, <2>7
  <2>6. ASSUME phase'[e.adapter] = "waiting", e.req = requestNo'[e.adapter]
        PROVE  assigned'[e.adapter].id # 0
    <3>1. requestNo'[e.adapter] # requestNo[e.adapter] + 1
      BY <2>2, <2>3, <2>6
    <3>2. /\ phase[e.adapter] = "waiting"
          /\ e.req = requestNo[e.adapter]
          /\ assigned'[e.adapter] = assigned[e.adapter]
      BY <2>2, <2>6, <3>1
    <3> QED
      BY <2>1, <3>2 DEF CountInv, EntriesAnswered
  <2> QED
    BY <2>4, <2>5, <2>6
<1> QED
  BY <1>3 DEF EntriesTyped, EntriesAnswered
\* An adapter that starts, or takes its reply, has nothing new entered.
LEMMA AdapterRunsCount ==
  ASSUME Inv, CountInv, NEW a \in Adapters, AdapterStart(a) \/ AdapterAccept(a)
  PROVE  CountInv'
<1>1. UNCHANGED <<coreUp, coreRun, adapter_list, requests, requestNo, assigned, faults>>
  BY DEF AdapterStart, AdapterAccept, coreVars
<1>2. \A b \in Adapters : b # a => phase'[b] = phase[b]
  BY DEF AdapterStart, AdapterAccept, Inv, TypeOK
<1>3. \/ phase[a] = "down" /\ phase'[a] = "booting"
      \/ phase[a] = "waiting" /\ phase'[a] = "serving" /\ assigned[a].id # 0
  BY DEF AdapterStart, AdapterAccept, Inv, TypeOK
<1>4. requestNo \in [Adapters -> Nat]
  BY DEF Inv, TypeOK
<1>5. RunsKnown'
  BY <1>1, <1>2, <1>3 DEF CountInv, RunsKnown
<1>6. RequestsMade'
  BY <1>1 DEF CountInv, RequestsMade
<1>7. EntriesTyped' /\ EntriesAnswered'
  <2>1. \A b \in Adapters : requestNo[b] <= requestNo'[b] /\ requestNo'[b] \in Nat
    BY <1>1, <1>4
  <2>2. \A b \in Adapters : phase'[b] = "waiting" => phase[b] = "waiting"
    BY <1>2, <1>3
  <2> QED
    BY <1>1, <1>5, <1>6, <2>1, <2>2, AdapterStepCount
<1>8. Accounted'
  <2> SUFFICES ASSUME NEW n \in Nodes
               PROVE  Held(n)' <= Cardinality(Holders(n)') + faults'
    BY DEF Accounted
  <2>1. Holders(n)' = Holders(n)
    BY <1>1, <1>2, <1>3 DEF Holders, Entered
  <2> QED
    BY <1>1, <2>1 DEF CountInv, Accounted, Held
<1> QED
  BY <1>5, <1>6, <1>7, <1>8 DEF CountInv

\* A request without a core to take it changes nothing; one that is queued has
\* its adapter among the holders from now on.
LEMMA AdapterRequestCount ==
  ASSUME Inv, TypeOK', CountInv, NEW a \in Adapters, AdapterRequest(a)
  PROVE  CountInv'
<1> USE NodesAssumption
<1> DEFINE new == [adapter |-> a, req |-> requestNo[a] + 1]
<1>1. /\ UNCHANGED <<coreUp, coreRun, adapter_list, assigned, faults>>
      /\ phase[a] = "booting"
  BY DEF AdapterRequest, coreVars
<1>2. /\ requestNo \in [Adapters -> Nat] /\ requestNo' \in [Adapters -> Nat]
      /\ requests \in [Nodes -> Seq(Request)] /\ requests' \in [Nodes -> Seq(Request)]
      /\ adapter_list \in [Nodes -> Seq(Entry)]
      /\ phase \in [Adapters -> Phases]
      /\ NodeOf[a] \in Nodes
  BY DEF Inv, TypeOK
<1>5. new \in Request
  BY <1>2 DEF Request
<1>3. CASE ~coreUp[NodeOf[a]]
  <2>1. UNCHANGED <<requestNo, requests>> /\ phase' = [phase EXCEPT ![a] = "down"]
    BY <1>3 DEF AdapterRequest
  <2>2. RunsKnown' /\ RequestsMade'
    BY <1>1, <1>2, <2>1 DEF CountInv, RunsKnown, RequestsMade
  <2>3. EntriesTyped' /\ EntriesAnswered'
    <3>1. \A b \in Adapters : requestNo[b] <= requestNo'[b]
      BY <1>2, <2>1
    <3>2. \A b \in Adapters : phase'[b] = "waiting" => phase[b] = "waiting"
      BY <1>2, <2>1
    <3> QED
      BY <1>1, <1>2, <2>1, <2>2, <3>1, <3>2, AdapterStepCount
  <2>4. \A n \in Nodes : Holders(n)' = Holders(n)
    BY <1>1, <1>2, <2>1 DEF Holders, Entered
  <2>5. Accounted'
    BY <1>1, <2>1, <2>4 DEF CountInv, Accounted, Held
  <2> QED
    BY <2>2, <2>3, <2>5 DEF CountInv
<1>4. CASE coreUp[NodeOf[a]]
  <2>1. /\ phase' = [phase EXCEPT ![a] = "waiting"]
        /\ requestNo' = [requestNo EXCEPT ![a] = @ + 1]
        /\ requests' = [requests EXCEPT ![NodeOf[a]] = Append(@, new)]
    BY <1>4 DEF AdapterRequest
  <2>2. /\ phase'[a] = "waiting" /\ requestNo'[a] = requestNo[a] + 1
        /\ \A b \in Adapters : b # a => /\ phase'[b] = phase[b]
                                        /\ requestNo'[b] = requestNo[b]
    BY <1>2, <2>1
  <2>3. /\ ToSet(requests'[NodeOf[a]]) = ToSet(requests[NodeOf[a]]) \union {new}
        /\ Len(requests'[NodeOf[a]]) = Len(requests[NodeOf[a]]) + 1
        /\ \A n \in Nodes : n # NodeOf[a] => requests'[n] = requests[n]
    <3> HIDE DEF new
    <3>1. requests'[NodeOf[a]] = Append(requests[NodeOf[a]], new)
      BY <1>2, <2>1
    <3>2. requests[NodeOf[a]] \in Seq(Request)
      BY <1>2
    <3>3. \A n \in Nodes : n # NodeOf[a] => requests'[n] = requests[n]
      BY <1>2, <2>1
    <3> QED
      BY <1>2, <1>5, <3>1, <3>2, <3>3, ToSetAppend, AppendProperties
  <2>4. RunsKnown'
    BY <1>1, <2>2 DEF CountInv, RunsKnown
  <2>5. RequestsMade'
    <3> SUFFICES ASSUME NEW n \in Nodes, NEW r \in ToSet(requests'[n])
                 PROVE  r.req <= requestNo'[r.adapter]
      BY DEF RequestsMade
    <3>1. CASE n = NodeOf[a] /\ r = new
      BY <1>2, <2>2, <3>1
    <3>2. CASE r \in ToSet(requests[n])
      <4>1. r \in Request /\ r.req <= requestNo[r.adapter]
        BY <1>2, <3>2, ToSetMember DEF CountInv, RequestsMade
      <4>2. /\ r.req \in Nat /\ requestNo[r.adapter] \in Nat
            /\ requestNo'[r.adapter] \in {requestNo[r.adapter], requestNo[r.adapter] + 1}
        BY <1>2, <2>2, <4>1 DEF Request
      <4> QED
        BY <4>1, <4>2
    <3> QED
      BY <2>3, <3>1, <3>2
  <2>6. EntriesTyped' /\ EntriesAnswered'
    <3>1. \A b \in Adapters : requestNo[b] <= requestNo'[b] /\ requestNo'[b] \in Nat
      <4> SUFFICES ASSUME NEW b \in Adapters
                   PROVE  requestNo[b] <= requestNo'[b] /\ requestNo'[b] \in Nat
        OBVIOUS
      <4>1. requestNo[b] \in Nat /\ requestNo'[b] \in Nat
        BY <1>2
      <4>2. requestNo'[b] = requestNo[b] \/ requestNo'[b] = requestNo[b] + 1
        BY <2>2
      <4> QED
        BY <4>1, <4>2
    <3>2. \A b \in Adapters :
             phase'[b] = "waiting" => \/ /\ phase[b] = "waiting"
                                         /\ requestNo'[b] = requestNo[b]
                                      \/ requestNo'[b] = requestNo[b] + 1
      BY <2>2
    <3> QED
      BY <1>1, <2>4, <2>5, <3>1, <3>2, AdapterStepCount
  <2>7. Accounted'
    <3> SUFFICES ASSUME NEW n \in Nodes
                 PROVE  Held(n)' <= Cardinality(Holders(n)') + faults'
      BY DEF Accounted
    <3>1. /\ Held(n) <= Cardinality(Holders(n)) + faults
          /\ Held(n) \in Nat /\ faults \in Nat /\ faults' = faults
      BY <1>1, <1>2, BoundsAssumption DEF CountInv, Accounted, Held, Inv, TypeOK
    <3>2. ASSUME NEW b \in Holders(n)
          PROVE  b \in Holders(n)'
      <4>1. b # a /\ b \in Adapters
        BY <1>1 DEF Holders
      <4>2. ToSet(requests[n]) \subseteq ToSet(requests'[n])
        BY <2>3
      <4> QED
        BY <1>1, <2>2, <4>1, <4>2 DEF Holders, Entered
    <3>3. CASE n = NodeOf[a]
      <4>1. a \notin Holders(n)
        BY <1>1 DEF Holders
      <4>2. a \in Holders(n)'
        BY <2>2, <2>3, <3>3 DEF Holders, Entered
      <4>3. Cardinality(Holders(n)) + 1 <= Cardinality(Holders(n)')
        BY <3>2, <4>1, <4>2, HoldersGain
      <4>4. Held(n)' = Held(n) + 1
        <5>1. Len(requests'[n]) = Len(requests[n]) + 1 /\ adapter_list' = adapter_list
          BY <1>1, <2>3, <3>3
        <5>2. Len(requests[n]) \in Nat /\ Len(adapter_list[n]) \in Nat
          BY <1>2
        <5> HIDE DEF new
        <5> QED
          BY <1>2, <5>1, <5>2 DEF Held
      <4>5. Cardinality(Holders(n)) \in Nat /\ Cardinality(Holders(n)') \in Nat
        BY HoldersFinite
      <4> QED
        BY <3>1, <4>3, <4>4, <4>5
    <3>4. CASE n # NodeOf[a]
      <4>1. Cardinality(Holders(n)) <= Cardinality(Holders(n)')
        BY <3>2, HoldersGrow
      <4>2. Held(n)' = Held(n)
        BY <1>1, <2>3, <3>4 DEF Held
      <4>3. Cardinality(Holders(n)) \in Nat /\ Cardinality(Holders(n)') \in Nat
        BY HoldersFinite
      <4> QED
        BY <3>1, <4>1, <4>2, <4>3
    <3> QED
      BY <3>3, <3>4
  <2> QED
    BY <2>4, <2>5, <2>6, <2>7 DEF CountInv
<1> QED
  BY <1>3, <1>4

\* A process that leaves by a fault leaves that fault behind; one whose answer
\* was lost was not accounted for.
LEMMA AdapterExitCount ==
  ASSUME Inv, TypeOK', CountInv, NEW a \in Adapters,
         AdapterTimeout(a) \/ AdapterGiveUp(a) \/ AdapterCrash(a)
  PROVE  CountInv'
<1> USE NodesAssumption
<1>1. /\ Exit(a)
      /\ UNCHANGED <<coreUp, coreRun, adapter_list, requests, requestNo>>
  BY DEF AdapterTimeout, AdapterGiveUp, AdapterCrash, Exit, coreVars
<1>2. /\ phase'[a] = "down" /\ assigned'[a].id = 0
      /\ \A b \in Adapters : b # a => phase'[b] = phase[b] /\ assigned'[b] = assigned[b]
  BY <1>1 DEF Exit, Inv, TypeOK, Unregistered
<1>3. requestNo \in [Adapters -> Nat]
  BY DEF Inv, TypeOK
<1>4. RunsKnown'
  BY <1>1, <1>2 DEF CountInv, RunsKnown
<1>5. RequestsMade'
  BY <1>1 DEF CountInv, RequestsMade
<1>6. EntriesTyped' /\ EntriesAnswered'
  <2>1. \A b \in Adapters : requestNo[b] <= requestNo'[b] /\ requestNo'[b] \in Nat
    BY <1>1, <1>3
  <2>2. \A b \in Adapters : phase'[b] = "waiting" =>
           /\ phase[b] = "waiting"
           /\ requestNo'[b] = requestNo[b]
           /\ assigned'[b] = assigned[b]
    BY <1>1, <1>2
  <2> QED
    BY <1>1, <1>4, <1>5, <2>1, <2>2, AdapterStepCount
<1>7. Accounted'
  <2> SUFFICES ASSUME NEW n \in Nodes
               PROVE  Held(n)' <= Cardinality(Holders(n)') + faults'
    BY DEF Accounted
  <2>1. /\ Held(n) <= Cardinality(Holders(n)) + faults
        /\ Held(n)' = Held(n)
    BY <1>1 DEF CountInv, Accounted, Held
  <2>2. Held(n) \in Nat /\ faults \in Nat
    BY BoundsAssumption DEF Held, Inv, TypeOK
  <2>3. Cardinality(Holders(n)) \in Nat /\ Cardinality(Holders(n)') \in Nat
    BY HoldersFinite
  <2>4. \A b \in Adapters : Entered(b)' <=> Entered(b)
    BY <1>1 DEF Entered
  <2>5. \A b \in Holders(n) : b # a => b \in Holders(n)'
    BY <1>2, <2>4 DEF Holders
  <2>6. CASE faults' = faults + 1
    <3>1. Cardinality(Holders(n)) <= Cardinality(Holders(n)') + 1
      BY <2>5, HoldersLose
    <3> QED
      BY <2>1, <2>2, <2>3, <2>6, <3>1
  <2>7. CASE AdapterTimeout(a)
    <3>1. phase[a] = "waiting" /\ ~AnswerPending(a) /\ faults' = faults
      BY <2>7 DEF AdapterTimeout
    <3>2. a \notin Holders(n)
      <4> SUFFICES ASSUME Entered(a)
                   PROVE  FALSE
        BY DEF Holders
      <4>1. /\ assigned[a].id = 0
            /\ [adapter |-> a, req |-> requestNo[a]] \notin ToSet(requests[NodeOf[a]])
        BY <3>1 DEF AnswerPending
      <4>2. NodeOf[a] \in Nodes
        OBVIOUS
      <4> QED
        BY <3>1, <4>1, <4>2 DEF Entered, CountInv, EntriesAnswered
    <3>3. Cardinality(Holders(n)) <= Cardinality(Holders(n)')
      BY <2>5, <3>2, HoldersGrow
    <3> QED
      BY <2>1, <2>2, <2>3, <3>1, <3>3
  <2> QED
    BY <2>6, <2>7 DEF AdapterGiveUp, AdapterCrash
<1> QED
  BY <1>4, <1>5, <1>6, <1>7 DEF CountInv

\* The accounting holds of every behaviour.
THEOREM CountInvCorrect == Spec => []CountInv
<1>1. Init => CountInv
  BY CountInit
<1>2. Inv /\ TypeOK' /\ CountInv /\ [Next]_regVars => CountInv'
  <2> SUFFICES ASSUME Inv, TypeOK', CountInv, [Next]_regVars
               PROVE  CountInv'
    OBVIOUS
  <2>1. ASSUME NEW n \in Nodes, CoreStart(n) \/ CoreCrash(n) \/ CoreRegister(n)
        PROVE  CountInv'
    BY <2>1, CoreStartCount, CoreCrashCount, CoreRegisterCount
  <2>2. ASSUME NEW a \in Adapters,
               \/ AdapterStart(a) \/ AdapterRequest(a) \/ AdapterAccept(a)
               \/ AdapterTimeout(a) \/ AdapterGiveUp(a) \/ AdapterCrash(a)
        PROVE  CountInv'
    BY <2>2, AdapterRunsCount, AdapterRequestCount, AdapterExitCount
  <2>3. CASE UNCHANGED regVars
    <3>1. UNCHANGED <<coreUp, coreRun, adapter_list, requests, phase, requestNo,
                      assigned, faults>>
      BY <2>3 DEF regVars, coreVars, adapterVars
    <3>2. \A n \in Nodes : Holders(n)' = Holders(n)
      BY <3>1 DEF Holders, Entered
    <3> QED
      BY <3>1, <3>2 DEF CountInv, EntriesTyped, RequestsMade, RunsKnown,
                        EntriesAnswered, Accounted, Held
  <2> QED
    BY <2>1, <2>2, <2>3 DEF Next
<1> QED
  BY <1>1, <1>2, TypeCorrect, InvCorrect, PTL DEF Spec

\* Of what is accounted for, the entries of the registry are a part.
LEMMA CountBounds ==
  ASSUME Inv, CountInv
  PROVE  GhostsBounded
<1> SUFFICES ASSUME NEW n \in Nodes
             PROVE  Len(adapter_list[n]) <=
                       Cardinality({a \in Adapters : NodeOf[a] = n}) + faults
  BY DEF GhostsBounded
<1>1. Held(n) <= Cardinality(Holders(n)) + faults /\ faults \in Nat
  BY BoundsAssumption DEF CountInv, Accounted, Inv, TypeOK
<1>2. Held(n) \in Nat /\ Len(adapter_list[n]) \in Nat /\ Len(adapter_list[n]) <= Held(n)
  BY DEF Held, Inv, TypeOK
<1>3. /\ Cardinality(Holders(n)) <= Cardinality({a \in Adapters : NodeOf[a] = n})
      /\ Cardinality(Holders(n)) \in Nat
      /\ Cardinality({a \in Adapters : NodeOf[a] = n}) \in Nat
  BY HoldersFinite
<1> HIDE DEF Held
<1>4. \A l, h, c, d, f \in Nat : l <= h /\ h <= c + f /\ c <= d => l <= d + f
  OBVIOUS
<1> QED
  BY <1>1, <1>2, <1>3, <1>4

\* The registry never outgrows the node's adapters by more than the faults,
\* however many adapters a node has and however often its core restarts.
THEOREM GhostsBoundedCorrect == Spec => []GhostsBounded
<1>1. Inv /\ CountInv => GhostsBounded
  BY CountBounds
<1> QED
  BY <1>1, InvCorrect, CountInvCorrect, PTL

-----------------------------------------------------------------------------
(***************************************************************************)
(* UhuraSwarm.                                                             *)
(***************************************************************************)
\* Is m a data message its core has handed to one of its adapters?
Routed(m) ==
    [num |-> m.num, adapterId |-> m.adapterId] \in ToSet(routed[m.sender])

\* The data messages of a queue.
Data(q) == {m \in ToSet(q) : m.kind \in DataKinds}

\* Whatever waits anywhere was routed, and a core never hears its own messages.
Genuine ==
    /\ \A a \in Adapters : \A m \in Data(subQ[a]) \union Data(netQ[a]) : Routed(m)
    /\ \A n \in Nodes : \A m \in ToSet(recvQ[n]) : m.sender # n
    /\ \A n \in Nodes : \A m \in Data(recvQ[n]) : Routed(m)
    /\ OnlyOthersMessages

-----------------------------------------------------------------------------
\* No two adapters of a node hear the same network.
OneAdapterPerNet ==
    \A a, b \in Adapters : NodeOf[a] = NodeOf[b] /\ NetOf[a] = NetOf[b] => a = b

\* The registry has an entry under the id m was sent to.
HasOrigin(m) == m.adapterId \in 1 .. Len(adapter_list[m.sender])

\* The adapter of that entry.
Origin(m) == adapter_list[m.sender][m.adapterId].adapter

\* A message waits at the adapter it was sent to, and goes out on its network.
Addressed ==
    /\ \A a \in Adapters : \A m \in ToSet(subQ[a]) :
          HasOrigin(m) /\ Origin(m) = a /\ m.link = TypeOf[a]
    /\ \A a \in Adapters : \A m \in ToSet(netQ[a]) :
          HasOrigin(m) /\ NetOf[Origin(m)] = NetOf[a]

\* The numbers a client gave its messages increase on their way through its core.
NumberedAt(n) ==
    /\ \A t \in Topics : \A i, j \in 1 .. Len(sendQ[n][t]) :
          i < j => sendQ[n][t][i] < sendQ[n][t][j]
    /\ \A t \in Topics : \A num \in ToSet(sendQ[n][t]) :
          /\ num <= sent[n]
          /\ t = "sendMessage.binary" =>
                \A r \in ToSet(routed[n]) : r.num < num
    /\ \A r \in ToSet(routed[n]) : r.num <= sent[n]

Numbered == \A n \in Nodes : NumberedAt(n)

\* Of two messages of one sender by one of its adapters x is the older one.
Before(x, y) ==
    x.sender = y.sender /\ x.adapterId = y.adapterId => x.num < y.num

AllBefore(S, T) == \A x \in S, y \in T : Before(x, y)

\* A queue whose data messages are in order.
Sorted(q) ==
    \A i, j \in 1 .. Len(q) :
        i < j /\ q[i].kind \in DataKinds /\ q[j].kind \in DataKinds
            => Before(q[i], q[j])

\* Each queue is in order.
QueuesSorted ==
    /\ \A a \in Adapters : Sorted(subQ[a]) /\ Sorted(netQ[a])
    /\ \A n \in Nodes : Sorted(recvQ[n])

\* What has left an adapter is ahead of what waits at any.
AheadOfAdapters ==
    /\ \A a, b \in Adapters : AllBefore(Data(netQ[b]), Data(subQ[a]))
    /\ \A n \in Nodes, a \in Adapters :
          /\ AllBefore(Data(recvQ[n]), Data(subQ[a]))
          /\ AllBefore(ToSet(received[n]), Data(subQ[a]))

\* What has reached a node is ahead of what its adapters still hear.
AheadOfNets ==
    \A n \in Nodes, b \in Adapters : NodeOf[b] = n =>
        /\ AllBefore(Data(recvQ[n]), Data(netQ[b]))
        /\ AllBefore(ToSet(received[n]), Data(netQ[b]))

\* What a core has published is ahead of what it has yet to publish.
AheadOfCores ==
    \A n \in Nodes : AllBefore(ToSet(received[n]), Data(recvQ[n]))

InOrder == QueuesSorted /\ AheadOfAdapters /\ AheadOfNets /\ AheadOfCores

-----------------------------------------------------------------------------
\* A step of the swarm is a step of the registration, or leaves it alone.
LEMMA SwarmStepRegisters == [SwarmNext]_vars => [Next]_regVars
<1> SUFFICES ASSUME [SwarmNext]_vars
             PROVE  [Next]_regVars
  OBVIOUS
<1>1. ASSUME NEW n \in Nodes, CoreUpDown(n)
      PROVE  Next
  BY <1>1 DEF CoreUpDown, Next
<1>2. ASSUME NEW n \in Nodes,
             \/ CoreSendBinary(n) \/ CoreBeat(n) \/ CoreReceive(n)
             \/ \E topic \in Topics : ClientPublish(n, topic) \/ CoreDrop(n, topic)
      PROVE  UNCHANGED regVars
  BY <1>2 DEF CoreSendBinary, CoreBeat, CoreReceive, ClientPublish, CoreDrop
<1>3. ASSUME NEW a \in Adapters, AdapterUpDown(a)
      PROVE  Next
  BY <1>3 DEF AdapterUpDown, Next
<1>4. ASSUME NEW a \in Adapters, AdapterForward(a) \/ AdapterReceive(a)
      PROVE  UNCHANGED regVars
  BY <1>4 DEF AdapterForward, AdapterReceive
<1>5. CASE UNCHANGED vars
  BY <1>5 DEF vars
<1> QED
  BY <1>1, <1>2, <1>3, <1>4, <1>5 DEF SwarmNext

\* The processes of the swarm register as AdapterRegistration says: the data
\* path reads the registry and never disturbs it.
THEOREM SwarmRegisters == SwarmSpec => Spec
<1>1. SwarmInit => Init
  BY DEF SwarmInit
<1> QED
  BY <1>1, SwarmStepRegisters, PTL DEF SwarmSpec, Spec

\* So what is known of the registration holds of the swarm.
THEOREM SwarmInv == SwarmSpec => [](TypeOK /\ Inv /\ CountInv)
BY SwarmRegisters, TypeCorrect, InvCorrect, CountInvCorrect, PTL

-----------------------------------------------------------------------------
\* The first entry of a type is an entry, and there is at most one of it.
LEMMA FirstOfTypeEntry ==
  ASSUME TypeOK, NEW n \in Nodes, NEW type
  PROVE  /\ FirstOfType(n, type) \subseteq ToSet(adapter_list[n])
         /\ \A e, f \in FirstOfType(n, type) : e = f
<1>1. adapter_list[n] \in Seq(Entry)
  BY DEF TypeOK
<1>2. DOMAIN adapter_list[n] = 1 .. Len(adapter_list[n])
      /\ \A i \in 1 .. Len(adapter_list[n]) : adapter_list[n][i] \in ToSet(adapter_list[n])
  BY <1>1, ToSetMember
<1>3. FirstOfType(n, type) \subseteq ToSet(adapter_list[n])
  BY <1>2 DEF FirstOfType, Candidates
<1>4. ASSUME NEW e \in FirstOfType(n, type), NEW f \in FirstOfType(n, type)
      PROVE  e = f
  <2>1. PICK i \in Candidates(n, type) : /\ \A k \in Candidates(n, type) : i <= k
                                         /\ e = adapter_list[n][i]
    BY DEF FirstOfType
  <2>2. PICK j \in Candidates(n, type) : /\ \A k \in Candidates(n, type) : j <= k
                                         /\ f = adapter_list[n][j]
    BY DEF FirstOfType
  <2>3. i \in 1 .. Len(adapter_list[n]) /\ j \in 1 .. Len(adapter_list[n])
    BY <1>2 DEF Candidates
  <2>4. i <= j /\ j <= i /\ i \in Int /\ j \in Int
    BY <2>1, <2>2, <2>3
  <2>5. i = j
    BY <2>4
  <2> QED
    BY <2>1, <2>2, <2>5
<1> QED
  BY <1>3, <1>4

\* sendMessage.binary goes to one entry of the registry at most: one link
\* table is the last, and one entry of its type the first.
LEMMA ChosenEntry ==
  ASSUME TypeOK, NEW n \in Nodes
  PROVE  /\ Chosen(n) \subseteq ToSet(adapter_list[n])
         /\ \A e, f \in Chosen(n) : e = f
<1>1. DOMAIN linkTables[n] = 1 .. Len(linkTables[n])
  BY DEF TypeOK
<1>2. Chosen(n) \subseteq ToSet(adapter_list[n])
  BY FirstOfTypeEntry DEF Chosen
<1>3. ASSUME NEW e \in Chosen(n), NEW f \in Chosen(n)
      PROVE  e = f
  <2>1. PICK i \in BestTypes(n) : /\ \A k \in BestTypes(n) : k <= i
                                  /\ e \in FirstOfType(n, linkTables[n][i])
    BY DEF Chosen
  <2>2. PICK j \in BestTypes(n) : /\ \A k \in BestTypes(n) : k <= j
                                  /\ f \in FirstOfType(n, linkTables[n][j])
    BY DEF Chosen
  <2>3. i \in 1 .. Len(linkTables[n]) /\ j \in 1 .. Len(linkTables[n])
    BY <1>1 DEF BestTypes
  <2>4. i <= j /\ j <= i /\ i \in Int /\ j \in Int
    BY <2>1, <2>2, <2>3
  <2>5. i = j
    BY <2>4
  <2> QED
    BY <2>1, <2>2, <2>5, FirstOfTypeEntry
<1> QED
  BY <1>2, <1>3

\* What is routed at a sendMessage.binary is one message for the entry chosen,
\* or nothing.
LEMMA RoutedAppends ==
  ASSUME TypeOK, SwarmTypeOK, NEW n \in Nodes, NEW num \in Nums,
         routed' = [routed EXCEPT ![n] = @ \o Handed(n, num)]
  PROVE  \/ routed' = routed /\ Chosen(n) = {}
         \/ \E e \in Chosen(n) :
               /\ e \in Entry
               /\ Chosen(n) = {e}
               /\ routed' = [routed EXCEPT ![n] =
                                Append(@, [num |-> num, adapterId |-> e.id])]
<1> DEFINE R == [num : Nums, adapterId : Nat \ {0}]
<1>1. routed \in [Nodes -> Seq(R)]
  BY DEF SwarmTypeOK
<1>2. CASE Chosen(n) = {}
  <2>1. {[num |-> num, adapterId |-> e.id] : e \in Chosen(n)} = {}
    BY <1>2
  <2>2. routed' = [routed EXCEPT ![n] = @ \o <<>>]
    BY <2>1, SetToSeqEmpty DEF Handed
  <2>3. routed[n] \o <<>> = routed[n]
    BY <1>1, ConcatEmptySeq
  <2> QED
    BY <1>1, <1>2, <2>2, <2>3
<1>3. ASSUME NEW e \in Chosen(n)
      PROVE  /\ e \in Entry
             /\ Chosen(n) = {e}
             /\ routed' = [routed EXCEPT ![n] =
                              Append(@, [num |-> num, adapterId |-> e.id])]
  <2> DEFINE r == [num |-> num, adapterId |-> e.id]
  <2>1. Chosen(n) = {e} /\ e \in ToSet(adapter_list[n])
    BY ChosenEntry
  <2>2. e \in Entry
    BY <2>1, ToSetMember DEF TypeOK
  <2>3. {[num |-> num, adapterId |-> f.id] : f \in Chosen(n)} = {r}
    BY <2>1
  <2>4. r \in R
    BY <2>2 DEF Entry
  <2>5. routed' = [routed EXCEPT ![n] = @ \o <<r>>]
    <3> HIDE DEF r
    <3> QED
      BY <2>3, SetToSeqSingle DEF Handed
  <2>6. routed[n] \o <<r>> = Append(routed[n], r)
    <3> HIDE DEF r
    <3> QED
      BY <1>1, <2>4, AppendIsConcat
  <2>7. routed' = [routed EXCEPT ![n] = Append(@, r)]
    <3> HIDE DEF r
    <3> QED
      BY <2>5, <2>6
  <2> QED
    BY <2>1, <2>2, <2>7
<1> QED
  BY <1>2, <1>3

\* A message published for entries of the registry is appended to the queue
\* of an adapter that listens for one of them, and to no other.
LEMMA PublishAppends ==
  ASSUME TypeOK, SwarmTypeOK, NEW n \in Nodes,
         NEW entries \in SUBSET ToSet(adapter_list[n]),
         NEW kind \in LinkKinds \union DataKinds, NEW num \in Nat,
         PublishTo(n, entries, kind, num)
  PROVE  /\ subQ' \in [Adapters -> Seq(Message)]
         /\ \A a \in Adapters :
               \/ subQ'[a] = subQ[a]
               \/ \E e \in entries :
                     /\ e \in Entry
                     /\ a \in ListenersOf(n, e.id)
                     /\ MessageFor(kind, n, e, num) \in Message
                     /\ subQ'[a] = Append(subQ[a], MessageFor(kind, n, e, num))
<1>1. \A e \in entries : e \in Entry /\ MessageFor(kind, n, e, num) \in Message
  <2> SUFFICES ASSUME NEW e \in entries
               PROVE  e \in Entry /\ MessageFor(kind, n, e, num) \in Message
    OBVIOUS
  <2>1. e \in Entry
    BY ToSetMember DEF TypeOK
  <2> QED
    BY <2>1 DEF Entry, MessageFor, Message
<1>2. ASSUME NEW a \in Adapters
      PROVE  /\ subQ'[a] \in Seq(Message)
             /\ \/ subQ'[a] = subQ[a]
                \/ \E e \in entries :
                      /\ e \in Entry
                      /\ a \in ListenersOf(n, e.id)
                      /\ MessageFor(kind, n, e, num) \in Message
                      /\ subQ'[a] = Append(subQ[a], MessageFor(kind, n, e, num))
  <2> DEFINE mine == {e \in entries : a \in ListenersOf(n, e.id)}
  <2>1. subQ[a] \in Seq(Message)
    BY DEF SwarmTypeOK
  <2>2. subQ'[a] = IF mine = {} THEN subQ[a]
                   ELSE Append(subQ[a], MessageFor(kind, n, CHOOSE e \in mine : TRUE, num))
    BY DEF PublishTo
  <2>3. CASE mine = {}
    BY <2>1, <2>2, <2>3
  <2>4. CASE mine # {}
    <3>1. PICK e \in mine : e = CHOOSE f \in mine : TRUE
      BY <2>4
    <3>2. subQ'[a] = Append(subQ[a], MessageFor(kind, n, e, num))
      BY <2>2, <2>4, <3>1
    <3>3. MessageFor(kind, n, e, num) \in Message
      BY <1>1
    <3> QED
      BY <1>1, <2>1, <3>2, <3>3, AppendProperties
  <2> QED
    BY <2>3, <2>4
<1>3. subQ' = [a \in Adapters |-> subQ'[a]]
  BY DEF PublishTo
<1> QED
  BY <1>2, <1>3

\* What is queued with subscribers is appended to each of their queues.
LEMMA EnqueueAppends ==
  ASSUME NEW S, NEW Q, NEW q \in [Q -> Seq(S)], NEW subscribers, NEW m \in S
  PROVE  /\ Enqueue(q, subscribers, m) \in [Q -> Seq(S)]
         /\ \A x \in Q : Enqueue(q, subscribers, m)[x] =
               IF x \in subscribers THEN Append(q[x], m) ELSE q[x]
BY AppendProperties DEF Enqueue

\* Numbers of messages are positive; the next one of a client is one of them.
LEMMA NumsPositive ==
  /\ Nums \subseteq Nat \ {0}
  /\ \A n \in Nodes : \A k \in Nums \union {0} : k < MaxSends[n] => k + 1 \in Nums
<1>1. \A n \in Nodes : MaxSends[n] \in Nat
  BY SwarmAssumption
<1>2. Nums \subseteq Nat \ {0}
  BY <1>1 DEF Nums
<1>3. ASSUME NEW n \in Nodes, NEW k \in Nums \union {0}, k < MaxSends[n]
      PROVE  k + 1 \in Nums
  <2>1. k \in Nat /\ k + 1 \in 1 .. MaxSends[n]
    BY <1>1, <1>2, <1>3
  <2> QED
    BY <2>1 DEF Nums
<1> QED
  BY <1>2, <1>3

\* Taking the head of one of a node's client queues.
LEMMA SendQTail ==
  ASSUME SwarmTypeOK, NEW n \in Nodes, NEW t \in Topics, sendQ[n][t] # <<>>,
         sendQ' = [sendQ EXCEPT ![n][t] = Tail(@)]
  PROVE  /\ sendQ' \in [Nodes -> [Topics -> Seq(Nums)]]
         /\ Head(sendQ[n][t]) \in Nums
         /\ sendQ'[n][t] = Tail(sendQ[n][t])
         /\ ToSet(sendQ[n][t]) = {Head(sendQ[n][t])} \union ToSet(sendQ'[n][t])
         /\ \A m \in Nodes : \A u \in Topics :
               m # n \/ u # t => sendQ'[m][u] = sendQ[m][u]
<1>1. sendQ \in [Nodes -> [Topics -> Seq(Nums)]] /\ sendQ[n][t] \in Seq(Nums)
  BY DEF SwarmTypeOK
<1>2. /\ Head(sendQ[n][t]) \in Nums
      /\ Tail(sendQ[n][t]) \in Seq(Nums)
      /\ ToSet(sendQ[n][t]) = {Head(sendQ[n][t])} \union ToSet(Tail(sendQ[n][t]))
  BY <1>1, ToSetHeadTail
<1> QED
  BY <1>1, <1>2

\* A message of a client keeps the types.
LEMMA ClientPublishType ==
  ASSUME TypeOK, SwarmTypeOK, NEW n \in Nodes, NEW t \in Topics, ClientPublish(n, t)
  PROVE  SwarmTypeOK'
<1>1. sent[n] + 1 \in Nums
  BY NumsPositive DEF ClientPublish, SwarmTypeOK
<1>2. sent' \in [Nodes -> Nums \union {0}]
  BY <1>1 DEF ClientPublish, SwarmTypeOK
<1>3. sendQ' \in [Nodes -> [Topics -> Seq(Nums)]]
  <2>1. sendQ \in [Nodes -> [Topics -> Seq(Nums)]]
    BY DEF SwarmTypeOK
  <2>2. Append(sendQ[n][t], sent[n] + 1) \in Seq(Nums)
    BY <1>1, <2>1, AppendProperties
  <2>3. CASE sendQ' = sendQ
    BY <2>1, <2>3
  <2>4. CASE sendQ' = [sendQ EXCEPT ![n][t] = Append(@, sent[n] + 1)]
    <3> DEFINE q == Append(sendQ[n][t], sent[n] + 1)
    <3>1. q \in Seq(Nums) /\ sendQ' = [sendQ EXCEPT ![n][t] = q]
      BY <2>2, <2>4
    <3> HIDE DEF q
    <3> QED
      BY <2>1, <3>1
  <2> QED
    BY <2>3, <2>4 DEF ClientPublish
<1> QED
  BY <1>2, <1>3 DEF ClientPublish, SwarmTypeOK

\* A message the core routes or drops keeps the types.
LEMMA CoreSendType ==
  ASSUME TypeOK, SwarmTypeOK, NEW n \in Nodes,
         CoreSendBinary(n) \/ \E t \in Topics : CoreDrop(n, t)
  PROVE  SwarmTypeOK'
<1>1. CASE CoreSendBinary(n)
  <2> DEFINE t == "sendMessage.binary"
             num == Head(sendQ[n][t])
  <2>1. /\ t \in Topics /\ sendQ[n][t] # <<>>
        /\ sendQ' = [sendQ EXCEPT ![n][t] = Tail(@)]
        /\ PublishTo(n, Chosen(n), "binary", num)
        /\ routed' = [routed EXCEPT ![n] = @ \o Handed(n, num)]
        /\ UNCHANGED <<sent, netQ, recvQ, counter, received>>
    BY <1>1 DEF CoreSendBinary
  <2>2. sendQ' \in [Nodes -> [Topics -> Seq(Nums)]] /\ num \in Nums
    BY <2>1, SendQTail
  <2>3. subQ' \in [Adapters -> Seq(Message)]
    BY <2>1, <2>2, ChosenEntry, PublishAppends, NumsPositive DEF DataKinds
  <2>4. routed' \in [Nodes -> Seq([num : Nums, adapterId : Nat \ {0}])]
    <3> HIDE DEF num
    <3>1. CASE routed' = routed
      BY <3>1 DEF SwarmTypeOK
    <3>2. ASSUME NEW e \in Entry,
                 routed' = [routed EXCEPT ![n] =
                               Append(@, [num |-> num, adapterId |-> e.id])]
          PROVE  routed' \in [Nodes -> Seq([num : Nums, adapterId : Nat \ {0}])]
      <4>1. [num |-> num, adapterId |-> e.id] \in [num : Nums, adapterId : Nat \ {0}]
        BY <2>2 DEF Entry
      <4> QED
        BY <3>2, <4>1, AppendProperties DEF SwarmTypeOK
    <3>3. \/ routed' = routed
          \/ \E e \in Entry :
                routed' = [routed EXCEPT ![n] =
                              Append(@, [num |-> num, adapterId |-> e.id])]
      BY <2>1, <2>2, RoutedAppends
    <3> QED
      BY <3>1, <3>2, <3>3
  <2> QED
    BY <2>1, <2>2, <2>3, <2>4 DEF SwarmTypeOK
<1>2. ASSUME NEW t \in Topics, CoreDrop(n, t)
      PROVE  SwarmTypeOK'
  <2>1. sendQ' \in [Nodes -> [Topics -> Seq(Nums)]]
    BY <1>2, SendQTail DEF CoreDrop
  <2> QED
    BY <1>2, <2>1 DEF CoreDrop, SwarmTypeOK
<1> QED
  BY <1>1, <1>2

\* A heartbeat keeps the types.
LEMMA CoreBeatType ==
  ASSUME TypeOK, SwarmTypeOK, NEW n \in Nodes, CoreBeat(n)
  PROVE  SwarmTypeOK'
<1>1. counter[n] \in Nat
  BY DEF SwarmTypeOK
<1>2. subQ' \in [Adapters -> Seq(Message)]
  <2>1. PICK kind \in LinkKinds :
           PublishTo(n, ToSet(adapter_list[n]), kind, counter[n])
    BY DEF CoreBeat, LinkKinds
  <2> QED
    BY <1>1, <2>1, PublishAppends
<1>3. counter' \in [Nodes -> Nat]
  BY <1>1 DEF CoreBeat, SwarmTypeOK
<1> QED
  BY <1>2, <1>3 DEF CoreBeat, SwarmTypeOK

\* What is received was routed, so its number is one of the client's.
LEMMA CoreReceiveType ==
  ASSUME TypeOK, SwarmTypeOK, Genuine, NEW n \in Nodes, CoreReceive(n)
  PROVE  SwarmTypeOK'
<1> DEFINE m == Head(recvQ[n])
<1>1. /\ recvQ \in [Nodes -> Seq(Message)] /\ recvQ[n] # <<>>
      /\ recvQ' = [recvQ EXCEPT ![n] = Tail(@)]
  BY DEF CoreReceive, SwarmTypeOK
<1>2. m \in Message /\ Tail(recvQ[n]) \in Seq(Message)
  BY <1>1, ToSetHeadTail
<1>3. recvQ' \in [Nodes -> Seq(Message)]
  BY <1>1, <1>2
<1> HIDE DEF m
<1>4. subQ' \in [Adapters -> Seq(Message)]
  <2>1. CASE PublishTo(n, FirstOfType(n, m.link), "pong", m.num)
    <3>1. m.num \in Nat
      BY <1>2 DEF Message
    <3> QED
      BY <2>1, <3>1, FirstOfTypeEntry, PublishAppends DEF LinkKinds
  <2>2. CASE UNCHANGED subQ
    BY <2>2 DEF SwarmTypeOK
  <2> QED
    BY <2>1, <2>2 DEF CoreReceive, m
<1>5. received' \in [Nodes -> Seq([sender : Nodes, num : Nums, adapterId : Nat \ {0}])]
  <2> DEFINE D == [sender : Nodes, num : Nums, adapterId : Nat \ {0}]
             d == [sender |-> m.sender, num |-> m.num, adapterId |-> m.adapterId]
  <2>1. received \in [Nodes -> Seq(D)]
    BY DEF SwarmTypeOK
  <2>2. ASSUME m.kind \in DataKinds
        PROVE  received' \in [Nodes -> Seq(D)]
    <3>1. m \in ToSet(recvQ[n])
      BY <1>1, ToSetHeadTail DEF m
    <3>2. [num |-> m.num, adapterId |-> m.adapterId] \in ToSet(routed[m.sender])
      BY <2>2, <3>1 DEF Genuine, Data, Routed
    <3>3. m.sender \in Nodes
      BY <1>2 DEF Message
    <3>4. [num |-> m.num, adapterId |-> m.adapterId] \in [num : Nums, adapterId : Nat \ {0}]
      BY <3>2, <3>3, ToSetMember DEF SwarmTypeOK
    <3>5. d \in D
      BY <3>3, <3>4
    <3>6. received' = [received EXCEPT ![n] = Append(@, d)]
      BY <2>2 DEF CoreReceive, m
    <3> HIDE DEF D, d
    <3> QED
      BY <2>1, <3>5, <3>6, AppendProperties
  <2>3. CASE m.kind \notin DataKinds
    BY <2>1, <2>3 DEF CoreReceive, m
  <2> QED
    BY <2>2, <2>3
<1> QED
  BY <1>3, <1>4, <1>5 DEF CoreReceive, SwarmTypeOK

\* An adapter passes the head of its queue on to those who hear it.
LEMMA ForwardStep ==
  ASSUME SwarmTypeOK, NEW a \in Adapters, AdapterForward(a)
  PROVE  /\ Head(subQ[a]) \in Message
         /\ ToSet(subQ[a]) = {Head(subQ[a])} \union ToSet(Tail(subQ[a]))
         /\ subQ[a] # <<>>
         /\ subQ' = [subQ EXCEPT ![a] = Tail(@)]
         /\ subQ' \in [Adapters -> Seq(Message)]
         /\ netQ' \in [Adapters -> Seq(Message)]
         /\ \A b \in Adapters :
               \/ netQ'[b] = netQ[b]
               \/ /\ b \in ListenersOn(NetOf[a])
                  /\ netQ'[b] = Append(netQ[b], Head(subQ[a]))
<1>1. /\ subQ[a] \in Seq(Message) /\ subQ[a] # <<>>
      /\ subQ' = [subQ EXCEPT ![a] = Tail(@)]
  BY DEF AdapterForward, SwarmTypeOK
<1>2. /\ Head(subQ[a]) \in Message /\ Tail(subQ[a]) \in Seq(Message)
      /\ ToSet(subQ[a]) = {Head(subQ[a])} \union ToSet(Tail(subQ[a]))
  BY <1>1, ToSetHeadTail
<1>3. PICK hearers \in SUBSET ListenersOn(NetOf[a]) :
         netQ' = Enqueue(netQ, hearers, Head(subQ[a]))
  BY DEF AdapterForward
<1>4. netQ \in [Adapters -> Seq(Message)]
  BY DEF SwarmTypeOK
<1>5. /\ netQ' \in [Adapters -> Seq(Message)]
      /\ \A b \in Adapters : netQ'[b] = IF b \in hearers
                                       THEN Append(netQ[b], Head(subQ[a])) ELSE netQ[b]
  BY <1>2, <1>3, <1>4, EnqueueAppends
<1>6. subQ' \in [Adapters -> Seq(Message)]
  BY <1>1, <1>2 DEF SwarmTypeOK
<1> QED
  BY <1>1, <1>2, <1>3, <1>5, <1>6

\* An adapter hands the head of what it hears to its core, or drops it.
LEMMA ReceiveStep ==
  ASSUME SwarmTypeOK, NEW a \in Adapters, AdapterReceive(a)
  PROVE  /\ Head(netQ[a]) \in Message
         /\ ToSet(netQ[a]) = {Head(netQ[a])} \union ToSet(Tail(netQ[a]))
         /\ netQ[a] # <<>>
         /\ netQ' = [netQ EXCEPT ![a] = Tail(@)]
         /\ netQ' \in [Adapters -> Seq(Message)]
         /\ recvQ' \in [Nodes -> Seq(Message)]
         /\ \A n \in Nodes :
               \/ recvQ'[n] = recvQ[n]
               \/ /\ n = NodeOf[a]
                  /\ Head(netQ[a]).sender # n
                  /\ recvQ'[n] = Append(recvQ[n], Head(netQ[a]))
<1>1. /\ netQ[a] \in Seq(Message) /\ netQ[a] # <<>>
      /\ netQ' = [netQ EXCEPT ![a] = Tail(@)]
  BY DEF AdapterReceive, SwarmTypeOK
<1>2. /\ Head(netQ[a]) \in Message /\ Tail(netQ[a]) \in Seq(Message)
      /\ ToSet(netQ[a]) = {Head(netQ[a])} \union ToSet(Tail(netQ[a]))
  BY <1>1, ToSetHeadTail
<1>3. recvQ \in [Nodes -> Seq(Message)]
  BY DEF SwarmTypeOK
<1>4. netQ' \in [Adapters -> Seq(Message)]
  BY <1>1, <1>2 DEF SwarmTypeOK
<1>5. CASE recvQ' = recvQ
  BY <1>1, <1>2, <1>3, <1>4, <1>5
<1>6. CASE /\ FromOther(a, Head(netQ[a]))
           /\ recvQ' = Enqueue(recvQ, {NodeOf[a]}, Head(netQ[a]))
  <2>1. /\ recvQ' \in [Nodes -> Seq(Message)]
        /\ \A n \in Nodes : recvQ'[n] = IF n \in {NodeOf[a]}
                                       THEN Append(recvQ[n], Head(netQ[a])) ELSE recvQ[n]
    BY <1>2, <1>3, <1>6, EnqueueAppends
  <2> QED
    BY <1>1, <1>2, <1>4, <1>6, <2>1 DEF FromOther
<1> QED
  BY <1>5, <1>6 DEF AdapterReceive

\* A core that goes down takes its queues along, and an adapter its own.
LEMMA UpDownStep ==
  ASSUME SwarmTypeOK,
         \/ \E n \in Nodes : CoreUpDown(n)
         \/ \E a \in Adapters : AdapterUpDown(a)
  PROVE  /\ SwarmTypeOK'
         /\ UNCHANGED <<sent, routed, received>>
         /\ \A a \in Adapters : /\ subQ'[a] \in {subQ[a], <<>>}
                                /\ netQ'[a] \in {netQ[a], <<>>}
         /\ \A n \in Nodes : /\ recvQ'[n] \in {recvQ[n], <<>>}
                             /\ \A t \in Topics : sendQ'[n][t] \in {sendQ[n][t], <<>>}
<1>1. ASSUME NEW n \in Nodes, CoreUpDown(n), UNCHANGED netVars
      PROVE  UNCHANGED <<sent, sendQ, subQ, netQ, recvQ, counter, routed, received>>
  BY <1>1 DEF netVars
<1>2. ASSUME NEW n \in Nodes,
             /\ sendQ' = [sendQ EXCEPT ![n] = [t \in Topics |-> <<>>]]
             /\ recvQ' = [recvQ EXCEPT ![n] = <<>>]
             /\ counter' = [counter EXCEPT ![n] = 0]
             /\ UNCHANGED <<sent, subQ, netQ, routed, received>>
      PROVE  /\ SwarmTypeOK'
             /\ \A m \in Nodes : /\ recvQ'[m] \in {recvQ[m], <<>>}
                                 /\ \A t \in Topics : sendQ'[m][t] \in {sendQ[m][t], <<>>}
  <2>1. \A m \in Nodes : /\ recvQ'[m] \in {recvQ[m], <<>>}
                         /\ \A t \in Topics : sendQ'[m][t] \in {sendQ[m][t], <<>>}
    BY <1>2 DEF SwarmTypeOK
  <2>2. sendQ' \in [Nodes -> [Topics -> Seq(Nums)]]
    BY <1>2 DEF SwarmTypeOK
  <2>3. recvQ' \in [Nodes -> Seq(Message)] /\ counter' \in [Nodes -> Nat]
    BY <1>2 DEF SwarmTypeOK
  <2> QED
    BY <1>2, <2>1, <2>2, <2>3 DEF SwarmTypeOK
<1>3. ASSUME NEW a \in Adapters, AdapterUpDown(a)
      PROVE  /\ SwarmTypeOK'
             /\ UNCHANGED <<sent, sendQ, recvQ, counter, routed, received>>
             /\ \A b \in Adapters : /\ subQ'[b] \in {subQ[b], <<>>}
                                    /\ netQ'[b] \in {netQ[b], <<>>}
  <2>1. /\ subQ' = subQ \/ subQ' = [subQ EXCEPT ![a] = <<>>]
        /\ netQ' = netQ \/ netQ' = [netQ EXCEPT ![a] = <<>>]
        /\ UNCHANGED <<sent, sendQ, recvQ, counter, routed, received>>
    BY <1>3 DEF AdapterUpDown
  <2>2. subQ' \in [Adapters -> Seq(Message)] /\ netQ' \in [Adapters -> Seq(Message)]
    <3>1. <<>> \in Seq(Message)
      OBVIOUS
    <3>2. subQ' \in [Adapters -> Seq(Message)]
      BY <2>1, <3>1 DEF SwarmTypeOK
    <3>3. netQ' \in [Adapters -> Seq(Message)]
      BY <2>1, <3>1 DEF SwarmTypeOK
    <3> QED
      BY <3>2, <3>3
  <2>3. \A b \in Adapters : subQ'[b] \in {subQ[b], <<>>} /\ netQ'[b] \in {netQ[b], <<>>}
    BY <2>1 DEF SwarmTypeOK
  <2> QED
    BY <2>1, <2>2, <2>3 DEF SwarmTypeOK
<1> QED
  BY <1>1, <1>2, <1>3 DEF CoreUpDown, SwarmTypeOK

\* Every step keeps the types, if what waits in the queues was routed.
LEMMA SwarmTypeStep ==
  ASSUME TypeOK, SwarmTypeOK, Genuine, [SwarmNext]_vars
  PROVE  SwarmTypeOK'
<1>1. ASSUME NEW n \in Nodes,
             \/ CoreUpDown(n) \/ CoreSendBinary(n) \/ CoreBeat(n) \/ CoreReceive(n)
             \/ \E topic \in Topics : ClientPublish(n, topic) \/ CoreDrop(n, topic)
      PROVE  SwarmTypeOK'
  BY <1>1, UpDownStep, CoreSendType, CoreBeatType, CoreReceiveType, ClientPublishType
<1>2. ASSUME NEW a \in Adapters,
             AdapterUpDown(a) \/ AdapterForward(a) \/ AdapterReceive(a)
      PROVE  SwarmTypeOK'
  <2>1. CASE AdapterForward(a)
    BY <2>1, ForwardStep DEF AdapterForward, SwarmTypeOK
  <2>2. CASE AdapterReceive(a)
    BY <2>2, ReceiveStep DEF AdapterReceive, SwarmTypeOK
  <2> QED
    BY <1>2, <2>1, <2>2, UpDownStep
<1>3. CASE UNCHANGED vars
  BY <1>3 DEF vars, netVars, SwarmTypeOK
<1> QED
  BY <1>1, <1>2, <1>3 DEF SwarmNext

\* The data messages of a queue, as it grows at its end and shrinks at its head.
LEMMA DataAppend ==
  ASSUME NEW q \in Seq(Message), NEW m \in Message
  PROVE  /\ Data(Append(q, m)) \subseteq Data(q) \union {m}
         /\ m.kind \notin DataKinds => Data(Append(q, m)) = Data(q)
BY ToSetAppend DEF Data

\* Taking the head of a queue leaves only what was there.
LEMMA DataTail ==
  ASSUME NEW q \in Seq(Message), q # <<>>
  PROVE  /\ Data(Tail(q)) \subseteq Data(q)
         /\ Head(q) \in ToSet(q)
         /\ Head(q).kind \in DataKinds => Head(q) \in Data(q)
BY ToSetHeadTail DEF Data

\* A LINK message that is published adds nothing to the data in the queues.
LEMMA PublishLink ==
  ASSUME TypeOK, SwarmTypeOK, NEW n \in Nodes,
         NEW entries \in SUBSET ToSet(adapter_list[n]),
         NEW kind \in LinkKinds, NEW num \in Nat,
         PublishTo(n, entries, kind, num), NEW a \in Adapters
  PROVE  Data(subQ'[a]) = Data(subQ[a])
<1>1. kind \notin DataKinds /\ kind \in LinkKinds \union DataKinds
  BY DEF LinkKinds, DataKinds
<1>2. subQ[a] \in Seq(Message)
  BY DEF SwarmTypeOK
<1>3. CASE subQ'[a] = subQ[a]
  BY <1>3
<1>4. ASSUME NEW e \in entries, MessageFor(kind, n, e, num) \in Message,
             subQ'[a] = Append(subQ[a], MessageFor(kind, n, e, num))
      PROVE  Data(subQ'[a]) = Data(subQ[a])
  <2> DEFINE m == MessageFor(kind, n, e, num)
  <2>1. m \in Message /\ m.kind = kind /\ subQ'[a] = Append(subQ[a], m)
    BY <1>4 DEF MessageFor
  <2> HIDE DEF m
  <2> QED
    BY <1>1, <1>2, <2>1, DataAppend
<1> QED
  BY <1>1, <1>3, <1>4, PublishAppends

\* What was routed before a step is routed after it, for routed only grows.
LEMMA RoutedStays ==
  ASSUME \A n \in Nodes : ToSet(routed[n]) \subseteq ToSet(routed'[n]),
         NEW m, m.sender \in Nodes, Routed(m)
  PROVE  Routed(m)'
BY DEF Routed

\* At the start nothing waits anywhere.
LEMMA SwarmInitGenuine == SwarmInit => SwarmTypeOK /\ Genuine
<1> SUFFICES ASSUME SwarmInit
             PROVE  SwarmTypeOK /\ Genuine
  OBVIOUS
<1>1. SwarmTypeOK
  BY DEF SwarmInit, SwarmTypeOK
<1>2. Data(<<>>) = {}
  BY ToSetEmpty DEF Data
<1>3. \A a \in Adapters : subQ[a] = <<>> /\ netQ[a] = <<>>
  BY DEF SwarmInit
<1>4. \A n \in Nodes : recvQ[n] = <<>> /\ received[n] = <<>>
  BY DEF SwarmInit
<1>5. Genuine
  BY <1>2, <1>3, <1>4, ToSetEmpty DEF Genuine, OnlyOthersMessages
<1> QED
  BY <1>1, <1>5

\* Messages of a queue have a node as their sender.
LEMMA SendersKnown ==
  ASSUME SwarmTypeOK
  PROVE  /\ \A a \in Adapters : \A m \in ToSet(subQ[a]) : m \in Message
         /\ \A a \in Adapters : \A m \in ToSet(netQ[a]) : m \in Message
         /\ \A n \in Nodes : \A m \in ToSet(recvQ[n]) : m \in Message
         /\ \A m \in Message : m.sender \in Nodes
         /\ \A n \in Nodes : \A d \in ToSet(received[n]) : d.sender \in Nodes
<1>1. \A m \in Message : m.sender \in Nodes
  BY DEF Message
<1>2. /\ \A a \in Adapters : ToSet(subQ[a]) \subseteq Message
      /\ \A a \in Adapters : ToSet(netQ[a]) \subseteq Message
      /\ \A n \in Nodes : ToSet(recvQ[n]) \subseteq Message
  BY ToSetMember DEF SwarmTypeOK
<1>3. \A n \in Nodes : \A d \in ToSet(received[n]) : d.sender \in Nodes
  <2> SUFFICES ASSUME NEW n \in Nodes, NEW d \in ToSet(received[n])
               PROVE  d.sender \in Nodes
    OBVIOUS
  <2>1. received[n] \in Seq([sender : Nodes, num : Nums, adapterId : Nat \ {0}])
    BY DEF SwarmTypeOK
  <2>2. d \in [sender : Nodes, num : Nums, adapterId : Nat \ {0}]
    BY <2>1, ToSetMember
  <2> QED
    BY <2>2
<1> QED
  BY <1>1, <1>2, <1>3

\* The data message of a sendMessage.binary is routed as it is handed over.
LEMMA CoreSendGenuine ==
  ASSUME TypeOK, SwarmTypeOK, Genuine, NEW n \in Nodes, CoreSendBinary(n)
  PROVE  Genuine'
<1> DEFINE t == "sendMessage.binary"
           num == Head(sendQ[n][t])
<1>1. /\ t \in Topics /\ sendQ[n][t] # <<>>
      /\ sendQ' = [sendQ EXCEPT ![n][t] = Tail(@)]
      /\ PublishTo(n, Chosen(n), "binary", num)
      /\ routed' = [routed EXCEPT ![n] = @ \o Handed(n, num)]
      /\ UNCHANGED <<netQ, recvQ, received>>
  BY DEF CoreSendBinary
<1>2. num \in Nums /\ num \in Nat
  BY <1>1, SendQTail, NumsPositive
<1> HIDE DEF num, t
<1> DEFINE R == [num : Nums, adapterId : Nat \ {0}]
<1>3. routed \in [Nodes -> Seq(R)]
  BY DEF SwarmTypeOK
<1>4. /\ \A m \in Nodes : ToSet(routed[m]) \subseteq ToSet(routed'[m])
      /\ \A e \in Chosen(n) : [num |-> num, adapterId |-> e.id] \in ToSet(routed'[n])
  <2>1. CASE routed' = routed /\ Chosen(n) = {}
    BY <2>1
  <2>2. ASSUME NEW e \in Chosen(n), e \in Entry, Chosen(n) = {e},
               routed' = [routed EXCEPT ![n] =
                             Append(@, [num |-> num, adapterId |-> e.id])]
        PROVE  /\ \A m \in Nodes : ToSet(routed[m]) \subseteq ToSet(routed'[m])
               /\ [num |-> num, adapterId |-> e.id] \in ToSet(routed'[n])
    <3> DEFINE r == [num |-> num, adapterId |-> e.id]
    <3>1. r \in R
      BY <1>2, <2>2 DEF Entry
    <3> HIDE DEF r, R
    <3>2. routed' = [routed EXCEPT ![n] = Append(@, r)]
      BY <2>2 DEF r
    <3>3. ToSet(routed'[n]) = ToSet(routed[n]) \union {r}
      BY <1>3, <3>1, <3>2, ToSetAppend
    <3>4. \A m \in Nodes : m # n => routed'[m] = routed[m]
      BY <1>3, <3>2
    <3> QED
      BY <3>3, <3>4 DEF r
  <2> QED
    <3>1. CASE \E e \in Chosen(n) :
                  /\ e \in Entry
                  /\ Chosen(n) = {e}
                  /\ routed' = [routed EXCEPT ![n] =
                                   Append(@, [num |-> num, adapterId |-> e.id])]
      <4>1. PICK e \in Chosen(n) :
               /\ e \in Entry
               /\ Chosen(n) = {e}
               /\ routed' = [routed EXCEPT ![n] =
                                Append(@, [num |-> num, adapterId |-> e.id])]
        BY <3>1
      <4>2. \A f \in Chosen(n) : f = e
        BY <4>1
      <4>3. /\ \A m \in Nodes : ToSet(routed[m]) \subseteq ToSet(routed'[m])
            /\ [num |-> num, adapterId |-> e.id] \in ToSet(routed'[n])
        BY <4>1, <2>2
      <4> QED
        BY <4>2, <4>3
    <3>2. CASE routed' = routed /\ Chosen(n) = {}
      BY <2>1, <3>2
    <3> QED
      BY <1>1, <1>2, <3>1, <3>2, RoutedAppends
<1>5. ASSUME NEW m \in Message, Routed(m)
      PROVE  Routed(m)'
  BY <1>4, <1>5, RoutedStays DEF Message
<1>6. ASSUME NEW a \in Adapters, NEW m \in Data(subQ'[a])
      PROVE  Routed(m)'
  <2>1. Chosen(n) \in SUBSET ToSet(adapter_list[n])
    BY ChosenEntry
  <2>2. "binary" \in LinkKinds \union DataKinds
    BY DEF DataKinds
  <2>3. subQ[a] \in Seq(Message)
    BY DEF SwarmTypeOK
  <2>4. CASE m \in Data(subQ[a])
    BY <1>5, <2>4, SendersKnown DEF Genuine, Data
  <2>5. ASSUME NEW e \in Chosen(n), m = MessageFor("binary", n, e, num)
        PROVE  Routed(m)'
    <3>1. m.num = num /\ m.adapterId = e.id /\ m.sender = n
      BY <2>5 DEF MessageFor
    <3> QED
      BY <1>4, <3>1 DEF Routed
  <2>6. ASSUME NEW e \in Chosen(n), MessageFor("binary", n, e, num) \in Message,
               subQ'[a] = Append(subQ[a], MessageFor("binary", n, e, num))
        PROVE  m \in Data(subQ[a]) \/ m = MessageFor("binary", n, e, num)
    <3> DEFINE x == MessageFor("binary", n, e, num)
    <3>1. x \in Message /\ subQ'[a] = Append(subQ[a], x)
      BY <2>6
    <3> HIDE DEF x
    <3>2. m \in Data(subQ[a]) \/ m = x
      BY <1>6, <2>3, <3>1, DataAppend
    <3> QED
      BY <3>2 DEF x
  <2>7. CASE subQ'[a] = subQ[a]
    BY <1>6, <2>4, <2>7
  <2> QED
    <3>1. \/ subQ'[a] = subQ[a]
          \/ \E e \in Chosen(n) :
                /\ e \in Entry
                /\ a \in ListenersOf(n, e.id)
                /\ MessageFor("binary", n, e, num) \in Message
                /\ subQ'[a] = Append(subQ[a], MessageFor("binary", n, e, num))
      BY <1>1, <1>2, <2>1, <2>2, PublishAppends
    <3> QED
      BY <2>4, <2>5, <2>6, <2>7, <3>1
<1>7. \A a \in Adapters : \A m \in Data(netQ'[a]) : Routed(m)'
  BY <1>1, <1>5, SendersKnown DEF Genuine, Data
<1>8. /\ \A k \in Nodes : \A m \in ToSet(recvQ'[k]) : m.sender # k
      /\ \A k \in Nodes : \A m \in Data(recvQ'[k]) : Routed(m)'
  BY <1>1, <1>5, SendersKnown DEF Genuine, Data
<1>9. OnlyOthersMessages'
  BY <1>1, <1>4, SendersKnown DEF Genuine, OnlyOthersMessages
<1> QED
  BY <1>6, <1>7, <1>8, <1>9 DEF Genuine

\* A heartbeat is a LINK message: it needs no routing.
LEMMA CoreBeatGenuine ==
  ASSUME TypeOK, SwarmTypeOK, Genuine, NEW n \in Nodes, CoreBeat(n)
  PROVE  Genuine'
<1>1. UNCHANGED <<netQ, recvQ, routed, received>>
  BY DEF CoreBeat
<1>2. PICK kind \in LinkKinds : PublishTo(n, ToSet(adapter_list[n]), kind, counter[n])
  BY DEF CoreBeat, LinkKinds
<1>3. \A a \in Adapters : Data(subQ'[a]) = Data(subQ[a])
  <2>1. counter[n] \in Nat
    BY DEF SwarmTypeOK
  <2>2. ToSet(adapter_list[n]) \in SUBSET ToSet(adapter_list[n])
    OBVIOUS
  <2> QED
    BY <1>2, <2>1, <2>2, PublishLink
<1> QED
  BY <1>1, <1>3 DEF Genuine, OnlyOthersMessages, Routed

\* A core publishes to its clients what it was sent, and answers with a pong.
LEMMA CoreReceiveGenuine ==
  ASSUME TypeOK, SwarmTypeOK, Genuine, NEW n \in Nodes, CoreReceive(n)
  PROVE  Genuine'
<1> DEFINE m == Head(recvQ[n])
           d == [sender |-> m.sender, num |-> m.num, adapterId |-> m.adapterId]
<1>1. /\ recvQ[n] \in Seq(Message) /\ recvQ[n] # <<>>
      /\ recvQ \in [Nodes -> Seq(Message)]
      /\ recvQ' = [recvQ EXCEPT ![n] = Tail(@)]
      /\ UNCHANGED <<netQ, routed>>
  BY DEF CoreReceive, SwarmTypeOK
<1>2. m \in Message /\ m \in ToSet(recvQ[n]) /\ ToSet(Tail(recvQ[n])) \subseteq ToSet(recvQ[n])
  BY <1>1, ToSetHeadTail
<1>3. \A k \in Nodes : ToSet(recvQ'[k]) \subseteq ToSet(recvQ[k])
  BY <1>1, <1>2
<1>4. /\ PublishTo(n, FirstOfType(n, m.link), "pong", m.num) \/ UNCHANGED subQ
      /\ \/ received' = received
         \/ /\ m.kind \in DataKinds
            /\ received' = [received EXCEPT ![n] = Append(@, d)]
  BY DEF CoreReceive
<1> HIDE DEF m
<1>5. \A a \in Adapters : Data(subQ'[a]) = Data(subQ[a])
  <2>1. m.num \in Nat /\ "pong" \in LinkKinds
    BY <1>2 DEF Message, LinkKinds
  <2>2. FirstOfType(n, m.link) \in SUBSET ToSet(adapter_list[n])
    BY FirstOfTypeEntry
  <2>3. CASE PublishTo(n, FirstOfType(n, m.link), "pong", m.num)
    BY <2>1, <2>2, <2>3, PublishLink
  <2>4. CASE UNCHANGED subQ
    BY <2>4
  <2> QED
    BY <1>4, <2>3, <2>4
<1>6. ASSUME NEW k \in Nodes, NEW x \in ToSet(received'[k])
      PROVE  /\ x.sender # k
             /\ [num |-> x.num, adapterId |-> x.adapterId] \in ToSet(routed[x.sender])
  <2> DEFINE D == [sender : Nodes, num : Nums, adapterId : Nat \ {0}]
  <2>1. received \in [Nodes -> Seq(D)]
    BY DEF SwarmTypeOK
  <2>2. CASE x \in ToSet(received[k])
    BY <2>2 DEF Genuine, OnlyOthersMessages
  <2>3. ASSUME k = n, x = d, m.kind \in DataKinds
        PROVE  /\ x.sender # k
               /\ [num |-> x.num, adapterId |-> x.adapterId] \in ToSet(routed[x.sender])
    <3>1. x.sender = m.sender /\ x.num = m.num /\ x.adapterId = m.adapterId
      BY <2>3
    <3>2. m.sender # n /\ Routed(m)
      BY <1>2, <2>3 DEF Genuine, Data
    <3> QED
      BY <2>3, <3>1, <3>2 DEF Routed
  <2>4. \/ x \in ToSet(received[k])
        \/ k = n /\ x = d /\ m.kind \in DataKinds
    <3>1. CASE received' = received
      BY <1>6, <3>1
    <3>2. CASE m.kind \in DataKinds /\ received' = [received EXCEPT ![n] = Append(@, d)]
      <4>1. Routed(m) /\ m.sender \in Nodes
        BY <1>2, <3>2 DEF Genuine, Data, Message
      <4>2. routed[m.sender] \in Seq([num : Nums, adapterId : Nat \ {0}])
        BY <4>1 DEF SwarmTypeOK
      <4>3. [num |-> m.num, adapterId |-> m.adapterId] \in [num : Nums, adapterId : Nat \ {0}]
        BY <4>1, <4>2, ToSetMember DEF Routed
      <4>4. d \in D
        BY <4>1, <4>3
      <4> HIDE DEF d, D
      <4>5. ToSet(Append(received[n], d)) = ToSet(received[n]) \union {d}
        BY <2>1, <4>4, ToSetAppend
      <4>6. received'[k] = IF k = n THEN Append(received[n], d) ELSE received[k]
        BY <2>1, <3>2
      <4> QED
        BY <1>6, <3>2, <4>5, <4>6
    <3> QED
      BY <1>4, <3>1, <3>2
  <2> QED
    BY <2>2, <2>3, <2>4
<1>7. OnlyOthersMessages'
  BY <1>1, <1>6 DEF OnlyOthersMessages
<1> QED
  BY <1>1, <1>3, <1>5, <1>7 DEF Genuine, Data, Routed

\* What an adapter forwards it was given by its core; who drops it, adds nothing.
LEMMA AdapterGenuine ==
  ASSUME SwarmTypeOK, Genuine, NEW a \in Adapters, AdapterForward(a) \/ AdapterReceive(a)
  PROVE  Genuine'
<1>1. UNCHANGED <<routed, received>>
  BY DEF AdapterForward, AdapterReceive
<1>2. CASE AdapterForward(a)
  <2> DEFINE m == Head(subQ[a])
  <2>1. /\ subQ \in [Adapters -> Seq(Message)] /\ netQ \in [Adapters -> Seq(Message)]
        /\ UNCHANGED recvQ
    BY <1>2 DEF SwarmTypeOK, AdapterForward
  <2>2. /\ m \in Message /\ subQ[a] # <<>>
        /\ subQ' = [subQ EXCEPT ![a] = Tail(@)]
        /\ \A b \in Adapters : netQ'[b] = netQ[b] \/ netQ'[b] = Append(netQ[b], m)
    BY <1>2, ForwardStep
  <2>3. m.kind \in DataKinds => m \in Data(subQ[a])
    BY <2>1, <2>2, DataTail
  <2> HIDE DEF m
  <2>4. ASSUME NEW b \in Adapters
        PROVE  Data(subQ'[b]) \subseteq Data(subQ[b])
    BY <2>1, <2>2, DataTail
  <2>5. ASSUME NEW b \in Adapters
        PROVE  Data(netQ'[b]) \subseteq Data(netQ[b]) \union Data(subQ[a])
    <3>1. netQ[b] \in Seq(Message)
      BY <2>1
    <3>2. /\ Data(Append(netQ[b], m)) \subseteq Data(netQ[b]) \union {m}
          /\ m.kind \notin DataKinds => Data(Append(netQ[b], m)) = Data(netQ[b])
      BY <2>2, <3>1, DataAppend
    <3> QED
      BY <2>2, <2>3, <3>2
  <2> QED
    BY <1>1, <2>1, <2>4, <2>5 DEF Genuine, OnlyOthersMessages, Routed
<1>3. CASE AdapterReceive(a)
  <2> DEFINE m == Head(netQ[a])
  <2>1. /\ netQ \in [Adapters -> Seq(Message)] /\ recvQ \in [Nodes -> Seq(Message)]
        /\ UNCHANGED subQ
    BY <1>3 DEF SwarmTypeOK, AdapterReceive
  <2>2. /\ m \in Message /\ netQ[a] # <<>>
        /\ netQ' = [netQ EXCEPT ![a] = Tail(@)]
        /\ \A n \in Nodes : \/ recvQ'[n] = recvQ[n]
                            \/ m.sender # n /\ recvQ'[n] = Append(recvQ[n], m)
    BY <1>3, ReceiveStep
  <2>3. m.kind \in DataKinds => m \in Data(netQ[a])
    BY <2>1, <2>2, DataTail
  <2> HIDE DEF m
  <2>4. ASSUME NEW b \in Adapters
        PROVE  Data(netQ'[b]) \subseteq Data(netQ[b])
    BY <2>1, <2>2, DataTail
  <2>5. ASSUME NEW n \in Nodes
        PROVE  Data(recvQ'[n]) \subseteq Data(recvQ[n]) \union Data(netQ[a])
    <3>1. recvQ[n] \in Seq(Message)
      BY <2>1
    <3>2. /\ Data(Append(recvQ[n], m)) \subseteq Data(recvQ[n]) \union {m}
          /\ m.kind \notin DataKinds => Data(Append(recvQ[n], m)) = Data(recvQ[n])
      BY <2>2, <3>1, DataAppend
    <3> QED
      BY <2>2, <2>3, <3>2
  <2>6. ASSUME NEW n \in Nodes, NEW x \in ToSet(recvQ'[n])
        PROVE  x.sender # n
    <3>1. recvQ[n] \in Seq(Message)
      BY <2>1
    <3>2. ToSet(Append(recvQ[n], m)) = ToSet(recvQ[n]) \union {m}
      BY <2>2, <3>1, ToSetAppend
    <3>3. \A y \in ToSet(recvQ[n]) : y.sender # n
      BY DEF Genuine
    <3>4. CASE recvQ'[n] = recvQ[n]
      BY <2>6, <3>3, <3>4
    <3>5. CASE m.sender # n /\ recvQ'[n] = Append(recvQ[n], m)
      BY <2>6, <3>2, <3>3, <3>5
    <3> QED
      BY <2>2, <3>4, <3>5
  <2> QED
    BY <1>1, <2>1, <2>4, <2>5, <2>6 DEF Genuine, OnlyOthersMessages, Routed
<1> QED
  BY <1>2, <1>3

\* A process that stops or starts takes messages away and brings none.
LEMMA UpDownGenuine ==
  ASSUME SwarmTypeOK, Genuine,
         \/ \E n \in Nodes : CoreUpDown(n)
         \/ \E a \in Adapters : AdapterUpDown(a)
  PROVE  Genuine'
<1>1. /\ UNCHANGED <<routed, received>>
      /\ \A a \in Adapters : subQ'[a] \in {subQ[a], <<>>} /\ netQ'[a] \in {netQ[a], <<>>}
      /\ \A n \in Nodes : recvQ'[n] \in {recvQ[n], <<>>}
  BY UpDownStep
<1>2. Data(<<>>) = {}
  BY ToSetEmpty DEF Data
<1>3. \A a \in Adapters : /\ Data(subQ'[a]) \subseteq Data(subQ[a])
                          /\ Data(netQ'[a]) \subseteq Data(netQ[a])
  BY <1>1, <1>2
<1>4. \A n \in Nodes : /\ Data(recvQ'[n]) \subseteq Data(recvQ[n])
                       /\ ToSet(recvQ'[n]) \subseteq ToSet(recvQ[n])
  BY <1>1, <1>2, ToSetEmpty
<1> QED
  BY <1>1, <1>3, <1>4 DEF Genuine, OnlyOthersMessages, Routed

\* Every step keeps what waits genuine.
LEMMA GenuineStep ==
  ASSUME TypeOK, SwarmTypeOK, Genuine, [SwarmNext]_vars
  PROVE  Genuine'
<1>1. ASSUME NEW n \in Nodes, NEW t \in Topics, ClientPublish(n, t) \/ CoreDrop(n, t)
      PROVE  Genuine'
  BY <1>1 DEF ClientPublish, CoreDrop, Genuine, OnlyOthersMessages, Routed
<1>2. CASE UNCHANGED vars
  BY <1>2 DEF vars, netVars, Genuine, OnlyOthersMessages, Routed
<1> QED
  BY <1>1, <1>2, CoreSendGenuine, CoreBeatGenuine, CoreReceiveGenuine,
     AdapterGenuine, UpDownGenuine DEF SwarmNext

\* The data path keeps its types, and what waits anywhere is genuine.
LEMMA GenuineCorrect == SwarmSpec => [](TypeOK /\ SwarmTypeOK /\ Genuine)
<1>1. TypeOK /\ (SwarmTypeOK /\ Genuine) /\ [SwarmNext]_vars
         => (SwarmTypeOK /\ Genuine)'
  BY SwarmTypeStep, GenuineStep
<1>2. SwarmSpec => []TypeOK
  BY SwarmInv, PTL
<1> QED
  BY <1>1, <1>2, SwarmInitGenuine, PTL DEF SwarmSpec

\* Every queue, counter and history of the data path has its type: what comes
\* out of the network is a message with a sender, an id and a number.
THEOREM SwarmTypeCorrect == SwarmSpec => []SwarmTypeOK
BY GenuineCorrect, PTL

\* Whatever restarts, nobody receives what he sent himself, or what nobody sent.
THEOREM OnlyOthersMessagesCorrect == SwarmSpec => []OnlyOthersMessages
<1>1. Genuine => OnlyOthersMessages
  BY DEF Genuine
<1> QED
  BY <1>1, GenuineCorrect, PTL

-----------------------------------------------------------------------------
\* Once it has started, a core stays up.
CoresStay == \A n \in Nodes : coreRun[n] # 0 => coreUp[n]

\* So it is in its first run.
FirstRun == \A n \in Nodes : coreRun[n] <= 1

\* No core crashes if each is started only once: the bound of the runs in
\* which no core restarts.
THEOREM OneRunCoresStay == MaxCoreRuns = 1 => (SwarmSpec => []CoresStay)
<1> SUFFICES ASSUME MaxCoreRuns = 1
             PROVE  SwarmSpec => []CoresStay
  OBVIOUS
<1>1. SwarmInit => CoresStay
  BY DEF SwarmInit, Init, CoresStay
<1>2. TypeOK /\ CountInv /\ CoresStay /\ [SwarmNext]_vars => CoresStay'
  <2> SUFFICES ASSUME TypeOK, CountInv, CoresStay, [SwarmNext]_vars
               PROVE  CoresStay'
    OBVIOUS
  <2>1. [Next]_regVars
    BY SwarmStepRegisters
  <2>2. ASSUME NEW n \in Nodes, CoreStart(n)
        PROVE  CoresStay'
    BY <2>2 DEF CoreStart, CoresStay, TypeOK
  <2>3. ASSUME NEW n \in Nodes, CoreCrash(n)
        PROVE  FALSE
    BY <2>3 DEF CoreCrash, CountInv, RunsKnown, TypeOK
  <2>4. ASSUME NEW n \in Nodes, CoreRegister(n)
        PROVE  CoresStay'
    BY <2>4 DEF CoreRegister, CoresStay
  <2>5. ASSUME NEW a \in Adapters,
               \/ AdapterStart(a) \/ AdapterRequest(a) \/ AdapterAccept(a)
               \/ AdapterTimeout(a) \/ AdapterGiveUp(a) \/ AdapterCrash(a)
        PROVE  UNCHANGED coreVars
    BY <2>5 DEF AdapterStart, AdapterRequest, AdapterAccept, AdapterTimeout,
                AdapterGiveUp, AdapterCrash, Exit
  <2>6. CASE UNCHANGED coreVars
    BY <2>6 DEF coreVars, CoresStay
  <2> QED
    BY <2>1, <2>2, <2>3, <2>4, <2>5, <2>6 DEF Next, regVars
<1> QED
  BY <1>1, <1>2, SwarmInv, PTL DEF SwarmSpec

\* A registry that is never lost keeps each entry at its place.
LEMMA RegistryGrows ==
  ASSUME TypeOK, CountInv, CoresStay, CoresStay', [Next]_regVars, NEW n \in Nodes
  PROVE  /\ Len(adapter_list[n]) <= Len(adapter_list'[n])
         /\ \A i \in 1 .. Len(adapter_list[n]) : adapter_list'[n][i] = adapter_list[n][i]
<1>1. adapter_list \in [Nodes -> Seq(Entry)] /\ adapter_list[n] \in Seq(Entry)
  BY DEF TypeOK
<1>2. CASE adapter_list'[n] = adapter_list[n]
  BY <1>1, <1>2
<1>3. ASSUME NEW m \in Nodes, CoreRegister(m)
      PROVE  /\ Len(adapter_list[n]) <= Len(adapter_list'[n])
             /\ \A i \in 1 .. Len(adapter_list[n]) :
                   adapter_list'[n][i] = adapter_list[n][i]
  <2> DEFINE r == Head(requests[m])
             entry == [id |-> generateAdapterId(m), type |-> TypeOf[r.adapter],
                       adapter |-> r.adapter, req |-> r.req]
  <2>1. adapter_list' = [adapter_list EXCEPT ![m] = Append(@, entry)]
    BY <1>3 DEF CoreRegister
  <2>2. entry \in Entry
    <3>1. /\ requests[m] \in Seq(Request) /\ requests[m] # <<>>
          /\ progressiveId[m] \in Nat
      BY <1>3 DEF TypeOK, CoreRegister
    <3>2. r \in Request
      BY <3>1, ToSetHeadTail
    <3> QED
      BY <3>1, <3>2 DEF Request, Entry, generateAdapterId, Types
  <2> HIDE DEF entry
  <2>3. /\ Len(Append(adapter_list[n], entry)) = Len(adapter_list[n]) + 1
        /\ \A i \in 1 .. Len(adapter_list[n]) :
              Append(adapter_list[n], entry)[i] = adapter_list[n][i]
    BY <1>1, <2>2, AppendProperties
  <2>4. CASE n = m
    <3>1. adapter_list'[n] = Append(adapter_list[n], entry)
      BY <1>1, <2>1, <2>4
    <3>2. Len(adapter_list[n]) \in Nat
      BY <1>1
    <3> QED
      BY <2>3, <3>1, <3>2
  <2>5. CASE n # m
    BY <1>1, <1>2, <2>1, <2>5
  <2> QED
    BY <2>4, <2>5
<1>4. ASSUME NEW m \in Nodes, CoreCrash(m)
      PROVE  FALSE
  BY <1>4 DEF CoreCrash, CoresStay, TypeOK, CountInv, RunsKnown
<1>5. ASSUME NEW m \in Nodes, CoreStart(m)
      PROVE  adapter_list' = adapter_list
  BY <1>5 DEF CoreStart
<1>6. ASSUME NEW a \in Adapters,
             \/ AdapterStart(a) \/ AdapterRequest(a) \/ AdapterAccept(a)
             \/ AdapterTimeout(a) \/ AdapterGiveUp(a) \/ AdapterCrash(a)
      PROVE  UNCHANGED coreVars
  BY <1>6 DEF AdapterStart, AdapterRequest, AdapterAccept, AdapterTimeout,
              AdapterGiveUp, AdapterCrash, Exit
<1> QED
  BY <1>2, <1>3, <1>4, <1>5, <1>6 DEF Next, regVars, coreVars

\* A core that stays is never started a second time.
LEMMA FirstRunStep ==
  ASSUME TypeOK, CoresStay, CoresStay', FirstRun, [Next]_regVars
  PROVE  FirstRun'
<1>1. ASSUME NEW n \in Nodes, CoreStart(n)
      PROVE  FirstRun'
  BY <1>1 DEF CoreStart, FirstRun, CoresStay, TypeOK
<1>2. ASSUME NEW n \in Nodes, CoreCrash(n) \/ CoreRegister(n)
      PROVE  FirstRun'
  BY <1>2 DEF CoreCrash, CoreRegister, FirstRun
<1>3. ASSUME NEW a \in Adapters,
             \/ AdapterStart(a) \/ AdapterRequest(a) \/ AdapterAccept(a)
             \/ AdapterTimeout(a) \/ AdapterGiveUp(a) \/ AdapterCrash(a)
      PROVE  UNCHANGED coreVars
  BY <1>3 DEF AdapterStart, AdapterRequest, AdapterAccept, AdapterTimeout,
              AdapterGiveUp, AdapterCrash, Exit
<1>4. CASE UNCHANGED coreVars
  BY <1>4 DEF coreVars, FirstRun
<1> QED
  BY <1>1, <1>2, <1>3, <1>4 DEF Next, regVars

\* A message keeps the entry it was sent to.
LEMMA OriginStays ==
  ASSUME TypeOK, TypeOK', CountInv, CoresStay, CoresStay', [Next]_regVars,
         NEW m, m.sender \in Nodes, HasOrigin(m)
  PROVE  HasOrigin(m)' /\ Origin(m)' = Origin(m)
<1> DEFINE n == m.sender
<1>1. /\ Len(adapter_list[n]) <= Len(adapter_list'[n])
      /\ \A i \in 1 .. Len(adapter_list[n]) : adapter_list'[n][i] = adapter_list[n][i]
  BY RegistryGrows
<1>2. Len(adapter_list[n]) \in Nat /\ Len(adapter_list'[n]) \in Nat
  BY DEF TypeOK
<1>3. m.adapterId \in 1 .. Len(adapter_list[n])
  BY DEF HasOrigin
<1>4. m.adapterId \in 1 .. Len(adapter_list'[n])
  BY <1>1, <1>2, <1>3
<1> QED
  BY <1>1, <1>3, <1>4 DEF HasOrigin, Origin

\* In the first run of a core whoever listens under the id of a registry entry
\* is the adapter that was entered there.
LEMMA ListenerIsEntered ==
  ASSUME Inv, CountInv, FirstRun, NEW n \in Nodes, coreUp[n],
         NEW e \in ToSet(adapter_list[n]), NEW a \in ListenersOf(n, e.id)
  PROVE  /\ e.id \in 1 .. Len(adapter_list[n])
         /\ adapter_list[n][e.id].adapter = a
         /\ e.type = TypeOf[a]
<1>1. adapter_list[n] \in Seq(Entry) /\ coreRun[n] \in Nat
  BY DEF Inv, TypeOK
<1>2. PICK i \in 1 .. Len(adapter_list[n]) : adapter_list[n][i] = e
  BY <1>1, ToSetMember
<1>3. e.id = i
  BY <1>2 DEF Inv, IdsCountUp
<1>4. /\ a \in Adapters /\ NodeOf[a] = n
      /\ phase[a] = "serving" /\ assigned[a].id = i
  BY <1>3 DEF ListenersOf
<1>5. i # 0
  BY <1>1
<1>6. assigned[a].run = coreRun[n]
  <2>1. assigned[a].run # 0 /\ assigned[a].run <= coreRun[n] /\ assigned[a].run \in Nat
    BY <1>4, <1>5 DEF CountInv, RunsKnown, Inv, Provenance, TypeOK, Registration
  <2>2. coreRun[n] <= 1
    BY DEF FirstRun
  <2> QED
    BY <1>1, <2>1, <2>2
<1>7. Registered(a)
  BY <1>4, <1>5, <1>6 DEF Registered
<1>8. PICK j \in 1 .. Len(adapter_list[n]) : /\ adapter_list[n][j].id = i
                                             /\ adapter_list[n][j].adapter = a
  BY <1>1, <1>4, <1>7, ToSetMember DEF Inv, IssuedByRegistry
<1>9. j = i
  BY <1>8 DEF Inv, IdsCountUp
<1>10. e.type = TypeOf[e.adapter] /\ e.adapter = a
  BY <1>2, <1>8, <1>9 DEF CountInv, EntriesTyped
<1> QED
  BY <1>2, <1>3, <1>8, <1>9, <1>10

\* What a core publishes waits at the adapter it was meant for.
LEMMA PublishAddressed ==
  ASSUME Inv, CountInv, SwarmTypeOK, FirstRun, NEW n \in Nodes, coreUp[n],
         NEW entries \in SUBSET ToSet(adapter_list[n]),
         NEW kind \in LinkKinds \union DataKinds, NEW num \in Nat,
         PublishTo(n, entries, kind, num),
         NEW a \in Adapters, NEW m \in ToSet(subQ'[a]), m \notin ToSet(subQ[a])
  PROVE  m.sender = n /\ HasOrigin(m) /\ Origin(m) = a /\ m.link = TypeOf[a]
<1>1. subQ[a] \in Seq(Message) /\ TypeOK
  BY DEF SwarmTypeOK, Inv
<1>2. ASSUME NEW e \in entries, a \in ListenersOf(n, e.id),
             MessageFor(kind, n, e, num) \in Message,
             subQ'[a] = Append(subQ[a], MessageFor(kind, n, e, num))
      PROVE  m.sender = n /\ HasOrigin(m) /\ Origin(m) = a /\ m.link = TypeOf[a]
  <2> DEFINE x == MessageFor(kind, n, e, num)
  <2>1. x \in Message /\ subQ'[a] = Append(subQ[a], x)
    BY <1>2
  <2>2. x.sender = n /\ x.adapterId = e.id /\ x.link = e.type
    BY DEF MessageFor
  <2> HIDE DEF x
  <2>3. m = x
    BY <1>1, <2>1, ToSetAppend
  <2>4. /\ e.id \in 1 .. Len(adapter_list[n])
        /\ adapter_list[n][e.id].adapter = a
        /\ e.type = TypeOf[a]
    BY <1>2, ListenerIsEntered
  <2> QED
    BY <2>2, <2>3, <2>4 DEF HasOrigin, Origin
<1> QED
  BY <1>1, <1>2, PublishAppends

\* A core adds messages to the queues only by publishing them.
LEMMA CoreAddressed ==
  ASSUME Inv, CountInv, SwarmTypeOK, FirstRun, NEW n \in Nodes,
         CoreSendBinary(n) \/ CoreBeat(n) \/ CoreReceive(n),
         NEW a \in Adapters, NEW m \in ToSet(subQ'[a]), m \notin ToSet(subQ[a])
  PROVE  m.sender \in Nodes /\ HasOrigin(m) /\ Origin(m) = a /\ m.link = TypeOf[a]
<1>1. TypeOK
  BY DEF Inv
<1>2. CASE CoreSendBinary(n)
  <2> DEFINE t == "sendMessage.binary"
             num == Head(sendQ[n][t])
  <2>1. /\ t \in Topics /\ sendQ[n][t] # <<>> /\ coreUp[n]
        /\ sendQ' = [sendQ EXCEPT ![n][t] = Tail(@)]
        /\ PublishTo(n, Chosen(n), "binary", num)
    BY <1>2 DEF CoreSendBinary
  <2>2. num \in Nat
    BY <2>1, SendQTail, NumsPositive
  <2>3. "binary" \in LinkKinds \union DataKinds
        /\ Chosen(n) \in SUBSET ToSet(adapter_list[n])
    BY <1>1, ChosenEntry DEF DataKinds
  <2> HIDE DEF num, t
  <2> QED
    BY <2>1, <2>2, <2>3, PublishAddressed
<1>3. CASE CoreBeat(n)
  <2>1. PICK kind \in LinkKinds \union DataKinds :
           PublishTo(n, ToSet(adapter_list[n]), kind, counter[n])
    BY <1>3 DEF CoreBeat, LinkKinds
  <2>2. counter[n] \in Nat /\ coreUp[n]
    BY <1>3 DEF SwarmTypeOK, CoreBeat
  <2>3. ToSet(adapter_list[n]) \in SUBSET ToSet(adapter_list[n])
    OBVIOUS
  <2> QED
    BY <2>1, <2>2, <2>3, PublishAddressed
<1>4. CASE CoreReceive(n)
  <2> DEFINE x == Head(recvQ[n])
  <2>1. /\ recvQ[n] \in Seq(Message) /\ recvQ[n] # <<>> /\ coreUp[n]
        /\ \/ PublishTo(n, FirstOfType(n, x.link), "pong", x.num)
           \/ UNCHANGED subQ
    BY <1>4 DEF SwarmTypeOK, CoreReceive
  <2>2. x.num \in Nat
    <3>1. x \in Message
      BY <2>1, ToSetHeadTail
    <3> QED
      BY <3>1 DEF Message
  <2>3. "pong" \in LinkKinds \union DataKinds
        /\ FirstOfType(n, x.link) \in SUBSET ToSet(adapter_list[n])
    BY <1>1, FirstOfTypeEntry DEF LinkKinds
  <2> HIDE DEF x
  <2> QED
    BY <2>1, <2>2, <2>3, PublishAddressed
<1> QED
  BY <1>2, <1>3, <1>4

\* A message that waits keeps being addressed as the registry grows.
LEMMA AddressedStep ==
  ASSUME Inv, Inv', CountInv, SwarmTypeOK, FirstRun, CoresStay, CoresStay',
         Addressed, [SwarmNext]_vars
  PROVE  Addressed'
<1>1. [Next]_regVars /\ TypeOK /\ TypeOK'
  BY SwarmStepRegisters DEF Inv
<1>2. ASSUME NEW m, m.sender \in Nodes, HasOrigin(m)
      PROVE  HasOrigin(m)' /\ Origin(m)' = Origin(m)
  BY <1>1, <1>2, OriginStays
<1>3. ASSUME NEW a \in Adapters, NEW m \in ToSet(subQ'[a])
      PROVE  HasOrigin(m)' /\ Origin(m)' = a /\ m.link = TypeOf[a]
  <2>1. CASE m \in ToSet(subQ[a])
    BY <1>2, <2>1, SendersKnown DEF Addressed
  <2>2. ASSUME NEW n \in Nodes, CoreSendBinary(n) \/ CoreBeat(n) \/ CoreReceive(n)
        PROVE  HasOrigin(m)' /\ Origin(m)' = a /\ m.link = TypeOf[a]
    BY <1>2, <1>3, <2>1, <2>2, CoreAddressed
  <2>3. ASSUME NEW n \in Nodes, NEW t \in Topics, ClientPublish(n, t) \/ CoreDrop(n, t)
        PROVE  m \in ToSet(subQ[a])
    BY <1>3, <2>3 DEF ClientPublish, CoreDrop
  <2>4. ASSUME \/ \E n \in Nodes : CoreUpDown(n)
               \/ \E b \in Adapters : AdapterUpDown(b)
        PROVE  m \in ToSet(subQ[a])
    <3>1. subQ'[a] \in {subQ[a], <<>>}
      BY <2>4, UpDownStep
    <3> QED
      BY <1>3, <3>1, ToSetEmpty
  <2>5. ASSUME NEW b \in Adapters, AdapterForward(b)
        PROVE  m \in ToSet(subQ[a])
    <3>1. /\ subQ' = [subQ EXCEPT ![b] = Tail(@)]
          /\ ToSet(Tail(subQ[b])) \subseteq ToSet(subQ[b])
      BY <2>5, ForwardStep
    <3> QED
      BY <1>3, <3>1 DEF SwarmTypeOK
  <2>6. ASSUME NEW b \in Adapters, AdapterReceive(b)
        PROVE  m \in ToSet(subQ[a])
    BY <1>3, <2>6 DEF AdapterReceive
  <2>7. CASE UNCHANGED vars
    BY <1>3, <2>1, <2>7 DEF vars, netVars
  <2> QED
    BY <2>1, <2>2, <2>3, <2>4, <2>5, <2>6, <2>7 DEF SwarmNext
<1>4. ASSUME NEW a \in Adapters, NEW m \in ToSet(netQ'[a])
      PROVE  HasOrigin(m)' /\ NetOf[Origin(m)'] = NetOf[a]
  <2>1. CASE m \in ToSet(netQ[a])
    BY <1>2, <2>1, SendersKnown DEF Addressed
  <2>2. ASSUME NEW n \in Nodes,
               \/ CoreSendBinary(n) \/ CoreBeat(n) \/ CoreReceive(n)
               \/ \E t \in Topics : ClientPublish(n, t) \/ CoreDrop(n, t)
        PROVE  m \in ToSet(netQ[a])
    BY <1>4, <2>2 DEF CoreSendBinary, CoreBeat, CoreReceive, ClientPublish, CoreDrop
  <2>3. ASSUME \/ \E n \in Nodes : CoreUpDown(n)
               \/ \E b \in Adapters : AdapterUpDown(b)
        PROVE  m \in ToSet(netQ[a])
    <3>1. netQ'[a] \in {netQ[a], <<>>}
      BY <2>3, UpDownStep
    <3> QED
      BY <1>4, <3>1, ToSetEmpty
  <2>4. ASSUME NEW b \in Adapters, AdapterForward(b)
        PROVE  HasOrigin(m)' /\ NetOf[Origin(m)'] = NetOf[a]
    <3> DEFINE x == Head(subQ[b])
    <3>1. /\ x \in Message /\ x \in ToSet(subQ[b])
          /\ \/ netQ'[a] = netQ[a]
             \/ a \in ListenersOn(NetOf[b]) /\ netQ'[a] = Append(netQ[a], x)
      BY <2>4, ForwardStep
    <3>2. netQ[a] \in Seq(Message)
      BY DEF SwarmTypeOK
    <3> HIDE DEF x
    <3>3. CASE netQ'[a] = netQ[a]
      BY <1>4, <2>1, <3>3
    <3>4. CASE a \in ListenersOn(NetOf[b]) /\ netQ'[a] = Append(netQ[a], x)
      <4>1. ToSet(Append(netQ[a], x)) = ToSet(netQ[a]) \union {x}
        BY <3>1, <3>2, ToSetAppend
      <4>2. NetOf[a] = NetOf[b]
        BY <3>4 DEF ListenersOn
      <4>3. HasOrigin(x) /\ Origin(x) = b /\ x.sender \in Nodes
        BY <3>1 DEF Addressed, Message
      <4>4. CASE m = x
        BY <1>2, <4>2, <4>3, <4>4
      <4> QED
        BY <1>4, <2>1, <3>4, <4>1, <4>4
    <3> QED
      BY <3>1, <3>3, <3>4
  <2>5. ASSUME NEW b \in Adapters, AdapterReceive(b)
        PROVE  m \in ToSet(netQ[a])
    <3>1. /\ netQ' = [netQ EXCEPT ![b] = Tail(@)]
          /\ ToSet(Tail(netQ[b])) \subseteq ToSet(netQ[b])
      BY <2>5, ReceiveStep
    <3> QED
      BY <1>4, <3>1 DEF SwarmTypeOK
  <2>6. CASE UNCHANGED vars
    BY <1>4, <2>1, <2>6 DEF vars, netVars
  <2> QED
    BY <2>1, <2>2, <2>3, <2>4, <2>5, <2>6 DEF SwarmNext
<1> QED
  BY <1>3, <1>4 DEF Addressed

\* What stays true while no core crashes.
Stable == FirstRun /\ Addressed

\* Messages stay addressed to the adapters they were meant for.
LEMMA StableCorrect == SwarmSpec /\ []CoresStay => []Stable
<1>1. SwarmInit => Stable
  <2> SUFFICES ASSUME SwarmInit
               PROVE  Stable
    OBVIOUS
  <2>1. FirstRun
    BY DEF SwarmInit, Init, FirstRun
  <2>2. \A a \in Adapters : ToSet(subQ[a]) = {} /\ ToSet(netQ[a]) = {}
    BY ToSetEmpty DEF SwarmInit
  <2> QED
    BY <2>1, <2>2 DEF Stable, Addressed
<1>2. /\ Inv /\ Inv' /\ TypeOK /\ CountInv /\ SwarmTypeOK
      /\ CoresStay /\ CoresStay' /\ Stable /\ [SwarmNext]_vars
      => Stable'
  BY AddressedStep, FirstRunStep, SwarmStepRegisters DEF Stable
<1> QED
  BY <1>1, <1>2, SwarmInv, GenuineCorrect, PTL DEF SwarmSpec

\* While no core crashes a message travels by the type of adapter it was meant
\* for, however often the adapters crash and register again.
THEOREM ByItsLinkCorrect == SwarmSpec /\ []CoresStay => []ByItsLink
<1>1. Stable => ByItsLink
  BY DEF Stable, Addressed, ByItsLink
<1> QED
  BY <1>1, StableCorrect, PTL

-----------------------------------------------------------------------------
\* What a client publishes has a greater number than all it published before.
LEMMA ClientPublishNumbered ==
  ASSUME SwarmTypeOK, Numbered, NEW n \in Nodes, NEW t \in Topics, ClientPublish(n, t)
  PROVE  Numbered'
<1> DEFINE k == sent[n] + 1
<1>1. sent \in [Nodes -> Nat] /\ k \in Nums /\ k \in Nat
  <2>1. sent \in [Nodes -> Nums \union {0}] /\ sent[n] < MaxSends[n]
    BY DEF SwarmTypeOK, ClientPublish
  <2>2. sent \in [Nodes -> Nat]
    <3>1. Nums \union {0} \subseteq Nat
      BY NumsPositive
    <3> QED
      BY <2>1, <3>1
  <2>3. k \in Nums
    BY <2>1, NumsPositive
  <2> QED
    BY <2>2, <2>3, NumsPositive
<1>2. /\ sent' = [sent EXCEPT ![n] = @ + 1]
      /\ \/ sendQ' = sendQ
         \/ sendQ' = [sendQ EXCEPT ![n][t] = Append(@, k)]
      /\ routed' = routed
  BY DEF ClientPublish
<1>3. sendQ \in [Nodes -> [Topics -> Seq(Nums)]]
  BY DEF SwarmTypeOK
<1>4. \A m \in Nodes : sent'[m] \in Nat /\ sent[m] <= sent'[m]
  BY <1>1, <1>2
<1>5. sent[n] < k /\ k = sent'[n] /\ sent[n] \in Nat
  BY <1>1, <1>2
<1> HIDE DEF k
<1> SUFFICES ASSUME NEW m \in Nodes
             PROVE  NumberedAt(m)'
  BY DEF Numbered
<1>6. \A r \in ToSet(routed[m]) : r.num \in Nat /\ r.num <= sent[m]
  <2> SUFFICES ASSUME NEW r \in ToSet(routed[m])
               PROVE  r.num \in Nat /\ r.num <= sent[m]
    OBVIOUS
  <2>1. r \in [num : Nums, adapterId : Nat \ {0}]
    BY ToSetMember DEF SwarmTypeOK
  <2> QED
    BY <2>1, NumsPositive DEF Numbered, NumberedAt
<1>7. \A r \in ToSet(routed'[m]) : r.num <= sent'[m]
  BY <1>1, <1>2, <1>4, <1>6
<1>8. ASSUME NEW u \in Topics
      PROVE  /\ \A i, j \in 1 .. Len(sendQ'[m][u]) :
                   i < j => sendQ'[m][u][i] < sendQ'[m][u][j]
             /\ \A num \in ToSet(sendQ'[m][u]) :
                   /\ num <= sent'[m]
                   /\ u = "sendMessage.binary" =>
                         \A r \in ToSet(routed'[m]) : r.num < num
  <2> DEFINE q == sendQ[m][u]
  <2>1. q \in Seq(Nums) /\ q \in Seq(Nat)
    <3>1. q \in Seq(Nums) /\ Nums \subseteq Nat
      BY <1>3, NumsPositive
    <3> HIDE DEF q
    <3> QED
      BY <3>1, SeqWider
  <2>2. ToSet(q) \subseteq Nat
    BY <2>1, ToSetMember
  <2>3. /\ \A i, j \in 1 .. Len(q) : i < j => q[i] < q[j]
        /\ \A num \in ToSet(q) : /\ num <= sent[m]
                                 /\ u = "sendMessage.binary" =>
                                       \A r \in ToSet(routed[m]) : r.num < num
    BY DEF Numbered, NumberedAt
  <2>4. \/ sendQ'[m][u] = q
        \/ m = n /\ u = t /\ sendQ'[m][u] = Append(q, k)
    BY <1>2, <1>3
  <2> HIDE DEF q
  <2>5. \A num \in ToSet(q) : num <= sent'[m]
    BY <1>1, <1>4, <2>2, <2>3
  <2>6. CASE sendQ'[m][u] = q
    BY <1>2, <2>3, <2>5, <2>6
  <2>7. CASE m = n /\ u = t /\ sendQ'[m][u] = Append(q, k)
    <3>1. ToSet(Append(q, k)) = ToSet(q) \union {k}
      BY <1>1, <2>1, ToSetAppend
    <3>2. \A x \in ToSet(q) : x < k
      BY <1>1, <1>5, <2>2, <2>3, <2>7
    <3>3. \A i, j \in 1 .. Len(Append(q, k)) :
             i < j => Append(q, k)[i] < Append(q, k)[j]
      BY <1>1, <2>1, <2>3, <3>2, IncreasingAppend
    <3>4. \A r \in ToSet(routed[m]) : r.num < k
      BY <1>1, <1>5, <1>6, <2>7
    <3>5. k <= sent'[m]
      BY <1>1, <1>5, <2>7
    <3> QED
      BY <1>2, <2>3, <2>5, <2>7, <3>1, <3>3, <3>4, <3>5
  <2> QED
    BY <2>4, <2>6, <2>7
<1> QED
  BY <1>7, <1>8 DEF NumberedAt

\* Taking the head of a queue of increasing numbers leaves greater ones.
LEMMA SendQTailNumbered ==
  ASSUME SwarmTypeOK, Numbered, NEW n \in Nodes, NEW t \in Topics, sendQ[n][t] # <<>>,
         sendQ' = [sendQ EXCEPT ![n][t] = Tail(@)], NEW m \in Nodes, NEW u \in Topics
  PROVE  /\ \A i, j \in 1 .. Len(sendQ'[m][u]) :
               i < j => sendQ'[m][u][i] < sendQ'[m][u][j]
         /\ ToSet(sendQ'[m][u]) \subseteq ToSet(sendQ[m][u])
         /\ m = n /\ u = t => \A x \in ToSet(sendQ'[m][u]) : Head(sendQ[n][t]) < x
<1>1. CASE m = n /\ u = t
  <2> DEFINE q == sendQ[n][t]
  <2>1. q \in Seq(Nums) /\ Nums \subseteq Nat
    BY NumsPositive DEF SwarmTypeOK
  <2>2. \A i, j \in 1 .. Len(q) : i < j => q[i] < q[j]
    BY DEF Numbered, NumberedAt
  <2>3. q # <<>> /\ sendQ'[m][u] = Tail(q) /\ ToSet(Tail(q)) \subseteq ToSet(q)
    <3>1. /\ sendQ'[n][t] = Tail(q)
          /\ ToSet(q) = {Head(q)} \union ToSet(sendQ'[n][t])
      BY SendQTail
    <3> HIDE DEF q
    <3>2. q # <<>>
      BY DEF q
    <3> QED
      BY <1>1, <3>1, <3>2
  <2> HIDE DEF q
  <2>4. q \in Seq(Nat)
    BY <2>1, SeqWider
  <2>5. /\ \A i, j \in 1 .. Len(Tail(q)) : i < j => Tail(q)[i] < Tail(q)[j]
        /\ \A x \in ToSet(Tail(q)) : Head(q) < x
    BY <2>2, <2>3, <2>4, IncreasingTail
  <2> QED
    BY <1>1, <2>3, <2>5 DEF q
<1>2. CASE ~(m = n /\ u = t)
  <2>1. sendQ'[m][u] = sendQ[m][u]
    BY <1>2, SendQTail
  <2> QED
    BY <1>2, <2>1 DEF Numbered, NumberedAt
<1> QED
  BY <1>1, <1>2

\* The core takes the smallest number and routes it, or lets it fall.
LEMMA CoreSendNumbered ==
  ASSUME TypeOK, SwarmTypeOK, Numbered, NEW n \in Nodes,
         CoreSendBinary(n) \/ \E t \in Topics : CoreDrop(n, t)
  PROVE  Numbered'
<1> SUFFICES ASSUME NEW m \in Nodes
             PROVE  NumberedAt(m)'
  BY DEF Numbered
<1>1. ASSUME NEW t \in Topics, CoreDrop(n, t)
      PROVE  NumberedAt(m)'
  <2>1. sendQ[n][t] # <<>> /\ sendQ' = [sendQ EXCEPT ![n][t] = Tail(@)]
        /\ UNCHANGED <<sent, routed>>
    BY <1>1 DEF CoreDrop
  <2>2. \A u \in Topics :
           /\ \A i, j \in 1 .. Len(sendQ'[m][u]) :
                 i < j => sendQ'[m][u][i] < sendQ'[m][u][j]
           /\ ToSet(sendQ'[m][u]) \subseteq ToSet(sendQ[m][u])
    BY <2>1, SendQTailNumbered
  <2> QED
    BY <2>1, <2>2 DEF Numbered, NumberedAt
<1>2. ASSUME CoreSendBinary(n)
      PROVE  NumberedAt(m)'
  <2> DEFINE t == "sendMessage.binary"
             num == Head(sendQ[n][t])
  <2>1. /\ t \in Topics /\ sendQ[n][t] # <<>>
        /\ sendQ' = [sendQ EXCEPT ![n][t] = Tail(@)]
        /\ routed' = [routed EXCEPT ![n] = @ \o Handed(n, num)]
        /\ UNCHANGED sent
    BY <1>2 DEF CoreSendBinary
  <2>2. num \in Nums /\ num \in Nat /\ num \in ToSet(sendQ[n][t])
    <3>1. /\ num \in Nums
          /\ ToSet(sendQ[n][t]) = {num} \union ToSet(sendQ'[n][t])
      BY <2>1, SendQTail
    <3> HIDE DEF num
    <3> QED
      BY <3>1, NumsPositive
  <2>3. \A u \in Topics :
           /\ \A i, j \in 1 .. Len(sendQ'[m][u]) :
                 i < j => sendQ'[m][u][i] < sendQ'[m][u][j]
           /\ ToSet(sendQ'[m][u]) \subseteq ToSet(sendQ[m][u])
           /\ m = n /\ u = t => \A x \in ToSet(sendQ'[m][u]) : num < x
    BY <2>1, SendQTailNumbered
  <2>4. num <= sent[n]
    BY <2>1, <2>2 DEF Numbered, NumberedAt
  <2> HIDE DEF num
  <2>5. \A r \in ToSet(routed'[m]) : r \in ToSet(routed[m]) \/ (m = n /\ r.num = num)
    <3>1. CASE routed' = routed
      BY <3>1
    <3>2. ASSUME NEW e \in Entry,
                 routed' = [routed EXCEPT ![n] =
                               Append(@, [num |-> num, adapterId |-> e.id])]
          PROVE  \A r \in ToSet(routed'[m]) :
                    r \in ToSet(routed[m]) \/ (m = n /\ r.num = num)
      <4> DEFINE R == [num : Nums, adapterId : Nat \ {0}]
                 x == [num |-> num, adapterId |-> e.id]
      <4>1. x \in R /\ x.num = num /\ routed \in [Nodes -> Seq(R)]
        BY <2>2 DEF Entry, SwarmTypeOK
      <4>2. routed' = [routed EXCEPT ![n] = Append(@, x)]
        BY <3>2
      <4> HIDE DEF x, R
      <4>3. ToSet(Append(routed[n], x)) = ToSet(routed[n]) \union {x}
        BY <4>1, ToSetAppend
      <4>4. routed'[m] = IF m = n THEN Append(routed[n], x) ELSE routed[m]
        BY <4>1, <4>2
      <4> QED
        BY <4>1, <4>3, <4>4
    <3>3. \/ routed' = routed
          \/ \E e \in Entry :
                routed' = [routed EXCEPT ![n] =
                              Append(@, [num |-> num, adapterId |-> e.id])]
      BY <2>1, <2>2, RoutedAppends
    <3> QED
      BY <3>1, <3>2, <3>3
  <2>6. \A r \in ToSet(routed'[m]) : r.num <= sent'[m]
    BY <2>1, <2>4, <2>5 DEF Numbered, NumberedAt
  <2>7. ASSUME NEW u \in Topics, NEW x \in ToSet(sendQ'[m][u])
        PROVE  /\ x <= sent'[m]
               /\ u = t => \A r \in ToSet(routed'[m]) : r.num < x
    <3>1. x \in ToSet(sendQ[m][u])
      BY <2>3, <2>7
    <3>2. x <= sent[m] /\ (u = t => \A r \in ToSet(routed[m]) : r.num < x)
      BY <3>1 DEF Numbered, NumberedAt
    <3>3. m = n /\ u = t => num < x
      BY <2>3, <2>7
    <3> QED
      BY <2>1, <2>5, <3>2, <3>3
  <2> QED
    BY <2>3, <2>6, <2>7 DEF NumberedAt
<1> QED
  BY <1>1, <1>2

\* The numbers keep increasing on their way through the core, in every step.
LEMMA NumberedStep ==
  ASSUME TypeOK, SwarmTypeOK, Numbered, [SwarmNext]_vars
  PROVE  Numbered'
<1>1. ASSUME \/ \E n \in Nodes : CoreUpDown(n)
             \/ \E a \in Adapters : AdapterUpDown(a)
      PROVE  Numbered'
  <2>1. /\ UNCHANGED <<sent, routed>>
        /\ \A n \in Nodes : \A t \in Topics : sendQ'[n][t] \in {sendQ[n][t], <<>>}
    BY <1>1, UpDownStep
  <2>2. SUFFICES ASSUME NEW n \in Nodes
                 PROVE  NumberedAt(n)'
    BY DEF Numbered
  <2>3. Len(<<>>) = 0
    OBVIOUS
  <2>4. \A t \in Topics : \A i, j \in 1 .. Len(sendQ'[n][t]) :
           i < j => sendQ'[n][t][i] < sendQ'[n][t][j]
    <3> SUFFICES ASSUME NEW t \in Topics, NEW i \in 1 .. Len(sendQ'[n][t]),
                        NEW j \in 1 .. Len(sendQ'[n][t]), i < j
                 PROVE  sendQ'[n][t][i] < sendQ'[n][t][j]
      OBVIOUS
    <3>1. CASE sendQ'[n][t] = sendQ[n][t]
      BY <3>1 DEF Numbered, NumberedAt
    <3>2. CASE sendQ'[n][t] = <<>>
      BY <2>3, <3>2
    <3> QED
      BY <2>1, <3>1, <3>2
  <2>5. \A t \in Topics : ToSet(sendQ'[n][t]) \subseteq ToSet(sendQ[n][t])
    BY <2>1, ToSetEmpty
  <2> QED
    BY <2>1, <2>4, <2>5 DEF Numbered, NumberedAt
<1>2. ASSUME UNCHANGED <<sent, sendQ, routed>>
      PROVE  Numbered'
  BY <1>2 DEF Numbered, NumberedAt
<1>3. ASSUME NEW n \in Nodes, CoreBeat(n) \/ CoreReceive(n)
      PROVE  UNCHANGED <<sent, sendQ, routed>>
  BY <1>3 DEF CoreBeat, CoreReceive
<1>4. ASSUME NEW a \in Adapters, AdapterForward(a) \/ AdapterReceive(a)
      PROVE  UNCHANGED <<sent, sendQ, routed>>
  BY <1>4 DEF AdapterForward, AdapterReceive
<1>5. UNCHANGED vars => UNCHANGED <<sent, sendQ, routed>>
  BY DEF vars, netVars
<1> QED
  BY <1>1, <1>2, <1>3, <1>4, <1>5, ClientPublishNumbered, CoreSendNumbered DEF SwarmNext

\* What waits at a core is numbered in order, later than what it has routed.
LEMMA NumberedCorrect == SwarmSpec => []Numbered
<1>1. SwarmInit => Numbered
  <2> SUFFICES ASSUME SwarmInit, NEW n \in Nodes
               PROVE  NumberedAt(n)
    BY DEF Numbered
  <2>1. routed[n] = <<>> /\ \A t \in Topics : sendQ[n][t] = <<>>
    BY DEF SwarmInit
  <2>2. Len(<<>>) = 0
    OBVIOUS
  <2> QED
    BY <2>1, <2>2, ToSetEmpty DEF NumberedAt
<1>2. TypeOK /\ SwarmTypeOK /\ Numbered /\ [SwarmNext]_vars => Numbered'
  BY NumberedStep
<1> QED
  BY <1>1, <1>2, GenuineCorrect, PTL DEF SwarmSpec

-----------------------------------------------------------------------------
\* A queue stays in order when younger data is appended, and when its head is
\* taken, which is then older than what is left.
LEMMA SortedAppend ==
  ASSUME NEW q \in Seq(Message), NEW m \in Message, Sorted(q),
         m.kind \in DataKinds => AllBefore(Data(q), {m})
  PROVE  Sorted(Append(q, m))
<1>1. /\ Len(Append(q, m)) = Len(q) + 1 /\ Len(q) \in Nat
      /\ \A i \in 1 .. Len(q) : Append(q, m)[i] = q[i]
      /\ Append(q, m)[Len(q) + 1] = m
  BY AppendProperties
<1> SUFFICES ASSUME NEW i \in 1 .. Len(Append(q, m)), NEW j \in 1 .. Len(Append(q, m)),
                    i < j, Append(q, m)[i].kind \in DataKinds,
                    Append(q, m)[j].kind \in DataKinds
             PROVE  Before(Append(q, m)[i], Append(q, m)[j])
  BY DEF Sorted
<1>2. i \in 1 .. Len(q)
  BY <1>1
<1>3. CASE j = Len(q) + 1
  <2>1. q[i] \in Data(q)
    BY <1>1, <1>2, ToSetMember DEF Data
  <2> QED
    BY <1>1, <1>2, <1>3, <2>1 DEF AllBefore
<1>4. CASE j # Len(q) + 1
  <2>1. j \in 1 .. Len(q)
    BY <1>1, <1>4
  <2> QED
    BY <1>1, <1>2, <2>1 DEF Sorted
<1> QED
  BY <1>3, <1>4

\* Taking the head leaves a sorted queue, of messages that come after the head.
LEMMA SortedTail ==
  ASSUME NEW q \in Seq(Message), q # <<>>, Sorted(q)
  PROVE  /\ Sorted(Tail(q))
         /\ Head(q).kind \in DataKinds => AllBefore({Head(q)}, Data(Tail(q)))
<1>1. /\ Tail(q) \in Seq(Message) /\ Len(q) \in Nat /\ Len(q) >= 1
      /\ Len(Tail(q)) = Len(q) - 1
      /\ Head(q) = q[1]
      /\ \A i \in 1 .. Len(Tail(q)) : Tail(q)[i] = q[i + 1]
  BY HeadTailProperties, EmptySeq
<1>2. \A i \in 1 .. Len(Tail(q)) : i + 1 \in 1 .. Len(q) /\ 1 < i + 1
  BY <1>1
<1>3. Sorted(Tail(q))
  <2> SUFFICES ASSUME NEW i \in 1 .. Len(Tail(q)), NEW j \in 1 .. Len(Tail(q)), i < j,
                      Tail(q)[i].kind \in DataKinds, Tail(q)[j].kind \in DataKinds
               PROVE  Before(Tail(q)[i], Tail(q)[j])
    BY DEF Sorted
  <2>1. i + 1 < j + 1
    OBVIOUS
  <2> QED
    BY <1>1, <1>2, <2>1 DEF Sorted
<1>4. ASSUME Head(q).kind \in DataKinds, NEW y \in Data(Tail(q))
      PROVE  Before(Head(q), y)
  <2>1. PICK i \in 1 .. Len(Tail(q)) : Tail(q)[i] = y
    BY <1>1, ToSetMember DEF Data
  <2>2. y.kind \in DataKinds
    BY DEF Data
  <2>3. 1 \in 1 .. Len(q) /\ i + 1 \in 1 .. Len(q) /\ 1 < i + 1
    BY <1>1, <1>2
  <2> QED
    BY <1>1, <1>4, <2>1, <2>2, <2>3 DEF Sorted
<1> QED
  BY <1>3, <1>4 DEF AllBefore

\* An empty queue is sorted.
LEMMA SortedEmpty == Sorted(<<>>) /\ Data(<<>>) = {}
<1>1. Len(<<>>) = 0
  OBVIOUS
<1> QED
  BY <1>1, ToSetEmpty DEF Sorted, Data

\* What sendMessage.binary routes is younger than all its core has routed.
LEMMA CoreSendOrder ==
  ASSUME TypeOK, SwarmTypeOK, Genuine, Numbered, InOrder, NEW n \in Nodes,
         CoreSendBinary(n)
  PROVE  InOrder'
<1> DEFINE t == "sendMessage.binary"
           num == Head(sendQ[n][t])
<1>1. /\ t \in Topics /\ sendQ[n][t] # <<>>
      /\ sendQ' = [sendQ EXCEPT ![n][t] = Tail(@)]
      /\ PublishTo(n, Chosen(n), "binary", num)
      /\ UNCHANGED <<netQ, recvQ, received>>
  BY DEF CoreSendBinary
<1>2. num \in Nums /\ num \in ToSet(sendQ[n][t])
  <2>1. /\ num \in Nums
        /\ ToSet(sendQ[n][t]) = {num} \union ToSet(sendQ'[n][t])
    BY <1>1, SendQTail
  <2> HIDE DEF num
  <2> QED
    BY <2>1
<1>3. num \in Nat
  BY <1>2, NumsPositive
<1>4. ASSUME NEW y, Routed(y), y.sender = n
      PROVE  y.num < num
  <2>1. \A r \in ToSet(routed[n]) : r.num < num
    BY <1>1, <1>2 DEF Numbered, NumberedAt
  <2> HIDE DEF num
  <2> QED
    BY <1>4, <2>1 DEF Routed
<1> HIDE DEF num, t
<1>5. ASSUME NEW a \in Adapters
      PROVE  \/ subQ'[a] = subQ[a]
             \/ \E x \in Message : /\ x.sender = n /\ x.num = num
                                   /\ subQ'[a] = Append(subQ[a], x)
  <2>1. "binary" \in LinkKinds \union DataKinds
        /\ Chosen(n) \in SUBSET ToSet(adapter_list[n])
    BY ChosenEntry DEF DataKinds
  <2>2. \/ subQ'[a] = subQ[a]
        \/ \E e \in Chosen(n) :
              /\ e \in Entry
              /\ a \in ListenersOf(n, e.id)
              /\ MessageFor("binary", n, e, num) \in Message
              /\ subQ'[a] = Append(subQ[a], MessageFor("binary", n, e, num))
    BY <1>1, <1>3, <2>1, PublishAppends
  <2>3. \A e : /\ MessageFor("binary", n, e, num).sender = n
               /\ MessageFor("binary", n, e, num).num = num
    BY DEF MessageFor
  <2> QED
    BY <2>2, <2>3
<1>6. /\ \A a \in Adapters : \A y \in Data(subQ[a]) \union Data(netQ[a]) : Routed(y)
      /\ \A m \in Nodes : \A y \in Data(recvQ[m]) \union ToSet(received[m]) : Routed(y)
  BY DEF Genuine, OnlyOthersMessages, Routed
<1>7. ASSUME NEW a \in Adapters, NEW S, AllBefore(S, Data(subQ[a])),
             \A y \in S : Routed(y)
      PROVE  AllBefore(S, Data(subQ'[a]))
  <2>1. ASSUME NEW x \in Message, x.sender = n, x.num = num,
               subQ'[a] = Append(subQ[a], x)
        PROVE  AllBefore(S, Data(subQ'[a]))
    <3>1. subQ[a] \in Seq(Message)
      BY DEF SwarmTypeOK
    <3>2. Data(Append(subQ[a], x)) \subseteq Data(subQ[a]) \union {x}
      BY <3>1, DataAppend
    <3>3. \A y \in S : Before(y, x)
      BY <1>4, <1>7, <2>1 DEF Before
    <3> QED
      BY <1>7, <2>1, <3>2, <3>3 DEF AllBefore
  <2> QED
    BY <1>5, <1>7, <2>1
<1>8. ASSUME NEW a \in Adapters
      PROVE  Sorted(subQ'[a])
  <2>1. ASSUME NEW x \in Message, x.sender = n, x.num = num,
               subQ'[a] = Append(subQ[a], x)
        PROVE  Sorted(subQ'[a])
    <3>1. subQ[a] \in Seq(Message) /\ Sorted(subQ[a])
      BY DEF SwarmTypeOK, InOrder, QueuesSorted
    <3>2. AllBefore(Data(subQ[a]), {x})
      BY <1>4, <1>6, <2>1 DEF Before, AllBefore
    <3> QED
      BY <2>1, <3>1, <3>2, SortedAppend
  <2> QED
    BY <1>5, <2>1 DEF InOrder, QueuesSorted
<1>9. QueuesSorted'
  BY <1>1, <1>8 DEF InOrder, QueuesSorted
<1>10. AheadOfAdapters'
  BY <1>1, <1>6, <1>7 DEF InOrder, AheadOfAdapters
<1>11. AheadOfNets' /\ AheadOfCores'
  BY <1>1 DEF InOrder, AheadOfNets, AheadOfCores
<1> QED
  BY <1>9, <1>10, <1>11 DEF InOrder

\* A LINK message adds nothing to the data that has to be in order.
LEMMA LinkOrder ==
  ASSUME TypeOK, SwarmTypeOK, QueuesSorted, NEW n \in Nodes,
         NEW entries \in SUBSET ToSet(adapter_list[n]),
         NEW kind \in LinkKinds, NEW num \in Nat,
         PublishTo(n, entries, kind, num), NEW a \in Adapters
  PROVE  Sorted(subQ'[a]) /\ Data(subQ'[a]) = Data(subQ[a])
<1>1. kind \notin DataKinds /\ kind \in LinkKinds \union DataKinds
  BY DEF LinkKinds, DataKinds
<1>2. subQ[a] \in Seq(Message) /\ Sorted(subQ[a])
  BY DEF SwarmTypeOK, QueuesSorted
<1>3. ASSUME NEW e \in entries, MessageFor(kind, n, e, num) \in Message,
             subQ'[a] = Append(subQ[a], MessageFor(kind, n, e, num))
      PROVE  Sorted(subQ'[a])
  <2> DEFINE m == MessageFor(kind, n, e, num)
  <2>1. m \in Message /\ m.kind = kind /\ subQ'[a] = Append(subQ[a], m)
    BY <1>3 DEF MessageFor
  <2> HIDE DEF m
  <2> QED
    BY <1>1, <1>2, <2>1, SortedAppend
<1>4. Sorted(subQ'[a])
  BY <1>1, <1>2, <1>3, PublishAppends
<1> QED
  BY <1>4, PublishLink

\* A heartbeat is no client's message, and disturbs no order.
LEMMA CoreBeatOrder ==
  ASSUME TypeOK, SwarmTypeOK, InOrder, NEW n \in Nodes, CoreBeat(n)
  PROVE  InOrder'
<1>1. UNCHANGED <<netQ, recvQ, received>>
  BY DEF CoreBeat
<1>2. PICK kind \in LinkKinds : PublishTo(n, ToSet(adapter_list[n]), kind, counter[n])
  BY DEF CoreBeat, LinkKinds
<1>3. counter[n] \in Nat /\ QueuesSorted
  BY DEF SwarmTypeOK, InOrder
<1>4. ToSet(adapter_list[n]) \in SUBSET ToSet(adapter_list[n])
  OBVIOUS
<1>5. \A a \in Adapters : Sorted(subQ'[a]) /\ Data(subQ'[a]) = Data(subQ[a])
  BY <1>2, <1>3, <1>4, LinkOrder
<1> QED
  BY <1>1, <1>5 DEF InOrder, QueuesSorted, AheadOfAdapters, AheadOfNets, AheadOfCores

\* What a core takes from its queue is older than all that is to follow.
LEMMA CoreReceiveOrder ==
  ASSUME TypeOK, SwarmTypeOK, SwarmTypeOK', InOrder, NEW n \in Nodes, CoreReceive(n)
  PROVE  InOrder'
<1> DEFINE m == Head(recvQ[n])
           d == [sender |-> m.sender, num |-> m.num, adapterId |-> m.adapterId]
<1>1. /\ recvQ[n] \in Seq(Message) /\ recvQ[n] # <<>>
      /\ recvQ \in [Nodes -> Seq(Message)]
      /\ recvQ' = [recvQ EXCEPT ![n] = Tail(@)]
      /\ UNCHANGED netQ
      /\ PublishTo(n, FirstOfType(n, m.link), "pong", m.num) \/ UNCHANGED subQ
      /\ \/ received' = received
         \/ /\ m.kind \in DataKinds
            /\ received' = [received EXCEPT ![n] = Append(@, d)]
  BY DEF CoreReceive, SwarmTypeOK
<1>2. /\ m \in Message
      /\ m.kind \in DataKinds => m \in Data(recvQ[n])
      /\ Data(Tail(recvQ[n])) \subseteq Data(recvQ[n])
  BY <1>1, ToSetHeadTail, DataTail
<1>3. /\ Sorted(Tail(recvQ[n]))
      /\ m.kind \in DataKinds => AllBefore({m}, Data(Tail(recvQ[n])))
  BY <1>1, SortedTail DEF InOrder, QueuesSorted
<1>4. d.sender = m.sender /\ d.num = m.num /\ d.adapterId = m.adapterId
  OBVIOUS
<1> HIDE DEF m, d
<1>5. \A a \in Adapters : Sorted(subQ'[a]) /\ Data(subQ'[a]) = Data(subQ[a])
  <2>1. m.num \in Nat /\ "pong" \in LinkKinds
    BY <1>2 DEF Message, LinkKinds
  <2>2. FirstOfType(n, m.link) \in SUBSET ToSet(adapter_list[n])
    BY FirstOfTypeEntry
  <2>3. CASE PublishTo(n, FirstOfType(n, m.link), "pong", m.num)
    BY <2>1, <2>2, <2>3, LinkOrder DEF InOrder
  <2>4. CASE UNCHANGED subQ
    BY <2>4 DEF InOrder, QueuesSorted
  <2> QED
    BY <1>1, <2>3, <2>4
<1>6. \A k \in Nodes : Data(recvQ'[k]) \subseteq Data(recvQ[k]) /\ Sorted(recvQ'[k])
  BY <1>1, <1>2, <1>3 DEF InOrder, QueuesSorted
<1>7. ASSUME NEW k \in Nodes
      PROVE  \/ received'[k] = received[k]
             \/ /\ k = n /\ m.kind \in DataKinds
                /\ ToSet(received'[k]) \subseteq ToSet(received[k]) \union {d}
  <2> DEFINE D == [sender : Nodes, num : Nums, adapterId : Nat \ {0}]
  <2>1. received \in [Nodes -> Seq(D)] /\ received' \in [Nodes -> Seq(D)]
    BY DEF SwarmTypeOK
  <2> HIDE DEF D
  <2>2. CASE received' = received
    BY <2>2
  <2>3. CASE m.kind \in DataKinds /\ received' = [received EXCEPT ![n] = Append(@, d)]
    <3>1. CASE k # n
      BY <2>1, <2>3, <3>1
    <3>2. CASE k = n
      <4>1. received'[k] = Append(received[k], d) /\ received[k] \in Seq(D)
            /\ received'[k] \in Seq(D)
        BY <2>1, <2>3, <3>2
      <4>2. ToSet(Append(received[k], d)) \subseteq ToSet(received[k]) \union {d}
        <5>1. /\ Len(Append(received[k], d)) = Len(received[k]) + 1
              /\ Len(received[k]) \in Nat
              /\ \A i \in 1 .. Len(received[k]) : Append(received[k], d)[i] = received[k][i]
              /\ Append(received[k], d)[Len(received[k]) + 1] = d
          BY <4>1
        <5>2. ASSUME NEW x \in ToSet(Append(received[k], d))
              PROVE  x \in ToSet(received[k]) \union {d}
          <6>1. PICK i \in 1 .. Len(Append(received[k], d)) : Append(received[k], d)[i] = x
            <7> DEFINE longer == Append(received[k], d)
            <7>1. longer \in Seq(D)
              BY <4>1
            <7>2. x \in ToSet(longer)
              OBVIOUS
            <7> HIDE DEF longer
            <7>3. \E i \in 1 .. Len(longer) : longer[i] = x
              BY <7>1, <7>2, ToSetMember
            <7> QED
              BY <7>3 DEF longer
          <6>2. CASE i = Len(received[k]) + 1
            BY <5>1, <6>1, <6>2
          <6>3. CASE i # Len(received[k]) + 1
            <7>1. i \in 1 .. Len(received[k])
              BY <5>1, <6>3
            <7> QED
              BY <4>1, <5>1, <6>1, <7>1, ToSetMember
          <6> QED
            BY <6>2, <6>3
        <5> QED
          BY <5>2
      <4> QED
        BY <2>3, <3>2, <4>1, <4>2
    <3> QED
      BY <3>1, <3>2
  <2> QED
    BY <1>1, <2>2, <2>3
<1>8. ASSUME NEW k \in Nodes, NEW S, AllBefore(ToSet(received[k]), S),
             k = n /\ m.kind \in DataKinds => AllBefore({m}, S)
      PROVE  AllBefore(ToSet(received'[k]), S)
  BY <1>4, <1>7, <1>8 DEF AllBefore, Before
<1>9. QueuesSorted'
  BY <1>1, <1>5, <1>6 DEF InOrder, QueuesSorted
<1>10. AheadOfAdapters'
  <2>1. \A a, b \in Adapters : AllBefore(Data(netQ'[b]), Data(subQ'[a]))
    BY <1>1, <1>5 DEF InOrder, AheadOfAdapters
  <2>2. ASSUME NEW k \in Nodes, NEW a \in Adapters
        PROVE  /\ AllBefore(Data(recvQ'[k]), Data(subQ'[a]))
               /\ AllBefore(ToSet(received'[k]), Data(subQ'[a]))
    <3>1. /\ AllBefore(Data(recvQ[k]), Data(subQ[a]))
          /\ AllBefore(ToSet(received[k]), Data(subQ[a]))
      BY DEF InOrder, AheadOfAdapters
    <3>2. k = n /\ m.kind \in DataKinds => AllBefore({m}, Data(subQ[a]))
      BY <1>2, <3>1 DEF AllBefore
    <3>3. AllBefore(ToSet(received'[k]), Data(subQ[a]))
      BY <1>8, <3>1, <3>2
    <3> QED
      BY <1>5, <1>6, <3>1, <3>3 DEF AllBefore
  <2> QED
    BY <2>1, <2>2 DEF AheadOfAdapters
<1>11. AheadOfNets'
  <2> SUFFICES ASSUME NEW k \in Nodes, NEW b \in Adapters, NodeOf[b] = k
               PROVE  /\ AllBefore(Data(recvQ'[k]), Data(netQ'[b]))
                      /\ AllBefore(ToSet(received'[k]), Data(netQ'[b]))
    BY DEF AheadOfNets
  <2>1. /\ AllBefore(Data(recvQ[k]), Data(netQ[b]))
        /\ AllBefore(ToSet(received[k]), Data(netQ[b]))
    BY DEF InOrder, AheadOfNets
  <2>2. k = n /\ m.kind \in DataKinds => AllBefore({m}, Data(netQ[b]))
    BY <1>2, <2>1 DEF AllBefore
  <2>3. AllBefore(ToSet(received'[k]), Data(netQ[b]))
    BY <1>8, <2>1, <2>2
  <2> QED
    BY <1>1, <1>6, <2>1, <2>3 DEF AllBefore
<1>12. AheadOfCores'
  <2> SUFFICES ASSUME NEW k \in Nodes
               PROVE  AllBefore(ToSet(received'[k]), Data(recvQ'[k]))
    BY DEF AheadOfCores
  <2>1. AllBefore(ToSet(received[k]), Data(recvQ'[k]))
    BY <1>6 DEF InOrder, AheadOfCores, AllBefore
  <2>2. k = n /\ m.kind \in DataKinds => AllBefore({m}, Data(recvQ'[k]))
    BY <1>1, <1>3
  <2> QED
    BY <1>8, <2>1, <2>2
<1> QED
  BY <1>9, <1>10, <1>11, <1>12 DEF InOrder

\* What an adapter forwards is older than what it and the others still hold.
LEMMA ForwardOrder ==
  ASSUME SwarmTypeOK, InOrder, Addressed, NEW a \in Adapters, AdapterForward(a)
  PROVE  InOrder'
<1> DEFINE m == Head(subQ[a])
<1>1. /\ subQ \in [Adapters -> Seq(Message)] /\ netQ \in [Adapters -> Seq(Message)]
      /\ subQ[a] \in Seq(Message)
      /\ UNCHANGED <<recvQ, received>>
  BY DEF SwarmTypeOK, AdapterForward
<1>2. /\ m \in Message /\ subQ[a] # <<>> /\ m \in ToSet(subQ[a])
      /\ subQ' = [subQ EXCEPT ![a] = Tail(@)]
      /\ ToSet(Tail(subQ[a])) \subseteq ToSet(subQ[a])
      /\ \A b \in Adapters : netQ'[b] = netQ[b] \/ netQ'[b] = Append(netQ[b], m)
  BY ForwardStep
<1>3. /\ m.kind \in DataKinds => m \in Data(subQ[a])
      /\ Data(Tail(subQ[a])) \subseteq Data(subQ[a])
  BY <1>1, <1>2, DataTail
<1>4. /\ Sorted(Tail(subQ[a]))
      /\ m.kind \in DataKinds => AllBefore({m}, Data(Tail(subQ[a])))
  BY <1>1, <1>2, SortedTail DEF InOrder, QueuesSorted
<1> HIDE DEF m
<1>5. \A c \in Adapters : Data(subQ'[c]) \subseteq Data(subQ[c]) /\ Sorted(subQ'[c])
  BY <1>1, <1>2, <1>3, <1>4 DEF InOrder, QueuesSorted
<1>6. ASSUME m.kind \in DataKinds, NEW c \in Adapters
      PROVE  AllBefore({m}, Data(subQ'[c]))
  <2>1. CASE c = a
    BY <1>1, <1>2, <1>4, <1>6, <2>1
  <2>2. ASSUME c # a, NEW y \in Data(subQ[c]), y.sender = m.sender,
               y.adapterId = m.adapterId
        PROVE  FALSE
    <3>1. Origin(y) = c /\ Origin(m) = a
      BY <1>2 DEF Addressed, Data
    <3> QED
      BY <2>2, <3>1 DEF Origin
  <2> QED
    BY <1>5, <2>1, <2>2 DEF AllBefore, Before
<1>7. ASSUME NEW b \in Adapters
      PROVE  /\ Data(netQ'[b]) \subseteq Data(netQ[b]) \union {m}
             /\ m.kind \notin DataKinds => Data(netQ'[b]) = Data(netQ[b])
             /\ Sorted(netQ'[b])
  <2>1. netQ[b] \in Seq(Message) /\ Sorted(netQ[b])
    BY <1>1 DEF InOrder, QueuesSorted
  <2>2. m.kind \in DataKinds => AllBefore(Data(netQ[b]), {m})
    BY <1>3 DEF InOrder, AheadOfAdapters, AllBefore
  <2>3. /\ Data(Append(netQ[b], m)) \subseteq Data(netQ[b]) \union {m}
        /\ m.kind \notin DataKinds => Data(Append(netQ[b], m)) = Data(netQ[b])
    BY <1>2, <2>1, DataAppend
  <2>4. Sorted(Append(netQ[b], m))
    BY <1>2, <2>1, <2>2, SortedAppend
  <2> QED
    BY <1>2, <2>1, <2>3, <2>4
<1>8. QueuesSorted'
  BY <1>1, <1>5, <1>7 DEF InOrder, QueuesSorted
<1>9. AheadOfAdapters'
  <2>1. ASSUME NEW c \in Adapters, NEW b \in Adapters
        PROVE  AllBefore(Data(netQ'[b]), Data(subQ'[c]))
    <3>1. AllBefore(Data(netQ[b]), Data(subQ'[c]))
      BY <1>5 DEF InOrder, AheadOfAdapters, AllBefore
    <3> QED
      BY <1>6, <1>7, <3>1 DEF AllBefore
  <2>2. ASSUME NEW k \in Nodes, NEW c \in Adapters
        PROVE  /\ AllBefore(Data(recvQ'[k]), Data(subQ'[c]))
               /\ AllBefore(ToSet(received'[k]), Data(subQ'[c]))
    BY <1>1, <1>5 DEF InOrder, AheadOfAdapters, AllBefore
  <2> QED
    BY <2>1, <2>2 DEF AheadOfAdapters
<1>10. AheadOfNets'
  <2> SUFFICES ASSUME NEW k \in Nodes, NEW b \in Adapters, NodeOf[b] = k
               PROVE  /\ AllBefore(Data(recvQ[k]), Data(netQ'[b]))
                      /\ AllBefore(ToSet(received[k]), Data(netQ'[b]))
    BY <1>1 DEF AheadOfNets
  <2>1. /\ AllBefore(Data(recvQ[k]), Data(netQ[b]))
        /\ AllBefore(ToSet(received[k]), Data(netQ[b]))
    BY DEF InOrder, AheadOfNets
  <2>2. m.kind \in DataKinds => /\ AllBefore(Data(recvQ[k]), {m})
                                /\ AllBefore(ToSet(received[k]), {m})
    BY <1>3 DEF InOrder, AheadOfAdapters, AllBefore
  <2> QED
    BY <1>7, <2>1, <2>2 DEF AllBefore
<1>11. AheadOfCores'
  BY <1>1 DEF InOrder, AheadOfCores
<1> QED
  BY <1>8, <1>9, <1>10, <1>11 DEF InOrder

\* What an adapter hears is older than what its node is still to hear: with one
\* adapter to a network it comes to a node by one way only.
LEMMA ReceiveOrder ==
  ASSUME SwarmTypeOK, InOrder, Addressed, OneAdapterPerNet,
         NEW a \in Adapters, AdapterReceive(a)
  PROVE  InOrder'
<1> DEFINE m == Head(netQ[a])
<1>1. /\ netQ \in [Adapters -> Seq(Message)] /\ recvQ \in [Nodes -> Seq(Message)]
      /\ netQ[a] \in Seq(Message)
      /\ UNCHANGED <<subQ, received>>
  BY DEF SwarmTypeOK, AdapterReceive
<1>2. /\ m \in Message /\ netQ[a] # <<>> /\ m \in ToSet(netQ[a])
      /\ netQ' = [netQ EXCEPT ![a] = Tail(@)]
      /\ \A n \in Nodes : \/ recvQ'[n] = recvQ[n]
                          \/ n = NodeOf[a] /\ recvQ'[n] = Append(recvQ[n], m)
  BY ReceiveStep
<1>3. /\ m.kind \in DataKinds => m \in Data(netQ[a])
      /\ Data(Tail(netQ[a])) \subseteq Data(netQ[a])
  BY <1>1, <1>2, DataTail
<1>4. /\ Sorted(Tail(netQ[a]))
      /\ m.kind \in DataKinds => AllBefore({m}, Data(Tail(netQ[a])))
  BY <1>1, <1>2, SortedTail DEF InOrder, QueuesSorted
<1> HIDE DEF m
<1>5. \A b \in Adapters : Data(netQ'[b]) \subseteq Data(netQ[b]) /\ Sorted(netQ'[b])
  BY <1>1, <1>2, <1>3, <1>4 DEF InOrder, QueuesSorted
<1>6. ASSUME m.kind \in DataKinds, NEW b \in Adapters, NodeOf[b] = NodeOf[a]
      PROVE  AllBefore({m}, Data(netQ'[b]))
  <2>1. CASE b = a
    BY <1>1, <1>2, <1>4, <1>6, <2>1
  <2>2. ASSUME b # a, NEW y \in Data(netQ[b]), y.sender = m.sender,
               y.adapterId = m.adapterId
        PROVE  FALSE
    <3>1. NetOf[Origin(y)] = NetOf[b] /\ NetOf[Origin(m)] = NetOf[a]
      BY <1>2 DEF Addressed, Data
    <3>2. NetOf[b] = NetOf[a]
      BY <2>2, <3>1 DEF Origin
    <3> QED
      BY <1>6, <2>2, <3>2 DEF OneAdapterPerNet
  <2> QED
    BY <1>5, <2>1, <2>2 DEF AllBefore, Before
<1>7. ASSUME NEW n \in Nodes
      PROVE  /\ Data(recvQ'[n]) \subseteq Data(recvQ[n]) \union {m}
             /\ n # NodeOf[a] \/ m.kind \notin DataKinds
                   => Data(recvQ'[n]) = Data(recvQ[n])
             /\ Sorted(recvQ'[n])
  <2>1. recvQ[n] \in Seq(Message) /\ Sorted(recvQ[n])
    BY <1>1 DEF InOrder, QueuesSorted
  <2>2. CASE recvQ'[n] = recvQ[n]
    BY <2>1, <2>2
  <2>3. CASE n = NodeOf[a] /\ recvQ'[n] = Append(recvQ[n], m)
    <3>1. m.kind \in DataKinds => AllBefore(Data(recvQ[n]), {m})
      BY <1>3, <2>3 DEF InOrder, AheadOfNets, AllBefore
    <3>2. /\ Data(Append(recvQ[n], m)) \subseteq Data(recvQ[n]) \union {m}
          /\ m.kind \notin DataKinds => Data(Append(recvQ[n], m)) = Data(recvQ[n])
      BY <1>2, <2>1, DataAppend
    <3>3. Sorted(Append(recvQ[n], m))
      BY <1>2, <2>1, <3>1, SortedAppend
    <3> QED
      BY <2>3, <3>2, <3>3
  <2> QED
    BY <1>2, <2>2, <2>3
<1>8. QueuesSorted'
  BY <1>1, <1>5, <1>7 DEF InOrder, QueuesSorted
<1>9. AheadOfAdapters'
  <2>1. ASSUME NEW c \in Adapters, NEW b \in Adapters
        PROVE  AllBefore(Data(netQ'[b]), Data(subQ'[c]))
    BY <1>1, <1>5 DEF InOrder, AheadOfAdapters, AllBefore
  <2>2. ASSUME NEW n \in Nodes, NEW c \in Adapters
        PROVE  /\ AllBefore(Data(recvQ'[n]), Data(subQ'[c]))
               /\ AllBefore(ToSet(received'[n]), Data(subQ'[c]))
    <3>1. /\ AllBefore(Data(recvQ[n]), Data(subQ[c]))
          /\ AllBefore(ToSet(received[n]), Data(subQ[c]))
      BY DEF InOrder, AheadOfAdapters
    <3>2. m.kind \in DataKinds => AllBefore({m}, Data(subQ[c]))
      BY <1>3 DEF InOrder, AheadOfAdapters, AllBefore
    <3> QED
      BY <1>1, <1>7, <3>1, <3>2 DEF AllBefore
  <2> QED
    BY <2>1, <2>2 DEF AheadOfAdapters
<1>10. AheadOfNets'
  <2> SUFFICES ASSUME NEW n \in Nodes, NEW b \in Adapters, NodeOf[b] = n
               PROVE  /\ AllBefore(Data(recvQ'[n]), Data(netQ'[b]))
                      /\ AllBefore(ToSet(received[n]), Data(netQ'[b]))
    BY <1>1 DEF AheadOfNets
  <2>1. /\ AllBefore(Data(recvQ[n]), Data(netQ'[b]))
        /\ AllBefore(ToSet(received[n]), Data(netQ'[b]))
    BY <1>5 DEF InOrder, AheadOfNets, AllBefore
  <2>2. n = NodeOf[a] /\ m.kind \in DataKinds => AllBefore({m}, Data(netQ'[b]))
    BY <1>6
  <2> QED
    BY <1>7, <2>1, <2>2 DEF AllBefore
<1>11. AheadOfCores'
  <2> SUFFICES ASSUME NEW n \in Nodes
               PROVE  AllBefore(ToSet(received[n]), Data(recvQ'[n]))
    BY <1>1 DEF AheadOfCores
  <2>1. AllBefore(ToSet(received[n]), Data(recvQ[n]))
    BY DEF InOrder, AheadOfCores
  <2>2. n = NodeOf[a] /\ m.kind \in DataKinds => AllBefore(ToSet(received[n]), {m})
    BY <1>3 DEF InOrder, AheadOfNets, AllBefore
  <2> QED
    BY <1>7, <2>1, <2>2 DEF AllBefore
<1> QED
  BY <1>8, <1>9, <1>10, <1>11 DEF InOrder

\* A process that stops or starts takes messages away and disturbs no order.
LEMMA UpDownOrder ==
  ASSUME SwarmTypeOK, InOrder,
         \/ \E n \in Nodes : CoreUpDown(n)
         \/ \E a \in Adapters : AdapterUpDown(a)
  PROVE  InOrder'
<1>1. /\ UNCHANGED <<routed, received>>
      /\ \A a \in Adapters : subQ'[a] \in {subQ[a], <<>>} /\ netQ'[a] \in {netQ[a], <<>>}
      /\ \A n \in Nodes : recvQ'[n] \in {recvQ[n], <<>>}
  BY UpDownStep
<1>2. \A a \in Adapters :
         /\ Data(subQ'[a]) \subseteq Data(subQ[a]) /\ Sorted(subQ'[a])
         /\ Data(netQ'[a]) \subseteq Data(netQ[a]) /\ Sorted(netQ'[a])
  BY <1>1, SortedEmpty DEF InOrder, QueuesSorted
<1>3. \A n \in Nodes : Data(recvQ'[n]) \subseteq Data(recvQ[n]) /\ Sorted(recvQ'[n])
  BY <1>1, SortedEmpty DEF InOrder, QueuesSorted
<1>4. QueuesSorted'
  BY <1>2, <1>3 DEF QueuesSorted
<1>5. AheadOfAdapters'
  BY <1>1, <1>2, <1>3 DEF InOrder, AheadOfAdapters, AllBefore
<1>6. AheadOfNets'
  BY <1>1, <1>2, <1>3 DEF InOrder, AheadOfNets, AllBefore
<1>7. AheadOfCores'
  BY <1>1, <1>3 DEF InOrder, AheadOfCores, AllBefore
<1> QED
  BY <1>4, <1>5, <1>6, <1>7 DEF InOrder

\* Every step keeps the messages in order.
LEMMA InOrderStep ==
  ASSUME TypeOK, SwarmTypeOK, SwarmTypeOK', Genuine, Numbered, Addressed,
         OneAdapterPerNet, InOrder, [SwarmNext]_vars
  PROVE  InOrder'
<1>1. ASSUME UNCHANGED <<subQ, netQ, recvQ, received>>
      PROVE  InOrder'
  BY <1>1 DEF InOrder, QueuesSorted, AheadOfAdapters, AheadOfNets, AheadOfCores
<1>2. ASSUME NEW n \in Nodes, NEW t \in Topics, ClientPublish(n, t) \/ CoreDrop(n, t)
      PROVE  UNCHANGED <<subQ, netQ, recvQ, received>>
  BY <1>2 DEF ClientPublish, CoreDrop
<1>3. UNCHANGED vars => UNCHANGED <<subQ, netQ, recvQ, received>>
  BY DEF vars, netVars
<1> QED
  BY <1>1, <1>2, <1>3, CoreSendOrder, CoreBeatOrder, CoreReceiveOrder,
     ForwardOrder, ReceiveOrder, UpDownOrder DEF SwarmNext

\* Messages of an adapter stay in order in all queues between its core and their
\* receivers, as long as no core restarts and a node has one adapter for each network.
LEMMA InOrderCorrect ==
  ASSUME OneAdapterPerNet
  PROVE  SwarmSpec /\ []CoresStay => []InOrder
<1>1. SwarmInit => InOrder
  <2> SUFFICES ASSUME SwarmInit
               PROVE  InOrder
    OBVIOUS
  <2>1. \A a \in Adapters : subQ[a] = <<>> /\ netQ[a] = <<>>
    BY DEF SwarmInit
  <2>2. \A n \in Nodes : recvQ[n] = <<>> /\ received[n] = <<>>
    BY DEF SwarmInit
  <2> QED
    BY <2>1, <2>2, SortedEmpty, ToSetEmpty
       DEF InOrder, QueuesSorted, AheadOfAdapters, AheadOfNets, AheadOfCores, AllBefore
<1>2. /\ TypeOK /\ SwarmTypeOK /\ SwarmTypeOK' /\ Genuine /\ Numbered /\ Stable
      /\ InOrder /\ [SwarmNext]_vars
      => InOrder'
  BY InOrderStep DEF Stable
<1> QED
  BY <1>1, <1>2, GenuineCorrect, NumberedCorrect, StableCorrect, PTL DEF SwarmSpec

\* The ids a core has given out are one for each of its adapters and each fault.
LEMMA IdsBounded ==
  ASSUME Inv, CountInv, NEW n \in Nodes, NEW e \in ToSet(adapter_list[n])
  PROVE  e.id \in 1 .. Cardinality(Adapters) + MaxFaults
<1>1. adapter_list[n] \in Seq(Entry) /\ faults \in 0 .. MaxFaults /\ MaxFaults \in Nat
  BY BoundsAssumption DEF Inv, TypeOK
<1>2. PICK i \in 1 .. Len(adapter_list[n]) : adapter_list[n][i] = e
  BY <1>1, ToSetMember
<1>3. e.id = i /\ i \in Nat /\ 1 <= i /\ i <= Len(adapter_list[n])
  BY <1>1, <1>2 DEF Inv, IdsCountUp
<1> DEFINE own == {a \in Adapters : NodeOf[a] = n}
<1>4. /\ Cardinality(own) <= Cardinality(Adapters)
      /\ Cardinality(own) \in Nat /\ Cardinality(Adapters) \in Nat
  <2>1. own \in SUBSET Adapters /\ IsFiniteSet(Adapters)
    BY NodesAssumption
  <2> HIDE DEF own
  <2> QED
    BY <2>1, FS_Subset, FS_CardinalityType
<1>5. Len(adapter_list[n]) <= Cardinality(own) + faults
  BY CountBounds DEF GhostsBounded
<1> HIDE DEF own
<1>6. Len(adapter_list[n]) \in Nat /\ faults \in Nat /\ faults <= MaxFaults
  BY <1>1
<1>7. i <= Cardinality(Adapters) + MaxFaults
  BY <1>1, <1>3, <1>4, <1>5, <1>6
<1> QED
  BY <1>3, <1>7, <1>4, <1>1

-----------------------------------------------------------------------------
\* The broadcast's sets of sequences are these.
LEMMA BroadcastToSet == \A s : Broadcast!ToSet(s) = ToSet(s)
BY DEF Broadcast!ToSet, ToSet

\* What a core hands to an adapter is a step of the broadcast.
LEMMA SendRoutes ==
  ASSUME Inv, CountInv, SwarmTypeOK, Numbered, NEW n \in Nodes, CoreSendBinary(n)
  PROVE  Broadcast!Route(n) \/ UNCHANGED <<routed, received>>
<1> DEFINE t == "sendMessage.binary"
           num == Head(sendQ[n][t])
<1>1. /\ t \in Topics /\ sendQ[n][t] # <<>>
      /\ sendQ' = [sendQ EXCEPT ![n][t] = Tail(@)]
      /\ routed' = [routed EXCEPT ![n] = @ \o Handed(n, num)]
      /\ UNCHANGED received
  BY DEF CoreSendBinary
<1>2. num \in Nums /\ num \in ToSet(sendQ[n][t])
  <2>1. /\ num \in Nums
        /\ ToSet(sendQ[n][t]) = {num} \union ToSet(sendQ'[n][t])
    BY <1>1, SendQTail
  <2> HIDE DEF num
  <2> QED
    BY <2>1
<1>3. \A old \in ToSet(routed[n]) : old.num < num
  BY <1>1, <1>2 DEF Numbered, NumberedAt
<1> HIDE DEF num, t
<1>4. TypeOK
  BY DEF Inv
<1>5. CASE routed' = routed
  BY <1>1, <1>5
<1>6. ASSUME NEW e \in Chosen(n),
             routed' = [routed EXCEPT ![n] =
                           Append(@, [num |-> num, adapterId |-> e.id])]
      PROVE  Broadcast!Route(n)
  <2>1. e.id \in 1 .. Cardinality(Adapters) + MaxFaults
    BY <1>4, ChosenEntry, IdsBounded
  <2> QED
    BY <1>1, <1>2, <1>3, <1>6, <2>1, BroadcastToSet DEF Broadcast!Route
<1> QED
  BY <1>1, <1>2, <1>4, <1>5, <1>6, RoutedAppends

\* What a core publishes to its clients is a message another core has routed,
\* that none has overtaken.
LEMMA ReceiveDelivers ==
  ASSUME SwarmTypeOK, Genuine, InOrder, NEW n \in Nodes, CoreReceive(n)
  PROVE  Broadcast!Deliver(n) \/ UNCHANGED <<routed, received>>
<1> DEFINE m == Head(recvQ[n])
           d == [sender |-> m.sender, num |-> m.num, adapterId |-> m.adapterId]
           r == [num |-> m.num, adapterId |-> m.adapterId]
<1>1. /\ recvQ[n] \in Seq(Message) /\ recvQ[n] # <<>>
      /\ UNCHANGED routed
      /\ \/ received' = received
         \/ /\ m.kind \in DataKinds
            /\ received' = [received EXCEPT ![n] = Append(@, d)]
  BY DEF CoreReceive, SwarmTypeOK
<1>2. m \in Message /\ m \in ToSet(recvQ[n]) /\ m.sender \in Nodes /\ m.num \in Nat
  <2>1. m \in Message /\ m \in ToSet(recvQ[n])
    BY <1>1, ToSetHeadTail
  <2> QED
    BY <2>1 DEF Message
<1>3. /\ d.sender = m.sender /\ d.num = m.num /\ d.adapterId = m.adapterId
      /\ d = [sender |-> m.sender, num |-> r.num, adapterId |-> r.adapterId]
  OBVIOUS
<1>4. CASE received' = received
  BY <1>1, <1>4
<1>5. CASE /\ m.kind \in DataKinds
           /\ received' = [received EXCEPT ![n] = Append(@, d)]
  <2>1. m \in Data(recvQ[n])
    BY <1>2, <1>5 DEF Data
  <2>2. m.sender \in Nodes \ {n}
    BY <1>2 DEF Genuine
  <2>3. r \in ToSet(routed[m.sender])
    BY <2>1 DEF Genuine, Routed
  <2>4. ~Broadcast!Overtaken(n, d)
    <3> HIDE DEF m, d
    <3>1. ASSUME NEW old \in ToSet(received[n]),
                 old.sender = d.sender, old.adapterId = d.adapterId
          PROVE  ~(old.num >= d.num)
      <4>1. old.num < m.num
        BY <1>3, <2>1, <3>1 DEF InOrder, AheadOfCores, AllBefore, Before
      <4>2. old.num \in Nat
        <5>1. received[n] \in Seq([sender : Nodes, num : Nums, adapterId : Nat \ {0}])
          BY DEF SwarmTypeOK
        <5>2. old \in [sender : Nodes, num : Nums, adapterId : Nat \ {0}]
          BY <5>1, ToSetMember
        <5> QED
          BY <5>2, NumsPositive
      <4> QED
        BY <1>2, <1>3, <4>1, <4>2
    <3> QED
      BY <3>1, BroadcastToSet DEF Broadcast!Overtaken
  <2> HIDE DEF m, d, r
  <2>5. \E s \in Nodes \ {n} : \E x \in ToSet(routed[s]) :
           LET y == [sender |-> s, num |-> x.num, adapterId |-> x.adapterId] IN
           /\ ~Broadcast!Overtaken(n, y)
           /\ received' = [received EXCEPT ![n] = Append(@, y)]
           /\ UNCHANGED routed
    BY <1>1, <1>3, <1>5, <2>2, <2>3, <2>4
  <2> QED
    BY <2>5, BroadcastToSet DEF Broadcast!Deliver
<1> QED
  BY <1>1, <1>4, <1>5

\* While no core crashes, and no two adapters of a node are on one network (as
\* in the supervisord configuration: one direct and one zenoh adapter), the
\* swarm is a best-effort broadcast: whatever adapters do, and however many
\* nodes there are, each node hands its clients only what another node routed,
\* once, and in order for each adapter of the sender.
THEOREM IsBroadcastCorrect ==
  ASSUME OneAdapterPerNet
  PROVE  SwarmSpec /\ []CoresStay => IsBroadcast
<1>1. SwarmInit => Broadcast!Init
  BY DEF SwarmInit, Broadcast!Init
<1>2. /\ TypeOK /\ Inv /\ CountInv /\ SwarmTypeOK /\ Genuine /\ Numbered /\ InOrder
      /\ [SwarmNext]_vars
      => [Broadcast!Next]_(Broadcast!broadcastVars)
  <2> SUFFICES ASSUME TypeOK, Inv, CountInv, SwarmTypeOK, Genuine, Numbered, InOrder,
                      [SwarmNext]_vars
               PROVE  Broadcast!Next \/ UNCHANGED <<routed, received>>
    BY DEF Broadcast!broadcastVars
  <2>1. ASSUME NEW n \in Nodes, CoreSendBinary(n)
        PROVE  Broadcast!Next \/ UNCHANGED <<routed, received>>
    BY <2>1, SendRoutes DEF Broadcast!Next
  <2>2. ASSUME NEW n \in Nodes, CoreReceive(n)
        PROVE  Broadcast!Next \/ UNCHANGED <<routed, received>>
    BY <2>2, ReceiveDelivers DEF Broadcast!Next
  <2>3. ASSUME NEW n \in Nodes,
               CoreBeat(n) \/ \E t \in Topics : ClientPublish(n, t) \/ CoreDrop(n, t)
        PROVE  UNCHANGED <<routed, received>>
    BY <2>3 DEF CoreBeat, ClientPublish, CoreDrop
  <2>4. ASSUME NEW a \in Adapters, AdapterForward(a) \/ AdapterReceive(a)
        PROVE  UNCHANGED <<routed, received>>
    BY <2>4 DEF AdapterForward, AdapterReceive
  <2>5. ASSUME \/ \E n \in Nodes : CoreUpDown(n)
               \/ \E a \in Adapters : AdapterUpDown(a)
        PROVE  UNCHANGED <<routed, received>>
    BY <2>5, UpDownStep
  <2>6. CASE UNCHANGED vars
    BY <2>6 DEF vars, netVars
  <2> QED
    BY <2>1, <2>2, <2>3, <2>4, <2>5, <2>6 DEF SwarmNext
<1> QED
  BY <1>1, <1>2, SwarmInv, GenuineCorrect, NumberedCorrect, InOrderCorrect, PTL
     DEF SwarmSpec, IsBroadcast, Broadcast!Spec

\* So every instance in which each core is started once, as those TLC checks, is
\* a best-effort broadcast, and its messages travel by their links.
THEOREM OneRunIsBroadcast ==
  ASSUME MaxCoreRuns = 1, OneAdapterPerNet
  PROVE  SwarmSpec => IsBroadcast /\ []ByItsLink
<1>1. SwarmSpec => []CoresStay
  BY OneRunCoresStay
<1> QED
  BY <1>1, IsBroadcastCorrect, ByItsLinkCorrect, PTL
=============================================================================
