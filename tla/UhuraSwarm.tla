----------------------------- MODULE UhuraSwarm -----------------------------
(***************************************************************************)
(* A swarm of nodes exchanging messages: the client's publications, the    *)
(* core's routing and heartbeats (src/nats/core/index.js), the forwarding  *)
(* done by the direct and zenoh adapters, and the networks between them.   *)
(* It extends AdapterRegistration with the data path.                      *)
(*                                                                         *)
(* Each NATS subscription is a first-in first-out queue of its own; what   *)
(* is published on a subject nobody listens to is gone.  A handler of the  *)
(* core has no await in its body, so it is one step.  No handler calls     *)
(* linkTable.addFrame (the one call is commented out), so the tables hold  *)
(* no node and updateAll returns 0 for each of them.                       *)
(***************************************************************************)
EXTENDS AdapterRegistration

CONSTANTS
    NetOf,           \* the network an adapter is attached to
    DirectAdapters,  \* the adapters of adapters/direct: these listen to their
                     \* network from the start, the zenoh ones once registered
    LossyNets,       \* the networks that may lose a message for a receiver
    Topics,          \* the client subjects used in this instance
    PingPeriod,      \* one heartbeat out of so many is a ping (5 in the code)
    MaxSends,        \* bound: messages published by the client of each node
    MaxBeats         \* bound: heartbeats of a run of each core

ASSUME SwarmAssumption ==
    /\ DOMAIN NetOf = Adapters
    /\ DirectAdapters \subseteq Adapters
    /\ Topics \subseteq {"sendMessage", "sendMessage.text", "sendMessage.binary"}
    /\ PingPeriod \in Nat \ {0}
    /\ MaxSends \in [Nodes -> Nat]
    /\ MaxBeats \in [Nodes -> Nat]

\* A client numbers its messages from 1.
Nums == UNION {1 .. MaxSends[n] : n \in Nodes}

\* A core numbers its heartbeats from 0.
Beats == UNION {0 .. MaxBeats[n] - 1 : n \in Nodes}

VARIABLES
    sent,      \* messages the client of a node has published
    sendQ,     \* per client subject, what the core has yet to handle
    subQ,      \* an adapter's subscription to <core>.<id>.sendMessage
    netQ,      \* an adapter's subscription to adaptersNetwork
    recvQ,     \* the core's subscription to <core>.receivedMessageAdapter
    counter,   \* the core's heartbeat counter
    routed,    \* history: data messages the core has handed to an adapter
    received   \* history: what it published on receivedMessage.<kind>

netVars == <<sent, sendQ, subQ, netQ, recvQ, counter, routed, received>>
vars == <<regVars, netVars>>

-----------------------------------------------------------------------------
\* A SendMessageRequest.  The first three kinds are LINK messages (type 2, the
\* kind is the subtype in their text), the others data (type 0).  link is the
\* type of the adapter it was addressed to: source.type in a LINK message, a
\* ghost in the others, which carry no source.
LinkKinds == {"HB", "ping", "pong"}
DataKinds == {"text", "binary"}

Message == [kind : LinkKinds \union DataKinds, sender : Nodes,
            adapterId : Nat \ {0}, link : Types, num : Nat]

MessageFor(kind, n, entry, num) ==
    [kind |-> kind, sender |-> n, adapterId |-> entry.id, link |-> entry.type,
     num |-> num]

\* The adapters subscribed to <n>.<id>.sendMessage.
ListenersOf(n, id) ==
    {a \in Adapters : NodeOf[a] = n /\ phase[a] = "serving" /\ assigned[a].id = id}

\* The adapters subscribed to adaptersNetwork on a network.
Hears(a) == \/ phase[a] = "serving"
            \/ a \in DirectAdapters /\ phase[a] # "down"

ListenersOn(net) == {a \in Adapters : NetOf[a] = net /\ Hears(a)}

\* Queue m with each of the given subscribers.
Enqueue(q, subscribers, m) ==
    [s \in DOMAIN q |-> IF s \in subscribers THEN Append(q[s], m) ELSE q[s]]

\* Publish one message for each given registry entry of n on its own subject.
PublishTo(n, entries, kind, num) ==
    subQ' = [a \in Adapters |->
               LET mine == {e \in entries : a \in ListenersOf(n, e.id)} IN
               IF mine = {} THEN subQ[a]
               ELSE Append(subQ[a],
                           MessageFor(kind, n, CHOOSE e \in mine : TRUE, num))]

-----------------------------------------------------------------------------
\* linkTable.updateAll() of a table without nodes: 0 / 0, reported as 0.
pdr(n, type) == 0

\* Mutant: a type has to beat the initial pdr of 0 (pdr > bestLink.pdr).
StrictlyBetterTypes(n) == {i \in DOMAIN linkTables[n] : pdr(n, linkTables[n][i]) > 0}

\* The loop over linkTables: the last type whose pdr is the greatest, for a
\* later table wins with >=.
BestTypes(n) ==
    {i \in DOMAIN linkTables[n] :
        \A j \in DOMAIN linkTables[n] :
            pdr(n, linkTables[n][j]) <= pdr(n, linkTables[n][i])}

\* The entries of that type, and none when there is no link table.
Candidates(n, type) ==
    {i \in DOMAIN adapter_list[n] : adapter_list[n][i].type = type}

\* The first registry entry of a type (the loops that stop at the first).
FirstOfType(n, type) ==
    {adapter_list[n][i] : i \in {i \in Candidates(n, type) :
                                   \A j \in Candidates(n, type) : i <= j}}

\* The entry sendMessage.binary goes to: a set of one, or of none.
Chosen(n) ==
    UNION {FirstOfType(n, linkTables[n][i]) :
              i \in {i \in BestTypes(n) : \A j \in BestTypes(n) : j <= i}}

\* The message is handed to that entry's adapter, or to none.
Handed(n, num) ==
    SetToSeq({[num |-> num, adapterId |-> e.id] : e \in Chosen(n)})

-----------------------------------------------------------------------------
SwarmInit ==
    /\ Init
    /\ sent = [n \in Nodes |-> 0]
    /\ sendQ = [n \in Nodes |-> [t \in Topics |-> <<>>]]
    /\ subQ = [a \in Adapters |-> <<>>]
    /\ netQ = [a \in Adapters |-> <<>>]
    /\ recvQ = [n \in Nodes |-> <<>>]
    /\ counter = [n \in Nodes |-> 0]
    /\ routed = [n \in Nodes |-> <<>>]
    /\ received = [n \in Nodes |-> <<>>]

\* The client of n publishes on one of its core's subjects.
ClientPublish(n, topic) ==
    /\ sent[n] < MaxSends[n]
    /\ sent' = [sent EXCEPT ![n] = @ + 1]
    /\ sendQ' = IF coreUp[n]
                THEN [sendQ EXCEPT ![n][topic] = Append(@, sent[n] + 1)]
                ELSE sendQ
    /\ UNCHANGED <<regVars, subQ, netQ, recvQ, counter, routed, received>>

\* The sendMessage.binary handler.
CoreSendBinary(n) ==
    LET topic == "sendMessage.binary" IN
    /\ coreUp[n]
    /\ topic \in Topics
    /\ sendQ[n][topic] # <<>>
    /\ LET num == Head(sendQ[n][topic]) IN
       /\ PublishTo(n, Chosen(n), "binary", num)
       /\ routed' = [routed EXCEPT ![n] = @ \o Handed(n, num)]
    /\ sendQ' = [sendQ EXCEPT ![n][topic] = Tail(@)]
    /\ UNCHANGED <<regVars, sent, netQ, recvQ, counter, received>>

\* The sendMessage and sendMessage.text handlers: the adapter they find has to
\* pass "typeof adapter === Adapter", a string compared with a class, so the
\* message goes nowhere.
CoreDrop(n, topic) ==
    /\ coreUp[n]
    /\ topic # "sendMessage.binary"
    /\ sendQ[n][topic] # <<>>
    /\ sendQ' = [sendQ EXCEPT ![n][topic] = Tail(@)]
    /\ UNCHANGED <<regVars, sent, subQ, netQ, recvQ, counter, routed, received>>

\* The heartbeat timer: a LINK message to every entry of the registry.
CoreBeat(n) ==
    /\ coreUp[n]
    /\ counter[n] < MaxBeats[n]
    /\ PublishTo(n, ToSet(adapter_list[n]),
                 IF counter[n] % PingPeriod = 0 THEN "ping" ELSE "HB", counter[n])
    /\ counter' = [counter EXCEPT ![n] = @ + 1]
    /\ UNCHANGED <<regVars, sent, sendQ, netQ, recvQ, routed, received>>

\* Mutant: every LINK message is answered.
AnswersAllLinks(m) == m.kind \in LinkKinds

\* Mutant: a ping is answered if its counter is truthy, so the first is not.
AnswersTruthyCounter(m) == m.kind = "ping" /\ m.num # 0

\* Is a message one the core answers with a pong?
Answered(m) == m.kind = "ping"

\* The receivedMessageAdapter handler: a ping is answered through the first
\* adapter of the type it came in on; data is published to the clients.
CoreReceive(n) ==
    /\ coreUp[n]
    /\ recvQ[n] # <<>>
    /\ LET m == Head(recvQ[n]) IN
       /\ IF Answered(m)
          THEN PublishTo(n, FirstOfType(n, m.link), "pong", m.num)
          ELSE UNCHANGED subQ
       /\ received' = IF m.kind \in DataKinds
                      THEN [received EXCEPT ![n] = Append(@,
                              [sender |-> m.sender, num |-> m.num,
                               adapterId |-> m.adapterId])]
                      ELSE received
    /\ recvQ' = [recvQ EXCEPT ![n] = Tail(@)]
    /\ UNCHANGED <<regVars, sent, sendQ, netQ, counter, routed>>

-----------------------------------------------------------------------------
\* An adapter forwards a message of its core to its network, where all who
\* listen hear it, itself and its neighbours on the same node included.
AdapterForward(a) ==
    /\ subQ[a] # <<>>
    /\ \E hearers \in IF NetOf[a] \in LossyNets
                      THEN SUBSET ListenersOn(NetOf[a])
                      ELSE {ListenersOn(NetOf[a])} :
          netQ' = Enqueue(netQ, hearers, Head(subQ[a]))
    /\ subQ' = [subQ EXCEPT ![a] = Tail(@)]
    /\ UNCHANGED <<regVars, sent, sendQ, recvQ, counter, routed, received>>

\* Mutant: the adapter passes on all it hears.
FromAnybody(a, m) == TRUE

\* dataObj.sender.id !== core_id
FromOther(a, m) == m.sender # NodeOf[a]

\* An adapter passes what another node sent on to its core.
AdapterReceive(a) ==
    LET n == NodeOf[a] IN
    /\ netQ[a] # <<>>
    /\ recvQ' = IF FromOther(a, Head(netQ[a])) /\ coreUp[n]
                THEN Enqueue(recvQ, {n}, Head(netQ[a]))
                ELSE recvQ
    /\ netQ' = [netQ EXCEPT ![a] = Tail(@)]
    /\ UNCHANGED <<regVars, sent, sendQ, subQ, counter, routed, received>>

-----------------------------------------------------------------------------
\* The steps of AdapterRegistration.  A core that dies takes its queues and its
\* heartbeat counter with it.
CoreUpDown(n) ==
    \/ CoreStart(n) /\ UNCHANGED netVars
    \/ CoreRegister(n) /\ UNCHANGED netVars
    \/ /\ CoreCrash(n)
       /\ sendQ' = [sendQ EXCEPT ![n] = [t \in Topics |-> <<>>]]
       /\ recvQ' = [recvQ EXCEPT ![n] = <<>>]
       /\ counter' = [counter EXCEPT ![n] = 0]
       /\ UNCHANGED <<sent, subQ, netQ, routed, received>>

\* An adapter that exits takes its queues with it.
AdapterUpDown(a) ==
    /\ \/ AdapterStart(a) \/ AdapterRequest(a) \/ AdapterAccept(a)
       \/ AdapterTimeout(a) \/ AdapterGiveUp(a) \/ AdapterCrash(a)
    /\ LET Left(q) == IF phase'[a] = "down" THEN [q EXCEPT ![a] = <<>>] ELSE q
       IN subQ' = Left(subQ) /\ netQ' = Left(netQ)
    /\ UNCHANGED <<sent, sendQ, recvQ, counter, routed, received>>

SwarmNext ==
    \/ \E n \in Nodes :
          \/ CoreUpDown(n) \/ CoreSendBinary(n) \/ CoreBeat(n) \/ CoreReceive(n)
          \/ \E topic \in Topics : ClientPublish(n, topic) \/ CoreDrop(n, topic)
    \/ \E a \in Adapters :
          AdapterUpDown(a) \/ AdapterForward(a) \/ AdapterReceive(a)

\* Start-up is as fair as in AdapterRegistration, a timer fires, and a queued
\* message is handled.  Clients publish if they like.
SwarmFairness ==
    /\ \A n \in Nodes :
          /\ WF_vars(CoreStart(n) /\ UNCHANGED netVars)
          /\ WF_vars(CoreRegister(n) /\ UNCHANGED netVars)
          /\ WF_vars(CoreSendBinary(n)) /\ WF_vars(CoreBeat(n))
          /\ WF_vars(CoreReceive(n))
          /\ \A topic \in Topics : WF_vars(CoreDrop(n, topic))
    /\ \A a \in Adapters :
          /\ WF_vars(AdapterStart(a) /\ AdapterUpDown(a))
          /\ WF_vars(AdapterRequest(a) /\ AdapterUpDown(a))
          /\ WF_vars(AdapterAccept(a) /\ AdapterUpDown(a))
          /\ WF_vars(AdapterTimeout(a) /\ AdapterUpDown(a))
          /\ WF_vars(AdapterForward(a)) /\ WF_vars(AdapterReceive(a))

SwarmSpec == SwarmInit /\ [][SwarmNext]_vars

FairSwarmSpec == SwarmSpec /\ SwarmFairness

-----------------------------------------------------------------------------
\* Every variable of the data path has its type.
SwarmTypeOK ==
    /\ sent \in [Nodes -> Nums \union {0}]
    /\ sendQ \in [Nodes -> [Topics -> Seq(Nums)]]
    /\ subQ \in [Adapters -> Seq(Message)]
    /\ netQ \in [Adapters -> Seq(Message)]
    /\ recvQ \in [Nodes -> Seq(Message)]
    /\ counter \in [Nodes -> Nat]
    /\ routed \in [Nodes -> Seq([num : Nums, adapterId : Nat \ {0}])]
    /\ received \in
          [Nodes -> Seq([sender : Nodes, num : Nums, adapterId : Nat \ {0}])]

\* In one run a core gives out an id per adapter and per fault (GhostsBounded).
Broadcast == INSTANCE SwarmBroadcast
                WITH Ids <- 1 .. Cardinality(Adapters) + MaxFaults

\* While no core restarts, the swarm is a best-effort broadcast: a message is
\* received by other nodes only, at most once, and in order for each adapter.
IsBroadcast == Broadcast!Spec

\* Also with restarting cores, which hand out their ids anew and so may send a
\* message twice: nobody receives what he sent himself, or what nobody sent.
OnlyOthersMessages ==
    \A n \in Nodes : \A d \in ToSet(received[n]) :
        /\ d.sender # n
        /\ [num |-> d.num, adapterId |-> d.adapterId] \in ToSet(routed[d.sender])

\* All messages that wait somewhere.
InFlight ==
    UNION ({ToSet(q) : q \in {subQ[a] : a \in Adapters}
                              \union {netQ[a] : a \in Adapters}
                              \union {recvQ[n] : n \in Nodes}})

\* A message travels by the type of adapter it was meant for: the adapter that
\* listens under the id the core chose is the one the core chose it for.
ByItsLink == \A a \in Adapters : \A m \in ToSet(subQ[a]) : m.link = TypeOf[a]

\* Pings are answered in broadcast and answers are heard by everybody, yet the
\* traffic a heartbeat sets off dies out: no storm of pongs.
EventuallyQuiet == <>[](InFlight = {})

\* Every adapter process is registered with the running core and forwards.
AllServing ==
    \A a \in Adapters : phase[a] = "serving" /\ Registered(a)

\* What the core of n hands to that entry of its registry gets to m: a living
\* adapter listens under its id (the entry of one that is gone stays in the
\* registry) and m has an adapter on the same network.
Reaches(n, entry, m) ==
    \E a \in ListenersOf(n, entry.id), b \in Adapters :
        NodeOf[b] = m /\ Hears(b) /\ NetOf[b] = NetOf[a]

\* The entry all messages of n are routed by: the first of the type whose link
\* table came last, for no table has a pdr above 0 and the last of equals wins.
Decisive(n) ==
    UNION {FirstOfType(n, linkTables[n][i]) :
              i \in DOMAIN linkTables[n] \cap {Len(linkTables[n])}}

\* After faults, too: when all adapters serve, a message the core has yet to
\* handle reaches every node the decisive entry reaches, unless one of them
\* fails again.  The others lose it although every adapter serves: when that
\* entry is a stale one, of an adapter that has gone and come back under a new
\* id, or when they have no adapter on its network.
ReliableDelivery ==
    \A n, m \in Nodes : \A k \in Nums :
        n # m =>
            (/\ AllServing
             /\ \E e \in Decisive(n) : Reaches(n, e, m)
             /\ k \in ToSet(sendQ[n]["sendMessage.binary"])) ~>
                (\/ \E d \in ToSet(received[m]) : d.sender = n /\ d.num = k
                 \/ ~AllServing)

\* The latency check, after faults, too: when all adapters serve, a ping that
\* reaches an adapter is answered through the first entry of the type it came in
\* on, and the answer reaches the core that asked if that entry reaches it,
\* unless an adapter fails again.  A stale first entry swallows the answer.
PingsAnswered ==
    \A n, m \in Nodes, a \in Adapters, k \in Beats :
        n # m /\ NodeOf[a] = m =>
            (/\ AllServing
             /\ \E p \in ToSet(netQ[a]) :
                   /\ p.kind = "ping" /\ p.sender = n /\ p.num = k
                   /\ \E e \in FirstOfType(m, p.link) : Reaches(m, e, n)) ~>
                (\/ \E p \in ToSet(recvQ[n]) :
                       p.kind = "pong" /\ p.sender = m /\ p.num = k
                 \/ ~AllServing)

\* What the README says of sendMessage.text and receivedMessage.text: that they
\* carry plain text to the other nodes.
TextDelivery ==
    \A n, m \in Nodes : \A k \in Nums :
        n # m =>
            (AllServing /\ k \in ToSet(sendQ[n]["sendMessage.text"])) ~>
                (\E d \in ToSet(received[m]) : d.sender = n /\ d.num = k)
=============================================================================
