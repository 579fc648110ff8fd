------------------------ MODULE AdapterRegistration ------------------------
(***************************************************************************)
(* How the adapters of a node register with its Uhura core.                *)
(*                                                                         *)
(* A node runs one core (src/nats/core) and some adapters                  *)
(* (src/nats/adapters/direct, .../zenoh), processes of their own that      *)
(* supervisord restarts when they exit.  An adapter connects to the NATS   *)
(* server of its node, requests <core>.registerAdapter, and from the reply *)
(* learns the id under which it listens to <core>.<id>.sendMessage.  The   *)
(* core keeps the registry and one link table per adapter type in memory   *)
(* only, and never unregisters anybody.                                    *)
(*                                                                         *)
(* The NATS server itself is external and always up: it queues the         *)
(* requests of a subscription in order, refuses a request nobody is        *)
(* subscribed to, and carries a reply to the inbox of one request.         *)
(***************************************************************************)
EXTENDS Naturals, FiniteSets, Sequences, SequencesExt

CONSTANTS
    Nodes,        \* the cores, by their ID
    Adapters,     \* the adapter processes
    NodeOf,       \* the core an adapter is started for (its env ID)
    TypeOf,       \* the adapter type it announces (env ADAPTER_TYPE, "zenoh")
    MaxCoreRuns,  \* bound: how often the core of a node is started
    MaxFaults     \* bound: adapter crashes and premature timeouts in all

ASSUME NodesAssumption ==
    /\ NodeOf \in [Adapters -> Nodes]
    /\ DOMAIN TypeOf = Adapters
    /\ IsFiniteSet(Adapters)

ASSUME BoundsAssumption ==
    /\ MaxCoreRuns \in Nat \ {0}
    /\ MaxFaults \in Nat

Types == {TypeOf[a] : a \in Adapters}

VARIABLES
    coreUp,         \* is the core process of a node subscribed and running?
    coreRun,        \* ghost: which incarnation of the core that is
    progressiveId,  \* the registry's id counter
    adapter_list,   \* the registry: its adapters in registration order
    linkTables,     \* the types with a link table, in insertion order
    requests,       \* registerAdapter requests waiting for the core
    phase,          \* where an adapter process is in its start-up
    requestNo,      \* requests an adapter has made: each has its reply inbox
    assigned,       \* the registration the core gave an adapter, if any
    faults          \* faults spent so far

coreVars == <<coreUp, coreRun, progressiveId, adapter_list, linkTables>>
adapterVars == <<phase, requestNo, assigned>>
regVars == <<coreVars, requests, adapterVars, faults>>

-----------------------------------------------------------------------------
Phases == {"down", "booting", "waiting", "serving"}

\* A registry entry.  The core knows id and type; whose request it was is a
\* ghost, for the name an adapter sends is the same for all of a node.
Entry == [id : Nat \ {0}, type : Types, adapter : Adapters, req : Nat]

Request == [adapter : Adapters, req : Nat]

Registration == [id : Nat, run : Nat]

Unregistered == [id |-> 0, run |-> 0]

TypesListed(n) == {adapter_list[n][i].type : i \in DOMAIN adapter_list[n]}

-----------------------------------------------------------------------------
Init ==
    /\ coreUp = [n \in Nodes |-> FALSE]
    /\ coreRun = [n \in Nodes |-> 0]
    /\ progressiveId = [n \in Nodes |-> 0]
    /\ adapter_list = [n \in Nodes |-> <<>>]
    /\ linkTables = [n \in Nodes |-> <<>>]
    /\ requests = [n \in Nodes |-> <<>>]
    /\ phase = [a \in Adapters |-> "down"]
    /\ requestNo = [a \in Adapters |-> 0]
    /\ assigned = [a \in Adapters |-> Unregistered]
    /\ faults = 0

\* The core process comes up: all its subscriptions are made in one go, after
\* its last await, over an empty registry.
CoreStart(n) ==
    /\ ~coreUp[n]
    /\ coreRun[n] < MaxCoreRuns
    /\ coreUp' = [coreUp EXCEPT ![n] = TRUE]
    /\ coreRun' = [coreRun EXCEPT ![n] = @ + 1]
    /\ UNCHANGED <<progressiveId, adapter_list, linkTables, requests,
                   adapterVars, faults>>

\* The core process dies.  The registry, the link tables and the requests on
\* their way to it are gone, and so may be replies it had just written.
CoreCrash(n) ==
    /\ coreUp[n]
    /\ coreRun[n] < MaxCoreRuns
    /\ coreUp' = [coreUp EXCEPT ![n] = FALSE]
    /\ progressiveId' = [progressiveId EXCEPT ![n] = 0]
    /\ adapter_list' = [adapter_list EXCEPT ![n] = <<>>]
    /\ linkTables' = [linkTables EXCEPT ![n] = <<>>]
    /\ requests' = [requests EXCEPT ![n] = <<>>]
    /\ \E lost \in SUBSET {a \in Adapters : NodeOf[a] = n /\ phase[a] = "waiting"} :
          assigned' = [a \in Adapters |->
                          IF a \in lost THEN Unregistered ELSE assigned[a]]
    /\ UNCHANGED <<coreRun, phase, requestNo, faults>>

-----------------------------------------------------------------------------
\* Mutant: the counter is read, then incremented (return this.progressiveId++).
ReadBeforeIncrement(n) == progressiveId[n]

\* Mutant: ids count the adapters in service, not the registrations.
CountOfServing(n) ==
    Cardinality({a \in Adapters : NodeOf[a] = n /\ phase[a] = "serving"}) + 1

\* AdaptersRegistry.generateAdapterId: the counter is incremented, then read.
generateAdapterId(n) == progressiveId[n] + 1

\* Mutant: the first adapter's table is made, and shared by all types.
OnlyFirstTable(tables, type) == IF tables = <<>> THEN <<type>> ELSE tables

\* linkTables[type] = new LinkTable(100): a JavaScript object keeps the place
\* of a key that is already there.
WithTable(tables, type) ==
    IF type \in ToSet(tables) THEN tables ELSE Append(tables, type)

\* Mutant: any reply is taken for that of the request now waiting.
AnyReplyTaken(r) == phase[r.adapter] = "waiting"

\* Does the reply to request r still find its requester waiting for it?
Awaited(r) == phase[r.adapter] = "waiting" /\ requestNo[r.adapter] = r.req

\* The core's registerAdapter callback, which runs to its end: enter the
\* adapter in the registry, reply, and make the link table of its type.
CoreRegister(n) ==
    /\ coreUp[n]
    /\ requests[n] # <<>>
    /\ LET r == Head(requests[n])
           id == generateAdapterId(n)
           entry == [id |-> id, type |-> TypeOf[r.adapter],
                     adapter |-> r.adapter, req |-> r.req]
       IN /\ progressiveId' = [progressiveId EXCEPT ![n] = @ + 1]
          /\ adapter_list' = [adapter_list EXCEPT ![n] = Append(@, entry)]
          /\ linkTables' = [linkTables EXCEPT ![n] = WithTable(@, entry.type)]
          /\ assigned' = IF Awaited(r)
                         THEN [assigned EXCEPT ![r.adapter] =
                                  [id |-> id, run |-> coreRun[n]]]
                         ELSE assigned
    /\ requests' = [requests EXCEPT ![n] = Tail(@)]
    /\ UNCHANGED <<coreUp, coreRun, phase, requestNo, faults>>

-----------------------------------------------------------------------------
\* Mutant: the program is started once (autorestart=false).
StartOnlyOnce(a) ==
    /\ phase[a] = "down"
    /\ requestNo[a] = 0
    /\ phase' = [phase EXCEPT ![a] = "booting"]
    /\ UNCHANGED <<coreVars, requests, requestNo, assigned, faults>>

\* supervisord starts an adapter process, and starts it again when it exits.
AdapterStart(a) ==
    /\ phase[a] = "down"
    /\ phase' = [phase EXCEPT ![a] = "booting"]
    /\ UNCHANGED <<coreVars, requests, requestNo, assigned, faults>>

\* The start-up delay is over: request <core>.registerAdapter.  With no core
\* subscribed NATS answers "no responders", and the rejection ends the process.
AdapterRequest(a) ==
    LET n == NodeOf[a] IN
    /\ phase[a] = "booting"
    /\ \/ /\ coreUp[n]
          /\ phase' = [phase EXCEPT ![a] = "waiting"]
          /\ requestNo' = [requestNo EXCEPT ![a] = @ + 1]
          /\ requests' = [requests EXCEPT ![n] =
                Append(@, [adapter |-> a, req |-> requestNo[a] + 1])]
       \/ /\ ~coreUp[n]
          /\ phase' = [phase EXCEPT ![a] = "down"]
          /\ UNCHANGED <<requestNo, requests>>
    /\ UNCHANGED <<coreVars, assigned, faults>>

\* Mutant: a request the core has not handled yet counts as lost.
OnlyRepliesPending(a) == assigned[a].id # 0

\* Is an answer to the request a is waiting for still to come?
AnswerPending(a) ==
    \/ assigned[a].id # 0
    \/ [adapter |-> a, req |-> requestNo[a]] \in ToSet(requests[NodeOf[a]])

\* The process exits; what it had requested stays where it is.
Exit(a) ==
    /\ phase' = [phase EXCEPT ![a] = "down"]
    /\ assigned' = [assigned EXCEPT ![a] = Unregistered]
    /\ UNCHANGED <<coreVars, requests, requestNo>>

\* Mutant: the request has no timeout.
WaitForever(a) == phase[a] = "waiting" /\ FALSE /\ UNCHANGED regVars

\* The request times out because its answer was lost with the core.
AdapterTimeout(a) ==
    /\ phase[a] = "waiting"
    /\ ~AnswerPending(a)
    /\ Exit(a)
    /\ UNCHANGED faults

\* The request times out though its answer is on its way: the core was slow.
AdapterGiveUp(a) ==
    /\ phase[a] = "waiting"
    /\ AnswerPending(a)
    /\ faults < MaxFaults
    /\ Exit(a)
    /\ faults' = faults + 1

\* The reply arrives: the adapter subscribes to <core>.<id>.sendMessage.
AdapterAccept(a) ==
    /\ phase[a] = "waiting"
    /\ assigned[a].id # 0
    /\ phase' = [phase EXCEPT ![a] = "serving"]
    /\ UNCHANGED <<coreVars, requests, requestNo, assigned, faults>>

\* The adapter process dies, at any other point of its life.
AdapterCrash(a) ==
    /\ phase[a] \in {"booting", "serving"}
    /\ faults < MaxFaults
    /\ Exit(a)
    /\ faults' = faults + 1

-----------------------------------------------------------------------------
Next ==
    \/ \E n \in Nodes : CoreStart(n) \/ CoreCrash(n) \/ CoreRegister(n)
    \/ \E a \in Adapters :
          \/ AdapterStart(a) \/ AdapterRequest(a) \/ AdapterAccept(a)
          \/ AdapterTimeout(a) \/ AdapterGiveUp(a) \/ AdapterCrash(a)

\* supervisord restarts what exits; a process that can step, steps; a request
\* whose answer is lost times out.  Nothing makes a process fail.
Fairness ==
    /\ \A n \in Nodes :
          WF_regVars(CoreStart(n)) /\ WF_regVars(CoreRegister(n))
    /\ \A a \in Adapters :
          /\ WF_regVars(AdapterStart(a)) /\ WF_regVars(AdapterRequest(a))
          /\ WF_regVars(AdapterAccept(a)) /\ WF_regVars(AdapterTimeout(a))

Spec == Init /\ [][Next]_regVars

FairSpec == Spec /\ Fairness

-----------------------------------------------------------------------------
\* Every variable has its type: node and adapter indexed records, ids from 1.
TypeOK ==
    /\ coreUp \in [Nodes -> BOOLEAN]
    /\ coreRun \in [Nodes -> Nat]
    /\ progressiveId \in [Nodes -> Nat]
    /\ adapter_list \in [Nodes -> Seq(Entry)]
    /\ linkTables \in [Nodes -> Seq(Types)]
    /\ requests \in [Nodes -> Seq(Request)]
    /\ phase \in [Adapters -> Phases]
    /\ requestNo \in [Adapters -> Nat]
    /\ assigned \in [Adapters -> Registration]
    /\ faults \in 0 .. MaxFaults

\* The core chooses a link table by type and then an adapter of that type, and
\* on a ping the adapter first and then the table, without looking whether the
\* other exists: the types in the registry are those with a link table.
TablesMatch == \A n \in Nodes : TypesListed(n) = ToSet(linkTables[n])

\* Is a holding the id the running core of its node gave it?
Registered(a) ==
    LET n == NodeOf[a] IN
    /\ coreUp[n]
    /\ assigned[a].id # 0
    /\ assigned[a].run = coreRun[n]

\* Whoever holds an id of the running core is the adapter the core entered
\* under that id, for the request it made last: a reply to an earlier request
\* never reaches a process that was restarted since.
IssuedByRegistry ==
    \A a \in Adapters : Registered(a) =>
        LET list == adapter_list[NodeOf[a]] IN
        \E i \in DOMAIN list : /\ list[i].id = assigned[a].id
                               /\ list[i].adapter = a
                               /\ list[i].req = requestNo[a]

\* Two adapters that hold ids of the same run of a core hold different ids, so
\* each subject <core>.<id>.sendMessage of that run has at most one listener.
DistinctIds ==
    \A a, b \in Adapters :
        /\ a # b
        /\ NodeOf[a] = NodeOf[b]
        /\ assigned[a].id # 0
        /\ assigned[b].id # 0
        /\ assigned[a].run = assigned[b].run
        => assigned[a].id # assigned[b].id

\* Nothing is ever unregistered (unregisterAdapter is a stub), but the entries
\* nobody listens to come from faults only, one each: the registry the core
\* walks on every heartbeat does not grow by itself.
GhostsBounded ==
    \A n \in Nodes :
        Len(adapter_list[n]) <=
            Cardinality({a \in Adapters : NodeOf[a] = n}) + faults

\* Whatever crashed, and in whatever order the processes were started, every
\* adapter gets through its registration in the end and stays.
EventuallyServing == \A a \in Adapters : <>[](phase[a] = "serving")

\* As long as its core does not restart, every adapter ends up under an id the
\* core knows, however often the adapter itself crashed or timed out.
EventuallyRegistered ==
    \A a \in Adapters :
        [](coreRun[NodeOf[a]] <= 1) => <>[](phase[a] = "serving" /\ Registered(a))
=============================================================================
