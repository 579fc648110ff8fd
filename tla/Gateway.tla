------------------------------ MODULE Gateway ------------------------------
(***************************************************************************)
(* Remote procedure calls over Uhura (src/nats/packages/gateway): on each  *)
(* node a gateway, which sends the calls of the node's clients to all      *)
(* other nodes and passes those that come from there to the node's         *)
(* services.                                                               *)
(*                                                                         *)
(* The swarm in between is SwarmBroadcast, which UhuraSwarm implements:    *)
(* the cores hand a message to an adapter or drop it, and each other node  *)
(* gets it at most once.  Other applications share its binary messages.    *)
(* A service is as in examples/service.ts: it subscribes to the name of a  *)
(* procedure, and performs the requests that ask for this name.            *)
(***************************************************************************)
EXTENDS ProcedureCodec, FiniteSets

CONSTANTS
    Nodes,       \* the nodes, by their UHURA_CORE_ID
    Clients,     \* the nodes that have clients
    Configured,  \* the nodes whose gateway finds its environment variables
    BROADCAST,   \* the string "broadcast"
    NATS,        \* the procedure type "nats"
    Names,       \* names of procedures: sequences of words
    Procedures,  \* the names each node's services have subscribed to
    Requests,    \* the requests clients ask for, as plain objects
    Responses,   \* the responses clients publish, to procedures they name
    Foreign,     \* payloads of other applications, by what the decoders do
    MaxMessages  \* bound: messages of all clients

ASSUME GatewayAssumption ==
    /\ IsFiniteSet(Nodes)
    /\ Configured \subseteq Nodes /\ Clients \subseteq Nodes
    /\ Nodes \union Names \union {BROADCAST, NATS} \subseteq Strings
    /\ EMPTY \notin Names
    /\ Procedures \in [Nodes -> SUBSET Names]
    /\ Foreign \subseteq [foreign : {TRUE}, req : {"throws", "nothing"},
                          res : {"throws", "nothing"}]
    /\ MaxMessages \in Nat

\* The interfaces of generated.d.ts: a map has finitely many keys.
FiniteMap(message, property) ==
    HasValue(message, property) => IsFiniteSet(DOMAIN message[property])

ASSUME ObjectsAssumption ==
    /\ \A r \in Requests : FiniteMap(r, "inputs")
    /\ \A r \in Responses :
          /\ FiniteMap(r, "outputs")
          /\ HasValue(r, "procedure") /\ HasValue(r.procedure, "name")
          /\ r.procedure.name \in Strings \ {EMPTY}
    /\ \A m \in Requests \union Responses : HasValue(m, "procedure") =>
          FiniteMap(m.procedure, "inputFields") /\ FiniteMap(m.procedure, "outputFields")

\* null is no object: neither a map of strings nor a procedure.
ASSUME NullAssumption ==
    /\ \A K \in SUBSET Strings : NULL \notin [K -> Strings]
    /\ \A m \in Requests \union Responses : HasValue(m, "procedure") =>
          DecodeProcedure(EncodeProcedure(m.procedure)) # NULL

VARIABLES
    gateway,   \* is the node's gateway down, up, or ended by an exception?
    asked,     \* what a node's clients have published, in order
    calls,     \* queue of <core>.callProcedure: places in asked
    routed,    \* SwarmBroadcast: what a core handed to its adapters
    received,  \* SwarmBroadcast: what a core published on receivedMessage.binary
    sent,      \* what has been published on a node's sendMessage.binary
    incoming,  \* queue of <core>.receivedMessage.binary: messages
    inbox,     \* queue of a node's services: the subject, and the message
    handed,    \* history: the calls the node's gateway was handed messages of
    performed  \* history: what services have performed

vars == <<gateway, asked, calls, routed, received, sent, incoming, inbox,
          handed, performed>>

\* One adapter is enough, since no two messages of a node depend on their order.
Swarm == INSTANCE SwarmBroadcast WITH Nums <- 1 .. MaxMessages, Ids <- {1}

-----------------------------------------------------------------------------
Encoded(tokens) == [foreign |-> FALSE, tokens |-> tokens]

\* What clients of the gateway encode, and what others publish as responses.
RequestPayloads == {Encoded(EncodeReq(r)) : r \in Requests}

ResponsePayloads == {Encoded(EncodeRes(r)) : r \in Responses}

\* How many messages clients have published.
Published == Cardinality(UNION {{n} \X DOMAIN asked[n] : n \in Nodes})

\* A payload, with the call it was made for: its caller, and its place in asked.
Message(payload, node, i) == [payload |-> payload, from |-> node, call |-> i]

\* A foreign payload that is decoded gives a message without a procedure.
ReqThrows(payload) == payload.foreign /\ payload.req = "throws"

ResThrows(payload) == payload.foreign /\ payload.res = "throws"

ReqOf(payload) ==
    IF payload.foreign THEN NewReq(NoProperties) ELSE DecodeReq(payload.tokens)

ResOf(payload) ==
    IF payload.foreign THEN NewRes(NoProperties) ELSE DecodeRes(payload.tokens)

\* "if (procedureType.procedure && procedureType.procedure.name)"
NamesProcedure(message, defaults) ==
    LET procedure == Read(message, defaults, "procedure")
    IN procedure # NULL /\ Read(procedure, ProcedureDefaults, "name") # EMPTY

Init ==
    /\ gateway = [n \in Nodes |-> "down"]
    /\ asked = [n \in Nodes |-> <<>>]
    /\ calls = [n \in Nodes |-> <<>>]
    /\ Swarm!Init
    /\ sent = [n \in Nodes |-> <<>>]
    /\ incoming = [n \in Nodes |-> <<>>]
    /\ inbox = [n \in Nodes |-> <<>>]
    /\ handed = [n \in Nodes |-> {}]
    /\ performed = <<>>

\* Mutant: an ended loop leaves the process, and its subscriptions, behind.
SubscribedOnceStarted(n) == gateway[n] # "down"

\* Both subscriptions live as long as the process.
Subscribed(n) == gateway[n] = "up"

\* checkEnvs, connect, setup: both subscriptions are made at once.
Start(n) ==
    /\ n \in Configured
    /\ gateway[n] = "down"
    /\ gateway' = [gateway EXCEPT ![n] = "up"]
    /\ UNCHANGED <<asked, calls, routed, received, sent, incoming, inbox,
                   handed, performed>>

\* The core of n routes a message published on its sendMessage.binary.
Publish(n, message) ==
    /\ Swarm!Route(n)
    /\ Last(routed'[n]).num = Len(sent[n]) + 1
    /\ sent' = [sent EXCEPT ![n] = Append(@, message)]

\* A client of n asks for a procedure; with its gateway down, nobody hears it.
\* The payload may also be one the gateway cannot decode.
ClientCall(n) ==
    /\ n \in Clients /\ Published < MaxMessages
    /\ \E payload \in RequestPayloads \union {p \in Foreign : ReqThrows(p)} :
          asked' = [asked EXCEPT ![n] = Append(@, payload)]
    /\ calls' = IF Subscribed(n)
                THEN [calls EXCEPT ![n] = Append(@, Len(asked'[n]))]
                ELSE calls
    /\ UNCHANGED <<gateway, routed, received, sent, incoming, inbox, handed,
                   performed>>

\* A client of n publishes a response, or a message of its own, to all.
ClientSend(n) ==
    /\ n \in Clients /\ Published < MaxMessages
    /\ \E payload \in ResponsePayloads \union Foreign :
          /\ asked' = [asked EXCEPT ![n] = Append(@, payload)]
          /\ Publish(n, Message(payload, n, Len(asked[n]) + 1))
    /\ UNCHANGED <<gateway, calls, received, incoming, inbox, handed, performed>>

\* Mutant: the sender a client has written is kept.
AsClientWrote(req, n) == req

\* procedureReq.senderUhuraId = this.uhura_core_id
Signed(req, n) == Set(req, "senderUhuraId", n)

\* The loop of setupProcedureCaller: a request with a receiver is sent to all,
\* one without or a payload that is none is dropped, and nobody told.
TakeCall(n) ==
    /\ gateway[n] = "up"
    /\ calls[n] # <<>>
    /\ calls' = [calls EXCEPT ![n] = Tail(@)]
    /\ LET i == Head(calls[n])
           payload == asked[n][i]
           req == Signed(ReqOf(payload), n)
       IN IF ReqThrows(payload) \/ Read(req, ReqDefaults, "receiverUhuraId") = EMPTY
          THEN UNCHANGED <<routed, sent>>
          ELSE Publish(n, Message(Encoded(EncodeReq(req)), n, i))
    /\ UNCHANGED <<gateway, asked, received, incoming, inbox, handed, performed>>

\* A message of another node arrives, and the gateway gets it if it is up.
Deliver(n) ==
    /\ Swarm!Deliver(n)
    /\ IF Subscribed(n)
       THEN LET d == Last(received'[n])
                message == sent[d.sender][d.num]
            IN /\ incoming' = [incoming EXCEPT ![n] = Append(@, message)]
               /\ handed' = [handed EXCEPT ![n] =
                                @ \union {<<message.from, message.call>>}]
       ELSE UNCHANGED <<incoming, handed>>
    /\ UNCHANGED <<gateway, asked, calls, sent, inbox, performed>>

-----------------------------------------------------------------------------
\* Mutant: what is not for this node is not skipped.
ForAnyNode(req, n) == TRUE

ForNode(req, n) == Read(req, ReqDefaults, "receiverUhuraId") \in {BROADCAST, n}

\* subject.replace("broadcast", this.uhura_core_id): the first one only.
Replaced(name, n) ==
    [i \in DOMAIN name |->
        IF name[i] = BROADCAST /\ \A j \in 1 .. i - 1 : name[j] # BROADCAST
        THEN n ELSE name[i]]

\* The subject a request is passed on, resolved if it is for all nodes.
Subject(req, n) ==
    LET name == Read(req.procedure, ProcedureDefaults, "name")
    IN IF Read(req, ReqDefaults, "receiverUhuraId") = BROADCAST
       THEN Replaced(name, n) ELSE name

\* handleProcedureReq: the message is published, as it came, on the subject.
handleProcedureReq(n, req, message) ==
    IF /\ Read(req.procedure, ProcedureDefaults, "type") = NATS
       /\ ForNode(req, n)
       /\ Subject(req, n) \in Procedures[n]
    THEN inbox' = [inbox EXCEPT ![n] =
                      Append(@, [subject |-> Subject(req, n), message |-> message])]
    ELSE UNCHANGED inbox

\* Mutant: the procedure is not looked at before its name is.
NoNameToRead(payload) ==
    \/ ReqThrows(payload) /\ ResThrows(payload)
    \/ /\ ~ReqThrows(payload)
       /\ Read(ReqOf(payload), ReqDefaults, "procedure") = NULL

\* Neither decoder takes it: procedureType is undefined, and reading its
\* procedure raises an exception that nobody catches.
EndsGateway(payload) == ReqThrows(payload) /\ ResThrows(payload)

\* The loop of handleRemoteProcedureCalls.  ProcedureReq is tried first; what
\* only ProcedureRes can decode ends in handleProcedureRes, which does nothing.
TakeMessage(n) ==
    /\ gateway[n] = "up"
    /\ incoming[n] # <<>>
    /\ \E message \in {Head(incoming[n])} :
          IF EndsGateway(message.payload)
          THEN /\ gateway' = [gateway EXCEPT ![n] = "ended"]
               /\ calls' = [calls EXCEPT ![n] = <<>>]
               /\ incoming' = [incoming EXCEPT ![n] = <<>>]
               /\ UNCHANGED inbox
          ELSE /\ incoming' = [incoming EXCEPT ![n] = Tail(@)]
               /\ UNCHANGED <<gateway, calls>>
               /\ IF ReqThrows(message.payload) THEN UNCHANGED inbox
                  ELSE \E req \in {ReqOf(message.payload)} :
                          IF NamesProcedure(req, ReqDefaults)
                          THEN handleProcedureReq(n, req, message)
                          ELSE UNCHANGED inbox
    /\ UNCHANGED <<asked, routed, received, sent, handed, performed>>

\* A service of n decodes a message and performs what has the name it provides.
\* One that does not decode or has another name is dropped.
Serve(n) ==
    /\ inbox[n] # <<>>
    /\ inbox' = [inbox EXCEPT ![n] = Tail(@)]
    /\ \E call \in {Head(inbox[n])} : \E req \in {ReqOf(call.message.payload)} :
          performed' =
              IF Read(req.procedure, ProcedureDefaults, "name") = call.subject
              THEN Append(performed, [at |-> n, from |-> call.message.from,
                                      call |-> call.message.call, req |-> req])
              ELSE performed
    /\ UNCHANGED <<gateway, asked, calls, routed, received, sent, incoming,
                   handed>>

Next ==
    \E n \in Nodes :
        \/ Start(n) \/ ClientCall(n) \/ ClientSend(n)
        \/ TakeCall(n) \/ Deliver(n) \/ TakeMessage(n) \/ Serve(n)

\* The event loops of gateways and services handle what is queued.  The swarm
\* may lose any message, and nobody has to start a gateway or to call.
Fairness ==
    \A n \in Nodes :
        WF_vars(TakeMessage(n)) /\ WF_vars(Serve(n))

Spec == Init /\ [][Next]_vars /\ Fairness

-----------------------------------------------------------------------------
\* A message some node has published to all.
IsSent(message) == \E n \in Nodes : message \in ToSet(sent[n])

\* Queues hold messages that were sent, and a gateway that is not up has none.
TypeOK ==
    /\ gateway \in [Nodes -> {"down", "up", "ended"}]
    /\ Published <= MaxMessages
    /\ \A n \in Nodes :
          /\ Len(sent[n]) <= Len(asked[n])
          /\ Len(sent[n]) = Len(routed[n])
          /\ ToSet(calls[n]) \subseteq DOMAIN asked[n]
          /\ \A call \in handed[n] : call[2] \in DOMAIN asked[call[1]]
          /\ \A message \in ToSet(incoming[n]) : IsSent(message)
          /\ \A call \in ToSet(inbox[n]) :
                call.subject \in Procedures[n] /\ IsSent(call.message)
          /\ gateway[n] # "up" => calls[n] = <<>> /\ incoming[n] = <<>>

\* What the client of a performed call has asked for.
AskedFor(p) == DecodeReq(asked[p.from][p.call].tokens)

\* A procedure is performed at the node it was asked of, or at others than the
\* caller's if all were asked, where a service provides it, and once at each.
RunsWhereAsked ==
    \A i \in DOMAIN performed :
        LET p == performed[i]
            receiver == Read(AskedFor(p), ReqDefaults, "receiverUhuraId")
        IN /\ receiver \in {p.at, BROADCAST}
           /\ p.at # p.from
           /\ Read(p.req.procedure, ProcedureDefaults, "name") \in Procedures[p.at]
           /\ \A j \in DOMAIN performed : j # i =>
                 \/ performed[j].at # p.at
                 \/ performed[j].from # p.from
                 \/ performed[j].call # p.call

\* A service sees the node that called as the sender, whatever the client wrote
\* there, and otherwise what the client asked for: through two encodings and
\* decodings nothing is lost or mixed up.
ArrivesAsAsked ==
    \A i \in DOMAIN performed :
        \A property \in DOMAIN ReqDefaults :
            Read(performed[i].req, ReqDefaults, property) =
                IF property = "senderUhuraId" THEN performed[i].from
                ELSE Read(AskedFor(performed[i]), ReqDefaults, property)

\* Each response that waits at a gateway is one its own decoder would read a
\* procedure from.  The gateway tries the request's first, which takes it for
\* a request without a procedure: it is dropped, and ends no gateway.
ResponsesPassUnread ==
    \A n \in Nodes : \A message \in ToSet(incoming[n]) :
        LET payload == message.payload IN
        payload \in ResponsePayloads =>
            /\ NamesProcedure(ResOf(payload), ResDefaults)
            /\ ~NamesProcedure(ReqOf(payload), ReqDefaults)
            /\ ~EndsGateway(payload)

\* The i-th message of m's clients is a request n has to perform.
IsFor(m, i, n) ==
    LET payload == asked[m][i]
        req == DecodeReq(payload.tokens)
    IN /\ payload \in RequestPayloads
       /\ Read(req.procedure, ProcedureDefaults, "type") = NATS
       /\ Read(req, ReqDefaults, "receiverUhuraId") \in {n, BROADCAST}
       /\ Read(req.procedure, ProcedureDefaults, "name") \in Procedures[n]

IsPerformed(m, i, n) ==
    \E p \in ToSet(performed) : p.at = n /\ p.from = m /\ p.call = i

\* A gateway is ended by a payload of another node that neither decoder takes,
\* and by nothing else.
EndedByForeign(n) ==
    /\ gateway[n] = "ended"
    /\ \E d \in ToSet(received[n]) : sent[d.sender][d.num].payload \in
          {p \in Foreign : p.req = "throws" /\ p.res = "throws"}

\* A call that has reached the gateway of a node it is for is performed there
\* in the end, unless another application's message has ended that gateway.
CallsServed ==
    []<>(\A n \in Nodes : \A call \in handed[n] :
            IsFor(call[1], call[2], n) =>
                IsPerformed(call[1], call[2], n) \/ EndedByForeign(n))
=============================================================================
