----------------------------- MODULE MCGateway -----------------------------
(***************************************************************************)
(* Three nodes with a service each, of which two have clients.             *)
(***************************************************************************)
EXTENDS Gateway

CONSTANTS alpha, beta, gamma, broadcast, nats, ros, svc, input, given, empty, garbled

MCNodes == {alpha, beta, gamma}
MCClients == {alpha, beta}
MCNames == (MCNodes \union {broadcast}) \X {svc}
MCStrings == MCNodes \union MCNames
                 \union {broadcast, nats, ros, input, given, empty, garbled}
MCProcedures == [n \in MCNodes |-> {<<n, svc>>}]

Descriptor(type, name) ==
    [type |-> type, name |-> name, reply |-> FALSE, inputFields |-> NULL]

Request(receiver, procedure) ==
    [receiverUhuraId |-> receiver, procedure |-> procedure, inputs |-> NULL]

\* As in caller.ts; with inputs and a sender of the client's own; of all nodes;
\* by the name resolved at each; of another type; of a node that does not have
\* the procedure; and without a receiver.
MCRequests ==
    {Request(beta, Descriptor(nats, <<beta, svc>>)),
     [Request(alpha, Descriptor(nats, <<alpha, svc>>))
         EXCEPT !.inputs = input :> given] @@ [senderUhuraId |-> beta],
     Request(broadcast, Descriptor(nats, <<alpha, svc>>)),
     Request(broadcast, Descriptor(nats, <<broadcast, svc>>)),
     Request(alpha, Descriptor(ros, <<alpha, svc>>)),
     Request(beta, Descriptor(nats, <<gamma, svc>>)),
     Request(empty, Descriptor(nats, <<beta, svc>>))}

MCResponses ==
    {[procedure |-> Descriptor(nats, <<beta, svc>>), outputs |-> input :> given]}

MCForeign == {[foreign |-> TRUE, req |-> "throws", res |-> "throws"],
              [foreign |-> TRUE, req |-> "throws", res |-> "nothing"],
              [foreign |-> TRUE, req |-> "nothing", res |-> "throws"]}
=============================================================================
