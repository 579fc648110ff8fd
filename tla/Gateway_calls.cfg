SPECIFICATION Spec
CONSTANTS
    alpha = alpha
    beta = beta
    gamma = gamma
    broadcast = broadcast
    nats = nats
    ros = ros
    svc = svc
    input = input
    given = given
    empty = empty
    garbled = garbled
    NULL = NULL
    EMPTY = empty
    GARBLED = garbled
    BROADCAST = broadcast
    NATS = nats
    Strings <- MCStrings
    Nodes <- MCNodes
    Clients <- MCClients
    Configured <- MCNodes
    Names <- MCNames
    Procedures <- MCProcedures
    Requests <- MCRequests
    Responses <- MCResponses
    Foreign <- MCForeign
    MaxMessages = 2
INVARIANTS TypeOK RunsWhereAsked ArrivesAsAsked ResponsesPassUnread
PROPERTY CallsServed
CHECK_DEADLOCK FALSE
