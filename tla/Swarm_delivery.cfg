SPECIFICATION FairSwarmSpec
CONSTANTS
    n1 = n1
    n2 = n2
    a1 = a1
    a2 = a2
    a3 = a3
    Nodes = {n1, n2}
    Adapters = {a1, a2, a3}
    NodeOf <- MCNodeOf
    TypeOf <- MCTypeOf
    NetOf <- MCNetOf
    DirectAdapters <- MCDirectAdapters
    LossyNets = {}
    Topics = {"sendMessage.binary", "sendMessage"}
    MaxCoreRuns = 1
    MaxFaults = 1
    MaxSends <- FirstOnce
    MaxBeats <- SecondOnce
    PingPeriod = 2
PROPERTIES
    ReliableDelivery
    PingsAnswered
    EventuallyQuiet
CHECK_DEADLOCK FALSE
