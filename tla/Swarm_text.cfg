SPECIFICATION FairSwarmSpec
CONSTANTS
    n1 = n1
    n2 = n2
    a1 = a1
    a2 = a2
    a3 = a3
    Nodes = {n1, n2}
    Adapters = {a1, a2}
    NodeOf <- MCNodeOf
    TypeOf <- MCTypeOf
    NetOf <- MCNetOf
    DirectAdapters <- MCDirectAdapters
    LossyNets = {}
    Topics = {"sendMessage.text"}
    MaxCoreRuns = 1
    MaxFaults = 0
    MaxSends <- FirstOnce
    MaxBeats <- None
    PingPeriod = 5
PROPERTIES
    TextDelivery
CHECK_DEADLOCK FALSE
