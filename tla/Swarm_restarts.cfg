SPECIFICATION SwarmSpec
CONSTANTS
    n1 = n1
    n2 = n2
    a1 = a1
    a2 = a2
    a3 = a3
    Nodes = {n1, n2}
    Adapters = {a1, a2, a3}
    NodeOf <- MCNodeOf
    TypeOf <- MCTypeOf
    NetOf <- MCNetOf
    DirectAdapters <- MCDirectAdapters
    LossyNets = {}
    Topics = {"sendMessage.binary"}
    MaxCoreRuns = 2
    MaxFaults = 1
    MaxSends <- FirstOnce
    MaxBeats <- None
    PingPeriod = 2
INVARIANTS
    OnlyOthersMessages
CHECK_DEADLOCK FALSE
