SPECIFICATION SwarmSpec
CONSTANTS
    n1 = n1
    n2 = n2
    a1 = a1
    a2 = a2
    a3 = a3
    Nodes = {n1, n2}
    Adapters = {a1, a2, a3}
    NodeOf <- MCNodeOf
    TypeOf <- MCTypeOf
    NetOf <- MCNetOf
    DirectAdapters <- MCDirectAdapters
    LossyNets = {"lan"}
    Topics = {"sendMessage.binary"}
    MaxCoreRuns = 1
    MaxFaults = 1
    MaxSends <- FirstTwiceSecondOnce
    MaxBeats <- None
    PingPeriod = 5
INVARIANTS
    SwarmTypeOK
    ByItsLink
PROPERTIES
    IsBroadcast
CHECK_DEADLOCK FALSE
