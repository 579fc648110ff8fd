SPECIFICATION FairSpec
CONSTANTS
    a1 = a1
    a2 = a2
    a3 = a3
    n1 = n1
    n2 = n2
    Nodes = {n1}
    Adapters = {a1, a2, a3}
    NodeOf <- OneNode
    TypeOf <- OneZenoh
    MaxCoreRuns = 2
    MaxFaults = 1
INVARIANTS
    TypeOK
    TablesMatch
    IssuedByRegistry
    DistinctIds
    GhostsBounded
PROPERTIES
    EventuallyServing
    EventuallyRegistered
CHECK_DEADLOCK FALSE
