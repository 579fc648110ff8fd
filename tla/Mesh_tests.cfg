SPECIFICATION FairSpec
CONSTANTS
    n1 = n1
    n2 = n2
    c1 = c1
    c2 = c2
    t1 = t1
    t2 = t2
    Nodes = {n1, n2}
    Connections = {c1, c2}
    Runners = {t1, t2}
    Asks <- MCAsks
    MaxTests <- FirstTwice
    MaxFaults = 1
INVARIANTS
    TypeOK
    EventsHaveThreads
    SoloTestExact
    SpreadsOnce
PROPERTIES
    TestsEnd
CHECK_DEADLOCK FALSE
