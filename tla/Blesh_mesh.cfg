SPECIFICATION Spec
CONSTANTS
    base = base
    uav1 = uav1
    uav2 = uav2
    rosUav = rosUav
    rosBase = rosBase
    ip = ip
    EVERYBODY = EVERYBODY
    NoAddress = NoAddress
    Nodes <- MCNodes
    Adapter <- MCAdapter
    Drones = {uav1, uav2, rosUav}
    RemoteHost <- MCRemoteHost
    Count = 3
    MaxSends = 2
INVARIANTS TestPackets FramesMatchEmitted
PROPERTY TestCompletes
CHECK_DEADLOCK FALSE
