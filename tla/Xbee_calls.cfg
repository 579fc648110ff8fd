SPECIFICATION Spec
CONSTANTS
    c1 = c1
    c2 = c2
    p1 = p1
    p2 = p2
    None = None
    Callers = {c1, c2}
    NoPort = None
    PortParams <- AnyParam
    SerialPorts <- TwoPorts
    IdModulus = 3
    MaxCalls = 4
SYMMETRY CallerSymmetry
INVARIANTS
    TypeOK
    NeverAhead
    NumberedInOrder
    ReadyAfterSetup
CHECK_DEADLOCK FALSE
