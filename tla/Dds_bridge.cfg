SPECIFICATION Spec
CONSTANTS
    n1 = n1
    n2 = n2
    Nodes = {n1, n2}
    Depth = 1
    MaxMessages = 2
SYMMETRY NodeSymmetry
INVARIANT BridgedOnce
CHECK_DEADLOCK FALSE
