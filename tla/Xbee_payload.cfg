SPECIFICATION PayloadSpec
CONSTANTS
    Ids = {0, 1, 128, 255, 256, 21845, 65534}
    BitStrings <- UpToNineBits
    Texts <- MCTexts
    Tests <- MCTests
    PacketSizes = {0, 1, 3}
    POS <- PosType
    MESH_TEST <- MeshTestType
    TEST <- TestType
    Commands = {0, 1, 127, 255, 256, 511, 512}
INVARIANTS
    ReceivedShifted
    SimulationAgrees
    Dispatched
CHECK_DEADLOCK FALSE
