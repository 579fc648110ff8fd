SPECIFICATION Spec
CONSTANTS
    s1 = s1
    s2 = s2
    Undefined = Undefined
    Senders = {s1, s2}
    MaxFrames = 2
    TEN_SECONDS = 4
    Cadences = {1, 2}
    Fallback = 1
    Offsets <- OneAheadOrBehind
    MaxTime = 9
    MaxHeard <- OftenAndOnce
INVARIANTS
    KeepsNewest
    SilentLinkDecays
    WindowSuffices
    FullLink
    SilentWeighOnMean
CHECK_DEADLOCK FALSE
