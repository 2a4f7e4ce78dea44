SPECIFICATION FairSpec
CONSTANTS
    Root = Root NoInv = NoInv
    c1 = c1 c2 = c2 c3 = c3
    Calls = {c1, c2, c3}
    Confirmed = {c3}
    Cap = 1
    Passive = FALSE
INVARIANT NothingLeftOpen
PROPERTIES NoWorkAfterStop PassEnds
CHECK_DEADLOCK FALSE
