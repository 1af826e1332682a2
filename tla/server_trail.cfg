\* The refinement and liveness, with partial writes that lose more than the newline.
SPECIFICATION FairSpec
CONSTANTS
    Calls = {e1, e2, f1}
    ClaimCalls = {f1}
    Faults = {"torn", "short"}
    MaxCrashes = 1
    Genesis = genesis
    Free = free
INVARIANT AnsweredCitable
PROPERTIES
    ImplementsTrail
    EveryCallEnds
CHECK_DEADLOCK FALSE
