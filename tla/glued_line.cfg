\* Is an answered call citable when only a newline was lost?
SPECIFICATION Spec
CONSTANTS
    Calls = {e1, e2}
    ClaimCalls = {}
    Faults = {"unterminated"}
    MaxCrashes = 1
    Genesis = genesis
    Free = free
INVARIANT AnsweredCitable
CHECK_DEADLOCK FALSE
