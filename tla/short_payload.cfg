\* Is the payload an entry refers to complete?
SPECIFICATION Spec
CONSTANTS
    Calls = {e1, e2}
    ClaimCalls = {}
    Faults = {"short"}
    MaxCrashes = 0
    Genesis = genesis
    Free = free
INVARIANT EntryPayloadComplete
CHECK_DEADLOCK FALSE
