\* Does the temp file keep partial lines out of the ledger?
SPECIFICATION Spec
CONSTANTS
    Calls = {e1, e2}
    ClaimCalls = {}
    Faults = {"torn"}
    MaxCrashes = 1
    Genesis = genesis
    Free = free
INVARIANT NoPartialLine
CHECK_DEADLOCK FALSE
