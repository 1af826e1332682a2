\* Two get_* calls and a claim, two restarts, every fault.
SPECIFICATION Spec
CONSTANTS
    Calls = {e1, e2, f1}
    ClaimCalls = {f1}
    Faults = {"torn", "unterminated", "short", "nameless"}
    MaxCrashes = 2
    Genesis = genesis
    Free = free
SYMMETRY Symmetry
INVARIANTS
    IInv
    ChainLinked
    SerialBodies
    EntryHasPayload
    AnsweredCommitted
    ClaimsGrounded
    OrphanReported
PROPERTIES
    SettledForever
    CorruptFrozen
CHECK_DEADLOCK FALSE
