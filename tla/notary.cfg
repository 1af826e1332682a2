CONSTANTS
    Calls = {c1, c2}
    Genesis = Genesis
    Stampers = {s1, s2}
    Wrapped = {s1}
    None = None
    MaxTime = 1
SPECIFICATION Spec
SYMMETRY Symmetry
INVARIANTS
    TypeOK
    StampArchived
    FallbackPinsHead
    OutcomeHonest
CHECK_DEADLOCK FALSE
