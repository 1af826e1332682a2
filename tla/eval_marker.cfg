\* Two questions, three turns; one server may exit on its own
\* or resist SIGKILL.
SPECIFICATION Spec
CONSTANTS
    Plans <- MCPlans
    Revisions = {r1, r2}
    Tools = {"get_amcache", "get_bam"}
    Fits = {r1}
    Runs = 1
    TurnLimit = 3
    MaxTools = 2
    Handshake = 1
    PerQuestion = 1
    ApiTime = 0
    LineTime = 1
    Grace = 1
    CallCosts = {1}
    MaxCall = 1
    Projected = 1
    Cap = 4
    MaxFaults = 1
    None = none

INVARIANT
    MarkerScoresIncorrect
CHECK_DEADLOCK FALSE
