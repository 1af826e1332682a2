\* Every claim on up to three entries of four families, and one finding on record.
SPECIFICATION Spec
CONSTANTS
    Tools = {"get_amcache", "get_bam", "get_sysmon_4688", "get_prefetch"}
    Times = {0, 1, 2}
    Window = 1
    MaxEvidence = 3
    MaxFindings = 1
    MaxCites = 3
INVARIANTS
    TypeOK
    TierEarned
    FinalIsCoherent
    SignalCosts
    RedundantCitation
    AppCompatTimeless
CHECK_DEADLOCK FALSE
