\* Does the order of the citations matter?
SPECIFICATION Spec
CONSTANTS
    Tools = {"get_amcache", "get_bam", "get_sysmon_4688", "get_prefetch"}
    Times = {0, 1, 2}
    Window = 1
    MaxEvidence = 3
    MaxFindings = 0
    MaxCites = 3
INVARIANT OrderIrrelevant
CHECK_DEADLOCK FALSE
