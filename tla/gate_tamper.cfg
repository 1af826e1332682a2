\* Is every finding with a tamper signal DRAFT_TAMPER_SUSPECTED?
SPECIFICATION Spec
CONSTANTS
    Tools = {"get_amcache", "get_bam", "get_sysmon_4688", "get_prefetch"}
    Times = {0, 1, 2}
    Window = 1
    MaxEvidence = 2
    MaxFindings = 1
    MaxCites = 3
INVARIANT TamperSuspected
CHECK_DEADLOCK FALSE
