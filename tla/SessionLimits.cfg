SPECIFICATION FairSpec
CONSTANTS
    culling <- FailedAndRetentionCulling
    maxWaitForClearFailedScheduling = 1
    RunIDs = {r1, r2}
    NoRun = NoRun
    Adopted = {}
    Strategy = "never"
    InformerLag = FALSE
    Activity = {"pods", "scheduling"}
    MaxTime = 4
PROPERTIES LimitsEnforced RetentionEnds UnschedulableReported
CHECK_DEADLOCK FALSE
