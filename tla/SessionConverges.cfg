SPECIFICATION FairSpec
CONSTANTS
    culling <- NoCulling
    maxWaitForClearFailedScheduling = 1
    RunIDs = {r1, r2, r3}
    NoRun = NoRun
    Adopted = {s1}
    Strategy = "always"
    InformerLag = TRUE
    Activity = {"interaction", "deletion"}
    MaxTime = 1
PROPERTIES WorkloadConverges DeletionCompletes
CHECK_DEADLOCK FALSE
