SPECIFICATION HistorySpec
CONSTANTS
    culling <- IdleFailedRetention
    maxWaitForClearFailedScheduling = 1
    RunIDs = {r1, r2}
    NoRun = NoRun
    Adopted = {}
    Strategy = "never"
    InformerLag = FALSE
    Activity = {"pods", "load", "failure", "quota", "crash", "childError", "apiError"}
    MaxTime = 3
SYMMETRY RunIDSymmetry
INVARIANTS ClocksStop
PROPERTIES NoEarlyHibernation RetentionHonoured
CHECK_DEADLOCK FALSE
