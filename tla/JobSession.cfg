SPECIFICATION FairSpec
CONSTANTS
    maxAge = 1
    maxHibernatedDuration = 1
    Strategies = {"always", "never"}
    RunIDs = {r1, r2}
    NoRun = NoRun
    MaxFaults = 1
    MaxTime = 3
PROPERTIES ResultKept KeptSinceDone RetentionEnds JobFollowsSpec
CHECK_DEADLOCK FALSE
