SPECIFICATION Spec
CONSTANTS
    maxAge = 1
    maxHibernatedDuration = 0
    Strategies = {"always", "never"}
    RunIDs = {r1, r2}
    NoRun = NoRun
    MaxFaults = 1
    MaxTime = 3
PROPERTIES KeptWithoutLimit
CHECK_DEADLOCK FALSE
