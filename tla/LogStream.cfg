SPECIFICATION FairSpec
CONSTANTS
    Size = 2
    MaxLog = 6
INVARIANTS LogFaithful
PROPERTIES NoNeedlessRepetition LinesPrinted
CHECK_DEADLOCK FALSE
