SPECIFICATION PodSpec
CONSTANTS
    Repositories = 2
    MaxFaults = 2
PROPERTIES SessionHasRepositories WorkKept SessionStarts ObjectsFit SessionProtected
CHECK_DEADLOCK FALSE
