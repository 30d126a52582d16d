SPECIFICATION SidecarSpec
CONSTANTS
    JobIDs = {j1, j2}
    NoJob = NoJob
    Repositories = {r1}
    HasTunnelSecret = FALSE
    FileSystemLists <- ClusterFileSystems
    Activity = {}
PROPERTIES StateRemovedByStop
CHECK_DEADLOCK FALSE
