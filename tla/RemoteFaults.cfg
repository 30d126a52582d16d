SPECIFICATION SidecarSpec
CONSTANTS
    JobIDs = {j1, j2}
    NoJob = NoJob
    Repositories = {r1, r2}
    HasTunnelSecret = TRUE
    FileSystemLists <- ClusterFileSystems
    Activity = {"crash", "apiError", "diskError"}
SYMMETRY JobSymmetry
INVARIANTS SidecarInv SecretPrivate
PROPERTIES ConfigurationSuffices FirecrestStopLeavesNoJob FirecrestJobFindsItsFiles
CHECK_DEADLOCK FALSE
