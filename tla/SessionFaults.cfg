SPECIFICATION Spec
CONSTANTS
    culling <- RetentionCulling
    maxWaitForClearFailedScheduling = 1
    RunIDs = {r1, r2, r3}
    NoRun = NoRun
    Adopted = {s1, s2}
    Strategy = "whenFailedOrHibernated"
    InformerLag = TRUE
    Activity = {"crash", "childError", "apiError", "deletion"}
    MaxTime = 3
SYMMETRY RunIDSymmetry
INVARIANTS TypeOK HibernatedSinceSet
PROPERTIES RunIDStable NoLostUserUpdate SecretsBeforeFinalizer DeletesOnlyHibernated ImplementsLifecycle
CHECK_DEADLOCK FALSE
