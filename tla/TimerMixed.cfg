CONSTANTS
    snk = snk
    src = src
    watched = watched
    Entries <- Mixed
    Kind <- MixedKinds
    Threshold <- MixedThresh
    DiscTimeout <- MixedDisc
    Queried <- MixedQueried
    MaxGap = 2
    AgeCap = 9
SPECIFICATION Spec
INVARIANTS TypeOK TrackedIsRegistered RemovedInTime
PROPERTY SteadyRemovedAfterSilence
