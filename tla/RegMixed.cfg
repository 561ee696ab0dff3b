CONSTANTS
    csmA = csmA
    csmB = csmB
    ch1 = ch1
    ch2 = ch2
    app1 = app1
    app2 = app2
    cb1 = cb1
    none = none
    Csm <- TwoCsms
    Channel <- TwoChannels
    Threads <- Mixed
    Home <- MixedHome
    InCallback <- MixedBack
    Known <- KnowByType
    None = none
    MaxCalls <- MixedCalls
    MaxCrashes = 2
SPECIFICATION FairSpec
INVARIANTS TypeOK SourceWasAccepted SourceHasItsSink
PROPERTIES CallReturns DuplicateRejected
