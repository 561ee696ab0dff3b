CONSTANTS
    csmA = csmA
    csmB = csmB
    ch1 = ch1
    ch2 = ch2
    app1 = app1
    app2 = app2
    cb1 = cb1
    none = none
    Csm <- TwoCsms
    Channel <- OneChannel
    Threads <- Apps
    Home <- AppsTogether
    InCallback <- NoThreads
    Known <- KnowAll
    None = none
    MaxCalls <- AppsCalls
    MaxCrashes = 0
SPECIFICATION Spec
PROPERTY DuplicateRejected
