CONSTANTS
    app1 = app1
    exec = exec
    Exec = exec
    AppThreads <- OneApp
    Queries <- AppChecks
    Interval = 1
    MaxCalls <- FewCalls
    MaxClock = 3
SPECIFICATION FairSpec
INVARIANTS TypeOK CommandWasAccepted StateIsLatestCalls LivelyStateIsRecent
PROPERTY SendReturns
