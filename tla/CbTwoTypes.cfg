CONSTANTS
    app1 = app1
    app2 = app2
    exec = exec
    ch1 = ch1
    ch2 = ch2
    joy = joy
    twist = twist
    cb1 = cb1
    cb2 = cb2
    cb3 = cb3
    none = none
    AppThreads <- TwoApps
    Exec = exec
    Channel <- TwoSinks
    Type <- Both
    TypeOf <- TwoTypes
    CbsFor <- CbsOfTwo
    None = none
    MaxSets = 3
    MaxRegs = 3
SPECIFICATION FairSpec
INVARIANTS TypeOK SinksUpToDate
PROPERTIES SetReturns
