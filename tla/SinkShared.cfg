CONSTANTS
    app1 = app1
    exec = exec
    m1 = m1
    noMsg = noMsg
    Exec = exec
    NoMsg = noMsg
    AppThreads <- OneApp
    Msg <- OneMsg
    AppOps <- MixedOps
    UseKeepAlive = TRUE
    TimeoutNs = 2
    MaxClock = 3
SPECIFICATION Spec
INVARIANTS TypeOK NeverActiveWithoutMessage TrueReadReturnsLatest TrueReadIsFresh NoUseAfterDestruction
PROPERTY OnlyMessagesRevive
