CONSTANTS
    app1 = app1
    exec = exec
    m1 = m1
    noMsg = noMsg
    Exec = exec
    NoMsg = noMsg
    AppThreads <- NoApps
    Msg <- OneMsg
    AppOps <- ManagerOps
    UseKeepAlive = TRUE
    TimeoutNs = 2
    MaxClock = 5
SPECIFICATION Spec
PROPERTY LifecycleSpec
