SPECIFICATION FairSpec
INVARIANTS TypeOK NothingLeftBehind
PROPERTY ShutdownCompletes
