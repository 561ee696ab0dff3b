CONSTANTS
    Keys <- UsedKeys
    MaxLinear = 1
    MaxAngular = 3
    StepLinear = 2
    StepAngular = 2
SPECIFICATION FairSpec
INVARIANTS TypeOK WithinSetpoints DeadMansHandle MotionIsAsked
PROPERTIES NoLurch ComesToRest
