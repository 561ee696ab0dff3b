CONSTANTS
    TermKeys <- WithEscape
    EvdevKeys <- OneKey
    PollTime = 1
    ReleaseAfter = 9
    RepeatTime = 2
    MaxDelay = 1
    MaxQueue = 4
SPECIFICATION Spec
INVARIANT OnlyStruckKeys
