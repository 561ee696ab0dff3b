CONSTANTS
    TermKeys <- Terminal
    EvdevKeys <- Keyboard
    PollTime = 1
    ReleaseAfter = 7
    RepeatTime = 2
    MaxDelay = 1
    MaxQueue = 3
SPECIFICATION Spec
INVARIANTS TypeOK ReleasedInTime OnlyStruckKeys ViewFollowsKeys
PROPERTIES AlternatingEvents RepeatingKeyStaysPressed
