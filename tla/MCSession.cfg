SPECIFICATION FairSpec
CONSTANTS
    MaxSocks = 4
    MaxPresses = 1
    MaxChanges = 1
    MaxRestarts = 1
    MaxTimeouts = 1
    MaxEvents = 2
INVARIANTS
    NobodyIsMissed
PROPERTIES
    StopEndsThreads
    ListenerHeals
    PressIsAnswered
CHECK_DEADLOCK FALSE
