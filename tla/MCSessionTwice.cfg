SPECIFICATION Spec
CONSTANTS
    MaxSocks = 4
    MaxPresses = 1
    MaxChanges = 0
    MaxRestarts = 1
    MaxTimeouts = 0
    MaxEvents = 2
INVARIANTS
    PressIsOnce
CHECK_DEADLOCK FALSE
