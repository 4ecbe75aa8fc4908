\* A connection is removed while a pass that has read the old list is running.
SPECIFICATION Spec
CONSTANTS
    None = None
    Ids = {c1}
    Spots = {s1, s2}
    Handlers = {d1}
    Modes = {"always"}
    MaxCommands = 1
    MaxEvents = 1
    MaxFaults = 0
SYMMETRY SpotsAreAlike
PROPERTIES
    RemovedStaysAway
