\* A connect, a disconnect or a removal against the loop, and what people and servers do meanwhile.
SPECIFICATION Spec
CONSTANTS
    None = None
    Ids = {c1}
    Spots = {s1, s2}
    Handlers = {d1}
    Modes = {"always"}
    MaxCommands = 2
    MaxEvents = 2
    MaxFaults = 1
SYMMETRY SpotsAreAlike
INVARIANTS
    TypeOK
    MountedOnce
PROPERTIES
    RefusedIsNotRetried
    
