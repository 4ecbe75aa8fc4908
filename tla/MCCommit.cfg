SPECIFICATION Spec
CONSTANTS
    h1 = h1
    h2 = h2
    s1 = s1
    s2 = s2
    c1 = c1
    c2 = c2
    p1 = p1
    Handlers = {h1, h2}
    Shares = {s1, s2}
    HandWritten = {s2}
    Theirs = {s1}
    Conns = {c1, c2}
    Manual = {c2}
    Strangers = {p1}
    Requests <- AllRequests
    MaxRequests = 3
    MaxFaults = 1
    MaxCrashes = 1
    MaxPlugs = 1
    MaxBusy = 1
    MaxTroubles = 1
SYMMETRY HandlersAreAlike
INVARIANTS
    ConfigIsApplied
    
    
PROPERTIES
    StrangersStay
    
CHECK_DEADLOCK FALSE
