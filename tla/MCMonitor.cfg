\* Two commands against a poll, with a fault and an event anywhere.
SPECIFICATION Spec
CONSTANTS
    None = None
    Ids = {c1}
    Hosts = {h1}
    Handlers = {t1}
    Modes = {"on_this_network"}
    PrimeAttempts = 2
    MaxCommands = 2
    MaxEvents = 1
    MaxFaults = 1
INVARIANTS
    TypeOK
    NudgeNotLost
    MemoryIsOfPublished
\* Nothing is left to do once stop() has run and the bounds are used up.
CHECK_DEADLOCK FALSE
