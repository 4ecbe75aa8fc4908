\* A connection that can move between two hosts while it is being primed.
SPECIFICATION Spec
CONSTANTS
    None = None
    Ids = {c1}
    Hosts = {h1, h2}
    Handlers = {t1}
    Modes = {"on_this_network"}
    PrimeAttempts = 2
    MaxCommands = 1
    MaxEvents = 2
    MaxFaults = 0
SYMMETRY HostsAreAlike
INVARIANT
    StartBudget
PROPERTY
    EjectRespected
\* Nothing is left to do once stop() has run and the bounds are used up.
CHECK_DEADLOCK FALSE
