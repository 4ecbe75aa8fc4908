\* Everything comes to rest: what is published and what is primed then.
SPECIFICATION FairSpec
CONSTANTS
    None = None
    Ids = {c1}
    Hosts = {h1}
    Handlers = {t1}
    Modes = {"on_this_network"}
    PrimeAttempts = 2
    MaxCommands = 1
    MaxEvents = 1
    MaxFaults = 1
PROPERTIES
    Converges
    IdleIsResolved
\* Nothing is left to do once stop() has run and the bounds are used up.
CHECK_DEADLOCK FALSE
