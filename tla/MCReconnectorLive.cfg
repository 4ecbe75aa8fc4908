\* Everybody comes to rest: what is mounted then, and what the daemon was told.
SPECIFICATION FairSpec
CONSTANTS
    None = None
    Ids = {c1}
    Spots = {s1, s2}
    Handlers = {d1}
    Modes = {"always"}
    MaxCommands = 1
    MaxEvents = 1
    MaxFaults = 1
PROPERTIES
    Settles
    
\* Time runs on for ever, but nobody has to do anything.
