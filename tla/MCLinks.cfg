SPECIFICATION FairSpec
CONSTANTS
    None = None
    Handlers = {h1, h2}
    MaxDials = 2
    MaxRequests = 2
    MaxReports = 1
    MaxFaults = 1
INVARIANTS
    RegisteredIsServed
PROPERTIES
    RequestsAreCalls
    RegistryFollowsTheLink
    LinkHeals
CHECK_DEADLOCK FALSE
