\* The smaller parts, each on its own.
SPECIFICATION Spec
CONSTANTS
    None = None
    Unknown = Unknown
    \* Belongings
    Links = {c1, c2}
    Servers = {n1, n2}
    Accounts = {a1, a2}
    NoAccount = none
    MaxDoings = 4
    MaxFsid = 2
    MaxMishaps = 1
    \* Serving
    ShareNames = {x1, x2}
    Folders = {f1}
    NoFolder = nowhere
    MaxAsks = 3
    MaxEdits = 1
    MaxFailures = 1
    \* Desktop
    Trays <- MCTrays
    Wires <- MCWires
    MaxTurns = 3
    \* Documents
    Hosts = {"nas", "pi"}
    Titles <- MCTitles
    GivenIds <- MCGivenIds
    Small <- MCSmall
    Numbers <- MCNumbers
    Reserved <- MCReserved
    Root <- MCRoot
    Places <- MCPlaces
    BusyPaths <- MCPlaces
    MaxRequests = 3
    MaxRecords = 3
    MaxByHand = 1
    \* LaunchAgent
    Programs = {q1, q2}
    NoProgram = noprogram
    MaxTools = 2
    MaxUpsets = 3
INVARIANTS
    TypeOK
    
    NotKnowingIsNotAFault
    
    OursIsKnown
    ServedAsConfigured
    
    
    OneShareOnePlace
    
    
PROPERTIES
    UsedItemStays
    
    
\* A case is decided once, and every part ends where its bounds do.
CHECK_DEADLOCK FALSE
