SPECIFICATION StoreFairSpec
CONSTANTS
    n1 = n1
    n2 = n2
    h1 = h1
    h2 = h2
    Handles <- MCHandles
    Snapshots = 2
    MaxReaders = 1
    ReaderMod = 3
    NoName = NoName
    NoView = NoView
    Names <- MCNames
    Publishable <- MCNames
    Len <- MCLen
    Capacity = 2
    MaxGen = 2
    MaxPublications = 3
INVARIANTS
    AcceptedIsExpected
PROPERTIES
    StoreShutdownCompletes
    RetiredIsReclaimed
