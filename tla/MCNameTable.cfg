SPECIFICATION Spec
CONSTANTS
    n1 = n1
    n2 = n2
    odd = odd
    h1 = h1
    h2 = h2
    Names <- MCNames
    Publishable <- MCPublishable
    Len <- MCLen
    Handles <- MCHandles
    Capacity = 2
    Snapshots = 3
    MaxGen = 3
    MaxReaders = 2
    ReaderMod = 3
    NoName = NoName
    NoView = NoView
SYMMETRY Symmetry
INVARIANTS
    TableSound
    HeldViewsIntact
    NoReaderLeft
    BusyMeansPinned
PROPERTIES
    RefinesRegistry
