SPECIFICATION FairSpec
CONSTANTS
    Blobs <- AllBlobs
    ScpMax = 0
    TrapMin = 6
    BaseLimit = 7
    MaxCodepoint = 8
    MaxRanges = 2
    MaxPending = 2
    MaxMounted = 3
    MaxRegistered = 2
    MaxQuarantined = 2
    MaxParts = 1
INVARIANTS
    TablesSound
PROPERTIES
    EveryBlobDecided
    BootEnds
    RefinesPluginSpace
