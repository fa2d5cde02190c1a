SPECIFICATION Spec
CONSTANTS
    Paths = {"a", "b", "c", "d", "like b", "long", "malformed"}
    Form <- MCForm
    Hash <- MCHash
    Nibbles = {0, 1}
    Depth = 3
    Offsets = {0}
    MaxNodes = 6
    MaxEntries = 2
    NoNode = NoNode
    NoEntry = NoEntry
INVARIANTS
    IndexSound
PROPERTIES
    OnlyExhaustionWastes
    RefinesVolumeMap
