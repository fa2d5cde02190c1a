SPECIFICATION TermSpec
CONSTANTS
    Rows = 2
    Cols = 2
    Clusters = {"a", "comma", "mark"}
    Base <- MCBase
    Width <- MCWidth
    Glued <- MCGlued
    Styles = {0}
    Blank = Blank
    WrapOptions = {TRUE}
    TabWidth = 1
    MaxClusters = 2
    TrackedRows = 1
    MaxWrites = 1
    Chunks <- MCChunks
    Letter <- MCLetter
    LeadLength <- MCLead
    Conts = {"x", "y"}
    Decode <- MCDecode
    MaxParams = 2
    MaxParamValue = 2
    MaxOsc = 1
    AutowrapMode = 1
    CursorMode = 2
    SgrStyle <- MCSgr
    Unfinished <- MCUnfinished
    Probes <- MCProbes
INVARIANTS
    PlaneKept
    NoPartialEffect
    Resynchronises
    ChangesShown
