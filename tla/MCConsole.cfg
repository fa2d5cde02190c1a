SPECIFICATION Spec
CONSTANTS
    Rows = 2
    Cols = 3
    Clusters = {"a", "a+mark", "comma", "mark"}
    Base <- MCBase
    Width <- MCWidth
    Glued <- MCGlued
    Styles = {0}
    Blank = Blank
    WrapOptions = {TRUE, FALSE}
    TabWidth = 2
    MaxClusters = 2
    TrackedRows = 2
    MaxWrites = 3
INVARIANTS
    PlaneSound
PROPERTIES
    OnlyMovesGoStale
    RetryCovers
    WrapFailsOnlyInside
