SPECIFICATION Spec
CONSTANTS
    Keys = {"k1", "k2"}
    Modifiers = {"shift"}
    Reserved = {"hyper"}
    Chars = {"a", "acute", "agrave", "grave", "trap"}
    NoChar = NoChar
    Inadmissible = {"trap"}
    Width <- Widths
    Bindings <- AllRequests
    Overwrites <- Trapped
    Compositions <- Folds
    MaxSequence = 2
    BindingCap = 3
    CompositionCap = 2
    Caps = {0, 4}
    MaxEvents = 3
INVARIANTS
    ContextSound
PROPERTIES
    RefinesTextStream
    LayoutGrowsBehind
