CONSTANTS
  Codepoints <- MCCodepoints
  Decomposition <- MCDecomposition
  Class <- MCClass
  Tailored <- MCTailored
  Window = 2
  Depth = 1
  Rooms = {2, 12}
  MaxText = 4
SPECIFICATION Spec
INVARIANT Canonical
INVARIANT NormalForm
INVARIANT ControlsPass
INVARIANT SkipIsSafe
