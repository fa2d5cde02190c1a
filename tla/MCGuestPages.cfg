CONSTANTS
  p1 = p1
  p2 = p2
  p3 = p3
  b1 = b1
  b2 = b2
  b3 = b3
  Pages <- MCPages
  Bases <- MCBases
  Traps <- MCTraps
  Flags <- MCFlags
  ro = ro
  rw = rw
  Done = Done
  PageSize = 2
  MaxPages = 2
  MaxFrames = 1
  Refused = Refused
SPECIFICATION Spec
INVARIANT TypeOK
INVARIANT FrameFaithful
PROPERTY RefinesPageMap
VIEW Lasting
