SPECIFICATION Spec
CONSTANTS
  short = short
  long = long
  Key = {1, 2}
  Value = {short, long}
  NoValue = NoValue
  Size <- MCSize
  MaxCells = 9
  MaxFrames = 3
  CompactObsolete = 2
  CompactReclaimable = 3
  CachePersists = FALSE
INVARIANTS
  ReadsAreCurrent
PROPERTIES
  KeepsPromise
