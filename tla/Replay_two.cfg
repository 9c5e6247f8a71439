SPECIFICATION Spec
CONSTANTS
  Callers = {c1, c2}
  c2 = c2
  c1 = c1
  LineUnsafe = {}
  Block <- SmallBlocks
  RawHeader <- SmallHeaders
  EndMark = "End"
  MTimes = {0, 1}
  Chunk = 2
  MaxLength = 5
  MaxEdits = 1
  MaxFaults = 0
  Packages <- SmallPackages
  Selections <- SmallSelections
INVARIANTS
  NoSpuriousFailure
PROPERTY KeepsContract
