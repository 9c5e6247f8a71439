SPECIFICATION Spec
CONSTANTS
  Callers = {c1}
  c1 = c1
  LineUnsafe = {}
  Block <- LargeBlocks
  RawHeader <- LargeHeaders
  EndMark = "End"
  MTimes = {0, 1}
  Chunk = 3
  MaxLength = 7
  MaxEdits = 1
  MaxFaults = 1
  Packages <- LargePackages
  Selections <- LargeSelections
INVARIANTS
  TypeOK
  IInv
  EndedIsSealed
  DeliveredIsSelected
  StaleSourceIsRefused
  NoSpuriousFailure
PROPERTY KeepsContract
