SPECIFICATION Spec
CONSTANTS
  LineUnsafe = {}
  Block <- AllBlocks
  RawHeader <- AllHeaders
  EndMark = "End"
  MTimes = {0}
  Chunk = 2
  MaxLength = 4
  MaxEdits = 0
  MaxFaults = 1
  Archives <- ShortFiles
  Requests <- ShortRequests
INVARIANTS
  TypeOK
  UndisturbedVerdict
