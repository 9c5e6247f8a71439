SPECIFICATION FairArchiveSpec
CONSTANTS
  LineUnsafe = {}
  Block <- LiveBlocks
  RawHeader <- LiveHeaders
  EndMark = "End"
  MTimes = {0, 1}
  Chunk = 2
  MaxLength = 5
  MaxEdits = 1
  MaxFaults = 1
  Archives <- LivePackage
  Requests <- NoRequest
  Callers = {c1}
  c1 = c1
PROPERTIES
  OpenEnds
  CallsEnd
