SPECIFICATION ArchiveSpec
CONSTANTS
  LineUnsafe = {}
  Block <- ManyBlocks
  RawHeader <- ManyHeaders
  EndMark = "End"
  MTimes = {0}
  Chunk = 2
  MaxLength = 6
  MaxEdits = 0
  MaxFaults = 0
  Archives <- ManyFiles
  Requests <- NoRequest
  Callers = {c1}
  c1 = c1
INVARIANT RoundTrip
