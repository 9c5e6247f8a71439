SPECIFICATION ArchiveSpec
CONSTANTS
  LineUnsafe = {}
  Block <- FewBlocks
  RawHeader <- FewHeaders
  EndMark = "End"
  MTimes = {0}
  Chunk = 2
  MaxLength = 4
  MaxEdits = 2
  MaxFaults = 0
  Archives <- OnePackage
  Requests <- NoRequest
  Callers = {c1}
  c1 = c1
INVARIANT DeliveredIsReceipted
