SPECIFICATION Spec
CONSTANTS
  LineUnsafe = {}
  Block <- FewBlocks
  RawHeader <- FewHeaders
  EndMark = "End"
  MTimes = {0, 1}
  Chunk = 3
  MaxLength = 5
  MaxEdits = 2
  MaxFaults = 0
  Archives <- OnePackage
  Requests <- PackageRequests
INVARIANTS
  IInv
  ReceiptBindsImage
  ReceiptIsSound
PROPERTY InspectsAtomically
