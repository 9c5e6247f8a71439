SPECIFICATION Spec
CONSTANTS
  LineUnsafe = {"!"}
  Texts <- ShortTexts
  Others <- ShortPaths
  Names <- Spellings
INVARIANTS
  ScanAgreesWithPieces
  AncestorsAreParents
  HeldPathIsCanonical
  ParentAndFilename
