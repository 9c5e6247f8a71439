SPECIFICATION Spec
CONSTANTS
  DigestSize = 2
  Digests <- SampleDigests
  Symbols <- SampleSymbols
  MaxDamage = 2
INVARIANTS
  PrintedParsesBack
  ParsedIsCanonical
