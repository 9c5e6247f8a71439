SPECIFICATION Spec
CONSTANTS
  LineUnsafe = {"!"}
  TextBytes <- Bytes
  Manifests <- SmallManifests
  Backends = {"", "!", "a", "ab"}
  ArchiveDigests = {1, 2}
  MaxImages = 2
  MaxObjects = 3
INVARIANTS
  ConstructionAgrees
  IdentityNamesOneObject
  FindAgreesWithIds
