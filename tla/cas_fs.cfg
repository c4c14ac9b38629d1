SPECIFICATION StoreSpec
CONSTANTS
  Hashes = {"h1", "h2"}
  Written = {"h1"}
  Putters = {p1, p2}
  Readers = {r1}
  Manifests <- ManifestsMC
  TempNames = {t1, t2}
  MaxFaults = 2
  None = None
SYMMETRY Symmetry
INVARIANTS
  TypeOK
  OnlyMissOrFlip
  AckedIsStored
  TempsHaveOwners
  RehydratedIsComplete
