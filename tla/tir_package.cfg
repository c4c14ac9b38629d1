SPECIFICATION Spec
CONSTANTS
  Readers = {r1, r2}
  MaxNodes = 2
  MaxFaults = 3
  None = None
SYMMETRY ReaderSymmetry
INVARIANTS
  TypeOK
  LoadedIsOnePackage
  PackageNotLost
  ImportedIsWhole
