SPECIFICATION FairSpec
CONSTANTS
  Callers = {"a1", "a2", "b1"}
  ProcOf <- ProcMC
  Closers = {"A"}
  Keys = {"k1"}
  Backends = {"temporal", "sqlite", "memory"}
  MaxFaults = 2
  None = None
INVARIANTS
  TypeOK
  FnOnceAfterReturn
PROPERTIES
  FirstSaveWins
  CallsReturn
