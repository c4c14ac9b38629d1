SPECIFICATION FairSpec
CONSTANTS
  Procs = {p1, p2, p3}
  PyProcs = {p3}
  Slots = {"k1"}
  Payloads = {"v1", "v2"}
  MaxFaults = 2
  None = None
INVARIANTS
  TypeOK
  PyRefusalMeansTaken
PROPERTIES
  ImplementsAtomicLog
  CallsReturn
