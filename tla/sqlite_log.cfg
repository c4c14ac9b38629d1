SPECIFICATION Spec
CONSTANTS
  Procs = {p1, p2, p3}
  Slots = {"k1", "k2"}
  Payloads = {"v1", "v2"}
  MaxFaults = 1
  None = None
SYMMETRY ProcSymmetry
INVARIANTS
  TypeOK
  OneWinner
  AnswersAreTrue
PROPERTIES
  ImplementsAtomicLog
