SPECIFICATION Spec
CONSTANTS
  Procs = {p1}
  PyProcs = {}
  Slots = {"k1"}
  Payloads = {"v1"}
  MaxFaults = 1
  None = None
INVARIANTS
  AppendStores
