SPECIFICATION Spec
CONSTANTS
  Procs = {p1, p2}
  Slots = {"k1", "k2"}
  Payloads = {"v1"}
  MaxFaults = 0
  None = None
INVARIANTS
  RefusedIsTaken
