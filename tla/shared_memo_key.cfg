SPECIFICATION Spec
CONSTANTS
  Workers = {w1}
  Steps = {1, 2}
  WorkflowOf <- TrajectoryMC
  Contexts = {"c1"}
  Modes = {"live"}
  Plans = {"r"}
  ToolCalls <- PlanMC
  Calls <- CallsMC
  NameOf <- NameMC
  EffectOf <- EffectMC
  Outcomes <- DeterministicMC
  MaxStops = 0
  None = None
INVARIANTS
  CommittedComplete
