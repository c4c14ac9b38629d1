SPECIFICATION Spec
CONSTANTS
  Workers = {w1, w2}
  Steps = {1}
  WorkflowOf <- PerStepMC
  Contexts = {"c1"}
  Modes = {"live"}
  Plans = {"r", "nop"}
  ToolCalls <- PlanMC
  Calls <- CallsMC
  NameOf <- NameMC
  EffectOf <- EffectMC
  Outcomes <- DeterministicMC
  MaxStops = 0
  None = None
INVARIANTS
  SealedPlanReplays
