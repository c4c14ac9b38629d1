SPECIFICATION ClientSpec
CONSTANTS
  Workers = {w1, w2}
  Steps = {1}
  WorkflowOf <- PerStepMC
  Contexts = {"c1"}
  Modes = {"live"}
  Plans = {"dr", "ep", "rd"}
  ToolCalls <- PlanMC
  Calls <- CallsMC
  NameOf <- NameMC
  EffectOf <- EffectMC
  Outcomes <- DivergingMC
  HostSets <- HostSetsMC
  MaxStops = 2
  None = None
INVARIANTS
  TypeOK
  GatedAtMostOnce
  ToolsFromSealedPlan
  MemoMatchesLog
  SealNeedsMemo
PROPERTIES
  ImplementsContract
