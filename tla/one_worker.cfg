SPECIFICATION FairSpec
CONSTANTS
  Workers = {w1}
  Steps = {1, 2}
  WorkflowOf <- PerStepMC
  Contexts = {"c1", "c2"}
  Modes = {"live", "sandbox"}
  Plans = {"dr", "rd", "g", "nop", "bad"}
  ToolCalls <- PlanMC
  Calls <- CallsMC
  NameOf <- NameMC
  EffectOf <- EffectMC
  Outcomes <- DivergingMC
  MaxStops = 2
  None = None
INVARIANTS
  SealedPlanReplays
PROPERTIES
  ImplementsContract
  NoReinferAfterSeal
  NeverReopenCommitted
  StepSettles
