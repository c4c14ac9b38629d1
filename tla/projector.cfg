SPECIFICATION TasksSpec
CONSTANTS
  StepNumbers = {1}
  Seqs = {0, 1}
  NodeKinds = {"CONSTRAINT", "TOOL_RESULT", "DECISION"}
  Sizes = {1, 3}
  Budgets = {0, 2, 4}
  Pins = {{}, {2}}
  MaxNodes = 3
  Hash = {"h1", "h2"}
  Paths = {"", "p1"}
  Missing = "none"
  MaxSource = 2
  FieldNames = {"password", "note", "redacted", "items"}
  SecretKeys = {"password"}
  Values <- MCValues
  Nesting <- MCNesting
  Contexts <- MCContexts
  Name <- MCName
  FileTrees <- MCFileTrees
  Envs <- MCEnvs
  WorkDirs <- MCWorkDirs
  Dests <- MCDests
CHECK_DEADLOCK FALSE
INVARIANTS
  TypeOK
  ConstraintsSurvive
  TakenIffItFits
  ContextIsStable
  SecretsRedacted
  GraftIsPublic
  RetryConflictsOnlyWithNewer
  PathsStayUnderRoot
