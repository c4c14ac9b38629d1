------------------------------- MODULE Tasks -------------------------------
(***************************************************************************)
(* The sequential algorithms of the runtime, which share no state with     *)
(* each other: a behaviour is one of projection, redaction of a context,   *)
(* grafts between two trajectories, or a call of an MCP tool.              *)
(***************************************************************************)
EXTENDS Projector, Redact, Graft, Workspace

VARIABLE task    \* "project", "graft", "redact", "mcp"

taskVars == <<vars, graftVars, redactVars, workVars, task>>

TasksInit ==
    /\ task \in {"project", "graft", "redact", "mcp"}
    /\ \/ task = "project" /\ Init
       \/ /\ task # "project"
          /\ nodes = [i \in {} |-> << >>] /\ budget = 0 /\ pinned = {} /\ pc = "idle" /\ todo = {}
          /\ included = {} /\ used = 0 /\ last = [given |-> {}, kept |-> {}]
    /\ GraftInit
    /\ \/ task = "redact" /\ RedactInit
       \/ task # "redact" /\ ctx = Nil /\ RedactStart
    /\ \/ task = "mcp" /\ WorkspaceInit
       \/ task # "mcp" /\ request = "none" /\ answer = << >>

Alone(t) == task = t /\ UNCHANGED task

TasksNext ==
    \/ Alone("project") /\ Next /\ UNCHANGED <<graftVars, redactVars, workVars>>
    \/ Alone("graft") /\ GraftNext /\ UNCHANGED <<vars, redactVars, workVars>>
    \/ Alone("redact") /\ RedactNext /\ UNCHANGED <<vars, graftVars, workVars>>
    \/ Alone("mcp") /\ CallTools /\ UNCHANGED <<vars, graftVars, redactVars>>

TasksSpec == TasksInit /\ [][TasksNext]_taskVars

=============================================================================
