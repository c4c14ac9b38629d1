------------------------------ MODULE RunStep ------------------------------
(***************************************************************************)
(* The sealed step protocol of Trajectory IR: resume.RunStep with the      *)
(* block-and-gate wrapper, over the node log and the durable memo.  Any    *)
(* number of workers (agent processes) drive the steps of one trajectory;  *)
(* they share the two SQLite databases and nothing else.                   *)
(*                                                                         *)
(* An action is one call on a shared store or on the outside world (model, *)
(* tool) together with the local computation up to the next such call.     *)
(* A process crash, and an error returned by any of those calls, have the  *)
(* same effect: RunStep is left at once and nothing local survives.  Both  *)
(* are Stop.                                                               *)
(*                                                                         *)
(* A definition marked "Variant" is not part of the specification: it is   *)
(* the definition after it with one mistake, to see a property fail.       *)
(***************************************************************************)
EXTENDS Naturals, Sequences, SlotStore

CONSTANTS
    Workers,     \* processes that may run a step of this trajectory
    Steps,       \* step numbers the agent drives, in increasing order
    WorkflowOf,  \* RunStepConfig.WorkflowID used for a step
    Contexts,    \* contexts a caller may pass as stepContext
    Plans,       \* plans the model may return
    ToolCalls,   \* well-formed plan -> its list of tool calls
    Calls,       \* tool calls: a name with its arguments
    NameOf,      \* tool call -> the tool name in it
    EffectOf,    \* registered tool name -> effect class (RunStepConfig.Tools)
    Outcomes,    \* tool call -> results its tool may return
    Modes,       \* run modes a caller may choose
    MaxStops,    \* bound on crashes and errors
    None         \* "no value"

EffectClass == {"PURE", "READ_ONLY", "IDEMPOTENT_WRITE",
                "NON_IDEMPOTENT_WRITE", "AGENT_SPAWN", "SENSITIVE"}

Results == UNION {Outcomes[c] : c \in Calls}

ASSUME StepsAssumption    == Steps \subseteq Nat
ASSUME WorkflowAssumption == Steps \subseteq DOMAIN WorkflowOf
ASSUME PlansAssumption    == \A p \in DOMAIN ToolCalls : ToolCalls[p] \in Seq(Calls)
ASSUME CallsAssumption    ==
    /\ Calls \subseteq DOMAIN NameOf
    /\ \A c \in Calls : Outcomes[c] # {}
ASSUME EffectAssumption   == \A n \in DOMAIN EffectOf : EffectOf[n] \in EffectClass
ASSUME ModeAssumption     == Modes \subseteq {"live", "sandbox"}
ASSUME StopsAssumption    == MaxStops \in Nat
ASSUME NoneAssumption     ==
    /\ None \notin Steps /\ None \notin Contexts /\ None \notin Modes
    /\ None \notin Plans /\ None \notin Results

VARIABLES
    log,    \* node log: logical slot -> payload
    memo,   \* durable memo: (workflow, step key) -> memoized value
    wk,     \* worker -> local state of its current RunStep call
    runs,   \* history: (step, call index, call) -> executions, at most "many"
    stops   \* crashes and errors so far

vars == <<log, memo, wk, runs, stops>>

----------------------------------------------------------------------------
(* Slots and keys.  Tool calls are numbered from 1 here: call i of a plan  *)
(* sits at seq 2i (the code's 2 + 2(i-1)), its outcome at 2i + 1.          *)

Slot(s, seq, kind) == [step |-> s, seq |-> seq, kind |-> kind]

ProjectSlot(s)    == Slot(s, 0, "PROJECT_CONTEXT")
DecisionSlot(s)   == Slot(s, 1, "DECISION")
CallSlot(s, i)    == Slot(s, 2 * i, "TOOL_CALL")
ResultSlot(s, i)  == Slot(s, 2 * i + 1, "TOOL_RESULT")
AbortSlot(s, i)   == Slot(s, 2 * i + 1, "ABORT")
CommitSlot(s, n)  == Slot(s, 2 * n + 2, "COMMIT_STEP")

InferKey(s)        == <<WorkflowOf[s], "infer", s>>
ToolKey(s, i, c)   == <<WorkflowOf[s], "tool", NameOf[c], 2 * i>>

\* Only NON_IDEMPOTENT_WRITE is gated.
RequiresBlockAndGate(effect) == effect = "NON_IDEMPOTENT_WRITE"

Known(c) == NameOf[c] \in DOMAIN EffectOf
Gated(c) == Known(c) /\ RequiresBlockAndGate(EffectOf[NameOf[c]])

AssertToolAllowed(mode, c) == ~(mode = "sandbox" /\ Gated(c))

----------------------------------------------------------------------------
(* Local state of a RunStep call.                                          *)

PC == {"idle", "project", "infer", "model", "savePlan", "seal", "tools",
       "claim", "abort", "call", "run", "record", "saveResult"}

Local == [pc : PC, step : Steps \cup {None}, ctx : Contexts \cup {None},
          mode : Modes \cup {None}, plan : Plans \cup {None}, idx : Nat, val : Results \cup {None}]

Idle == [pc |-> "idle", step |-> None, ctx |-> None, mode |-> None,
         plan |-> None, idx |-> 0, val |-> None]

At(w, label) == wk[w].pc = label
Return(w)    == wk' = [wk EXCEPT ![w] = Idle]
Goto(w, label) == wk' = [wk EXCEPT ![w].pc = label]

\* The call the worker is at, once it holds a well-formed plan.
CallsOf(w)   == ToolCalls[wk[w].plan]
Current(w)   == CallsOf(w)[wk[w].idx]

Committed(s) == \E k \in DOMAIN log : k.step = s /\ k.kind = "COMMIT_STEP"

\* NodeLog.Append, followed by the early return on ErrSlotConflict.
AppendThen(w, slot, payload, continue) ==
    /\ log' = PutIfAbsent(log, slot, payload)
    /\ IF SlotConflict(log, slot, payload) THEN Return(w) ELSE continue

Init ==
    /\ log = [k \in {} |-> None]
    /\ memo = [k \in {} |-> None]
    /\ wk = [w \in Workers |-> Idle]
    /\ runs = [k \in {} |-> 0]
    /\ stops = 0

----------------------------------------------------------------------------
(* RunStep up to the seal.                                                 *)

\* A caller starts, or re-drives after a restart, step s with context c in
\* run mode m.  The agent loop goes to a step once the earlier ones are
\* committed.
Begin(w, s) ==
    /\ At(w, "idle")
    /\ \A t \in Steps : t < s => Committed(t)
    /\ \E c \in Contexts, m \in Modes :
          wk' = [wk EXCEPT ![w] = [Idle EXCEPT !.pc = "project", !.step = s,
                                               !.ctx = c, !.mode = m]]
    /\ UNCHANGED <<log, memo, runs, stops>>

Project(w) ==
    /\ At(w, "project")
    /\ AppendThen(w, ProjectSlot(wk[w].step), wk[w].ctx, Goto(w, "infer"))
    /\ UNCHANGED <<memo, runs, stops>>

\* Variant: the memo is not consulted before the model.
LoadPlanNever(w) ==
    At(w, "infer") /\ Goto(w, "model") /\ UNCHANGED <<log, memo, runs, stops>>

\* durable.Infer: Load, and on a hit the memoized plan without the model.
LoadPlan(w) ==
    /\ At(w, "infer")
    /\ LET key == InferKey(wk[w].step)
       IN  IF key \in DOMAIN memo
           THEN wk' = [wk EXCEPT ![w].pc = "seal", ![w].plan = memo[key]]
           ELSE Goto(w, "model")
    /\ UNCHANGED <<log, memo, runs, stops>>

CallModel(w) ==
    /\ At(w, "model")
    /\ \E p \in Plans :
          wk' = [wk EXCEPT ![w].pc = "savePlan", ![w].plan = p]
    /\ UNCHANGED <<log, memo, runs, stops>>

\* Variant: the plan is not memoized.
SavePlanNever(w) ==
    At(w, "savePlan") /\ Goto(w, "seal") /\ UNCHANGED <<log, memo, runs, stops>>

\* Save keeps the first value stored; Step returns the value it computed.
SavePlan(w) ==
    /\ At(w, "savePlan")
    /\ memo' = PutIfAbsent(memo, InferKey(wk[w].step), wk[w].plan)
    /\ Goto(w, "seal")
    /\ UNCHANGED <<log, runs, stops>>

\* Variant: the loop over the calls starts one too low.
SealOffByOne(w) ==
    /\ At(w, "seal")
    /\ AppendThen(w, DecisionSlot(wk[w].step), wk[w].plan,
          IF wk[w].plan \in DOMAIN ToolCalls THEN Goto(w, "tools") ELSE Return(w))
    /\ UNCHANGED <<memo, runs, stops>>

\* DECISION is appended before the plan's tool_calls are parsed: a plan that
\* does not parse is sealed all the same.
Seal(w) ==
    /\ At(w, "seal")
    /\ AppendThen(w, DecisionSlot(wk[w].step), wk[w].plan,
          IF wk[w].plan \in DOMAIN ToolCalls
          THEN wk' = [wk EXCEPT ![w].pc = "tools", ![w].idx = 1]
          ELSE Return(w))
    /\ UNCHANGED <<memo, runs, stops>>

----------------------------------------------------------------------------
(* The loop over the tool calls.                                           *)

Pending(w) == At(w, "tools") /\ wk[w].idx <= Len(CallsOf(w))

\* Unknown tool, or a gated one in sandbox mode.
RejectTool(w) ==
    /\ Pending(w)
    /\ ~Known(Current(w)) \/ ~AssertToolAllowed(wk[w].mode, Current(w))
    /\ Return(w)
    /\ UNCHANGED <<log, memo, runs, stops>>

\* durable.Tool: Load; a hit skips the call, its log nodes included.
LoadResult(w) ==
    /\ Pending(w)
    /\ Known(Current(w)) /\ AssertToolAllowed(wk[w].mode, Current(w))
    /\ IF ToolKey(wk[w].step, wk[w].idx, Current(w)) \in DOMAIN memo
       THEN wk' = [wk EXCEPT ![w].idx = @ + 1]
       ELSE Goto(w, IF Gated(Current(w)) THEN "claim" ELSE "call")
    /\ UNCHANGED <<log, memo, runs, stops>>

\* ClaimToolCall as one transaction (SqliteNodeLog opens it up).
Claim(w) ==
    /\ At(w, "claim")
    /\ LET slot == CallSlot(wk[w].step, wk[w].idx)
       IN  /\ log' = PutIfAbsent(log, slot, Current(w))
           /\ Goto(w, IF slot \in DOMAIN log THEN "abort" ELSE "run")
    /\ UNCHANGED <<memo, runs, stops>>

\* The INSERT of ClaimToolCall fails for any other reason than a taken slot:
\* rolled back, and reported as "not claimed" with a nil error.
ClaimFails(w) ==
    /\ At(w, "claim")
    /\ stops < MaxStops
    /\ CallSlot(wk[w].step, wk[w].idx) \notin DOMAIN log
    /\ Goto(w, "abort")
    /\ stops' = stops + 1
    /\ UNCHANGED <<log, memo, runs>>

\* Variant: the loop goes on after a blocked call.
AbortAndGoOn(w) ==
    /\ At(w, "abort")
    /\ log' = PutIfAbsent(log, AbortSlot(wk[w].step, wk[w].idx), NameOf[Current(w)])
    /\ wk' = [wk EXCEPT ![w].pc = "tools", ![w].idx = @ + 1]
    /\ UNCHANGED <<memo, runs, stops>>

\* ABORT, then BlockedNeedsGate.
Abort(w) ==
    /\ At(w, "abort")
    /\ log' = PutIfAbsent(log, AbortSlot(wk[w].step, wk[w].idx), NameOf[Current(w)])
    /\ Return(w)
    /\ UNCHANGED <<memo, runs, stops>>

\* The plain path logs TOOL_CALL with Append: a second attempt goes on.
RecordCall(w) ==
    /\ At(w, "call")
    /\ AppendThen(w, CallSlot(wk[w].step, wk[w].idx), Current(w), Goto(w, "run"))
    /\ UNCHANGED <<memo, runs, stops>>

Many == 2   \* the execution history counts 1 and "more than once"

Executions(k) == IF k \in DOMAIN runs THEN runs[k] ELSE 0

\* The tool body runs in the outside world.
RunTool(w) ==
    /\ At(w, "run")
    /\ \E r \in Outcomes[Current(w)] :
          wk' = [wk EXCEPT ![w].pc = "record", ![w].val = r]
    /\ LET k == <<wk[w].step, wk[w].idx, Current(w)>>
       IN  runs' = Put(runs, k, IF Executions(k) = 0 THEN 1 ELSE Many)
    /\ UNCHANGED <<log, memo, stops>>

\* Variant: the error of appending TOOL_RESULT is dropped.
RecordResultBlind(w) ==
    /\ At(w, "record")
    /\ log' = PutIfAbsent(log, ResultSlot(wk[w].step, wk[w].idx), wk[w].val)
    /\ Goto(w, "saveResult")
    /\ UNCHANGED <<memo, runs, stops>>

RecordResult(w) ==
    /\ At(w, "record")
    /\ AppendThen(w, ResultSlot(wk[w].step, wk[w].idx), wk[w].val,
                  Goto(w, "saveResult"))
    /\ UNCHANGED <<memo, runs, stops>>

\* Variant: the result is not memoized.
SaveResultNever(w) ==
    /\ At(w, "saveResult")
    /\ wk' = [wk EXCEPT ![w].pc = "tools", ![w].idx = @ + 1, ![w].val = None]
    /\ UNCHANGED <<log, memo, runs, stops>>

SaveResult(w) ==
    /\ At(w, "saveResult")
    /\ memo' = PutIfAbsent(memo, ToolKey(wk[w].step, wk[w].idx, Current(w)), wk[w].val)
    /\ wk' = [wk EXCEPT ![w].pc = "tools", ![w].idx = @ + 1, ![w].val = None]
    /\ UNCHANGED <<log, runs, stops>>

CommitStep(w) ==
    /\ At(w, "tools")
    /\ wk[w].idx > Len(CallsOf(w))
    /\ log' = PutIfAbsent(log, CommitSlot(wk[w].step, Len(CallsOf(w))), "{}")
    /\ Return(w)
    /\ UNCHANGED <<memo, runs, stops>>

----------------------------------------------------------------------------
\* The process dies, or the call it is in returns an error.
Stop(w) ==
    /\ ~At(w, "idle")
    /\ stops < MaxStops
    /\ Return(w)
    /\ stops' = stops + 1
    /\ UNCHANGED <<log, memo, runs>>

Advance(w) ==
    \/ \E s \in Steps : Begin(w, s)
    \/ Project(w) \/ LoadPlan(w) \/ CallModel(w) \/ SavePlan(w)
    \/ Seal(w) \/ RejectTool(w) \/ LoadResult(w) \/ Claim(w) \/ Abort(w)
    \/ RecordCall(w) \/ RunTool(w) \/ RecordResult(w) \/ SaveResult(w)
    \/ CommitStep(w)

Next == \E w \in Workers : Advance(w) \/ ClaimFails(w) \/ Stop(w)

Spec == Init /\ [][Next]_vars

\* A running worker is a running goroutine.  A supervisor restarts a stopped
\* one, and the agent loop of a worker comes back to every step it may begin,
\* live and with each context its callers use, however often it is driven
\* otherwise in between.
BeginLive(w, s, c) == Begin(w, s) /\ wk'[w].ctx = c /\ wk'[w].mode = "live"

FairSpec ==
    /\ Spec
    /\ \A w \in Workers : WF_vars(Advance(w))
    /\ \A w \in Workers, s \in Steps, c \in Contexts : SF_vars(BeginLive(w, s, c))

=============================================================================
