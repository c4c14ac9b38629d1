------------------------- MODULE RunStepProperties -------------------------
(***************************************************************************)
(* What the sealed step protocol promises: the README's resume protocol    *)
(* (chapter 8), the conformance rules R01-R03 and the promises made by the *)
(* comments of log.go, gate.go, step.go and backend.go.                    *)
(***************************************************************************)
EXTENDS RunStep

Sealed(s)      == DecisionSlot(s) \in DOMAIN log
SealedPlan(s)  == log[DecisionSlot(s)]

\* Call i of the plan sealed for step s is c.
SealedCall(s, i, c) ==
    /\ Sealed(s)
    /\ SealedPlan(s) \in DOMAIN ToolCalls
    /\ i \in DOMAIN ToolCalls[SealedPlan(s)]
    /\ ToolCalls[SealedPlan(s)][i] = c

\* Two steps never share a tool's memo key: the caller uses one workflow id
\* per step, or no tool name at the same position of two steps.
MemoKeysDistinct ==
    \A s, t \in Steps, p, q \in Plans \cap DOMAIN ToolCalls :
       \A i \in DOMAIN ToolCalls[p] \cap DOMAIN ToolCalls[q] :
          ToolKey(s, i, ToolCalls[p][i]) = ToolKey(t, i, ToolCalls[q][i]) => s = t

Payload(kind) ==
    CASE kind = "PROJECT_CONTEXT" -> Contexts
      [] kind = "DECISION"        -> Plans
      [] kind = "TOOL_CALL"       -> Calls
      [] kind = "TOOL_RESULT"     -> Results
      [] kind = "ABORT"           -> {NameOf[c] : c \in Calls}
      [] kind = "COMMIT_STEP"     -> {"{}"}

Kinds == {"PROJECT_CONTEXT", "DECISION", "TOOL_CALL", "TOOL_RESULT", "ABORT",
          "COMMIT_STEP"}

\* A worker that is past the seal holds a well-formed plan; one that is at a
\* tool call is inside its list of calls.
PastSeal  == {"tools", "claim", "abort", "call", "run", "record", "saveResult"}
InCall    == PastSeal \ {"tools"}

LocalOK(l) ==
    /\ l \in Local
    /\ l.pc # "idle" => l.step \in Steps /\ l.ctx \in Contexts /\ l.mode \in Modes
    /\ l.pc \in {"savePlan", "seal"} => l.plan \in Plans
    /\ l.pc \in PastSeal => l.plan \in DOMAIN ToolCalls /\ l.idx >= 1
    /\ l.pc \in InCall => l.idx <= Len(ToolCalls[l.plan])
    /\ l.pc \in {"record", "saveResult"} => l.val \in Results

\* Every node of the log sits in a slot of its kind with a payload of that
\* kind, and a RunStep frame only holds what its program point has computed.
TypeOK ==
    /\ \A k \in DOMAIN log :
          /\ k \in [step : Steps, seq : Nat, kind : Kinds]
          /\ log[k] \in Payload(k.kind)
    /\ DOMAIN wk = Workers
    /\ \A w \in Workers : LocalOK(wk[w])
    /\ \A s \in Steps : InferKey(s) \in DOMAIN memo => memo[InferKey(s)] \in Plans
    /\ \A k \in DOMAIN runs : runs[k] \in 1..Many
    /\ stops \in 0..MaxStops

----------------------------------------------------------------------------
\* R02, README 8.3 "the world still only got one deploy": whatever workers
\* run the step, crash and re-drive it, at most one execution of a gated tool
\* ever happens for a (step, seq) slot.
GatedAtMostOnce ==
    \A k, m \in DOMAIN runs :
       k[1] = m[1] /\ k[2] = m[2] /\ Gated(k[3]) /\ Gated(m[3])
          => k = m /\ runs[k] = 1

\* README 8.1 item 4, "Tools execute only from the sealed plan": every
\* execution that ever happened is the call at that index of the plan in the
\* step's DECISION node, also when several workers inferred different plans.
ToolsFromSealedPlan == \A k \in DOMAIN runs : SealedCall(k[1], k[2], k[3])

\* Two workers past the seal of one step hold the same plan, the sealed one.
PlanAgreement ==
    \A w \in Workers :
       wk[w].pc \in PastSeal =>
          Sealed(wk[w].step) /\ SealedPlan(wk[w].step) = wk[w].plan

\* The result a later attempt is given from the memo is the result in the
\* step's TOOL_RESULT node, whoever wrote either of them.
MemoMatchesLog ==
    \A s \in Steps, c \in Calls :
       Sealed(s) => \A i \in 1..Len(ToolCalls[SealedPlan(s)]) :
          SealedCall(s, i, c) /\ ToolKey(s, i, c) \in DOMAIN memo =>
             /\ ResultSlot(s, i) \in DOMAIN log
             /\ log[ResultSlot(s, i)] = memo[ToolKey(s, i, c)]

\* README 8.1: a committed step has, for every call of its sealed plan, the
\* TOOL_CALL and the TOOL_RESULT node, and the call was executed.
CommittedComplete ==
    \A s \in Steps : Committed(s) =>
       /\ Sealed(s)
       /\ \A i \in DOMAIN ToolCalls[SealedPlan(s)] :
             /\ CallSlot(s, i) \in DOMAIN log
             /\ ResultSlot(s, i) \in DOMAIN log
             /\ <<s, i, ToolCalls[SealedPlan(s)][i]>> \in DOMAIN runs

\* README 8.2, "DECISION sealed ... Replay the sealed tools": a re-drive of a
\* sealed step is given the sealed plan by durable.Infer, so its own append of
\* DECISION is a replay and not a conflict.
SealedPlanReplays ==
    \A s \in Steps : Sealed(s) =>
       InferKey(s) \in DOMAIN memo /\ memo[InferKey(s)] = SealedPlan(s)

\* The part of it that concurrent workers keep: no step is sealed before its
\* inference is memoized (a crash between Save and Append re-infers nothing).
SealedHasMemo == \A s \in Steps : Sealed(s) => InferKey(s) \in DOMAIN memo

\* README 8.2, "DECISION sealed ...: Do not re invoke the model".
NoReinferAfterSeal ==
    [][\A w \in Workers :
          At(w, "model") /\ wk'[w].pc = "savePlan" => ~Sealed(wk[w].step)]_vars

\* README 8.2, "never reopen a committed step": no node is added to it.
NeverReopenCommitted ==
    [][\A s \in Steps : Committed(s) =>
          \A k \in DOMAIN log' \ DOMAIN log : k.step # s]_vars

\* A plan RunStep refuses each time: it does not parse, or names a tool that
\* is not registered.
Defective(p) == p \in DOMAIN ToolCalls => \E i \in DOMAIN ToolCalls[p] : ~Known(ToolCalls[p][i])

\* Calls of the plan sealed for step s without a memo.
Unmemoized(s) ==
    IF Sealed(s) /\ SealedPlan(s) \in DOMAIN ToolCalls
    THEN {i \in DOMAIN ToolCalls[SealedPlan(s)] :
             ToolKey(s, i, ToolCalls[SealedPlan(s)][i]) \notin DOMAIN memo}
    ELSE {}

\* A gated call was claimed by an attempt that did not come to memoize its result,
\* and a later one has blocked the step for a human.  README 8.3 has this for a
\* crash in the middle of the tool.  The code does it also when TOOL_RESULT is
\* in the log and only the memo was missed, where README 8.2 ("All tool results
\* present, no COMMIT_STEP") would commit.
GatedLeft(s) ==
    \E i \in Unmemoized(s) :
       /\ Gated(ToolCalls[SealedPlan(s)][i])
       /\ CallSlot(s, i) \in DOMAIN log /\ AbortSlot(s, i) \in DOMAIN log

\* A call has a result in the log that missed the memo, and its tool may answer
\* otherwise when it is run again.  README 7.1 records such an answer as a new
\* TOOL_RESULT, "not treated as an error"; in the code it is a slot conflict.
ReadLeft(s) ==
    \E i \in Unmemoized(s) :
       /\ ~Gated(ToolCalls[SealedPlan(s)][i])
       /\ ResultSlot(s, i) \in DOMAIN log
       /\ Outcomes[ToolCalls[SealedPlan(s)][i]] # {log[ResultSlot(s, i)]}

\* Every step the agent comes to is committed in the end, unless it stays for
\* ever in one of three states: the model sealed a plan that cannot be run, or a
\* stop came between a call and its memo and the call was gated, or was a read
\* that answers differently ever since.  The last two are where the code does
\* less than README 8.2 and 7.1 say, see GatedLeft and ReadLeft.  Nothing else
\* (an attempt with another context or in the sandbox, a failed claim, an ABORT
\* for a call that nobody made) keeps a step from its commit.
StepSettles ==
    \A s \in Steps :
       <>[](\A t \in Steps : t < s => Committed(t)) =>
          \/ <>[]Committed(s)
          \/ <>[](Sealed(s) /\ Defective(SealedPlan(s)))
          \/ <>[]GatedLeft(s)
          \/ <>[]ReadLeft(s)

----------------------------------------------------------------------------
(* RunStep implements the contract.  The contract's state is read off the  *)
(* node log (what a reader of the trajectory has) and the execution        *)
(* history.                                                                *)

CommittedSteps == {s \in Steps : Committed(s)}
SealedPlans    == [s \in Steps |-> IF Sealed(s) THEN SealedPlan(s) ELSE None]
RecordedResults ==
    LET slots == {k \in DOMAIN log : k.kind = "TOOL_RESULT"}
    IN  [x \in {<<k.step, (k.seq - 1) \div 2>> : k \in slots} |->
            log[ResultSlot(x[1], x[2])]]

Contract ==
    INSTANCE StepContract WITH
        IsGated <- Gated, plan <- SealedPlans, fired <- runs,
        results <- RecordedResults, committed <- CommittedSteps

\* The sealed step protocol, with its workers, memo, crashes and re-drives,
\* does nothing the contract of a step does not allow.
ImplementsContract == Contract!Spec

=============================================================================
