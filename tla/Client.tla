------------------------------- MODULE Client -------------------------------
(***************************************************************************)
(* trajir/client: hosts that drive a step by hand (Project, the host's own *)
(* call of its model, SealDecision, ExecTool for each call, CommitStep, as *)
(* examples/adoption_host does) beside workers that use RunStep, on one    *)
(* trajectory.  A host has the log and no memo: what it knows after a      *)
(* restart is what its re-driven calls are answered.                       *)
(*                                                                         *)
(* The log may have been imported: it then holds the nodes a run of the    *)
(* step elsewhere had appended when it was exported, and the memo of that  *)
(* run stayed behind.                                                      *)
(*                                                                         *)
(* A host's frame is a RunStep frame without the points where the memo is  *)
(* read or written.  ExecTool runs the same two wrappers as RunStep, whose *)
(* actions are used as they are.                                           *)
(***************************************************************************)
EXTENDS RunStepProperties

CONSTANT HostSets   \* sets of workers that may be hosts

ASSUME HostsAssumption == HostSets \subseteq SUBSET Workers

VARIABLES
    hosts,  \* workers that drive their steps by hand
    fresh   \* the log was empty when the trajectory was opened

setup == <<hosts, fresh>>
clientVars == <<vars, setup>>

----------------------------------------------------------------------------
(* An imported step.  A package holds the nodes of the step in the order   *)
(* of their seq, up to the one that was last appended when it was exported.*)

Runnable(p) == p \in DOMAIN ToolCalls /\ \A i \in DOMAIN ToolCalls[p] : Known(ToolCalls[p][i])

\* The nodes of step s run to its end with plan p, context c and results r.
FullStep(s, c, p, r) ==
    LET n == Len(ToolCalls[p])
        calls   == {CallSlot(s, i) : i \in 1..n}
        results == {ResultSlot(s, i) : i \in 1..n}
    IN  [k \in {ProjectSlot(s), DecisionSlot(s), CommitSlot(s, n)} \cup calls \cup results |->
            CASE k = ProjectSlot(s)  -> c
              [] k = DecisionSlot(s) -> p
              [] k \in calls         -> ToolCalls[p][k.seq \div 2]
              [] k \in results       -> r[k.seq \div 2]
              [] OTHER               -> "{}"]

Prefix(nodes, cut) == [k \in {k \in DOMAIN nodes : k.seq < cut} |-> nodes[k]]

\* tir.Import into an empty log, finished.  The tools whose TOOL_RESULT was
\* exported have run; the one that was under way may have.
Imported ==
    \E s \in Steps, c \in Contexts, p \in {q \in Plans : Runnable(q)} :
    \E r \in [DOMAIN ToolCalls[p] -> Results], cut \in 1..(2 * Len(ToolCalls[p]) + 3) :
       LET called(i)   == CallSlot(s, i) \in DOMAIN log
           answered(i) == ResultSlot(s, i) \in DOMAIN log
           key(i)      == <<s, i, ToolCalls[p][i]>>
           calls       == DOMAIN ToolCalls[p]
       IN  /\ \A t \in Steps : s <= t
           /\ \A i \in calls : r[i] \in Outcomes[ToolCalls[p][i]]
           /\ log = Prefix(FullStep(s, c, p, r), cut)
           /\ \E ran \in SUBSET {i \in calls : called(i)} :
                 /\ {i \in calls : answered(i)} \subseteq ran
                 /\ runs = [k \in {key(i) : i \in ran} |-> 1]

ClientInit ==
    /\ memo = [k \in {} |-> None]
    /\ wk = [w \in Workers |-> Idle]
    /\ stops = 0
    /\ hosts \in HostSets
    /\ \/ fresh = TRUE /\ Init
       \/ fresh = FALSE /\ Imported

----------------------------------------------------------------------------
(* The client's methods, as a host calls them.                             *)

\* OpenTrajectory, which makes the stores that are missing.
OpenTrajectory(h, s) == Begin(h, s)

\* Resume: the same, refused when the log has no node of the trajectory.
Resume(h, s) == DOMAIN log # {} /\ Begin(h, s)

HostProject(h) ==
    /\ At(h, "project")
    /\ AppendThen(h, ProjectSlot(wk[h].step), wk[h].ctx, Goto(h, "model"))
    /\ UNCHANGED <<memo, runs, stops>>

\* The host's model, asked again at each re-drive.
HostModel(h) ==
    /\ At(h, "model")
    /\ \E p \in Plans : wk' = [wk EXCEPT ![h].pc = "seal", ![h].plan = p]
    /\ UNCHANGED <<log, memo, runs, stops>>

\* Variant: an error of SealDecision is dropped.
SealDecisionUnchecked(h) ==
    /\ At(h, "seal")
    /\ log' = PutIfAbsent(log, DecisionSlot(wk[h].step), wk[h].plan)
    /\ IF wk[h].plan \in DOMAIN ToolCalls
       THEN wk' = [wk EXCEPT ![h].pc = "tools", ![h].idx = 1]
       ELSE Return(h)
    /\ UNCHANGED <<memo, runs, stops>>

\* SealDecision, then the host's own look at tool_calls.  An entry that is no
\* object is refused at its turn, like an unknown tool (RejectTool).
SealDecision(h) ==
    /\ At(h, "seal")
    /\ AppendThen(h, DecisionSlot(wk[h].step), wk[h].plan,
          IF wk[h].plan \in DOMAIN ToolCalls
          THEN wk' = [wk EXCEPT ![h].pc = "tools", ![h].idx = 1]
          ELSE Return(h))
    /\ UNCHANGED <<memo, runs, stops>>

\* Variant: every tool takes the plain wrapper.
ExecToolPlain(h) ==
    /\ Pending(h)
    /\ Known(Current(h)) /\ AssertToolAllowed(wk[h].mode, Current(h))
    /\ Goto(h, "call")
    /\ UNCHANGED <<log, memo, runs, stops>>

\* ExecTool chooses the wrapper by the effect class; nothing is looked up.
ExecTool(h) ==
    /\ Pending(h)
    /\ Known(Current(h)) /\ AssertToolAllowed(wk[h].mode, Current(h))
    /\ Goto(h, IF Gated(Current(h)) THEN "claim" ELSE "call")
    /\ UNCHANGED <<log, memo, runs, stops>>

\* Variant: the host goes on with a result that was not recorded.
ExecToolResultBlind(h) ==
    /\ At(h, "record")
    /\ log' = log
    /\ wk' = [wk EXCEPT ![h].pc = "tools", ![h].idx = @ + 1, ![h].val = None]
    /\ UNCHANGED <<memo, runs, stops>>

\* The wrapper records TOOL_RESULT, and ExecTool returns to the host's loop.
ExecToolResult(h) ==
    /\ At(h, "record")
    /\ AppendThen(h, ResultSlot(wk[h].step, wk[h].idx), wk[h].val,
          wk' = [wk EXCEPT ![h].pc = "tools", ![h].idx = @ + 1, ![h].val = None])
    /\ UNCHANGED <<memo, runs, stops>>

HostStep(h) ==
    \/ \E s \in Steps : OpenTrajectory(h, s) \/ Resume(h, s)
    \/ HostProject(h) \/ HostModel(h) \/ SealDecision(h)
    \/ RejectTool(h) \/ ExecTool(h) \/ Claim(h) \/ Abort(h) \/ RecordCall(h)
    \/ RunTool(h) \/ ExecToolResult(h) \/ CommitStep(h)

----------------------------------------------------------------------------
ClientNext ==
    /\ \/ \E h \in hosts : HostStep(h)
       \/ \E w \in Workers \ hosts : Advance(w)
       \/ \E w \in Workers : ClaimFails(w) \/ Stop(w)
    /\ UNCHANGED setup

ClientSpec == ClientInit /\ [][ClientNext]_clientVars

----------------------------------------------------------------------------
\* step.go: where only RunStep has ever driven the trajectory, no step is
\* sealed before its inference is memoized, whatever workers race or stop.
SealNeedsMemo == hosts = {} /\ fresh => SealedHasMemo

=============================================================================
