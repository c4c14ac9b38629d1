---------------------------- MODULE ClientProofs ----------------------------
(***************************************************************************)
(* The promises of a step when hosts that drive it by hand, and an import, *)
(* are added to the workers of RunStep, for any constants.                 *)
(*                                                                         *)
(* A host's step is a step of RunStep, or one of the four that go around   *)
(* the memo.  The invariants of RunStep's proofs are kept by those four,   *)
(* and hold of an imported log; the lemmas there are about what a step     *)
(* does and not about who takes it.                                        *)
(***************************************************************************)
EXTENDS Client, RunStepProofs

HostOnly(h) == HostProject(h) \/ HostModel(h) \/ ExecTool(h) \/ ExecToolResult(h)

\* Hosts are workers, and stay what they are.
SetupOK == hosts \subseteq Workers

\* A step of RunStep, or one that only a host takes.
LEMMA ClientSteps ==
    ASSUME SetupOK, [ClientNext]_clientVars
    PROVE  [Next]_vars \/ \E h \in Workers : HostOnly(h)
<1>1. CASE UNCHANGED clientVars
  BY <1>1 DEF clientVars
<1>2. ASSUME NEW h \in hosts, HostStep(h) PROVE Advance(h) \/ HostOnly(h)
  BY <1>2 DEF HostStep, OpenTrajectory, Resume, SealDecision, Seal, Advance, HostOnly
<1> QED
  BY <1>1, <1>2 DEF SetupOK, ClientNext, Next

\* The setup is chosen once.
LEMMA SetupStep == ASSUME SetupOK, [ClientNext]_clientVars PROVE SetupOK' /\ UNCHANGED setup
  BY DEF SetupOK, ClientNext, clientVars, setup

----------------------------------------------------------------------------
(* The four steps of a host.                                               *)

\* A host ends up in a well-typed frame, neither at "run" nor with a gated call
\* it has not claimed, and past the seal only with the plan it was past it with.
HostFrame(h, l) ==
    /\ wk' = [wk EXCEPT ![h] = l] /\ LocalOK(l)
    /\ l.pc # "run" /\ (l.pc = "call" => ~GatedAt(l))
    /\ l.pc \in PastSeal => wk[h].pc \in PastSeal /\ l.step = wk[h].step /\ l.plan = wk[h].plan

\* The frame a host leaves the client with.
LEMMA HostReturns ==
    ASSUME FramesOK, NEW h \in Workers, Return(h) PROVE HostFrame(h, Idle)
<1>1. Idle.pc = "idle"
  BY DEF Idle
<1> QED
  BY <1>1, IdleOK DEF HostFrame, Return, PastSeal

\* The four steps, as steps of one frame.
LEMMA HostFrames ==
    ASSUME FramesOK, NEW h \in Workers, HostOnly(h)
    PROVE  (\E l : HostFrame(h, l)) /\ UNCHANGED <<memo, runs, stops>>
<1>a. ASSUME NEW l, HostFrame(h, l) PROVE \E k : HostFrame(h, k)
  <2> WITNESS l
  <2> QED
    BY <1>a
<1>1. CASE HostProject(h)
  <2> DEFINE l == [wk[h] EXCEPT !.pc = "model"]
  <2>1. CASE wk' = [wk EXCEPT ![h] = l]
    <3>1. LocalOK(l) /\ l.pc = "model"
      BY <1>1 DEF HostProject, At, FramesOK, LocalOK, Local, PC, PastSeal, InCall
    <3>2. HostFrame(h, l)
      BY <2>1, <3>1 DEF HostFrame, PastSeal
    <3> HIDE DEF l
    <3> QED
      BY <1>1, <1>a, <3>2 DEF HostProject
  <2> QED
    BY <1>1, <1>a, <2>1, HostReturns DEF HostProject, AppendThen, Goto
<1>2. CASE HostModel(h)
  <2>1. PICK p \in Plans : wk' = [wk EXCEPT ![h].pc = "seal", ![h].plan = p]
    BY <1>2 DEF HostModel
  <2> DEFINE l == [wk[h] EXCEPT !.pc = "seal", !.plan = p]
  <2>2. LocalOK(l) /\ l.pc = "seal"
    BY <1>2 DEF HostModel, At, FramesOK, LocalOK, Local, PC, PastSeal, InCall
  <2>3. wk' = [wk EXCEPT ![h] = l]
    BY <2>1
  <2>4. HostFrame(h, l)
    BY <2>2, <2>3 DEF HostFrame, PastSeal
  <2> HIDE DEF l
  <2> QED
    BY <1>2, <1>a, <2>4 DEF HostModel
<1>3. CASE ExecTool(h)
  <2>1. wk[h].pc = "tools" /\ wk[h].idx <= Len(CallsOf(h))
    BY <1>3 DEF ExecTool, Pending, At
  <2> DEFINE label == IF Gated(Current(h)) THEN "claim" ELSE "call"
             l == [wk[h] EXCEPT !.pc = label]
  <2>2. wk' = [wk EXCEPT ![h] = l]
    BY <1>3 DEF ExecTool, Goto
  <2>3. LocalOK(l)
    BY <2>1 DEF FramesOK, LocalOK, Local, PC, PastSeal, InCall, CallsOf
  <2>4. l.pc = label /\ l.step = wk[h].step /\ l.plan = wk[h].plan /\ l.idx = wk[h].idx
    BY DEF FramesOK, LocalOK, Local
  <2> HIDE DEF l
  <2>5. HostFrame(h, l)
    BY <2>1, <2>2, <2>3, <2>4 DEF HostFrame, PastSeal, GatedAt, Current, CallsOf
  <2> QED
    BY <1>3, <1>a, <2>5 DEF ExecTool
<1>4. CASE ExecToolResult(h)
  <2> DEFINE l == [wk[h] EXCEPT !.pc = "tools", !.idx = @ + 1, !.val = None]
  <2>1. CASE wk' = [wk EXCEPT ![h] = l]
    <3>1. wk[h].pc \in PastSeal
      BY <1>4 DEF ExecToolResult, At, PastSeal
    <3>2. l \in Local
      <4>1. wk[h] \in Local /\ wk[h].idx + 1 \in Nat
        BY DEF FramesOK, LocalOK, Local
      <4> QED
        BY <4>1 DEF Local, PC
    <3>3. /\ l.pc = "tools" /\ l.step = wk[h].step /\ l.ctx = wk[h].ctx /\ l.mode = wk[h].mode
          /\ l.plan = wk[h].plan /\ l.idx = wk[h].idx + 1
      BY DEF FramesOK, LocalOK, Local
    <3> HIDE DEF l
    <3>4. /\ wk[h].step \in Steps /\ wk[h].ctx \in Contexts /\ wk[h].mode \in Modes
          /\ wk[h].plan \in DOMAIN ToolCalls /\ wk[h].idx \in Nat
      BY <3>1 DEF FramesOK, LocalOK, Local, PastSeal
    <3>5. LocalOK(l)
      BY <3>2, <3>3, <3>4 DEF LocalOK, InCall
    <3>6. HostFrame(h, l)
      BY <2>1, <3>1, <3>3, <3>5 DEF HostFrame
    <3> QED
      BY <1>4, <1>a, <3>6 DEF ExecToolResult
  <2> QED
    BY <1>4, <1>a, <2>1, HostReturns DEF ExecToolResult, AppendThen
<1> QED
  BY <1>1, <1>2, <1>3, <1>4 DEF HostOnly

\* A host moves as a worker of RunStep does.
LEMMA HostMoves ==
    ASSUME FramesOK, NEW h \in Workers, HostOnly(h) PROVE Moved(h)
<1>1. CASE HostProject(h)
  <2>1. Return(h) \/ Goto(h, "model")
    BY <1>1 DEF HostProject, AppendThen
  <2> QED
    BY <2>1, ReturnFrame, GotoFrame DEF Moved, PastSeal
<1>2. CASE HostModel(h)
  <2>1. PICK p \in Plans : wk' = [wk EXCEPT ![h].pc = "seal", ![h].plan = p]
    BY <1>2 DEF HostModel
  <2> DEFINE l == [wk[h] EXCEPT !.pc = "seal", !.plan = p]
  <2>2. wk' = [wk EXCEPT ![h] = l]
    BY <2>1
  <2>3. l.pc \notin PastSeal
    BY DEF FramesOK, LocalOK, Local, PastSeal
  <2> HIDE DEF l
  <2> QED
    BY <2>2, <2>3, BeforeSeal
<1>3. CASE ExecTool(h)
  <2>1. wk[h].pc \in PastSeal
    BY <1>3 DEF ExecTool, Pending, At, PastSeal
  <2>2. Goto(h, "claim") \/ Goto(h, "call")
    BY <1>3 DEF ExecTool
  <2> QED
    BY <2>1, <2>2, GotoFrame DEF Moved, SameCall
<1>4. CASE ExecToolResult(h)
  <2> DEFINE l == [wk[h] EXCEPT !.pc = "tools", !.idx = @ + 1, !.val = None]
  <2>1. CASE wk' = [wk EXCEPT ![h] = l]
    <3>1. wk[h].pc \in PastSeal /\ ResultSlot(wk[h].step, wk[h].idx) \in DOMAIN log'
      BY <1>4 DEF ExecToolResult, AppendThen, At, PastSeal, PutIfAbsent, Put
    <3>2. l.pc = "tools" /\ l.step = wk[h].step /\ l.plan = wk[h].plan /\ l.idx = wk[h].idx + 1
      BY DEF FramesOK, LocalOK, Local
    <3> HIDE DEF l
    <3> QED
      BY <2>1, <3>1, <3>2 DEF FramesOK, Moved
  <2> QED
    BY <1>4, <2>1, ReturnFrame DEF ExecToolResult, AppendThen
<1> QED
  BY <1>1, <1>2, <1>3, <1>4 DEF HostOnly

\* A host appends its context or the result of a call it has run.
LEMMA HostAppends ==
    ASSUME NEW h \in Workers, HostOnly(h)
    PROVE  \/ log' = log
           \/ At(h, "project") /\ log' = PutIfAbsent(log, ProjectSlot(wk[h].step), wk[h].ctx)
           \/ At(h, "record") /\ log' = PutIfAbsent(log, ResultSlot(wk[h].step, wk[h].idx), wk[h].val)
  BY DEF HostOnly, HostProject, HostModel, ExecTool, ExecToolResult, AppendThen

\* So what it does to the log, the memo and the world is what RunStep may do.
LEMMA HostChanges ==
    ASSUME FramesOK, NEW h \in Workers, HostOnly(h)
    PROVE  /\ LogChange(h) /\ MemoChange(h) /\ RunsChange(h)
           /\ LogGrows /\ RunsGrow /\ runs' = runs
<1>1. UNCHANGED <<memo, runs>>
  BY HostFrames
<1>2. LogGrows
  BY HostAppends, PutNode DEF LogGrows
<1>3. ASSUME log' = PutIfAbsent(log, ProjectSlot(wk[h].step), wk[h].ctx) PROVE LogChange(h)
  <2>1. \E j, u : /\ j.kind \in {"PROJECT_CONTEXT", "TOOL_CALL", "ABORT"}
                  /\ log' = PutIfAbsent(log, j, u)
    <3>1. ProjectSlot(wk[h].step).kind = "PROJECT_CONTEXT"
      BY DEF ProjectSlot, Slot
    <3> WITNESS ProjectSlot(wk[h].step), wk[h].ctx
    <3> QED
      BY <1>3, <3>1
  <2> QED
    BY <2>1, Zenon DEF LogChange
<1>4. LogChange(h)
  BY <1>3, HostAppends DEF LogChange
<1> QED
  BY <1>1, <1>2, <1>4 DEF MemoChange, RunsChange, RunsGrow

\* The nodes a host appends are well-formed.
LEMMA HostLog ==
    ASSUME LogOK, FramesOK, NEW h \in Workers, HostOnly(h) PROVE LogOK'
<1>1. CASE log' = log
  BY <1>1 DEF LogOK
<1>2. CASE At(h, "project") /\ log' = PutIfAbsent(log, ProjectSlot(wk[h].step), wk[h].ctx)
  <2>1. wk[h].step \in Steps /\ wk[h].ctx \in Contexts
    BY <1>2 DEF At, FramesOK, LocalOK
  <2>2. /\ ProjectSlot(wk[h].step) \in [step : Steps, seq : Nat, kind : Kinds]
        /\ wk[h].ctx \in Payload(ProjectSlot(wk[h].step).kind)
    BY <2>1 DEF ProjectSlot, Slot, Kinds, Payload
  <2> QED
    BY <1>2, <2>2, LogAppend
<1>3. CASE At(h, "record") /\ log' = PutIfAbsent(log, ResultSlot(wk[h].step, wk[h].idx), wk[h].val)
  <2>1. wk[h].step \in Steps /\ wk[h].idx \in Nat /\ wk[h].val \in Results
    BY <1>3 DEF At, FramesOK, LocalOK, Local
  <2>2. /\ ResultSlot(wk[h].step, wk[h].idx) \in [step : Steps, seq : Nat, kind : Kinds]
        /\ wk[h].val \in Payload(ResultSlot(wk[h].step, wk[h].idx).kind)
    BY <2>1 DEF ResultSlot, Slot, Kinds, Payload
  <2> QED
    BY <1>3, <2>2, LogAppend
<1> QED
  BY <1>1, <1>2, <1>3, HostAppends

\* Types, gate and seal after a step of a host.
LEMMA HostKeeps ==
    ASSUME TypeOK, NEW h \in Workers, HostOnly(h)
    PROVE  /\ TypeOK'
           /\ GateInv => GateInv'
           /\ PlanAgreement => PlanAgreement'
           /\ ToolsFromSealedPlan => ToolsFromSealedPlan'
<1>1. LogOK /\ FramesOK /\ MemoOK /\ CountsOK
  BY TypeParts
<1>2. LogGrows /\ UNCHANGED <<memo, runs, stops>> /\ \E l : HostFrame(h, l)
  BY <1>1, HostChanges, HostFrames
<1>3. PICK l : HostFrame(h, l)
  BY <1>2
<1>4. LogOK' /\ FramesOK' /\ MemoOK' /\ CountsOK'
  <2>1. FramesOK'
    BY <1>1, <1>3, FrameUpdate DEF HostFrame
  <2> QED
    BY <1>1, <1>2, <2>1, HostLog DEF MemoOK, CountsOK, InferKey
<1>5. TypeOK'
  BY <1>4 DEF TypeOK, LogOK, FramesOK, MemoOK, CountsOK
<1>6. ASSUME GateInv PROVE GateInv'
  BY <1>1, <1>2, <1>3, <1>6, GateQuiet DEF HostFrame
<1>7. ASSUME PlanAgreement PROVE PlanAgreement'
  BY <1>1, <1>2, <1>3, <1>7, AgreementQuiet DEF HostFrame
<1>8. ASSUME ToolsFromSealedPlan PROVE ToolsFromSealedPlan'
  BY <1>2, <1>8 DEF ToolsFromSealedPlan, SealedCall, Sealed, SealedPlan, LogGrows
<1> QED
  BY <1>5, <1>6, <1>7, <1>8

----------------------------------------------------------------------------
(* An imported log.                                                        *)

StepNodes(s, n) ==
    {ProjectSlot(s), DecisionSlot(s), CommitSlot(s, n)}
       \cup {CallSlot(s, i) : i \in 1..n} \cup {ResultSlot(s, i) : i \in 1..n}

\* What a package of one step holds.
PackageNodes(s, c, p, r, cut) ==
    LET n == Len(ToolCalls[p]) IN
    /\ \A k \in DOMAIN log : k \in StepNodes(s, n) /\ k.seq < cut
    /\ \A k \in StepNodes(s, n) : k.seq < cut => k \in DOMAIN log
    /\ ProjectSlot(s) \in DOMAIN log => log[ProjectSlot(s)] = c
    /\ DecisionSlot(s) \in DOMAIN log => log[DecisionSlot(s)] = p
    /\ \A i \in 1..n : CallSlot(s, i) \in DOMAIN log => log[CallSlot(s, i)] = ToolCalls[p][i]
    /\ \A i \in 1..n : ResultSlot(s, i) \in DOMAIN log => log[ResultSlot(s, i)] = r[i]
    /\ CommitSlot(s, n) \in DOMAIN log => log[CommitSlot(s, n)] = "{}"

\* A prefix of a full step is such a package.
LEMMA ImportedLog ==
    ASSUME NEW s, NEW c, NEW p \in DOMAIN ToolCalls, NEW r, NEW cut,
           log = Prefix(FullStep(s, c, p, r), cut)
    PROVE  PackageNodes(s, c, p, r, cut)
<1> DEFINE n == Len(ToolCalls[p])
           calls   == {CallSlot(s, i) : i \in 1..n}
           results == {ResultSlot(s, i) : i \in 1..n}
           nodes == StepNodes(s, n)
           full  == FullStep(s, c, p, r)
<1>1. n \in Nat
  BY PlansAssumption
<1>2. full = [k \in nodes |->
            CASE k = ProjectSlot(s)  -> c
              [] k = DecisionSlot(s) -> p
              [] k \in calls         -> ToolCalls[p][k.seq \div 2]
              [] k \in results       -> r[k.seq \div 2]
              [] OTHER               -> "{}"]
  BY DEF FullStep, StepNodes
<1> HIDE DEF n
<1>3. DOMAIN log = {k \in nodes : k.seq < cut} /\ \A k \in DOMAIN log : log[k] = full[k]
  BY <1>2 DEF Prefix
<1>a. \A k \in calls : k.kind = "TOOL_CALL"
  BY DEF CallSlot, Slot
<1>b. \A k \in results : k.kind = "TOOL_RESULT"
  BY DEF ResultSlot, Slot
<1>c. /\ ProjectSlot(s).kind = "PROJECT_CONTEXT" /\ DecisionSlot(s).kind = "DECISION"
      /\ CommitSlot(s, n).kind = "COMMIT_STEP"
  BY DEF ProjectSlot, DecisionSlot, CommitSlot, Slot
<1>4. /\ {ProjectSlot(s), DecisionSlot(s), CommitSlot(s, n)} \subseteq nodes
      /\ calls \subseteq nodes /\ results \subseteq nodes
  BY DEF StepNodes
<1>5. ASSUME NEW i \in 1..n
      PROVE  /\ CallSlot(s, i) \in calls /\ CallSlot(s, i).seq \div 2 = i
             /\ ResultSlot(s, i) \in results /\ ResultSlot(s, i).seq \div 2 = i
  BY <1>1 DEF CallSlot, ResultSlot, Slot
<1> HIDE DEF calls, results, nodes, full
<1>6. full[ProjectSlot(s)] = c /\ full[DecisionSlot(s)] = p /\ full[CommitSlot(s, n)] = "{}"
  BY <1>2, <1>4, <1>a, <1>b, <1>c
<1>7. ASSUME NEW i \in 1..n
      PROVE  full[CallSlot(s, i)] = ToolCalls[p][i] /\ full[ResultSlot(s, i)] = r[i]
  <2>1. /\ CallSlot(s, i) \in calls /\ CallSlot(s, i).seq \div 2 = i
        /\ ResultSlot(s, i) \in results /\ ResultSlot(s, i).seq \div 2 = i
    BY <1>5
  <2>2. CallSlot(s, i).kind = "TOOL_CALL" /\ ResultSlot(s, i).kind = "TOOL_RESULT"
    BY <2>1, <1>a, <1>b
  <2>3. /\ CallSlot(s, i) \in nodes /\ ResultSlot(s, i) \in nodes
        /\ CallSlot(s, i) \notin results /\ ResultSlot(s, i) \notin calls
    BY <1>4, <1>a, <1>b, <2>1, <2>2
  <2>4. /\ CallSlot(s, i) # ProjectSlot(s) /\ CallSlot(s, i) # DecisionSlot(s)
        /\ ResultSlot(s, i) # ProjectSlot(s) /\ ResultSlot(s, i) # DecisionSlot(s)
    BY <1>c, <2>2
  <2>5. full[CallSlot(s, i)] = ToolCalls[p][CallSlot(s, i).seq \div 2]
    BY <1>2, <2>1, <2>3, <2>4
  <2>6. full[ResultSlot(s, i)] = r[ResultSlot(s, i).seq \div 2]
    BY <1>2, <2>1, <2>3, <2>4
  <2> QED
    BY <2>1, <2>5, <2>6
<1> QED
  BY <1>3, <1>6, <1>7 DEF PackageNodes, n, nodes

ImportedSetup ==
    /\ memo = [k \in {} |-> None] /\ wk = [w \in Workers |-> Idle] /\ stops = 0 /\ Imported

\* The history of an import: a step and its plan, the calls that have run and
\* the results that were exported.
History(s, p, r, ran) ==
    /\ s \in Steps /\ p \in Plans \cap DOMAIN ToolCalls
    /\ \A k \in DOMAIN log : k \in StepNodes(s, Len(ToolCalls[p]))
    /\ \A k \in DOMAIN log : \A j \in StepNodes(s, Len(ToolCalls[p])) :
          j.seq <= k.seq => j \in DOMAIN log
    /\ ProjectSlot(s) \in DOMAIN log => log[ProjectSlot(s)] \in Contexts
    /\ DecisionSlot(s) \in DOMAIN log => log[DecisionSlot(s)] = p
    /\ CommitSlot(s, Len(ToolCalls[p])) \in DOMAIN log =>
          log[CommitSlot(s, Len(ToolCalls[p]))] = "{}"
    /\ \A i \in DOMAIN ToolCalls[p] :
          /\ CallSlot(s, i) \in DOMAIN log => log[CallSlot(s, i)] = ToolCalls[p][i]
          /\ ResultSlot(s, i) \in DOMAIN log => i \in ran /\ log[ResultSlot(s, i)] = r[i]
          /\ r[i] \in Outcomes[ToolCalls[p][i]]
          /\ i \in ran => CallSlot(s, i) \in DOMAIN log
    /\ ran \subseteq DOMAIN ToolCalls[p]
    /\ runs = [k \in {<<s, i, ToolCalls[p][i]>> : i \in ran} |-> 1]

\* An import has one.
LEMMA ImportHistory == ASSUME Imported PROVE \E s, p, r, ran : History(s, p, r, ran)
<1>1. PICK s \in Steps, c \in Contexts, p \in {q \in Plans : Runnable(q)} :
        \E r \in [DOMAIN ToolCalls[p] -> Results], cut \in 1..(2 * Len(ToolCalls[p]) + 3) :
           /\ \A i \in DOMAIN ToolCalls[p] : r[i] \in Outcomes[ToolCalls[p][i]]
           /\ log = Prefix(FullStep(s, c, p, r), cut)
           /\ \E ran \in SUBSET {i \in DOMAIN ToolCalls[p] : CallSlot(s, i) \in DOMAIN log} :
                 /\ {i \in DOMAIN ToolCalls[p] : ResultSlot(s, i) \in DOMAIN log} \subseteq ran
                 /\ runs = [k \in {<<s, i, ToolCalls[p][i]>> : i \in ran} |-> 1]
  BY DEF Imported
<1>2. PICK r \in [DOMAIN ToolCalls[p] -> Results], cut \in 1..(2 * Len(ToolCalls[p]) + 3) :
           /\ \A i \in DOMAIN ToolCalls[p] : r[i] \in Outcomes[ToolCalls[p][i]]
           /\ log = Prefix(FullStep(s, c, p, r), cut)
           /\ \E ran \in SUBSET {i \in DOMAIN ToolCalls[p] : CallSlot(s, i) \in DOMAIN log} :
                 /\ {i \in DOMAIN ToolCalls[p] : ResultSlot(s, i) \in DOMAIN log} \subseteq ran
                 /\ runs = [k \in {<<s, i, ToolCalls[p][i]>> : i \in ran} |-> 1]
  BY <1>1
<1>3. PICK ran \in SUBSET {i \in DOMAIN ToolCalls[p] : CallSlot(s, i) \in DOMAIN log} :
        /\ {i \in DOMAIN ToolCalls[p] : ResultSlot(s, i) \in DOMAIN log} \subseteq ran
        /\ runs = [k \in {<<s, i, ToolCalls[p][i]>> : i \in ran} |-> 1]
  BY <1>2
<1>4. p \in Plans /\ p \in DOMAIN ToolCalls /\ cut \in Nat
  BY <1>1 DEF Runnable
<1>5. ToolCalls[p] \in Seq(Calls)
  BY <1>4, PlansAssumption
<1>6. DOMAIN ToolCalls[p] = 1..Len(ToolCalls[p]) /\ Len(ToolCalls[p]) \in Nat
  BY <1>5
<1>7. log = Prefix(FullStep(s, c, p, r), cut)
  BY <1>2
<1>8. PackageNodes(s, c, p, r, cut)
  BY <1>4, <1>7, ImportedLog
<1>9. \A k \in StepNodes(s, Len(ToolCalls[p])) : k.seq \in Nat
  BY <1>6 DEF StepNodes, ProjectSlot, DecisionSlot, CallSlot, ResultSlot, CommitSlot, Slot
<1>10. \A k \in DOMAIN log : \A j \in StepNodes(s, Len(ToolCalls[p])) :
          j.seq <= k.seq => j \in DOMAIN log
  <2> SUFFICES ASSUME NEW k \in DOMAIN log, NEW j \in StepNodes(s, Len(ToolCalls[p])), j.seq <= k.seq
               PROVE  j.seq < cut
    BY <1>8 DEF PackageNodes
  <2>1. k.seq < cut /\ k.seq \in Nat /\ j.seq \in Nat
    BY <1>8, <1>9 DEF PackageNodes
  <2> QED
    BY <1>4, <2>1
<1>11. History(s, p, r, ran)
  BY <1>1, <1>2, <1>3, <1>4, <1>6, <1>8, <1>10 DEF History, PackageNodes
<1> WITNESS s, p, r, ran
<1> QED
  BY <1>11

\* The nodes of an import, one by one.
LEMMA HistoryNodes ==
    ASSUME NEW s, NEW p, NEW r, NEW ran, History(s, p, r, ran)
    PROVE  /\ DOMAIN ToolCalls[p] = 1..Len(ToolCalls[p]) /\ Len(ToolCalls[p]) \in Nat
           /\ \A i \in DOMAIN ToolCalls[p] : ToolCalls[p][i] \in Calls /\ r[i] \in Results
           /\ \A k \in DOMAIN log :
                 \/ k = ProjectSlot(s) \/ k = DecisionSlot(s) \/ k = CommitSlot(s, Len(ToolCalls[p]))
                 \/ \E i \in DOMAIN ToolCalls[p] : k = CallSlot(s, i) \/ k = ResultSlot(s, i)
           /\ \A i \in DOMAIN ToolCalls[p] :
                 CallSlot(s, i) \in DOMAIN log => DecisionSlot(s) \in DOMAIN log
           /\ \A i \in DOMAIN ToolCalls[p] :
                 ResultSlot(s, i) \in DOMAIN log => CallSlot(s, i) \in DOMAIN log
           /\ CommitSlot(s, Len(ToolCalls[p])) \in DOMAIN log =>
                 /\ DecisionSlot(s) \in DOMAIN log
                 /\ \A i \in DOMAIN ToolCalls[p] : ResultSlot(s, i) \in DOMAIN log
<1> DEFINE n == Len(ToolCalls[p])
<1>1. p \in DOMAIN ToolCalls /\ ToolCalls[p] \in Seq(Calls)
  BY PlansAssumption DEF History
<1>2. DOMAIN ToolCalls[p] = 1..n /\ n \in Nat /\ \A i \in DOMAIN ToolCalls[p] : ToolCalls[p][i] \in Calls
  BY <1>1
<1>3. \A i \in DOMAIN ToolCalls[p] : r[i] \in Results
  <2>1. \A i \in DOMAIN ToolCalls[p] : r[i] \in Outcomes[ToolCalls[p][i]]
    BY DEF History
  <2> QED
    BY <1>2, <2>1 DEF Results
<1>4. DecisionSlot(s) \in StepNodes(s, n) /\ \A i \in 1..n : /\ CallSlot(s, i) \in StepNodes(s, n)
                                                             /\ ResultSlot(s, i) \in StepNodes(s, n)
  BY DEF StepNodes
<1>5. /\ DecisionSlot(s).seq = 1 /\ CommitSlot(s, n).seq = 2 * n + 2
      /\ \A i \in 1..n : CallSlot(s, i).seq = 2 * i /\ ResultSlot(s, i).seq = 2 * i + 1
  BY <1>2 DEF DecisionSlot, CommitSlot, CallSlot, ResultSlot, Slot
<1>6. \A k \in DOMAIN log : \A j \in StepNodes(s, n) : j.seq <= k.seq => j \in DOMAIN log
  BY DEF History
<1> HIDE DEF n
<1>7. \A i \in 1..n : CallSlot(s, i) \in DOMAIN log => DecisionSlot(s) \in DOMAIN log
  <2> TAKE i \in 1..n
  <2>1. DecisionSlot(s).seq <= CallSlot(s, i).seq
    BY <1>2, <1>5
  <2> QED
    BY <1>4, <1>6, <2>1
<1>8. \A i \in 1..n : ResultSlot(s, i) \in DOMAIN log => CallSlot(s, i) \in DOMAIN log
  <2> TAKE i \in 1..n
  <2>1. CallSlot(s, i).seq <= ResultSlot(s, i).seq
    BY <1>2, <1>5
  <2> QED
    BY <1>4, <1>6, <2>1
<1>9. CommitSlot(s, n) \in DOMAIN log =>
         DecisionSlot(s) \in DOMAIN log /\ \A i \in 1..n : ResultSlot(s, i) \in DOMAIN log
  <2>1. DecisionSlot(s).seq <= CommitSlot(s, n).seq
    BY <1>2, <1>5
  <2>2. \A i \in 1..n : ResultSlot(s, i).seq <= CommitSlot(s, n).seq
    BY <1>2, <1>5
  <2> QED
    BY <1>4, <1>6, <2>1, <2>2
<1>10. \A k \in DOMAIN log : \/ k = ProjectSlot(s) \/ k = DecisionSlot(s) \/ k = CommitSlot(s, n)
                             \/ \E i \in 1..n : k = CallSlot(s, i) \/ k = ResultSlot(s, i)
  BY DEF History, StepNodes, n
<1> QED
  BY <1>2, <1>3, <1>7, <1>8, <1>9, <1>10 DEF n

\* What has run before the import, and what of it is in the log.
LEMMA ImportedRuns ==
    ASSUME NEW s, NEW p, NEW r, NEW ran, History(s, p, r, ran), NEW k \in DOMAIN runs
    PROVE  \E i \in DOMAIN ToolCalls[p] :
              /\ k = <<s, i, ToolCalls[p][i]>> /\ runs[k] = 1
              /\ CallSlot(s, i) \in DOMAIN log /\ SealedCall(s, i, ToolCalls[p][i])
<1>1. PICK i \in ran : k = <<s, i, ToolCalls[p][i]>>
  BY DEF History
<1>2. i \in DOMAIN ToolCalls[p] /\ CallSlot(s, i) \in DOMAIN log /\ runs[k] = 1
  BY <1>1 DEF History
<1>3. DecisionSlot(s) \in DOMAIN log
  BY <1>2, HistoryNodes
<1> QED
  BY <1>1, <1>2, <1>3 DEF History, SealedCall, Sealed, SealedPlan

\* An imported log is well-formed.
LEMMA ImportedType == ASSUME ImportedSetup PROVE TypeOK
<1>1. PICK s, p, r, ran : History(s, p, r, ran)
  BY ImportHistory DEF ImportedSetup
<1> DEFINE n == Len(ToolCalls[p])
<1>2. /\ s \in Steps /\ p \in Plans /\ n \in Nat /\ DOMAIN ToolCalls[p] = 1..n
  BY <1>1, HistoryNodes DEF History
<1>3. \A k \in DOMAIN log : /\ k \in [step : Steps, seq : Nat, kind : Kinds]
                            /\ log[k] \in Payload(k.kind)
  <2> SUFFICES ASSUME NEW k \in DOMAIN log
               PROVE  k \in [step : Steps, seq : Nat, kind : Kinds] /\ log[k] \in Payload(k.kind)
    OBVIOUS
  <2>1. CASE k = ProjectSlot(s)
    BY <1>1, <1>2, <2>1 DEF History, ProjectSlot, Slot, Kinds, Payload
  <2>2. CASE k = DecisionSlot(s)
    BY <1>1, <1>2, <2>2 DEF History, DecisionSlot, Slot, Kinds, Payload
  <2>3. CASE k = CommitSlot(s, n)
    <3>1. k \in [step : Steps, seq : Nat, kind : Kinds] /\ k.kind = "COMMIT_STEP"
      BY <1>2, <2>3 DEF CommitSlot, Slot, Kinds
    <3>2. log[k] = "{}"
      BY <1>1, <2>3 DEF History
    <3> QED
      BY <3>1, <3>2 DEF Payload
  <2>4. ASSUME NEW i \in DOMAIN ToolCalls[p], k = CallSlot(s, i)
        PROVE  k \in [step : Steps, seq : Nat, kind : Kinds] /\ log[k] \in Payload(k.kind)
    <3>1. k \in [step : Steps, seq : Nat, kind : Kinds] /\ k.kind = "TOOL_CALL"
      BY <1>2, <2>4 DEF CallSlot, Slot, Kinds
    <3>2. log[k] = ToolCalls[p][i] /\ ToolCalls[p][i] \in Calls
      BY <1>1, <2>4, HistoryNodes DEF History
    <3> QED
      BY <3>1, <3>2 DEF Payload
  <2>5. ASSUME NEW i \in DOMAIN ToolCalls[p], k = ResultSlot(s, i)
        PROVE  k \in [step : Steps, seq : Nat, kind : Kinds] /\ log[k] \in Payload(k.kind)
    <3>1. k \in [step : Steps, seq : Nat, kind : Kinds] /\ k.kind = "TOOL_RESULT"
      BY <1>2, <2>5 DEF ResultSlot, Slot, Kinds
    <3>2. log[k] = r[i] /\ r[i] \in Results
      BY <1>1, <2>5, HistoryNodes DEF History
    <3> QED
      BY <3>1, <3>2 DEF Payload
  <2> QED
    BY <1>1, <2>1, <2>2, <2>3, <2>4, <2>5, HistoryNodes
<1>4. \A k \in DOMAIN runs : runs[k] \in 1..Many
  BY <1>1, ImportedRuns DEF Many
<1> QED
  BY <1>3, <1>4, IdleOK, StopsAssumption DEF TypeOK, ImportedSetup

\* No gated tool has run twice in an import, and nothing outside its plan.
LEMMA ImportedGate == ASSUME ImportedSetup PROVE GateInv /\ PlanAgreement /\ ToolsFromSealedPlan
<1>1. PICK s, p, r, ran : History(s, p, r, ran)
  BY ImportHistory DEF ImportedSetup
<1>2. \A w \in Workers : wk[w].pc = "idle"
  BY DEF ImportedSetup, Idle
<1>3. ASSUME NEW k \in DOMAIN runs
      PROVE  \E i \in DOMAIN ToolCalls[p] :
                /\ k = <<s, i, ToolCalls[p][i]>> /\ runs[k] = 1
                /\ CallSlot(s, i) \in DOMAIN log /\ SealedCall(s, i, ToolCalls[p][i])
  BY <1>1, ImportedRuns
<1>4. \A k \in DOMAIN runs : /\ runs[k] = 1 /\ CallSlot(k[1], k[2]) \in DOMAIN log
                             /\ SealedCall(k[1], k[2], k[3])
                             /\ k = <<s, k[2], ToolCalls[p][k[2]]>>
  <2> SUFFICES ASSUME NEW k \in DOMAIN runs
               PROVE  /\ runs[k] = 1 /\ CallSlot(k[1], k[2]) \in DOMAIN log
                      /\ SealedCall(k[1], k[2], k[3])
                      /\ k = <<s, k[2], ToolCalls[p][k[2]]>>
    OBVIOUS
  <2>1. PICK i \in DOMAIN ToolCalls[p] :
                /\ k = <<s, i, ToolCalls[p][i]>> /\ runs[k] = 1
                /\ CallSlot(s, i) \in DOMAIN log /\ SealedCall(s, i, ToolCalls[p][i])
    BY <1>3
  <2>2. k[1] = s /\ k[2] = i /\ k[3] = ToolCalls[p][i]
    BY <2>1
  <2> QED
    BY <2>1, <2>2
<1>5. GatedAtMostOnce
  BY <1>4 DEF GatedAtMostOnce
<1>6. GateInv
  BY <1>2, <1>4, <1>5 DEF GateInv
<1> QED
  BY <1>2, <1>4, <1>6 DEF PlanAgreement, ToolsFromSealedPlan, PastSeal

\* Every node of an import is backed.
LEMMA ImportedBacked == ASSUME ImportedSetup PROVE StepInv
<1>1. PICK s, p, r, ran : History(s, p, r, ran)
  BY ImportHistory DEF ImportedSetup
<1> DEFINE n == Len(ToolCalls[p])
<1>2. \A w \in Workers : wk[w].pc = "idle"
  BY DEF ImportedSetup, Idle
<1>3. Progress
  BY <1>2 DEF Progress, Backed, PastSeal
<1>4. MemoBacked
  BY DEF ImportedSetup, MemoBacked
<1>5. /\ s \in Steps /\ p \in DOMAIN ToolCalls /\ n \in Nat /\ DOMAIN ToolCalls[p] = 1..n
  BY <1>1, HistoryNodes DEF History
<1>6. ASSUME NEW k \in DOMAIN log
      PROVE  \/ k = ProjectSlot(s) \/ k = DecisionSlot(s) \/ k = CommitSlot(s, n)
             \/ \E i \in DOMAIN ToolCalls[p] : k = CallSlot(s, i) \/ k = ResultSlot(s, i)
  BY <1>1, HistoryNodes
<1>7. ResultsBacked
  <2> SUFFICES ASSUME NEW k \in DOMAIN log, k.kind = "TOOL_RESULT"
               PROVE  \E i \in Nat \ {0} : /\ k = ResultSlot(k.step, i)
                                           /\ CallSlot(k.step, i) \in DOMAIN log
                                           /\ \E c \in Calls : <<k.step, i, c>> \in DOMAIN runs
    BY DEF ResultsBacked
  <2>1. PICK i \in DOMAIN ToolCalls[p] : k = ResultSlot(s, i)
    BY <1>6 DEF ProjectSlot, DecisionSlot, CallSlot, CommitSlot, Slot
  <2>2. k.step = s /\ i \in Nat \ {0}
    BY <1>5, <2>1 DEF ResultSlot, Slot
  <2>3. CallSlot(s, i) \in DOMAIN log /\ ToolCalls[p][i] \in Calls
    BY <1>1, <2>1, HistoryNodes
  <2>4. <<s, i, ToolCalls[p][i]>> \in DOMAIN runs
    BY <1>1, <2>1 DEF History
  <2> QED
    BY <2>1, <2>2, <2>3, <2>4
<1>8. CommitsBacked
  <2> SUFFICES ASSUME NEW t \in Steps, NEW k \in DOMAIN log, k.step = t, k.kind = "COMMIT_STEP"
               PROVE  /\ Sealed(t) /\ SealedPlan(t) \in DOMAIN ToolCalls
                      /\ \A i \in DOMAIN ToolCalls[SealedPlan(t)] : ResultSlot(t, i) \in DOMAIN log
    BY DEF CommitsBacked, Committed
  <2>1. k = CommitSlot(s, n)
    BY <1>6 DEF ProjectSlot, DecisionSlot, CallSlot, ResultSlot, Slot
  <2>2. t = s
    BY <2>1 DEF CommitSlot, Slot
  <2>3. DecisionSlot(s) \in DOMAIN log /\ \A i \in DOMAIN ToolCalls[p] : ResultSlot(s, i) \in DOMAIN log
    BY <1>1, <2>1, HistoryNodes
  <2>4. log[DecisionSlot(s)] = p
    BY <1>1, <2>3 DEF History
  <2> QED
    BY <1>5, <2>2, <2>3, <2>4 DEF Sealed, SealedPlan
<1> QED
  BY <1>3, <1>4, <1>7, <1>8 DEF StepInv

\* An import is a history the contract may begin with.
LEMMA ImportedContract == ASSUME ImportedSetup PROVE Contract!Init
<1>1. PICK s, p, r, ran : History(s, p, r, ran)
  BY ImportHistory DEF ImportedSetup
<1>2. TypeOK /\ StepInv /\ ToolsFromSealedPlan
  BY ImportedType, ImportedBacked, ImportedGate
<1>3. ResultsBacked /\ CommitsBacked
  BY <1>2 DEF StepInv
<1>4. DOMAIN SealedPlans = Steps /\ \A t \in Steps : SealedPlans[t] \in Plans \cup {None}
  <2>1. \A t \in Steps : Payload(DecisionSlot(t).kind) = Plans
    BY DEF Payload, DecisionSlot, Slot
  <2>2. \A t \in Steps : Sealed(t) => SealedPlan(t) \in Plans
    BY <1>2, <2>1 DEF TypeOK, Sealed, SealedPlan
  <2> QED
    BY <2>2 DEF SealedPlans
<1>5. ASSUME NEW k \in DOMAIN runs PROVE Contract!Planned(k[1], k[2], k[3]) /\ runs[k] = 1
  <2>1. PICK i \in DOMAIN ToolCalls[p] :
              /\ k = <<s, i, ToolCalls[p][i]>> /\ runs[k] = 1
              /\ CallSlot(s, i) \in DOMAIN log /\ SealedCall(s, i, ToolCalls[p][i])
    BY <1>1, ImportedRuns
  <2>2. k[1] = s /\ k[2] = i /\ k[3] = ToolCalls[p][i] /\ s \in Steps
    BY <1>1, <2>1 DEF History
  <2>3. SealedPlans[s] = SealedPlan(s)
    BY <2>1, <2>2 DEF SealedPlans, SealedCall
  <2> QED
    BY <2>1, <2>2, <2>3 DEF SealedCall, Contract!Planned
<1>6. ASSUME NEW x \in DOMAIN RecordedResults
      PROVE  \E k \in DOMAIN runs :
                k[1] = x[1] /\ k[2] = x[2] /\ RecordedResults[x] \in Outcomes[k[3]]
  <2>1. PICK i \in Nat \ {0} : x = <<x[1], i>> /\ ResultSlot(x[1], i) \in DOMAIN log
    BY <1>3, RecordedAre
  <2>2. x[2] = i /\ RecordedResults[x] = log[ResultSlot(x[1], i)]
    BY <1>3, <2>1, RecordedAre
  <2>3. PICK j \in DOMAIN ToolCalls[p] : ResultSlot(x[1], i) = ResultSlot(s, j)
    <3>1. ResultSlot(x[1], i).kind = "TOOL_RESULT"
      BY DEF ResultSlot, Slot
    <3>2. \/ ResultSlot(x[1], i) = ProjectSlot(s) \/ ResultSlot(x[1], i) = DecisionSlot(s)
          \/ ResultSlot(x[1], i) = CommitSlot(s, Len(ToolCalls[p]))
          \/ \E j \in DOMAIN ToolCalls[p] : \/ ResultSlot(x[1], i) = CallSlot(s, j)
                                            \/ ResultSlot(x[1], i) = ResultSlot(s, j)
      BY <1>1, <2>1, HistoryNodes
    <3>3. /\ ProjectSlot(s).kind = "PROJECT_CONTEXT" /\ DecisionSlot(s).kind = "DECISION"
          /\ CommitSlot(s, Len(ToolCalls[p])).kind = "COMMIT_STEP"
          /\ \A j \in DOMAIN ToolCalls[p] : CallSlot(s, j).kind = "TOOL_CALL"
      BY DEF ProjectSlot, DecisionSlot, CallSlot, CommitSlot, Slot
    <3> QED
      BY <3>1, <3>2, <3>3
  <2>4. j \in Nat
    BY <1>1, HistoryNodes
  <2>5. x[1] = s /\ i = j
    BY <2>1, <2>3, <2>4 DEF ResultSlot, Slot
  <2>6. /\ <<s, j, ToolCalls[p][j]>> \in DOMAIN runs
        /\ log[ResultSlot(s, j)] \in Outcomes[ToolCalls[p][j]]
    BY <1>1, <2>1, <2>3 DEF History
  <2> DEFINE k == <<s, j, ToolCalls[p][j]>>
  <2>7. k[1] = x[1] /\ k[2] = x[2] /\ k[3] = ToolCalls[p][j]
    BY <2>2, <2>5
  <2> HIDE DEF k
  <2>8. k \in DOMAIN runs
    BY <2>6 DEF k
  <2> QED
    BY <2>2, <2>5, <2>6, <2>7, <2>8
<1>7. ASSUME NEW t \in CommittedSteps PROVE Contract!Complete(t)
  <2>1. t \in Steps /\ Committed(t)
    BY DEF CommittedSteps
  <2>2. /\ Sealed(t) /\ SealedPlan(t) \in DOMAIN ToolCalls
        /\ \A i \in DOMAIN ToolCalls[SealedPlan(t)] : ResultSlot(t, i) \in DOMAIN log
    BY <1>3, <2>1 DEF CommitsBacked
  <2>3. \A i \in DOMAIN ToolCalls[SealedPlan(t)] : i \in Nat \ {0}
    BY <2>2, PlansAssumption
  <2>4. \A i \in DOMAIN ToolCalls[SealedPlan(t)] : <<t, i>> \in DOMAIN RecordedResults
    BY <1>3, <2>2, <2>3, RecordedAre
  <2>5. SealedPlans[t] = SealedPlan(t)
    BY <2>1, <2>2 DEF SealedPlans
  <2> QED
    BY <2>2, <2>4, <2>5 DEF Contract!Complete
<1> QED
  BY <1>4, <1>5, <1>6, <1>7 DEF Contract!Init

----------------------------------------------------------------------------
(* The client's promises.                                                  *)

\* An empty log.
LEMMA FreshStart == Init => TypeOK /\ PlanAgreement /\ ToolsFromSealedPlan /\ StepInv
<1> SUFFICES ASSUME Init PROVE TypeOK /\ PlanAgreement /\ ToolsFromSealedPlan /\ StepInv
  OBVIOUS
<1>1. TypeOK
  BY IdleOK, StopsAssumption DEF Init, TypeOK
<1>2. \A w \in Workers : wk[w].pc = "idle"
  BY DEF Init, Idle
<1>3. Progress /\ PlanAgreement
  BY <1>2 DEF Progress, Backed, PlanAgreement, PastSeal
<1> QED
  BY <1>1, <1>3 DEF Init, ToolsFromSealedPlan, StepInv, MemoBacked, ResultsBacked, CommitsBacked,
     Committed

ClientInv == SetupOK /\ TypeOK /\ GateInv /\ PlanAgreement /\ ToolsFromSealedPlan

\* The client may be opened on an empty log or on an imported one.
LEMMA ClientStart == ClientInit => ClientInv /\ StepInv /\ Contract!Init
<1> SUFFICES ASSUME ClientInit PROVE ClientInv /\ StepInv /\ Contract!Init
  OBVIOUS
<1>1. SetupOK
  BY HostsAssumption DEF ClientInit, SetupOK
<1>2. CASE Init
  BY <1>1, <1>2, FreshStart, GateInit, ContractInit DEF ClientInv
<1>3. CASE ImportedSetup
  BY <1>1, <1>3, ImportedType, ImportedGate, ImportedBacked, ImportedContract DEF ClientInv
<1> QED
  BY <1>2, <1>3 DEF ClientInit, ImportedSetup

\* A step of the client keeps types, gate and seal.
LEMMA ClientInvStep == ASSUME ClientInv, [ClientNext]_clientVars PROVE ClientInv'
<1>1. SetupOK'
  BY SetupStep DEF ClientInv
<1>2. CASE [Next]_vars
  <2>1. TypeOK'
    <3>1. LogOK /\ FramesOK /\ MemoOK /\ CountsOK
      BY TypeParts DEF ClientInv
    <3>2. LogOK' /\ FramesOK' /\ MemoOK' /\ CountsOK'
      BY <1>2, <3>1, LogStep, FramesStep, MemoStep, CountsStep
    <3> QED
      BY <3>2 DEF TypeOK, LogOK, FramesOK, MemoOK, CountsOK
  <2> QED
    BY <1>1, <1>2, <2>1, GateStep, AgreementStep, ToolsStep DEF ClientInv
<1>3. ASSUME NEW h \in Workers, HostOnly(h) PROVE ClientInv'
  BY <1>1, <1>3, HostKeeps DEF ClientInv
<1> QED
  BY <1>2, <1>3, ClientSteps DEF ClientInv

\* Types, gate and seal hold for hosts and workers together, and after an
\* import.
THEOREM ClientInvariant == ClientSpec => []ClientInv
  BY ClientStart, ClientInvStep, PTL DEF ClientSpec

\* Whatever mix of hosts and workers drives a trajectory, fresh or imported,
\* its nodes and their frames stay well-formed.
THEOREM ClientTypeCorrect == ClientSpec => []TypeOK
<1>1. ClientInv => TypeOK
  BY DEF ClientInv
<1> QED
  BY <1>1, ClientInvariant, PTL

\* A host that is killed in mid deploy and started again, beside other hosts
\* and workers, or on an imported log whose deploy was under way, deploys no
\* second time (client.go ExecTool, gate.go).
THEOREM ClientGatedOnce == ClientSpec => []GatedAtMostOnce
<1>1. ClientInv => GatedAtMostOnce
  BY DEF ClientInv, GateInv
<1> QED
  BY <1>1, ClientInvariant, PTL

\* A host, which asks its model again at each re-drive, still runs tools only
\* from the plan that is sealed (client.go SealDecision).
THEOREM ClientToolsFromSealedPlan == ClientSpec => []ToolsFromSealedPlan
<1>1. ClientInv => ToolsFromSealedPlan
  BY DEF ClientInv
<1> QED
  BY <1>1, ClientInvariant, PTL

\* A step of the client keeps what its nodes rest on.
LEMMA ClientBackedStep ==
    ASSUME MemoKeysDistinct, ClientInv, StepInv, [ClientNext]_clientVars
    PROVE  StepInv' /\ [Contract!Next]_(Contract!vars)
<1>1. TypeOK /\ GateInv /\ PlanAgreement /\ FramesOK /\ Progress /\ MemoBacked /\ ResultsBacked
  BY TypeParts DEF ClientInv, StepInv
<1>2. CASE UNCHANGED vars
  <2>1. LogGrows
    BY <1>2 DEF vars, LogGrows
  <2>2. UNCHANGED <<SealedPlans, RecordedResults, CommittedSteps>> /\ runs' = runs
    BY <1>1, <1>2, <2>1, PlansKept, ResultsKept, CommitsKept DEF vars
  <2>3. StepInv'
    BY <1>2 DEF vars, StepInv, Progress, MemoBacked, ResultsBacked, CommitsBacked, Committed,
       Sealed, SealedPlan, ToolKey
  <2> QED
    BY <2>2, <2>3 DEF Contract!vars
<1>3. ASSUME NEW w \in Workers, Advance(w) \/ ClaimFails(w) \/ Stop(w)
      PROVE  StepInv' /\ [Contract!Next]_(Contract!vars)
  <2>1. Next
    BY <1>3 DEF Next
  <2>2. LogGrows /\ RunsGrow
    BY <2>1, LogMonotone, RunsMonotone
  <2>3. Moved(w) /\ LogChange(w) /\ MemoChange(w) /\ RunsChange(w)
    BY <1>1, <1>3, Moves, Changes
  <2>4. log' = log \/ runs' = runs
    BY <2>3 DEF RunsChange, RunTool
  <2> QED
    BY <1>1, <2>2, <2>3, <2>4, StepInvStep, ContractStep
<1>4. ASSUME NEW h \in Workers, HostOnly(h)
      PROVE  StepInv' /\ [Contract!Next]_(Contract!vars)
  <2>1. /\ Moved(h) /\ LogChange(h) /\ MemoChange(h) /\ RunsChange(h)
        /\ LogGrows /\ RunsGrow /\ runs' = runs
    BY <1>1, <1>4, HostMoves, HostChanges
  <2> QED
    BY <1>1, <2>1, StepInvStep, ContractStep
<1>5. [Next]_vars \/ \E h \in Workers : HostOnly(h)
  BY ClientSteps DEF ClientInv
<1> QED
  BY <1>2, <1>3, <1>4, <1>5 DEF Next

\* Every node of the client's trajectory is backed, an imported one's too.
THEOREM ClientStepInvariant == ASSUME MemoKeysDistinct PROVE ClientSpec => []StepInv
  BY ClientStart, ClientBackedStep, ClientInvariant, PTL DEF ClientSpec

\* What the memo answers a worker of RunStep is what the log says, also for a
\* result that a host recorded.
THEOREM ClientMemoFollowsLog == ASSUME MemoKeysDistinct PROVE ClientSpec => []MemoMatchesLog
<1>1. ClientInv /\ StepInv => MemoMatchesLog
  BY MemoAgrees DEF ClientInv, StepInv
<1> QED
  BY <1>1, ClientInvariant, ClientStepInvariant, PTL

\* README chapter 8 holds of steps that hosts drive by hand, alone, beside
\* RunStep, or after an import, as it does of RunStep's.
THEOREM ClientImplementsContract == ASSUME MemoKeysDistinct PROVE ClientSpec => ImplementsContract
  BY ClientStart, ClientBackedStep, ClientInvariant, ClientStepInvariant, PTL
  DEF ClientSpec, ImplementsContract, Contract!Spec

----------------------------------------------------------------------------
(* The memo before the seal.                                               *)

\* Workers at the seal have memoized an inference of their step.
SealsFromMemo ==
    hosts = {} /\ fresh =>
       /\ SealedHasMemo
       /\ \A w \in Workers : wk[w].pc = "seal" => InferKey(wk[w].step) \in DOMAIN memo

\* A step of one worker leaves the frames of the others alone.
LEMMA OneMoves ==
    ASSUME FramesOK, NEW w \in Workers, Advance(w) \/ ClaimFails(w) \/ Stop(w)
    PROVE  \A v \in Workers \ {w} : wk'[v] = wk[v]
  BY DEF FramesOK, Advance, Begin, Project, LoadPlan, CallModel, SavePlan, Seal, RejectTool,
     LoadResult, Claim, ClaimFails, Abort, RecordCall, RunTool, RecordResult, SaveResult,
     CommitStep, Stop, AppendThen, Return, Goto

\* RunStep saves before it seals.
LEMMA SaveThenSeal ==
    ASSUME FramesOK, NEW w \in Workers, Advance(w) \/ ClaimFails(w) \/ Stop(w), SealedHasMemo,
           \A v \in Workers : wk[v].pc = "seal" => InferKey(wk[v].step) \in DOMAIN memo
    PROVE  /\ SealedHasMemo'
           /\ \A v \in Workers : wk'[v].pc = "seal" => InferKey(wk'[v].step) \in DOMAIN memo'
<1>1. Does(w) /\ MemoGrows
  BY WhatItDoes, DoesToMemo
<1>2. ASSUME NEW s \in Steps, DecisionSlot(s) \in DOMAIN log' PROVE InferKey(s) \in DOMAIN memo
  <2>1. CASE DecisionSlot(s) \in DOMAIN log
    BY <2>1 DEF SealedHasMemo, Sealed
  <2>2. CASE DecisionSlot(s) \notin DOMAIN log
    <3>1. Seals(w)
      BY <1>1, <1>2, <2>2, DoesToSeals
    <3>2. DOMAIN log' = DOMAIN log \cup {DecisionSlot(wk[w].step)} /\ wk[w].pc = "seal"
      BY <3>1, PutNode DEF Seals, At
    <3>3. s = wk[w].step
      BY <1>2, <2>2, <3>2 DEF DecisionSlot, Slot
    <3> QED
      BY <3>2, <3>3
  <2> QED
    BY <2>1, <2>2
<1>3. wk'[w].pc = "seal" => InferKey(wk'[w].step) \in DOMAIN memo'
  <2>1. wk'[w].pc = "seal" => LoadsPlan(w) \/ SavesPlan(w)
    BY <1>1 DEF Does, Turns, Projects, HasNoPlan, Infers, Seals, GoesOn, EntersCall, InsideCall,
         Commits, InCall, PastSeal
  <2>2. SavesPlan(w) => PlanKey(w) \in DOMAIN memo'
    BY PutMemo DEF SavesPlan
  <2> QED
    BY <2>1, <2>2 DEF LoadsPlan, SavesPlan, PlanKey, SamePlan, SameStep
<1>4. SealedHasMemo'
  BY <1>1, <1>2 DEF SealedHasMemo, Sealed, MemoGrows, InferKey
<1> QED
  BY <1>1, <1>3, <1>4, OneMoves DEF MemoGrows

\* step.go, Infer before the append of DECISION: where only RunStep has ever
\* driven the trajectory, a crash at any point leaves no sealed step whose
\* inference is lost, for any number of workers.
THEOREM SealAfterMemo == ClientSpec => []SealNeedsMemo
<1>1. ClientInit => SealsFromMemo
  <2> SUFFICES ASSUME ClientInit, hosts = {}, fresh
               PROVE  /\ SealedHasMemo
                      /\ \A w \in Workers : wk[w].pc = "seal" => InferKey(wk[w].step) \in DOMAIN memo
    BY DEF SealsFromMemo
  <2>1. Init
    BY DEF ClientInit
  <2>2. \A w \in Workers : wk[w].pc = "idle"
    BY <2>1 DEF Init, Idle
  <2> QED
    BY <2>1, <2>2 DEF Init, SealedHasMemo, Sealed
<1>2. ASSUME ClientInv, SealsFromMemo, [ClientNext]_clientVars PROVE SealsFromMemo'
  <2>1. hosts' = hosts /\ fresh' = fresh
    BY <1>2, SetupStep DEF ClientInv, setup
  <2> SUFFICES ASSUME hosts = {}, fresh
               PROVE  /\ SealedHasMemo'
                      /\ \A w \in Workers : wk'[w].pc = "seal" => InferKey(wk'[w].step) \in DOMAIN memo'
    BY <2>1 DEF SealsFromMemo, InferKey
  <2>2. SealedHasMemo /\ \A w \in Workers : wk[w].pc = "seal" => InferKey(wk[w].step) \in DOMAIN memo
    BY <1>2 DEF SealsFromMemo
  <2>3. FramesOK
    BY <1>2, TypeParts DEF ClientInv
  <2>4. CASE UNCHANGED vars
    BY <2>2, <2>4 DEF vars, SealedHasMemo, Sealed, InferKey
  <2>5. ASSUME NEW w \in Workers, Advance(w) \/ ClaimFails(w) \/ Stop(w)
        PROVE  /\ SealedHasMemo'
               /\ \A v \in Workers : wk'[v].pc = "seal" => InferKey(wk'[v].step) \in DOMAIN memo'
    BY <2>2, <2>3, <2>5, SaveThenSeal
  <2>6. UNCHANGED vars \/ \E w \in Workers : Advance(w) \/ ClaimFails(w) \/ Stop(w)
    BY <1>2 DEF ClientNext, clientVars
  <2> QED
    BY <2>4, <2>5, <2>6
<1>3. SealsFromMemo => SealNeedsMemo
  BY DEF SealsFromMemo, SealNeedsMemo
<1> QED
  BY <1>1, <1>2, <1>3, ClientInvariant, PTL DEF ClientSpec

=============================================================================
