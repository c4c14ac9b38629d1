--------------------------- MODULE RunStepProofs ---------------------------
(***************************************************************************)
(* The sealed step protocol for any number of workers, steps, plans, tools *)
(* and crashes.                                                            *)
(***************************************************************************)
EXTENDS RunStepProperties, TLAPS

----------------------------------------------------------------------------
(* Type correctness, part by part.                                         *)

LogOK ==
    \A k \in DOMAIN log :
       /\ k \in [step : Steps, seq : Nat, kind : Kinds]
       /\ log[k] \in Payload(k.kind)
FramesOK == DOMAIN wk = Workers /\ \A w \in Workers : LocalOK(wk[w])
MemoOK ==
    \A s \in Steps : InferKey(s) \in DOMAIN memo => memo[InferKey(s)] \in Plans
CountsOK == (\A k \in DOMAIN runs : runs[k] \in 1..Many) /\ stops \in 0..MaxStops

\* The type invariant is the conjunction of the four parts proved below.
LEMMA TypeParts == TypeOK <=> LogOK /\ FramesOK /\ MemoOK /\ CountsOK
  BY DEF TypeOK, LogOK, FramesOK, MemoOK, CountsOK

\* The frame of a worker outside RunStep is well-typed.
LEMMA IdleOK == LocalOK(Idle)
  BY DEF LocalOK, Local, Idle, PC, PastSeal, InCall

\* Inside the list of calls of its plan, a worker is at one of the calls.
LEMMA CurrentCall ==
    ASSUME FramesOK, NEW w \in Workers, wk[w].plan \in DOMAIN ToolCalls,
           wk[w].idx >= 1, wk[w].idx <= Len(ToolCalls[wk[w].plan])
    PROVE  Current(w) \in Calls
  BY PlansAssumption DEF FramesOK, LocalOK, Local, Current, CallsOf

\* One worker's frame is replaced by a well-typed one.
LEMMA FrameUpdate ==
    ASSUME FramesOK, NEW w \in Workers, NEW l, LocalOK(l), wk' = [wk EXCEPT ![w] = l]
    PROVE  FramesOK'
  BY DEF FramesOK

\* Frames: every action moves one worker from a well-typed frame to another.
LEMMA FramesStep == ASSUME FramesOK, MemoOK, [Next]_vars PROVE FramesOK'
<1>1. CASE UNCHANGED vars
  BY <1>1 DEF FramesOK, vars
<1> USE DEF FramesOK, LocalOK, Local, PC, PastSeal, InCall, At
<1>2. ASSUME NEW w \in Workers, NEW s \in Steps, Begin(w, s) PROVE FramesOK'
  <2>1. PICK c \in Contexts, m \in Modes :
           wk' = [wk EXCEPT ![w] = [Idle EXCEPT !.pc = "project", !.step = s,
                                                !.ctx = c, !.mode = m]]
    BY <1>2 DEF Begin
  <2>2. LocalOK([Idle EXCEPT !.pc = "project", !.step = s, !.ctx = c, !.mode = m])
    BY DEF Idle
  <2> QED
    BY <2>1, <2>2, FrameUpdate
<1>3. ASSUME NEW w \in Workers, Return(w) PROVE FramesOK'
  BY <1>3, IdleOK DEF Return
<1>4. ASSUME NEW w \in Workers, Project(w) PROVE FramesOK'
  BY <1>3, <1>4 DEF Project, AppendThen, Goto
<1>5. ASSUME NEW w \in Workers, LoadPlan(w) PROVE FramesOK'
  <2>1. CASE InferKey(wk[w].step) \in DOMAIN memo
    <3>1. memo[InferKey(wk[w].step)] \in Plans
      BY <1>5, <2>1 DEF LoadPlan, MemoOK
    <3>2. LocalOK([wk[w] EXCEPT !.pc = "seal", !.plan = memo[InferKey(wk[w].step)]])
      BY <1>5, <3>1 DEF LoadPlan
    <3> QED
      BY <1>5, <2>1, <3>2, FrameUpdate DEF LoadPlan
  <2>2. CASE InferKey(wk[w].step) \notin DOMAIN memo
    BY <1>5, <2>2 DEF LoadPlan, Goto
  <2> QED
    BY <2>1, <2>2
<1>6. ASSUME NEW w \in Workers, CallModel(w) PROVE FramesOK'
  <2>1. PICK p \in Plans : wk' = [wk EXCEPT ![w].pc = "savePlan", ![w].plan = p]
    BY <1>6 DEF CallModel
  <2>2. LocalOK([wk[w] EXCEPT !.pc = "savePlan", !.plan = p])
    BY <1>6 DEF CallModel
  <2> QED
    BY <2>1, <2>2, FrameUpdate
<1>7. ASSUME NEW w \in Workers, SavePlan(w) PROVE FramesOK'
  BY <1>7 DEF SavePlan, Goto
<1>8. ASSUME NEW w \in Workers, Seal(w) PROVE FramesOK'
  BY <1>3, <1>8 DEF Seal, AppendThen
<1>9. ASSUME NEW w \in Workers, RejectTool(w) PROVE FramesOK'
  BY <1>3, <1>9 DEF RejectTool
<1>10. ASSUME NEW w \in Workers, LoadResult(w) PROVE FramesOK'
  BY <1>10 DEF LoadResult, Pending, Goto, CallsOf
<1>11. ASSUME NEW w \in Workers, Claim(w) PROVE FramesOK'
  BY <1>11 DEF Claim, Goto
<1>12. ASSUME NEW w \in Workers, ClaimFails(w) PROVE FramesOK'
  BY <1>12 DEF ClaimFails, Goto
<1>13. ASSUME NEW w \in Workers, Abort(w) PROVE FramesOK'
  BY <1>3, <1>13 DEF Abort
<1>14. ASSUME NEW w \in Workers, RecordCall(w) PROVE FramesOK'
  BY <1>3, <1>14 DEF RecordCall, AppendThen, Goto
<1>15. ASSUME NEW w \in Workers, RunTool(w) PROVE FramesOK'
  <2>1. Current(w) \in Calls
    BY <1>15, CurrentCall DEF RunTool
  <2>2. PICK r \in Outcomes[Current(w)] :
           wk' = [wk EXCEPT ![w].pc = "record", ![w].val = r]
    BY <1>15 DEF RunTool
  <2>3. r \in Results
    BY <2>1 DEF Results
  <2>4. LocalOK([wk[w] EXCEPT !.pc = "record", !.val = r])
    BY <1>15, <2>3 DEF RunTool
  <2> QED
    BY <2>2, <2>4, FrameUpdate
<1>16. ASSUME NEW w \in Workers, RecordResult(w) PROVE FramesOK'
  BY <1>3, <1>16 DEF RecordResult, AppendThen, Goto
<1>17. ASSUME NEW w \in Workers, SaveResult(w) PROVE FramesOK'
  BY <1>17 DEF SaveResult
<1>18. ASSUME NEW w \in Workers, CommitStep(w) PROVE FramesOK'
  BY <1>3, <1>18 DEF CommitStep
<1>19. ASSUME NEW w \in Workers, Stop(w) PROVE FramesOK'
  BY <1>3, <1>19 DEF Stop
<1> QED
  BY <1>1, <1>2, <1>4, <1>5, <1>6, <1>7, <1>8, <1>9, <1>10, <1>11, <1>12, <1>13,
     <1>14, <1>15, <1>16, <1>17, <1>18, <1>19 DEF Next, Advance

\* A node of the right kind is appended, or was there.
LEMMA LogAppend ==
    ASSUME LogOK, NEW slot \in [step : Steps, seq : Nat, kind : Kinds],
           NEW v \in Payload(slot.kind), log' = PutIfAbsent(log, slot, v)
    PROVE  LogOK'
  BY DEF LogOK, PutIfAbsent, Put

\* The log: each append uses a slot of its kind.
LEMMA LogStep == ASSUME LogOK, FramesOK, [Next]_vars PROVE LogOK'
<1>1. CASE UNCHANGED log
  BY <1>1 DEF LogOK
<1> USE DEF At
<1>a. ASSUME NEW w \in Workers, wk[w].pc \in PastSeal
      PROVE  wk[w].step \in Steps /\ wk[w].idx \in Nat
  BY <1>a DEF FramesOK, LocalOK, Local, PastSeal
<1>b. ASSUME NEW w \in Workers, wk[w].pc \in InCall
      PROVE  Current(w) \in Calls
  BY <1>b, CurrentCall DEF FramesOK, LocalOK, InCall
<1>2. ASSUME NEW w \in Workers, Project(w) PROVE LogOK'
  <2>1. wk[w].step \in Steps /\ wk[w].ctx \in Contexts
    BY <1>2 DEF Project, FramesOK, LocalOK
  <2>2. /\ ProjectSlot(wk[w].step) \in [step : Steps, seq : Nat, kind : Kinds]
        /\ wk[w].ctx \in Payload(ProjectSlot(wk[w].step).kind)
    BY <2>1 DEF ProjectSlot, Slot, Kinds, Payload
  <2> QED
    BY <1>2, <2>2, LogAppend DEF Project, AppendThen
<1>3. ASSUME NEW w \in Workers, Seal(w) PROVE LogOK'
  <2>1. wk[w].step \in Steps /\ wk[w].plan \in Plans
    BY <1>3 DEF Seal, FramesOK, LocalOK
  <2>2. /\ DecisionSlot(wk[w].step) \in [step : Steps, seq : Nat, kind : Kinds]
        /\ wk[w].plan \in Payload(DecisionSlot(wk[w].step).kind)
    BY <2>1 DEF DecisionSlot, Slot, Kinds, Payload
  <2> QED
    BY <1>3, <2>2, LogAppend DEF Seal, AppendThen
<1>c. ASSUME NEW w \in Workers, wk[w].pc \in InCall,
             log' = PutIfAbsent(log, CallSlot(wk[w].step, wk[w].idx), Current(w))
      PROVE  LogOK'
  <2>1. /\ CallSlot(wk[w].step, wk[w].idx) \in [step : Steps, seq : Nat, kind : Kinds]
        /\ Current(w) \in Payload(CallSlot(wk[w].step, wk[w].idx).kind)
    BY <1>a, <1>b, <1>c DEF CallSlot, Slot, Kinds, Payload, InCall
  <2> QED
    BY <1>c, <2>1, LogAppend
<1>4. ASSUME NEW w \in Workers, Claim(w) PROVE LogOK'
  BY <1>4, <1>c DEF Claim, InCall, PastSeal
<1>5. ASSUME NEW w \in Workers, RecordCall(w) PROVE LogOK'
  BY <1>5, <1>c DEF RecordCall, AppendThen, InCall, PastSeal
<1>6. ASSUME NEW w \in Workers, Abort(w) PROVE LogOK'
  <2>1. wk[w].pc \in InCall
    BY <1>6 DEF Abort, InCall, PastSeal
  <2>2. /\ AbortSlot(wk[w].step, wk[w].idx) \in [step : Steps, seq : Nat, kind : Kinds]
        /\ NameOf[Current(w)] \in Payload(AbortSlot(wk[w].step, wk[w].idx).kind)
    BY <1>a, <1>b, <2>1 DEF AbortSlot, Slot, Kinds, Payload, InCall
  <2> QED
    BY <1>6, <2>2, LogAppend DEF Abort
<1>7. ASSUME NEW w \in Workers, RecordResult(w) PROVE LogOK'
  <2>1. wk[w].val \in Results /\ wk[w].pc \in PastSeal
    BY <1>7 DEF RecordResult, FramesOK, LocalOK, PastSeal
  <2>2. /\ ResultSlot(wk[w].step, wk[w].idx) \in [step : Steps, seq : Nat, kind : Kinds]
        /\ wk[w].val \in Payload(ResultSlot(wk[w].step, wk[w].idx).kind)
    BY <1>a, <2>1 DEF ResultSlot, Slot, Kinds, Payload
  <2> QED
    BY <1>7, <2>2, LogAppend DEF RecordResult, AppendThen
<1>8. ASSUME NEW w \in Workers, CommitStep(w) PROVE LogOK'
  <2>1. wk[w].pc \in PastSeal /\ wk[w].plan \in DOMAIN ToolCalls
    BY <1>8 DEF CommitStep, FramesOK, LocalOK, PastSeal
  <2>2. Len(CallsOf(w)) \in Nat
    BY <2>1, PlansAssumption DEF CallsOf
  <2>3. /\ CommitSlot(wk[w].step, Len(CallsOf(w))) \in
               [step : Steps, seq : Nat, kind : Kinds]
        /\ "{}" \in Payload(CommitSlot(wk[w].step, Len(CallsOf(w))).kind)
    BY <1>a, <2>1, <2>2 DEF CommitSlot, Slot, Kinds, Payload
  <2> QED
    BY <1>8, <2>3, LogAppend DEF CommitStep
<1> QED
  BY <1>1, <1>2, <1>3, <1>4, <1>5, <1>6, <1>7, <1>8
  DEF Next, Advance, vars, Begin, LoadPlan, CallModel, SavePlan, RejectTool, LoadResult,
      ClaimFails, RunTool, SaveResult, Stop

\* The keys of inferences and of tools never meet.
LEMMA InferIsNotTool ==
    ASSUME NEW s, NEW t, NEW i, NEW c PROVE InferKey(s) # ToolKey(t, i, c)
  BY DEF InferKey, ToolKey

\* The memo: Infer keys hold plans.
LEMMA MemoStep == ASSUME MemoOK, FramesOK, [Next]_vars PROVE MemoOK'
<1>1. CASE UNCHANGED memo
  BY <1>1 DEF MemoOK, InferKey
<1>2. ASSUME NEW w \in Workers, SavePlan(w) PROVE MemoOK'
  <2>1. wk[w].plan \in Plans
    BY <1>2 DEF SavePlan, At, FramesOK, LocalOK
  <2> QED
    BY <1>2, <2>1 DEF SavePlan, MemoOK, PutIfAbsent, Put
<1>3. ASSUME NEW w \in Workers, SaveResult(w) PROVE MemoOK'
  BY <1>3, InferIsNotTool DEF SaveResult, MemoOK, PutIfAbsent, Put
<1> QED
  BY <1>1, <1>2, <1>3
  DEF Next, Advance, vars, Begin, Project, LoadPlan, CallModel, Seal, RejectTool,
      LoadResult, Claim, ClaimFails, Abort, RecordCall, RunTool, RecordResult, CommitStep, Stop

\* No step counts an execution other than as one or many, or passes the bound
\* on stops.
LEMMA CountsStep == ASSUME CountsOK, [Next]_vars PROVE CountsOK'
<1>1. CASE UNCHANGED <<runs, stops>>
  BY <1>1 DEF CountsOK
<1>2. ASSUME NEW w \in Workers, RunTool(w) PROVE CountsOK'
  BY <1>2 DEF RunTool, CountsOK, Executions, Put, Many
<1>3. ASSUME NEW w \in Workers, ClaimFails(w) \/ Stop(w) PROVE CountsOK'
  BY <1>3, StopsAssumption DEF ClaimFails, Stop, CountsOK
<1> QED
  BY <1>1, <1>2, <1>3
  DEF Next, Advance, vars, Begin, Project, LoadPlan, CallModel, SavePlan, Seal, RejectTool,
      LoadResult, Claim, Abort, RecordCall, RecordResult, SaveResult, CommitStep

\* In every reachable state the log holds well-formed nodes and every RunStep
\* frame holds what its program point has computed, for any constants.
THEOREM TypeCorrect == Spec => []TypeOK
<1>1. Init => TypeOK
  BY IdleOK, StopsAssumption DEF Init, TypeOK
<1>2. ASSUME TypeOK, [Next]_vars PROVE TypeOK'
  <2>1. LogOK /\ FramesOK /\ MemoOK /\ CountsOK
    BY <1>2, TypeParts
  <2>2. LogOK' /\ FramesOK' /\ MemoOK' /\ CountsOK'
    BY <1>2, <2>1, LogStep, FramesStep, MemoStep, CountsStep
  <2> QED
    BY <2>2 DEF TypeOK, LogOK, FramesOK, MemoOK, CountsOK
<1> QED
  BY <1>1, <1>2, PTL DEF Spec

----------------------------------------------------------------------------
(* Nodes are never changed or removed.                                     *)

LogGrows == DOMAIN log \subseteq DOMAIN log' /\ \A k \in DOMAIN log : log'[k] = log[k]

\* Nodes are only added: no step of the protocol changes or removes one.
LEMMA LogMonotone == ASSUME [Next]_vars PROVE LogGrows
<1>1. ASSUME NEW slot, NEW v, log' = PutIfAbsent(log, slot, v) PROVE LogGrows
  BY <1>1 DEF LogGrows, PutIfAbsent, Put
<1>2. CASE UNCHANGED log
  BY <1>2 DEF LogGrows
<1>3. ASSUME NEW w \in Workers, Project(w) \/ Seal(w) PROVE LogGrows
  BY <1>1, <1>3 DEF Project, Seal, AppendThen
<1>4. ASSUME NEW w \in Workers, RecordCall(w) \/ RecordResult(w) PROVE LogGrows
  BY <1>1, <1>4 DEF RecordCall, RecordResult, AppendThen
<1>5. ASSUME NEW w \in Workers, Claim(w) \/ Abort(w) \/ CommitStep(w) PROVE LogGrows
  BY <1>1, <1>5 DEF Claim, Abort, CommitStep
<1> QED
  BY <1>2, <1>3, <1>4, <1>5
  DEF Next, Advance, vars, Begin, LoadPlan, CallModel, SavePlan, RejectTool, LoadResult,
      ClaimFails, RunTool, SaveResult, Stop

----------------------------------------------------------------------------
(* The gate.                                                               *)

GatedAt(l) == Gated(ToolCalls[l.plan][l.idx])

\* Only gated calls are claimed and only others are recorded without a claim.
\* A worker that is about to run a gated tool has its slot to itself: the
\* TOOL_CALL is in the log, no gated tool has run for the slot, and nobody
\* else is about to.
GateInv ==
    /\ \A w \in Workers : wk[w].pc = "call" => ~GatedAt(wk[w])
    /\ \A w \in Workers : wk[w].pc = "run" /\ GatedAt(wk[w]) =>
          /\ CallSlot(wk[w].step, wk[w].idx) \in DOMAIN log
          /\ \A k \in DOMAIN runs :
                ~(k[1] = wk[w].step /\ k[2] = wk[w].idx /\ Gated(k[3]))
          /\ \A v \in Workers :
                /\ wk[v].pc = "run" /\ GatedAt(wk[v])
                /\ wk[v].step = wk[w].step /\ wk[v].idx = wk[w].idx
                => v = w
    /\ \A k \in DOMAIN runs : Gated(k[3]) => CallSlot(k[1], k[2]) \in DOMAIN log
    /\ GatedAtMostOnce

\* A step that ends neither at "run" nor at an unclaimed gated call, and runs
\* no tool, disturbs nothing.
LEMMA GateQuiet ==
    ASSUME GateInv, FramesOK, LogGrows, runs' = runs,
           NEW w \in Workers, NEW l, wk' = [wk EXCEPT ![w] = l],
           l.pc # "run", l.pc = "call" => ~GatedAt(l)
    PROVE  GateInv'
<1>1. /\ \A v \in Workers : wk'[v] = IF v = w THEN l ELSE wk[v]
      /\ DOMAIN log \subseteq DOMAIN log'
  BY DEF FramesOK, LogGrows
<1>2. \A v \in Workers : wk'[v].pc = "call" => ~GatedAt(wk'[v])
  BY <1>1 DEF GateInv
<1>3. \A v \in Workers : wk'[v].pc = "run" => wk'[v] = wk[v] /\ wk[v].pc = "run"
  BY <1>1
<1>4. ASSUME NEW v \in Workers, wk'[v].pc = "run", GatedAt(wk'[v])
      PROVE  /\ CallSlot(wk'[v].step, wk'[v].idx) \in DOMAIN log'
             /\ \A k \in DOMAIN runs :
                   ~(k[1] = wk'[v].step /\ k[2] = wk'[v].idx /\ Gated(k[3]))
             /\ \A u \in Workers :
                   /\ wk'[u].pc = "run" /\ GatedAt(wk'[u])
                   /\ wk'[u].step = wk'[v].step /\ wk'[u].idx = wk'[v].idx
                   => u = v
  BY <1>1, <1>3, <1>4 DEF GateInv
<1>5. \A k \in DOMAIN runs : Gated(k[3]) => CallSlot(k[1], k[2]) \in DOMAIN log'
  BY <1>1 DEF GateInv
<1>6. GatedAtMostOnce'
  BY DEF GateInv, GatedAtMostOnce
<1> QED
  BY <1>2, <1>4, <1>5, <1>6 DEF GateInv

\* One worker arrives at "run" with a call that is not gated.
LEMMA GatePlainRun ==
    ASSUME GateInv, FramesOK, LogGrows, runs' = runs,
           NEW w \in Workers, NEW l, wk' = [wk EXCEPT ![w] = l],
           l.pc = "run", ~GatedAt(l)
    PROVE  GateInv'
<1>1. wk'[w] = l /\ \A v \in Workers \ {w} : wk'[v] = wk[v]
  BY DEF FramesOK
<1>2. \A v \in Workers : (wk'[v].pc = "run" /\ GatedAt(wk'[v])) =>
         v # w /\ wk[v] = wk'[v]
  BY <1>1
<1>3. \A v \in Workers : wk'[v].pc = "call" => ~GatedAt(wk'[v])
  BY <1>1 DEF GateInv
<1>4. GatedAtMostOnce'
  BY DEF GateInv, GatedAtMostOnce
<1> QED
  BY <1>2, <1>3, <1>4 DEF GateInv, LogGrows

\* Every step preserves the gate invariant, action by action.
LEMMA GateStep == ASSUME TypeOK, GateInv, [Next]_vars PROVE GateInv'
<1>a. FramesOK /\ LogGrows
  BY LogMonotone, TypeParts
<1>1. CASE UNCHANGED vars
  BY <1>1 DEF vars, GateInv, GatedAt, GatedAtMostOnce
<1>b. ASSUME NEW w \in Workers, Return(w), runs' = runs PROVE GateInv'
  <2>1. Idle.pc = "idle"
    BY DEF Idle
  <2> QED
    BY <1>a, <1>b, <2>1, GateQuiet DEF Return
<1>c. ASSUME NEW w \in Workers, NEW label \in PC \ {"run", "call"}, Goto(w, label), runs' = runs
      PROVE  GateInv'
  <2>1. wk' = [wk EXCEPT ![w] = [wk[w] EXCEPT !.pc = label]]
    BY <1>c DEF Goto
  <2>2. [wk[w] EXCEPT !.pc = label].pc = label
    BY <1>a DEF FramesOK, LocalOK, Local
  <2> QED
    BY <1>a, <1>c, <2>1, <2>2, GateQuiet DEF PC
<1>2. ASSUME NEW w \in Workers, NEW s \in Steps, Begin(w, s) PROVE GateInv'
  <2>1. PICK c \in Contexts, m \in Modes :
           wk' = [wk EXCEPT ![w] = [Idle EXCEPT !.pc = "project", !.step = s,
                                                !.ctx = c, !.mode = m]]
    BY <1>2 DEF Begin
  <2> DEFINE l == [Idle EXCEPT !.pc = "project", !.step = s, !.ctx = c, !.mode = m]
  <2>2. wk' = [wk EXCEPT ![w] = l] /\ runs' = runs
    BY <1>2, <2>1 DEF Begin
  <2>3. l.pc = "project"
    BY DEF Idle
  <2> HIDE DEF l
  <2> QED
    BY <1>a, <2>2, <2>3, GateQuiet
<1>3. ASSUME NEW w \in Workers, Project(w) PROVE GateInv'
  BY <1>3, <1>b, <1>c DEF Project, AppendThen, PC
<1>4. ASSUME NEW w \in Workers, LoadPlan(w) PROVE GateInv'
  <2>1. CASE InferKey(wk[w].step) \in DOMAIN memo
    <3> DEFINE l == [wk[w] EXCEPT !.pc = "seal", !.plan = memo[InferKey(wk[w].step)]]
    <3>1. wk' = [wk EXCEPT ![w] = l] /\ runs' = runs
      BY <1>4, <2>1 DEF LoadPlan
    <3>2. l.pc = "seal"
      BY <1>a DEF FramesOK, LocalOK, Local
    <3> QED
      BY <1>a, <3>1, <3>2, GateQuiet
  <2>2. CASE InferKey(wk[w].step) \notin DOMAIN memo
    BY <1>4, <1>c, <2>2 DEF LoadPlan, PC
  <2> QED
    BY <2>1, <2>2
<1>5. ASSUME NEW w \in Workers, CallModel(w) PROVE GateInv'
  <2>1. PICK p \in Plans : wk' = [wk EXCEPT ![w].pc = "savePlan", ![w].plan = p]
    BY <1>5 DEF CallModel
  <2> DEFINE l == [wk[w] EXCEPT !.pc = "savePlan", !.plan = p]
  <2>2. wk' = [wk EXCEPT ![w] = l] /\ runs' = runs
    BY <1>5, <2>1 DEF CallModel
  <2>3. l.pc = "savePlan"
    BY <1>a DEF FramesOK, LocalOK, Local
  <2> HIDE DEF l
  <2> QED
    BY <1>a, <2>2, <2>3, GateQuiet
<1>6. ASSUME NEW w \in Workers, SavePlan(w) PROVE GateInv'
  BY <1>6, <1>c DEF SavePlan, PC
<1>7. ASSUME NEW w \in Workers, Seal(w) PROVE GateInv'
  <2>1. CASE wk' = [wk EXCEPT ![w].pc = "tools", ![w].idx = 1]
    <3>1. [wk[w] EXCEPT !.pc = "tools", !.idx = 1].pc = "tools"
      BY <1>a DEF FramesOK, LocalOK, Local
    <3> QED
      BY <1>7, <1>a, <2>1, <3>1, GateQuiet DEF Seal
  <2> QED
    BY <1>7, <1>b, <2>1 DEF Seal, AppendThen
<1>8. ASSUME NEW w \in Workers, RejectTool(w) PROVE GateInv'
  BY <1>8, <1>b DEF RejectTool
<1>9. ASSUME NEW w \in Workers, LoadResult(w) PROVE GateInv'
  <2>1. CASE wk' = [wk EXCEPT ![w].idx = @ + 1]
    <3>1. [wk[w] EXCEPT !.idx = @ + 1].pc = "tools"
      BY <1>9, <1>a DEF FramesOK, LocalOK, Local, LoadResult, Pending, At
    <3> QED
      BY <1>9, <1>a, <2>1, <3>1, GateQuiet DEF LoadResult
  <2>2. CASE Gated(Current(w)) /\ Goto(w, "claim")
    BY <1>9, <1>c, <2>2 DEF LoadResult, PC
  <2>3. CASE ~Gated(Current(w)) /\ Goto(w, "call")
    <3> DEFINE l == [wk[w] EXCEPT !.pc = "call"]
    <3>1. wk' = [wk EXCEPT ![w] = l] /\ runs' = runs
      BY <1>9, <2>3 DEF LoadResult, Goto
    <3>2. l.pc = "call" /\ ~GatedAt(l)
      BY <1>a, <2>3 DEF FramesOK, LocalOK, Local, GatedAt, Current, CallsOf
    <3> QED
      BY <1>a, <3>1, <3>2, GateQuiet
  <2> QED
    BY <1>9, <2>1, <2>2, <2>3 DEF LoadResult
<1>10. ASSUME NEW w \in Workers, ClaimFails(w) PROVE GateInv'
  BY <1>10, <1>c DEF ClaimFails, PC
<1>11. ASSUME NEW w \in Workers, Abort(w) PROVE GateInv'
  BY <1>11, <1>b DEF Abort
<1>12. ASSUME NEW w \in Workers, RecordCall(w) PROVE GateInv'
  <2>1. CASE Goto(w, "run")
    <3> DEFINE l == [wk[w] EXCEPT !.pc = "run"]
    <3>1. wk' = [wk EXCEPT ![w] = l] /\ runs' = runs
      BY <1>12, <2>1 DEF RecordCall, Goto
    <3>2. l.pc = "run" /\ ~GatedAt(l)
      BY <1>12, <1>a DEF FramesOK, LocalOK, Local, GatedAt, GateInv, RecordCall, At
    <3> QED
      BY <1>a, <3>1, <3>2, GatePlainRun
  <2> QED
    BY <1>12, <1>b, <2>1 DEF RecordCall, AppendThen
<1>13. ASSUME NEW w \in Workers, RecordResult(w) PROVE GateInv'
  BY <1>13, <1>b, <1>c DEF RecordResult, AppendThen, PC
<1>14. ASSUME NEW w \in Workers, SaveResult(w) PROVE GateInv'
  <2>1. [wk[w] EXCEPT !.pc = "tools", !.idx = @ + 1, !.val = None].pc = "tools"
    BY <1>a DEF FramesOK, LocalOK, Local
  <2> QED
    BY <1>14, <1>a, <2>1, GateQuiet DEF SaveResult
<1>15. ASSUME NEW w \in Workers, CommitStep(w) \/ Stop(w) PROVE GateInv'
  BY <1>15, <1>b DEF CommitStep, Stop
<1>16. ASSUME NEW w \in Workers, Claim(w) PROVE GateInv'
  <2> DEFINE slot == CallSlot(wk[w].step, wk[w].idx)
             l == [wk[w] EXCEPT !.pc = "run"]
  <2>1. CASE slot \in DOMAIN log
    BY <1>16, <1>c, <2>1 DEF Claim, PC
  <2>2. CASE slot \notin DOMAIN log
    <3>1. wk' = [wk EXCEPT ![w] = l] /\ runs' = runs /\ slot \in DOMAIN log'
      BY <1>16, <2>2 DEF Claim, Goto, PutIfAbsent, Put
    <3>2. wk'[w] = l /\ \A v \in Workers \ {w} : wk'[v] = wk[v]
      BY <1>a, <3>1 DEF FramesOK
    <3>3. l.pc = "run" /\ l.step = wk[w].step /\ l.idx = wk[w].idx
      BY <1>a DEF FramesOK, LocalOK, Local
    <3>4. \A k \in DOMAIN runs :
             ~(k[1] = wk[w].step /\ k[2] = wk[w].idx /\ Gated(k[3]))
      BY <2>2 DEF GateInv
    <3>5. \A v \in Workers : wk[v].pc = "run" /\ GatedAt(wk[v]) =>
             ~(wk[v].step = wk[w].step /\ wk[v].idx = wk[w].idx)
      BY <2>2 DEF GateInv
    <3>6. GatedAtMostOnce'
      BY <3>1 DEF GateInv, GatedAtMostOnce
    <3>7. \A k \in DOMAIN runs : Gated(k[3]) => CallSlot(k[1], k[2]) \in DOMAIN log'
      BY <1>a DEF GateInv, LogGrows
    <3>8. \A v \in Workers : wk'[v].pc = "call" => ~GatedAt(wk'[v])
      BY <3>2, <3>3 DEF GateInv
    <3> HIDE DEF l
    <3>9. ASSUME NEW v \in Workers, wk'[v].pc = "run", GatedAt(wk'[v])
          PROVE  /\ CallSlot(wk'[v].step, wk'[v].idx) \in DOMAIN log'
                 /\ \A k \in DOMAIN runs :
                       ~(k[1] = wk'[v].step /\ k[2] = wk'[v].idx /\ Gated(k[3]))
                 /\ \A u \in Workers :
                       /\ wk'[u].pc = "run" /\ GatedAt(wk'[u])
                       /\ wk'[u].step = wk'[v].step /\ wk'[u].idx = wk'[v].idx
                       => u = v
      <4>1. CASE v = w
        BY <3>1, <3>2, <3>3, <3>4, <3>5, <3>9, <4>1
      <4>2. CASE v # w
        BY <1>a, <3>2, <3>3, <3>5, <3>9, <4>2 DEF GateInv, LogGrows
      <4> QED
        BY <4>1, <4>2
    <3> QED
      BY <3>1, <3>6, <3>7, <3>8, <3>9 DEF GateInv
  <2> QED
    BY <2>1, <2>2
<1>17. ASSUME NEW w \in Workers, RunTool(w) PROVE GateInv'
  <2>1. PICK r \in Outcomes[Current(w)] :
           wk' = [wk EXCEPT ![w].pc = "record", ![w].val = r]
    BY <1>17 DEF RunTool
  <2> DEFINE l == [wk[w] EXCEPT !.pc = "record", !.val = r]
             key == <<wk[w].step, wk[w].idx, Current(w)>>
  <2>2. l.pc = "record" /\ wk'[w] = l /\ \A v \in Workers \ {w} : wk'[v] = wk[v]
    BY <1>a, <2>1 DEF FramesOK, LocalOK, Local
  <2>3. /\ key[1] = wk[w].step /\ key[2] = wk[w].idx /\ key[3] = Current(w)
        /\ wk[w].pc = "run" /\ (Gated(Current(w)) <=> GatedAt(wk[w]))
    BY <1>17 DEF RunTool, At, GatedAt, Current, CallsOf
  <2>4. /\ log' = log
        /\ DOMAIN runs' = DOMAIN runs \cup {key}
        /\ \A k \in DOMAIN runs : k # key => runs'[k] = runs[k]
        /\ key \notin DOMAIN runs => runs'[key] = 1
    BY <1>17 DEF RunTool, Put, Executions
  <2> HIDE DEF l, key
  <2>5. Gated(Current(w)) => /\ CallSlot(key[1], key[2]) \in DOMAIN log
                             /\ key \notin DOMAIN runs
                             /\ \A k \in DOMAIN runs :
                                   ~(k[1] = key[1] /\ k[2] = key[2] /\ Gated(k[3]))
    BY <2>3 DEF GateInv
  <2>6. GatedAtMostOnce'
    BY <2>3, <2>4, <2>5 DEF GateInv, GatedAtMostOnce
  <2>7. \A k \in DOMAIN runs' : Gated(k[3]) => CallSlot(k[1], k[2]) \in DOMAIN log'
    BY <2>3, <2>4, <2>5 DEF GateInv
  <2>8. \A v \in Workers : wk'[v].pc = "call" => ~GatedAt(wk'[v])
    BY <2>2 DEF GateInv
  <2>9. ASSUME NEW v \in Workers, wk'[v].pc = "run", GatedAt(wk'[v])
        PROVE  /\ CallSlot(wk'[v].step, wk'[v].idx) \in DOMAIN log'
               /\ \A k \in DOMAIN runs' :
                     ~(k[1] = wk'[v].step /\ k[2] = wk'[v].idx /\ Gated(k[3]))
               /\ \A u \in Workers :
                     /\ wk'[u].pc = "run" /\ GatedAt(wk'[u])
                     /\ wk'[u].step = wk'[v].step /\ wk'[u].idx = wk'[v].idx
                     => u = v
    <3>1. v # w /\ wk'[v] = wk[v] /\ \A u \in Workers : wk'[u].pc = "run" => wk'[u] = wk[u]
      BY <2>2, <2>9
    <3>2. \A k \in DOMAIN runs' :
             ~(k[1] = wk[v].step /\ k[2] = wk[v].idx /\ Gated(k[3]))
      BY <2>3, <2>4, <2>9, <3>1 DEF GateInv
    <3> QED
      BY <2>4, <2>9, <3>1, <3>2 DEF GateInv
  <2> QED
    BY <2>6, <2>7, <2>8, <2>9 DEF GateInv
<1> QED
  BY <1>1, <1>2, <1>3, <1>4, <1>5, <1>6, <1>7, <1>8, <1>9, <1>10, <1>11, <1>12,
     <1>13, <1>14, <1>15, <1>16, <1>17 DEF Next, Advance

\* Nothing has run and nobody runs in the initial state.
LEMMA GateInit == Init => GateInv
  BY DEF Init, GateInv, GatedAtMostOnce, Idle

\* The gate's inductive invariant holds for ever.
THEOREM GateInvariant == Spec => []GateInv
  BY TypeCorrect, GateInit, GateStep, PTL DEF Spec

\* R02, "kill the process mid deploy, restart, and the world still only got
\* one deploy": for any number of workers, steps, plans and crashes, and with
\* every insert error of the claim swallowed, no slot ever sees two executions
\* of NON_IDEMPOTENT_WRITE tools.
THEOREM GatedRunsOnce == Spec => []GatedAtMostOnce
  BY GateInvariant, PTL DEF GateInv

----------------------------------------------------------------------------
(* The seal.                                                               *)

\* A step that takes a worker past the seal from before it, or changes the
\* plan it holds there, is the only one that could break the agreement.
LEMMA AgreementQuiet ==
    ASSUME PlanAgreement, FramesOK, LogGrows,
           NEW w \in Workers, NEW l, wk' = [wk EXCEPT ![w] = l],
           l.pc \in PastSeal => /\ wk[w].pc \in PastSeal
                               /\ l.step = wk[w].step /\ l.plan = wk[w].plan
    PROVE  PlanAgreement'
<1>1. wk'[w] = l /\ \A v \in Workers \ {w} : wk'[v] = wk[v]
  BY DEF FramesOK
<1>2. ASSUME NEW v \in Workers, wk'[v].pc \in PastSeal
      PROVE  /\ DecisionSlot(wk'[v].step) \in DOMAIN log
             /\ log[DecisionSlot(wk'[v].step)] = wk'[v].plan
  BY <1>1, <1>2 DEF PlanAgreement, Sealed, SealedPlan
<1> QED
  BY <1>2 DEF PlanAgreement, LogGrows, Sealed, SealedPlan

\* Whoever seals first, every worker past the seal holds the sealed plan.
LEMMA AgreementStep == ASSUME TypeOK, PlanAgreement, [Next]_vars PROVE PlanAgreement'
<1>a. FramesOK /\ LogGrows
  BY LogMonotone, TypeParts
<1>1. CASE UNCHANGED vars
  BY <1>1 DEF vars, PlanAgreement, Sealed, SealedPlan
<1>b. ASSUME NEW w \in Workers, Return(w) PROVE PlanAgreement'
  <2>1. Idle.pc \notin PastSeal
    BY DEF Idle, PastSeal
  <2> QED
    BY <1>a, <1>b, <2>1, AgreementQuiet DEF Return
<1>c. ASSUME NEW w \in Workers, NEW label, Goto(w, label),
             label \in PastSeal => wk[w].pc \in PastSeal
      PROVE  PlanAgreement'
  <2> DEFINE l == [wk[w] EXCEPT !.pc = label]
  <2>1. wk' = [wk EXCEPT ![w] = l]
    BY <1>c DEF Goto
  <2>2. l.pc = label /\ l.step = wk[w].step /\ l.plan = wk[w].plan
    BY <1>a DEF FramesOK, LocalOK, Local
  <2> HIDE DEF l
  <2> QED
    BY <1>a, <1>c, <2>1, <2>2, AgreementQuiet
<1>2. ASSUME NEW w \in Workers, NEW s \in Steps, Begin(w, s) PROVE PlanAgreement'
  <2>1. PICK c \in Contexts, m \in Modes :
           wk' = [wk EXCEPT ![w] = [Idle EXCEPT !.pc = "project", !.step = s,
                                                !.ctx = c, !.mode = m]]
    BY <1>2 DEF Begin
  <2> DEFINE l == [Idle EXCEPT !.pc = "project", !.step = s, !.ctx = c, !.mode = m]
  <2>2. wk' = [wk EXCEPT ![w] = l]
    BY <2>1
  <2>3. l.pc \notin PastSeal
    BY DEF Idle, PastSeal
  <2> HIDE DEF l
  <2> QED
    BY <1>a, <2>2, <2>3, AgreementQuiet
<1>3. ASSUME NEW w \in Workers, Project(w) PROVE PlanAgreement'
  BY <1>3, <1>b, <1>c DEF Project, AppendThen, PastSeal
<1>4. ASSUME NEW w \in Workers, LoadPlan(w) PROVE PlanAgreement'
  <2> DEFINE l == [wk[w] EXCEPT !.pc = "seal", !.plan = memo[InferKey(wk[w].step)]]
  <2>1. CASE wk' = [wk EXCEPT ![w] = l]
    <3>1. l.pc \notin PastSeal
      BY <1>a DEF FramesOK, LocalOK, Local, PastSeal
    <3> HIDE DEF l
    <3> QED
      BY <1>a, <2>1, <3>1, AgreementQuiet
  <2> QED
    BY <1>4, <1>c, <2>1 DEF LoadPlan, PastSeal
<1>5. ASSUME NEW w \in Workers, CallModel(w) PROVE PlanAgreement'
  <2>1. PICK p \in Plans : wk' = [wk EXCEPT ![w].pc = "savePlan", ![w].plan = p]
    BY <1>5 DEF CallModel
  <2> DEFINE l == [wk[w] EXCEPT !.pc = "savePlan", !.plan = p]
  <2>2. wk' = [wk EXCEPT ![w] = l]
    BY <2>1
  <2>3. l.pc \notin PastSeal
    BY <1>a DEF FramesOK, LocalOK, Local, PastSeal
  <2> HIDE DEF l
  <2> QED
    BY <1>a, <2>2, <2>3, AgreementQuiet
<1>6. ASSUME NEW w \in Workers, SavePlan(w) PROVE PlanAgreement'
  BY <1>6, <1>c DEF SavePlan, PastSeal
<1>7. ASSUME NEW w \in Workers, Seal(w) PROVE PlanAgreement'
  <2> DEFINE l == [wk[w] EXCEPT !.pc = "tools", !.idx = 1]
             slot == DecisionSlot(wk[w].step)
  <2>1. CASE Return(w)
    BY <1>b, <2>1
  <2>2. CASE ~Return(w)
    <3>1. wk' = [wk EXCEPT ![w] = l] /\ ~SlotConflict(log, slot, wk[w].plan)
      BY <1>7, <2>2 DEF Seal, AppendThen
    <3>2. slot \in DOMAIN log' /\ log'[slot] = wk[w].plan
      BY <1>7, <3>1 DEF Seal, AppendThen, SlotConflict, PutIfAbsent, Put
    <3>3. /\ wk'[w] = l /\ l.step = wk[w].step /\ l.plan = wk[w].plan
          /\ \A v \in Workers \ {w} : wk'[v] = wk[v]
      BY <1>a, <3>1 DEF FramesOK, LocalOK, Local
    <3> HIDE DEF l
    <3>4. ASSUME NEW v \in Workers, wk'[v].pc \in PastSeal
          PROVE  /\ DecisionSlot(wk'[v].step) \in DOMAIN log'
                 /\ log'[DecisionSlot(wk'[v].step)] = wk'[v].plan
      BY <1>a, <3>2, <3>3, <3>4 DEF PlanAgreement, LogGrows, Sealed, SealedPlan
    <3> QED
      BY <3>4 DEF PlanAgreement, Sealed, SealedPlan
  <2> QED
    BY <2>1, <2>2
<1>8. ASSUME NEW w \in Workers,
             RejectTool(w) \/ Abort(w) \/ CommitStep(w) \/ Stop(w)
      PROVE  PlanAgreement'
  BY <1>8, <1>b DEF RejectTool, Abort, CommitStep, Stop
<1>9. ASSUME NEW w \in Workers, LoadResult(w) PROVE PlanAgreement'
  <2>1. wk[w].pc \in PastSeal
    BY <1>9 DEF LoadResult, Pending, At, PastSeal
  <2> DEFINE l == [wk[w] EXCEPT !.idx = @ + 1]
  <2>2. CASE wk' = [wk EXCEPT ![w] = l]
    <3>1. l.step = wk[w].step /\ l.plan = wk[w].plan
      BY <1>a DEF FramesOK, LocalOK, Local
    <3> HIDE DEF l
    <3> QED
      BY <1>a, <2>1, <2>2, <3>1, AgreementQuiet
  <2> QED
    BY <1>9, <1>c, <2>1, <2>2 DEF LoadResult
<1>10. ASSUME NEW w \in Workers, Claim(w) \/ ClaimFails(w) PROVE PlanAgreement'
  BY <1>10, <1>c DEF Claim, ClaimFails, At, PastSeal
<1>11. ASSUME NEW w \in Workers, RecordCall(w) \/ RecordResult(w) PROVE PlanAgreement'
  BY <1>11, <1>b, <1>c DEF RecordCall, RecordResult, AppendThen, At, PastSeal
<1>12. ASSUME NEW w \in Workers, RunTool(w) PROVE PlanAgreement'
  <2>1. PICK r \in Outcomes[Current(w)] :
           wk' = [wk EXCEPT ![w].pc = "record", ![w].val = r]
    BY <1>12 DEF RunTool
  <2> DEFINE l == [wk[w] EXCEPT !.pc = "record", !.val = r]
  <2>2. wk' = [wk EXCEPT ![w] = l] /\ wk[w].pc \in PastSeal
    BY <1>12, <2>1 DEF RunTool, At, PastSeal
  <2>3. l.step = wk[w].step /\ l.plan = wk[w].plan
    BY <1>a DEF FramesOK, LocalOK, Local
  <2> HIDE DEF l
  <2> QED
    BY <1>a, <2>2, <2>3, AgreementQuiet
<1>13. ASSUME NEW w \in Workers, SaveResult(w) PROVE PlanAgreement'
  <2> DEFINE l == [wk[w] EXCEPT !.pc = "tools", !.idx = @ + 1, !.val = None]
  <2>1. wk' = [wk EXCEPT ![w] = l] /\ wk[w].pc \in PastSeal
    BY <1>13 DEF SaveResult, At, PastSeal
  <2>2. l.step = wk[w].step /\ l.plan = wk[w].plan
    BY <1>a DEF FramesOK, LocalOK, Local
  <2> HIDE DEF l
  <2> QED
    BY <1>a, <2>1, <2>2, AgreementQuiet
<1> QED
  BY <1>1, <1>2, <1>3, <1>4, <1>5, <1>6, <1>7, <1>8, <1>9, <1>10, <1>11, <1>12, <1>13
  DEF Next, Advance

\* Executions only name calls of the plan that is, and stays, sealed.
LEMMA ToolsStep ==
    ASSUME TypeOK, PlanAgreement, ToolsFromSealedPlan, [Next]_vars
    PROVE  ToolsFromSealedPlan'
<1>a. FramesOK /\ LogGrows
  BY LogMonotone, TypeParts
<1>b. ASSUME NEW k, SealedCall(k[1], k[2], k[3]) PROVE SealedCall(k[1], k[2], k[3])'
  BY <1>a, <1>b DEF SealedCall, Sealed, SealedPlan, LogGrows
<1>1. CASE runs' = runs
  BY <1>1, <1>b DEF ToolsFromSealedPlan
<1>2. ASSUME NEW w \in Workers, RunTool(w) PROVE ToolsFromSealedPlan'
  <2> DEFINE key == <<wk[w].step, wk[w].idx, Current(w)>>
  <2>1. DOMAIN runs' = DOMAIN runs \cup {key}
    BY <1>2 DEF RunTool, Put
  <2>2. /\ wk[w].plan \in DOMAIN ToolCalls
        /\ wk[w].idx \in DOMAIN ToolCalls[wk[w].plan]
    BY <1>2, <1>a, PlansAssumption
    DEF RunTool, At, FramesOK, LocalOK, Local, PastSeal, InCall
  <2>3. wk[w].pc \in PastSeal
    BY <1>2 DEF RunTool, At, PastSeal
  <2>4. SealedCall(key[1], key[2], key[3])
    BY <2>2, <2>3 DEF SealedCall, PlanAgreement, Current, CallsOf
  <2> QED
    BY <2>1, <2>4, <1>b DEF ToolsFromSealedPlan
<1> QED
  BY <1>1, <1>2
  DEF Next, Advance, vars, Begin, Project, LoadPlan, CallModel, SavePlan, Seal, RejectTool,
      LoadResult, Claim, ClaimFails, Abort, RecordCall, RecordResult, SaveResult, CommitStep, Stop

\* Workers that infer different plans for one step never both get past the
\* seal: the loser of the DECISION slot returns ErrSlotConflict.
THEOREM PlansAgree == Spec => []PlanAgreement
<1>1. Init => PlanAgreement
  BY DEF Init, PlanAgreement, Idle, PastSeal
<1> QED
  BY TypeCorrect, AgreementStep, <1>1, PTL DEF Spec

\* README 8.1, "Tools execute only from the sealed plan", for any number of
\* workers, plans and crashes.
THEOREM ToolsRunFromSealedPlan == Spec => []ToolsFromSealedPlan
<1>1. Init => ToolsFromSealedPlan
  BY DEF Init, ToolsFromSealedPlan
<1> QED
  BY TypeCorrect, PlansAgree, ToolsStep, <1>1, PTL DEF Spec

----------------------------------------------------------------------------
(* What was done before.                                                   *)

\* What a frame relies on: the call it runs is recorded, the call whose result
\* it holds has run, the result it memoizes is in the log, and so are the
\* results of the calls before.
Backed(l, nodes, ran) ==
    /\ l.pc \in {"run", "record", "saveResult"} => CallSlot(l.step, l.idx) \in DOMAIN nodes
    /\ l.pc \in {"record", "saveResult"} =>
          /\ <<l.step, l.idx, ToolCalls[l.plan][l.idx]>> \in DOMAIN ran
          /\ l.val \in Outcomes[ToolCalls[l.plan][l.idx]]
    /\ l.pc = "saveResult" =>
          /\ ResultSlot(l.step, l.idx) \in DOMAIN nodes
          /\ nodes[ResultSlot(l.step, l.idx)] = l.val
    /\ l.pc \in PastSeal =>
          \A i \in 1..(l.idx - 1) : ResultSlot(l.step, i) \in DOMAIN nodes

Progress == \A w \in Workers : Backed(wk[w], log, runs)

\* A memoized result is the one in the log.
MemoBacked ==
    \A s \in Steps, p \in Plans \cap DOMAIN ToolCalls : \A i \in DOMAIN ToolCalls[p] :
       ToolKey(s, i, ToolCalls[p][i]) \in DOMAIN memo =>
          /\ ResultSlot(s, i) \in DOMAIN log
          /\ log[ResultSlot(s, i)] = memo[ToolKey(s, i, ToolCalls[p][i])]

\* A recorded result follows its TOOL_CALL node and an execution.
ResultsBacked ==
    \A k \in DOMAIN log : k.kind = "TOOL_RESULT" =>
       \E i \in Nat \ {0} :
          /\ k = ResultSlot(k.step, i)
          /\ CallSlot(k.step, i) \in DOMAIN log
          /\ \E c \in Calls : <<k.step, i, c>> \in DOMAIN runs

\* A committed step was sealed with a plan that parses, and has its results.
CommitsBacked ==
    \A s \in Steps : Committed(s) =>
       /\ Sealed(s) /\ SealedPlan(s) \in DOMAIN ToolCalls
       /\ \A i \in DOMAIN ToolCalls[SealedPlan(s)] : ResultSlot(s, i) \in DOMAIN log

StepInv == Progress /\ MemoBacked /\ ResultsBacked /\ CommitsBacked

RunsGrow == DOMAIN runs \subseteq DOMAIN runs'

\* Executions are never forgotten.
LEMMA RunsMonotone == ASSUME [Next]_vars PROVE RunsGrow
  BY DEF RunsGrow, Next, Advance, vars, Begin, Project, LoadPlan, CallModel, SavePlan, Seal,
     RejectTool, LoadResult, Claim, ClaimFails, Abort, RecordCall, RunTool, RecordResult,
     SaveResult, CommitStep, Stop, Put

\* What a frame relies on stays.
LEMMA BackedGrows ==
    ASSUME LogGrows, RunsGrow, NEW l, Backed(l, log, runs) PROVE Backed(l, log', runs')
  BY DEF LogGrows, RunsGrow, Backed

\* A worker moves: out of the loop over the calls, into it, on with a call, or
\* to the next call with the result of this one in the log.
SameCall(w) ==
    /\ wk[w].pc \in PastSeal
    /\ wk'[w].step = wk[w].step /\ wk'[w].plan = wk[w].plan /\ wk'[w].idx = wk[w].idx

Moved(w) ==
    /\ \A v \in Workers \ {w} : wk'[v] = wk[v]
    /\ \/ wk'[w].pc \notin PastSeal
       \/ wk'[w].pc = "tools" /\ wk'[w].idx = 1
       \/ SameCall(w) /\ wk'[w].pc \in {"claim", "abort", "call"}
       \/ SameCall(w) /\ wk'[w].pc = "run" /\ CallSlot(wk[w].step, wk[w].idx) \in DOMAIN log'
       \/ /\ SameCall(w) /\ At(w, "run") /\ wk'[w].pc = "record"
          /\ <<wk[w].step, wk[w].idx, Current(w)>> \in DOMAIN runs'
          /\ wk'[w].val \in Outcomes[Current(w)]
       \/ /\ SameCall(w) /\ At(w, "record") /\ wk'[w].pc = "saveResult"
          /\ wk'[w].val = wk[w].val
          /\ ResultSlot(wk[w].step, wk[w].idx) \in DOMAIN log'
          /\ log'[ResultSlot(wk[w].step, wk[w].idx)] = wk[w].val
       \/ /\ wk[w].pc \in PastSeal /\ wk'[w].pc = "tools"
          /\ wk'[w].step = wk[w].step /\ wk'[w].plan = wk[w].plan
          /\ wk'[w].idx = wk[w].idx + 1
          /\ ResultSlot(wk[w].step, wk[w].idx) \in DOMAIN log'

\* A worker that moves so has what its new frame relies on.
LEMMA ProgressMove ==
    ASSUME FramesOK, LogGrows, RunsGrow, Progress, NEW w \in Workers, Moved(w)
    PROVE  Progress'
<1>1. ASSUME NEW v \in Workers, v # w PROVE Backed(wk'[v], log', runs')
  <2>1. wk'[v] = wk[v] /\ Backed(wk[v], log, runs)
    BY <1>1 DEF Moved, Progress
  <2> QED
    BY <2>1, BackedGrows
<1>2. Backed(wk[w], log', runs')
  BY BackedGrows DEF Progress
<1>3. wk[w].pc \in PastSeal => wk[w].idx \in Nat
  BY DEF FramesOK, LocalOK, Local
<1>4. Backed(wk'[w], log', runs')
  <2>1. CASE wk'[w].pc \notin PastSeal
    BY <2>1 DEF Backed, PastSeal
  <2>2. CASE wk'[w].pc = "tools" /\ wk'[w].idx = 1
    BY <2>2 DEF Backed, PastSeal
  <2>3. CASE SameCall(w) /\ wk'[w].pc \in {"claim", "abort", "call"}
    BY <1>2, <2>3 DEF Backed, SameCall, PastSeal
  <2>4. CASE SameCall(w) /\ wk'[w].pc = "run" /\ CallSlot(wk[w].step, wk[w].idx) \in DOMAIN log'
    BY <1>2, <2>4 DEF Backed, SameCall, PastSeal
  <2>5. CASE /\ SameCall(w) /\ At(w, "run") /\ wk'[w].pc = "record"
             /\ <<wk[w].step, wk[w].idx, Current(w)>> \in DOMAIN runs'
             /\ wk'[w].val \in Outcomes[Current(w)]
    BY <1>2, <2>5 DEF Backed, SameCall, PastSeal, At, Current, CallsOf
  <2>6. CASE /\ SameCall(w) /\ At(w, "record") /\ wk'[w].pc = "saveResult"
             /\ wk'[w].val = wk[w].val
             /\ ResultSlot(wk[w].step, wk[w].idx) \in DOMAIN log'
             /\ log'[ResultSlot(wk[w].step, wk[w].idx)] = wk[w].val
    BY <1>2, <2>6 DEF Backed, SameCall, PastSeal, At
  <2>7. CASE /\ wk[w].pc \in PastSeal /\ wk'[w].pc = "tools"
             /\ wk'[w].step = wk[w].step /\ wk'[w].plan = wk[w].plan
             /\ wk'[w].idx = wk[w].idx + 1
             /\ ResultSlot(wk[w].step, wk[w].idx) \in DOMAIN log'
    <3>1. \A i \in 1..(wk[w].idx - 1) : ResultSlot(wk[w].step, i) \in DOMAIN log'
      BY <1>2, <2>7 DEF Backed
    <3>2. \A i \in 1..(wk'[w].idx - 1) : i = wk[w].idx \/ i \in 1..(wk[w].idx - 1)
      BY <1>3, <2>7
    <3> QED
      BY <2>7, <3>1, <3>2 DEF Backed
  <2> QED
    BY <2>1, <2>2, <2>3, <2>4, <2>5, <2>6, <2>7 DEF Moved
<1> QED
  BY <1>1, <1>4 DEF Progress

\* Between two calls of its plan, a worker's plan is one the model may return.
LEMMA HeldPlan ==
    ASSUME TypeOK, PlanAgreement, NEW w \in Workers, wk[w].pc \in PastSeal
    PROVE  wk[w].plan \in Plans \cap DOMAIN ToolCalls /\ wk[w].step \in Steps /\ wk[w].idx \in Nat \ {0}
<1>1. wk[w].plan \in DOMAIN ToolCalls /\ wk[w].step \in Steps /\ wk[w].idx \in Nat \ {0}
  BY DEF TypeOK, LocalOK, Local, PastSeal
<1>2. DecisionSlot(wk[w].step) \in DOMAIN log /\ log[DecisionSlot(wk[w].step)] = wk[w].plan
  BY DEF PlanAgreement, Sealed, SealedPlan
<1>3. Payload(DecisionSlot(wk[w].step).kind) = Plans
  BY DEF Payload, DecisionSlot, Slot
<1> QED
  BY <1>1, <1>2, <1>3 DEF TypeOK

\* The call a worker is at is in its plan.
LEMMA HeldCall ==
    ASSUME TypeOK, NEW w \in Workers, wk[w].plan \in DOMAIN ToolCalls,
           wk[w].idx \in Nat \ {0}, wk[w].idx <= Len(CallsOf(w))
    PROVE  wk[w].idx \in DOMAIN ToolCalls[wk[w].plan] /\ Current(w) \in Calls
  BY PlansAssumption DEF Current, CallsOf

\* The frame of a worker that goes on.
LEMMA GotoFrame ==
    ASSUME FramesOK, NEW w \in Workers, NEW label, Goto(w, label)
    PROVE  /\ \A v \in Workers \ {w} : wk'[v] = wk[v]
           /\ wk'[w].pc = label /\ wk'[w].step = wk[w].step /\ wk'[w].plan = wk[w].plan
           /\ wk'[w].idx = wk[w].idx /\ wk'[w].val = wk[w].val
<1> DEFINE l == [wk[w] EXCEPT !.pc = label]
<1>1. wk' = [wk EXCEPT ![w] = l]
  BY DEF Goto
<1>2. /\ l.pc = label /\ l.step = wk[w].step /\ l.plan = wk[w].plan
      /\ l.idx = wk[w].idx /\ l.val = wk[w].val
  BY DEF FramesOK, LocalOK, Local
<1> HIDE DEF l
<1> QED
  BY <1>1, <1>2 DEF FramesOK

\* The frame of a worker that has left RunStep.
LEMMA ReturnFrame ==
    ASSUME FramesOK, NEW w \in Workers, Return(w) PROVE Moved(w)
<1>1. wk'[w] = Idle /\ \A v \in Workers \ {w} : wk'[v] = wk[v]
  BY DEF FramesOK, Return
<1>2. Idle.pc \notin PastSeal
  BY DEF Idle, PastSeal
<1> QED
  BY <1>1, <1>2 DEF Moved

\* A worker before the seal that goes on to another point before it.
LEMMA BeforeSeal ==
    ASSUME FramesOK, NEW w \in Workers, NEW l, wk' = [wk EXCEPT ![w] = l], l.pc \notin PastSeal
    PROVE  Moved(w)
  BY DEF FramesOK, Moved

\* Every step of RunStep moves one worker, or none.
LEMMA Moves ==
    ASSUME TypeOK, PlanAgreement, Progress, MemoBacked, NEW w \in Workers,
           Advance(w) \/ ClaimFails(w) \/ Stop(w)
    PROVE  Moved(w)
<1>a. FramesOK
  BY TypeParts
<1>b. ASSUME Goto(w, "infer") \/ Goto(w, "model") \/ Goto(w, "seal") PROVE Moved(w)
  BY <1>a, <1>b, GotoFrame DEF Moved, PastSeal
<1>1. ASSUME NEW s \in Steps, Begin(w, s) PROVE Moved(w)
  <2>1. PICK c \in Contexts, m \in Modes :
           wk' = [wk EXCEPT ![w] = [Idle EXCEPT !.pc = "project", !.step = s,
                                                !.ctx = c, !.mode = m]]
    BY <1>1 DEF Begin
  <2> DEFINE l == [Idle EXCEPT !.pc = "project", !.step = s, !.ctx = c, !.mode = m]
  <2>2. wk' = [wk EXCEPT ![w] = l]
    BY <2>1
  <2>3. l.pc \notin PastSeal
    BY DEF Idle, PastSeal
  <2> HIDE DEF l
  <2> QED
    BY <1>a, <2>2, <2>3, BeforeSeal
<1>2. CASE Project(w)
  BY <1>2, <1>a, <1>b, ReturnFrame DEF Project, AppendThen
<1>3. CASE LoadPlan(w)
  <2> DEFINE l == [wk[w] EXCEPT !.pc = "seal", !.plan = memo[InferKey(wk[w].step)]]
  <2>1. CASE wk' = [wk EXCEPT ![w] = l]
    <3>1. l.pc \notin PastSeal
      BY <1>a DEF FramesOK, LocalOK, Local, PastSeal
    <3> HIDE DEF l
    <3> QED
      BY <1>a, <2>1, <3>1, BeforeSeal
  <2> QED
    BY <1>3, <1>b, <2>1 DEF LoadPlan
<1>4. CASE CallModel(w)
  <2>1. PICK p \in Plans : wk' = [wk EXCEPT ![w].pc = "savePlan", ![w].plan = p]
    BY <1>4 DEF CallModel
  <2> DEFINE l == [wk[w] EXCEPT !.pc = "savePlan", !.plan = p]
  <2>2. wk' = [wk EXCEPT ![w] = l]
    BY <2>1
  <2>3. l.pc \notin PastSeal
    BY <1>a DEF FramesOK, LocalOK, Local, PastSeal
  <2> HIDE DEF l
  <2> QED
    BY <1>a, <2>2, <2>3, BeforeSeal
<1>5. CASE SavePlan(w)
  BY <1>5, <1>b DEF SavePlan
<1>6. CASE Seal(w)
  <2> DEFINE l == [wk[w] EXCEPT !.pc = "tools", !.idx = 1]
  <2>1. CASE wk' = [wk EXCEPT ![w] = l]
    <3>1. l.pc = "tools" /\ l.idx = 1
      BY <1>a DEF FramesOK, LocalOK, Local
    <3> HIDE DEF l
    <3> QED
      BY <1>a, <2>1, <3>1 DEF FramesOK, Moved
  <2> QED
    BY <1>6, <1>a, <2>1, ReturnFrame DEF Seal, AppendThen
<1>7. CASE RejectTool(w) \/ Abort(w) \/ CommitStep(w) \/ Stop(w)
  BY <1>7, <1>a, ReturnFrame DEF RejectTool, Abort, CommitStep, Stop
<1>8. CASE LoadResult(w)
  <2>1. wk[w].pc \in PastSeal /\ wk[w].pc = "tools" /\ wk[w].idx <= Len(CallsOf(w))
    BY <1>8 DEF LoadResult, Pending, At, PastSeal
  <2>2. CASE ToolKey(wk[w].step, wk[w].idx, Current(w)) \in DOMAIN memo
    <3>1. /\ wk[w].plan \in Plans \cap DOMAIN ToolCalls /\ wk[w].step \in Steps
          /\ wk[w].idx \in DOMAIN ToolCalls[wk[w].plan]
      BY <2>1, HeldPlan, HeldCall
    <3>2. ResultSlot(wk[w].step, wk[w].idx) \in DOMAIN log
      BY <2>2, <3>1 DEF MemoBacked, Current, CallsOf
    <3> DEFINE l == [wk[w] EXCEPT !.idx = @ + 1]
    <3>3. wk' = [wk EXCEPT ![w] = l] /\ log' = log
      BY <1>8, <2>2 DEF LoadResult
    <3>4. /\ l.pc = "tools" /\ l.step = wk[w].step /\ l.plan = wk[w].plan
          /\ l.idx = wk[w].idx + 1
      BY <1>a, <2>1 DEF FramesOK, LocalOK, Local
    <3> HIDE DEF l
    <3> QED
      BY <1>a, <2>1, <3>2, <3>3, <3>4 DEF FramesOK, Moved
  <2>3. CASE ToolKey(wk[w].step, wk[w].idx, Current(w)) \notin DOMAIN memo
    <3>1. Goto(w, "claim") \/ Goto(w, "call")
      BY <1>8, <2>3 DEF LoadResult
    <3> QED
      BY <1>a, <2>1, <3>1, GotoFrame DEF Moved, SameCall
  <2> QED
    BY <2>2, <2>3
<1>9. CASE Claim(w) \/ ClaimFails(w)
  <2>1. wk[w].pc \in PastSeal
    BY <1>9 DEF Claim, ClaimFails, At, PastSeal
  <2>2. \/ Goto(w, "abort")
        \/ Goto(w, "run") /\ CallSlot(wk[w].step, wk[w].idx) \in DOMAIN log'
    BY <1>9 DEF Claim, ClaimFails, PutIfAbsent, Put
  <2> QED
    BY <1>a, <2>1, <2>2, GotoFrame DEF Moved, SameCall
<1>10. CASE RecordCall(w)
  <2>1. wk[w].pc \in PastSeal
    BY <1>10 DEF RecordCall, At, PastSeal
  <2>2. \/ Return(w)
        \/ Goto(w, "run") /\ CallSlot(wk[w].step, wk[w].idx) \in DOMAIN log'
    BY <1>10 DEF RecordCall, AppendThen, PutIfAbsent, Put
  <2> QED
    BY <1>a, <2>1, <2>2, GotoFrame, ReturnFrame DEF Moved, SameCall
<1>11. CASE RunTool(w)
  <2>1. PICK r \in Outcomes[Current(w)] :
           wk' = [wk EXCEPT ![w].pc = "record", ![w].val = r]
    BY <1>11 DEF RunTool
  <2> DEFINE l == [wk[w] EXCEPT !.pc = "record", !.val = r]
  <2>2. wk' = [wk EXCEPT ![w] = l] /\ wk[w].pc \in PastSeal /\ At(w, "run")
    BY <1>11, <2>1 DEF RunTool, At, PastSeal
  <2>3. /\ l.pc = "record" /\ l.step = wk[w].step /\ l.plan = wk[w].plan
        /\ l.idx = wk[w].idx /\ l.val = r
    BY <1>a DEF FramesOK, LocalOK, Local
  <2>4. <<wk[w].step, wk[w].idx, Current(w)>> \in DOMAIN runs'
    BY <1>11 DEF RunTool, Put
  <2> HIDE DEF l
  <2> QED
    BY <1>a, <2>2, <2>3, <2>4 DEF FramesOK, Moved, SameCall
<1>12. CASE RecordResult(w)
  <2>1. wk[w].pc \in PastSeal /\ At(w, "record")
    BY <1>12 DEF RecordResult, At, PastSeal
  <2>2. \/ Return(w)
        \/ /\ Goto(w, "saveResult")
           /\ ResultSlot(wk[w].step, wk[w].idx) \in DOMAIN log'
           /\ log'[ResultSlot(wk[w].step, wk[w].idx)] = wk[w].val
    BY <1>12 DEF RecordResult, AppendThen, SlotConflict, PutIfAbsent, Put
  <2> QED
    BY <1>a, <2>1, <2>2, GotoFrame, ReturnFrame DEF Moved, SameCall
<1>13. CASE SaveResult(w)
  <2> DEFINE l == [wk[w] EXCEPT !.pc = "tools", !.idx = @ + 1, !.val = None]
  <2>1. wk' = [wk EXCEPT ![w] = l] /\ wk[w].pc = "saveResult" /\ log' = log
    BY <1>13 DEF SaveResult, At
  <2>2. /\ l.pc = "tools" /\ l.step = wk[w].step /\ l.plan = wk[w].plan
        /\ l.idx = wk[w].idx + 1
    BY <1>a DEF FramesOK, LocalOK, Local
  <2> HIDE DEF l
  <2>3. ResultSlot(wk[w].step, wk[w].idx) \in DOMAIN log
    BY <2>1 DEF Progress, Backed
  <2> QED
    BY <1>a, <2>1, <2>2, <2>3 DEF FramesOK, Moved, PastSeal
<1> QED
  BY <1>1, <1>2, <1>3, <1>4, <1>5, <1>6, <1>7, <1>8, <1>9, <1>10, <1>11, <1>12, <1>13
  DEF Advance

----------------------------------------------------------------------------
(* What a step of one worker does to the log, the memo and the world.      *)

LogChange(w) ==
    \/ log' = log
    \/ \E k, v : /\ k.kind \in {"PROJECT_CONTEXT", "TOOL_CALL", "ABORT"}
                 /\ log' = PutIfAbsent(log, k, v)
    \/ At(w, "seal") /\ log' = PutIfAbsent(log, DecisionSlot(wk[w].step), wk[w].plan)
    \/ At(w, "record") /\ log' = PutIfAbsent(log, ResultSlot(wk[w].step, wk[w].idx), wk[w].val)
    \/ /\ At(w, "tools") /\ wk[w].idx > Len(CallsOf(w))
       /\ log' = PutIfAbsent(log, CommitSlot(wk[w].step, Len(CallsOf(w))), "{}")

MemoChange(w) ==
    \/ memo' = memo
    \/ \E s, v : memo' = PutIfAbsent(memo, InferKey(s), v)
    \/ SaveResult(w)

RunsChange(w) == runs' = runs \/ RunTool(w)

\* Every step of a worker is one of these.
LEMMA Changes ==
    ASSUME NEW w \in Workers, Advance(w) \/ ClaimFails(w) \/ Stop(w)
    PROVE  LogChange(w) /\ MemoChange(w) /\ RunsChange(w)
<1>a. ASSUME NEW k, NEW v, k.kind \in {"PROJECT_CONTEXT", "TOOL_CALL", "ABORT"},
             log' = PutIfAbsent(log, k, v)
      PROVE  LogChange(w)
  <2>1. \E j, u : /\ j.kind \in {"PROJECT_CONTEXT", "TOOL_CALL", "ABORT"}
                  /\ log' = PutIfAbsent(log, j, u)
    <3> WITNESS k, v
    <3> QED
      BY <1>a
  <2> QED
    BY <2>1, Zenon DEF LogChange
<1>1. CASE UNCHANGED <<log, memo, runs>>
  BY <1>1 DEF LogChange, MemoChange, RunsChange
<1>2. CASE Seal(w) \/ RecordResult(w) \/ CommitStep(w)
  BY <1>2 DEF Seal, RecordResult, CommitStep, AppendThen, LogChange, MemoChange, RunsChange
<1>3. CASE Project(w) \/ Claim(w) \/ RecordCall(w) \/ Abort(w)
  <2>1. /\ ProjectSlot(wk[w].step).kind = "PROJECT_CONTEXT"
        /\ CallSlot(wk[w].step, wk[w].idx).kind = "TOOL_CALL"
        /\ AbortSlot(wk[w].step, wk[w].idx).kind = "ABORT"
    BY DEF ProjectSlot, CallSlot, AbortSlot, Slot
  <2>2. \/ log' = PutIfAbsent(log, ProjectSlot(wk[w].step), wk[w].ctx)
        \/ log' = PutIfAbsent(log, CallSlot(wk[w].step, wk[w].idx), Current(w))
        \/ log' = PutIfAbsent(log, AbortSlot(wk[w].step, wk[w].idx), NameOf[Current(w)])
    BY <1>3 DEF Project, Claim, RecordCall, Abort, AppendThen
  <2>3. LogChange(w)
    BY <1>a, <2>1, <2>2
  <2> QED
    BY <1>3, <2>3 DEF Project, Claim, RecordCall, Abort, MemoChange, RunsChange
<1>4. CASE SavePlan(w) \/ SaveResult(w) \/ RunTool(w)
  BY <1>4 DEF SavePlan, SaveResult, RunTool, LogChange, MemoChange, RunsChange
<1> QED
  BY <1>1, <1>2, <1>3, <1>4 DEF Advance, Begin, LoadPlan, CallModel, RejectTool, LoadResult,
     ClaimFails, Stop

\* A node is there, or was added.
LEMMA PutNode ==
    ASSUME NEW k, NEW v, log' = PutIfAbsent(log, k, v)
    PROVE  DOMAIN log' = DOMAIN log \cup {k} /\ LogGrows
  BY DEF PutIfAbsent, Put, LogGrows

\* With one memo key per step and tool, what is memoized is what is recorded.
LEMMA MemoBackedStep ==
    ASSUME MemoKeysDistinct, TypeOK, PlanAgreement, Progress, MemoBacked, LogGrows,
           NEW w \in Workers, MemoChange(w)
    PROVE  MemoBacked'
<1>1. ASSUME NEW s \in Steps, NEW p \in Plans \cap DOMAIN ToolCalls, NEW i \in DOMAIN ToolCalls[p],
             ToolKey(s, i, ToolCalls[p][i]) \in DOMAIN memo'
      PROVE  /\ ResultSlot(s, i) \in DOMAIN log'
             /\ log'[ResultSlot(s, i)] = memo'[ToolKey(s, i, ToolCalls[p][i])]
  <2> DEFINE key == ToolKey(s, i, ToolCalls[p][i])
  <2>1. ASSUME key \in DOMAIN memo, memo'[key] = memo[key]
        PROVE  /\ ResultSlot(s, i) \in DOMAIN log' /\ log'[ResultSlot(s, i)] = memo'[key]
    BY <2>1 DEF MemoBacked, LogGrows
  <2>2. ASSUME NEW t, NEW v, memo' = PutIfAbsent(memo, InferKey(t), v)
        PROVE  key \in DOMAIN memo /\ memo'[key] = memo[key]
    BY <1>1, <2>2, InferIsNotTool DEF PutIfAbsent, Put
  <2>3. CASE SaveResult(w)
    <3>1. wk[w].pc = "saveResult" /\ wk[w].pc \in PastSeal /\ wk[w].pc \in InCall
      BY <2>3 DEF SaveResult, At, PastSeal, InCall
    <3>2. wk[w].plan \in Plans \cap DOMAIN ToolCalls /\ wk[w].step \in Steps /\ wk[w].idx \in Nat \ {0}
      BY <3>1, HeldPlan
    <3>3. wk[w].idx \in DOMAIN ToolCalls[wk[w].plan]
      BY <3>1, <3>2, HeldCall DEF TypeOK, LocalOK, CallsOf
    <3> DEFINE mine == ToolKey(wk[w].step, wk[w].idx, ToolCalls[wk[w].plan][wk[w].idx])
    <3>4. memo' = PutIfAbsent(memo, mine, wk[w].val)
      BY <2>3 DEF SaveResult, Current, CallsOf
    <3>5. /\ ResultSlot(wk[w].step, wk[w].idx) \in DOMAIN log
          /\ log[ResultSlot(wk[w].step, wk[w].idx)] = wk[w].val
      BY <3>1 DEF Progress, Backed
    <3>6. CASE key \in DOMAIN memo
      <4>1. memo'[key] = memo[key]
        BY <3>4, <3>6 DEF PutIfAbsent, Put
      <4> QED
        BY <2>1, <3>6, <4>1
    <3>7. CASE key \notin DOMAIN memo
      <4>1. key = mine /\ memo'[key] = wk[w].val
        BY <1>1, <3>4, <3>7 DEF PutIfAbsent, Put
      <4>2. i \in Nat
        BY PlansAssumption
      <4>3. i = wk[w].idx
        BY <3>2, <4>1, <4>2 DEF ToolKey
      <4>4. s = wk[w].step
        BY <3>2, <3>3, <4>1, <4>3 DEF MemoKeysDistinct
      <4> QED
        BY <3>5, <4>1, <4>3, <4>4 DEF LogGrows
    <3> QED
      BY <3>6, <3>7
  <2>4. CASE memo' = memo
    BY <1>1, <2>1, <2>4
  <2> QED
    BY <2>1, <2>2, <2>3, <2>4 DEF MemoChange
<1> QED
  BY <1>1 DEF MemoBacked, ToolKey

\* A result is recorded by the worker that has run its call.
LEMMA ResultsBackedStep ==
    ASSUME TypeOK, PlanAgreement, Progress, ResultsBacked, LogGrows, RunsGrow,
           NEW w \in Workers, LogChange(w)
    PROVE  ResultsBacked'
<1>1. ASSUME NEW k \in DOMAIN log, k.kind = "TOOL_RESULT"
      PROVE  \E i \in Nat \ {0} : /\ k = ResultSlot(k.step, i)
                                  /\ CallSlot(k.step, i) \in DOMAIN log'
                                  /\ \E c \in Calls : <<k.step, i, c>> \in DOMAIN runs'
  BY <1>1 DEF ResultsBacked, LogGrows, RunsGrow
<1>2. ASSUME NEW k \in DOMAIN log', k \notin DOMAIN log, k.kind = "TOOL_RESULT"
      PROVE  \E i \in Nat \ {0} : /\ k = ResultSlot(k.step, i)
                                  /\ CallSlot(k.step, i) \in DOMAIN log'
                                  /\ \E c \in Calls : <<k.step, i, c>> \in DOMAIN runs'
  <2>1. /\ DecisionSlot(wk[w].step).kind = "DECISION"
        /\ CommitSlot(wk[w].step, Len(CallsOf(w))).kind = "COMMIT_STEP"
    BY DEF DecisionSlot, CommitSlot, Slot
  <2>2. At(w, "record") /\ k = ResultSlot(wk[w].step, wk[w].idx)
    <3>1. ASSUME NEW j, NEW v, log' = PutIfAbsent(log, j, v) PROVE k = j
      BY <1>2, <3>1, PutNode
    <3> QED
      BY <1>2, <2>1, <3>1 DEF LogChange
  <2>3. wk[w].pc = "record" /\ wk[w].pc \in PastSeal
    BY <2>2 DEF At, PastSeal
  <2>4. k.step = wk[w].step /\ wk[w].idx \in Nat \ {0}
    BY <2>2, <2>3, HeldPlan DEF ResultSlot, Slot
  <2>5. /\ CallSlot(wk[w].step, wk[w].idx) \in DOMAIN log
        /\ <<wk[w].step, wk[w].idx, Current(w)>> \in DOMAIN runs
    BY <2>3 DEF Progress, Backed, Current, CallsOf
  <2>6. Current(w) \in Calls
    <3>1. wk[w].plan \in DOMAIN ToolCalls /\ wk[w].idx <= Len(CallsOf(w))
      BY <2>3 DEF TypeOK, LocalOK, CallsOf, PastSeal, InCall
    <3> QED
      BY <2>4, <3>1, HeldCall
  <2> QED
    BY <2>2, <2>4, <2>5, <2>6 DEF LogGrows, RunsGrow
<1> QED
  BY <1>1, <1>2 DEF ResultsBacked

\* Whoever commits has seen every result of the sealed plan in the log.
LEMMA CommitsBackedStep ==
    ASSUME TypeOK, PlanAgreement, Progress, CommitsBacked, LogGrows, NEW w \in Workers, LogChange(w)
    PROVE  CommitsBacked'
<1>1. ASSUME NEW s \in Steps, Committed(s)
      PROVE  /\ DecisionSlot(s) \in DOMAIN log' /\ log'[DecisionSlot(s)] \in DOMAIN ToolCalls
             /\ \A i \in DOMAIN ToolCalls[log'[DecisionSlot(s)]] : ResultSlot(s, i) \in DOMAIN log'
  BY <1>1 DEF CommitsBacked, LogGrows, Sealed, SealedPlan
<1>2. ASSUME NEW s \in Steps, ~Committed(s), Committed(s)'
      PROVE  /\ DecisionSlot(s) \in DOMAIN log' /\ log'[DecisionSlot(s)] \in DOMAIN ToolCalls
             /\ \A i \in DOMAIN ToolCalls[log'[DecisionSlot(s)]] : ResultSlot(s, i) \in DOMAIN log'
  <2>1. PICK k \in DOMAIN log' : k \notin DOMAIN log /\ k.step = s /\ k.kind = "COMMIT_STEP"
    BY <1>2 DEF Committed
  <2>2. /\ DecisionSlot(wk[w].step).kind = "DECISION"
        /\ ResultSlot(wk[w].step, wk[w].idx).kind = "TOOL_RESULT"
    BY DEF DecisionSlot, ResultSlot, Slot
  <2>3. /\ At(w, "tools") /\ wk[w].idx > Len(CallsOf(w))
        /\ k = CommitSlot(wk[w].step, Len(CallsOf(w)))
    <3>1. ASSUME NEW j, NEW v, log' = PutIfAbsent(log, j, v) PROVE k = j
      BY <2>1, <3>1, PutNode
    <3> QED
      BY <2>1, <2>2, <3>1 DEF LogChange
  <2>4. s = wk[w].step /\ wk[w].pc \in PastSeal
    BY <2>1, <2>3 DEF CommitSlot, Slot, At, PastSeal
  <2>5. wk[w].plan \in DOMAIN ToolCalls /\ wk[w].idx \in Nat
    BY <2>4, HeldPlan
  <2>6. DecisionSlot(s) \in DOMAIN log /\ log[DecisionSlot(s)] = wk[w].plan
    BY <2>4 DEF PlanAgreement, Sealed, SealedPlan
  <2>7. \A i \in DOMAIN ToolCalls[wk[w].plan] : i \in 1..(wk[w].idx - 1)
    BY <2>3, <2>5, PlansAssumption DEF CallsOf
  <2>8. \A i \in 1..(wk[w].idx - 1) : ResultSlot(s, i) \in DOMAIN log
    BY <2>4 DEF Progress, Backed
  <2> QED
    BY <2>5, <2>6, <2>7, <2>8 DEF LogGrows
<1>3. \A s \in Steps : Committed(s)' =>
             /\ DecisionSlot(s) \in DOMAIN log' /\ log'[DecisionSlot(s)] \in DOMAIN ToolCalls
             /\ \A i \in DOMAIN ToolCalls[log'[DecisionSlot(s)]] : ResultSlot(s, i) \in DOMAIN log'
  BY <1>1, <1>2
<1> QED
  BY <1>3 DEF CommitsBacked, Sealed, SealedPlan

\* The four parts are kept by a step of one worker.
LEMMA StepInvStep ==
    ASSUME MemoKeysDistinct, TypeOK, PlanAgreement, StepInv, LogGrows, RunsGrow, NEW w \in Workers,
           Moved(w), LogChange(w), MemoChange(w)
    PROVE  StepInv'
<1>1. FramesOK
  BY TypeParts
<1> QED
  BY <1>1, ProgressMove, MemoBackedStep, ResultsBackedStep, CommitsBackedStep DEF StepInv

\* Every node of a step is backed, whatever workers race and stop, if no two
\* steps share a memo key.
THEOREM StepInvariant == ASSUME MemoKeysDistinct PROVE Spec => []StepInv
<1>1. Init => StepInv
  <2> SUFFICES ASSUME Init PROVE StepInv
    OBVIOUS
  <2>1. \A w \in Workers : wk[w].pc = "idle"
    BY DEF Init, Idle
  <2>2. Progress
    BY <2>1 DEF Progress, Backed, PastSeal
  <2> QED
    BY <2>2 DEF Init, StepInv, MemoBacked, ResultsBacked, CommitsBacked, Committed
<1>2. ASSUME TypeOK, PlanAgreement, StepInv, [Next]_vars PROVE StepInv'
  <2>1. LogGrows /\ RunsGrow
    BY <1>2, LogMonotone, RunsMonotone
  <2>2. CASE UNCHANGED vars
    BY <1>2, <2>2 DEF vars, StepInv, Progress, MemoBacked, ResultsBacked, CommitsBacked, Committed,
       Sealed, SealedPlan, ToolKey
  <2>3. ASSUME NEW w \in Workers, Advance(w) \/ ClaimFails(w) \/ Stop(w) PROVE StepInv'
    <3>1. Moved(w) /\ LogChange(w) /\ MemoChange(w)
      BY <1>2, <2>3, Moves, Changes DEF StepInv
    <3> QED
      BY <1>2, <2>1, <3>1, StepInvStep
  <2> QED
    BY <1>2, <2>2, <2>3 DEF Next
<1> QED
  BY <1>1, <1>2, TypeCorrect, PlansAgree, PTL DEF Spec

\* A memo hit and the log say the same of a call of the sealed plan.
LEMMA MemoAgrees == ASSUME TypeOK, MemoBacked PROVE MemoMatchesLog
<1> SUFFICES ASSUME NEW s \in Steps, NEW c \in Calls, Sealed(s),
                    NEW i \in 1..Len(ToolCalls[SealedPlan(s)]),
                    SealedCall(s, i, c), ToolKey(s, i, c) \in DOMAIN memo
             PROVE  /\ ResultSlot(s, i) \in DOMAIN log
                    /\ log[ResultSlot(s, i)] = memo[ToolKey(s, i, c)]
  BY DEF MemoMatchesLog
<1>1. Payload(DecisionSlot(s).kind) = Plans
  BY DEF Payload, DecisionSlot, Slot
<1>2. SealedPlan(s) \in Plans
  BY <1>1 DEF TypeOK, Sealed, SealedPlan
<1> QED
  BY <1>2 DEF MemoBacked, SealedCall

\* The result a later attempt is given from the memo is the one a reader of the
\* log finds, for any number of workers whose steps do not share memo keys.
THEOREM MemoFollowsLog == ASSUME MemoKeysDistinct PROVE Spec => []MemoMatchesLog
<1>1. StepInv => MemoBacked
  BY DEF StepInv
<1> QED
  BY <1>1, MemoAgrees, StepInvariant, TypeCorrect, PTL

\* What a committed step has, from what is behind its nodes.
LEMMA CommitsComplete ==
    ASSUME TypeOK, ToolsFromSealedPlan, StepInv PROVE CommittedComplete
<1> SUFFICES ASSUME NEW s \in Steps, Committed(s), NEW i \in DOMAIN ToolCalls[SealedPlan(s)]
             PROVE  /\ CallSlot(s, i) \in DOMAIN log
                    /\ ResultSlot(s, i) \in DOMAIN log
                    /\ <<s, i, ToolCalls[SealedPlan(s)][i]>> \in DOMAIN runs
  BY DEF CommittedComplete, StepInv, CommitsBacked
<1>1. ResultSlot(s, i) \in DOMAIN log /\ SealedPlan(s) \in DOMAIN ToolCalls
  BY DEF StepInv, CommitsBacked
<1>2. ResultSlot(s, i).kind = "TOOL_RESULT" /\ ResultSlot(s, i).step = s
  BY DEF ResultSlot, Slot
<1>3. PICK j \in Nat \ {0} :
        /\ ResultSlot(s, i) = ResultSlot(s, j) /\ CallSlot(s, j) \in DOMAIN log
        /\ \E c \in Calls : <<s, j, c>> \in DOMAIN runs
  BY <1>1, <1>2 DEF StepInv, ResultsBacked
<1>4. i \in Nat
  BY <1>1, PlansAssumption
<1>5. i = j
  BY <1>3, <1>4 DEF ResultSlot, Slot
<1>6. PICK c \in Calls : <<s, i, c>> \in DOMAIN runs
  BY <1>3, <1>5
<1>7. c = ToolCalls[SealedPlan(s)][i]
  BY <1>6 DEF ToolsFromSealedPlan, SealedCall
<1> QED
  BY <1>1, <1>3, <1>5, <1>6, <1>7

\* A committed step has the TOOL_CALL and the TOOL_RESULT of every call of its
\* sealed plan, and each was executed, for any number of workers and crashes, as
\* long as no two steps share a memo key: what CommitStep relies on.
THEOREM CommitsAreComplete == ASSUME MemoKeysDistinct PROVE Spec => []CommittedComplete
  BY CommitsComplete, StepInvariant, TypeCorrect, ToolsRunFromSealedPlan, PTL

----------------------------------------------------------------------------
(* The contract.                                                           *)

\* The recorded results are the TOOL_RESULT nodes.
LEMMA RecordedAre ==
    ASSUME ResultsBacked
    PROVE  /\ \A x \in DOMAIN RecordedResults : \E i \in Nat \ {0} :
                 x = <<x[1], i>> /\ ResultSlot(x[1], i) \in DOMAIN log
           /\ \A s, i : i \in Nat \ {0} /\ ResultSlot(s, i) \in DOMAIN log =>
                 <<s, i>> \in DOMAIN RecordedResults
           /\ \A x \in DOMAIN RecordedResults : RecordedResults[x] = log[ResultSlot(x[1], x[2])]
<1> DEFINE slots == {k \in DOMAIN log : k.kind = "TOOL_RESULT"}
<1>1. /\ DOMAIN RecordedResults = {<<k.step, (k.seq - 1) \div 2>> : k \in slots}
      /\ \A x \in DOMAIN RecordedResults : RecordedResults[x] = log[ResultSlot(x[1], x[2])]
  BY DEF RecordedResults
<1>2. ASSUME NEW s, NEW i \in Nat
      PROVE  /\ ResultSlot(s, i).step = s /\ ResultSlot(s, i).kind = "TOOL_RESULT"
             /\ (ResultSlot(s, i).seq - 1) \div 2 = i
  BY DEF ResultSlot, Slot
<1>3. ASSUME NEW x \in DOMAIN RecordedResults
      PROVE  \E i \in Nat \ {0} : x = <<x[1], i>> /\ ResultSlot(x[1], i) \in DOMAIN log
  <2>1. PICK k \in slots : x = <<k.step, (k.seq - 1) \div 2>>
    BY <1>1
  <2>2. PICK i \in Nat \ {0} : k = ResultSlot(k.step, i)
    BY DEF ResultsBacked
  <2>3. (k.seq - 1) \div 2 = i
    BY <1>2, <2>2
  <2> QED
    BY <2>1, <2>2, <2>3
<1>4. ASSUME NEW s, NEW i, i \in Nat \ {0}, ResultSlot(s, i) \in DOMAIN log
      PROVE  <<s, i>> \in DOMAIN RecordedResults
  <2>1. ResultSlot(s, i) \in slots
    BY <1>2, <1>4
  <2>2. <<s, i>> = <<ResultSlot(s, i).step, (ResultSlot(s, i).seq - 1) \div 2>>
    BY <1>2, <1>4
  <2> QED
    BY <1>1, <2>1, <2>2
<1> QED
  BY <1>1, <1>3, <1>4

\* A node that is no result leaves the recorded results as they are.
LEMMA ResultsKept ==
    ASSUME ResultsBacked, LogGrows, \A k \in DOMAIN log' \ DOMAIN log : k.kind # "TOOL_RESULT"
    PROVE  RecordedResults' = RecordedResults
<1> DEFINE slots == {k \in DOMAIN log : k.kind = "TOOL_RESULT"}
           keys  == {<<k.step, (k.seq - 1) \div 2>> : k \in slots}
<1>1. slots' = slots
  BY DEF LogGrows
<1>2. keys' = keys
  BY <1>1
<1>3. RecordedResults = [x \in keys |-> log[ResultSlot(x[1], x[2])]]
  BY DEF RecordedResults
<1>4. RecordedResults' = [x \in keys |-> log'[ResultSlot(x[1], x[2])]]
  <2>1. RecordedResults' = [x \in keys' |-> log'[ResultSlot(x[1], x[2])]]
    BY DEF RecordedResults, ResultSlot, Slot
  <2> QED
    BY <1>2, <2>1
<1>5. ASSUME NEW x \in keys PROVE log'[ResultSlot(x[1], x[2])] = log[ResultSlot(x[1], x[2])]
  <2>1. PICK i \in Nat \ {0} : x = <<x[1], i>> /\ ResultSlot(x[1], i) \in DOMAIN log
    BY <1>3, RecordedAre
  <2>2. x[2] = i
    BY <2>1
  <2> QED
    BY <2>1, <2>2 DEF LogGrows
<1> HIDE DEF keys
<1> QED
  BY <1>3, <1>4, <1>5

\* A node that is no DECISION leaves the sealed plans as they are.
LEMMA PlansKept ==
    ASSUME LogGrows, \A k \in DOMAIN log' \ DOMAIN log : k.kind # "DECISION"
    PROVE  SealedPlans' = SealedPlans
<1>1. \A s \in Steps : DecisionSlot(s).kind = "DECISION"
  BY DEF DecisionSlot, Slot
<1>2. \A s \in Steps : /\ DecisionSlot(s) \in DOMAIN log' <=> DecisionSlot(s) \in DOMAIN log
                       /\ DecisionSlot(s) \in DOMAIN log => log'[DecisionSlot(s)] = log[DecisionSlot(s)]
  BY <1>1 DEF LogGrows
<1> QED
  BY <1>2 DEF SealedPlans, Sealed, SealedPlan

\* A node that is no COMMIT_STEP commits nothing.
LEMMA CommitsKept ==
    ASSUME LogGrows, \A k \in DOMAIN log' \ DOMAIN log : k.kind # "COMMIT_STEP"
    PROVE  CommittedSteps' = CommittedSteps
  BY DEF LogGrows, CommittedSteps, Committed

\* The call a worker past the seal is at is planned, as the contract sees it.
LEMMA HeldIsPlanned ==
    ASSUME TypeOK, PlanAgreement, NEW w \in Workers, wk[w].pc \in InCall
    PROVE  /\ wk[w].step \in Steps /\ wk[w].plan \in Plans \cap DOMAIN ToolCalls
           /\ wk[w].idx \in DOMAIN ToolCalls[wk[w].plan]
           /\ Current(w) = ToolCalls[wk[w].plan][wk[w].idx]
           /\ SealedPlans[wk[w].step] = wk[w].plan
           /\ Contract!Planned(wk[w].step, wk[w].idx, Current(w))
<1>1. /\ wk[w].plan \in Plans \cap DOMAIN ToolCalls /\ wk[w].step \in Steps
      /\ wk[w].idx \in Nat \ {0} /\ wk[w].idx <= Len(CallsOf(w))
  BY HeldPlan DEF InCall, TypeOK, LocalOK, CallsOf
<1>2. wk[w].idx \in DOMAIN ToolCalls[wk[w].plan] /\ Current(w) = ToolCalls[wk[w].plan][wk[w].idx]
  BY <1>1, HeldCall DEF Current, CallsOf
<1>3. Sealed(wk[w].step) /\ SealedPlan(wk[w].step) = wk[w].plan
  BY DEF PlanAgreement, InCall
<1>4. SealedPlans[wk[w].step] = wk[w].plan
  BY <1>1, <1>3 DEF SealedPlans
<1> QED
  BY <1>1, <1>2, <1>4 DEF Contract!Planned

\* A step of one worker is a step of the contract, or none.
LEMMA ContractStep ==
    ASSUME TypeOK, PlanAgreement, GateInv, Progress, ResultsBacked, LogGrows, NEW w \in Workers,
           LogChange(w), RunsChange(w), log' = log \/ runs' = runs
    PROVE  [Contract!Next]_(Contract!vars)
<1>a. ASSUME NEW k, NEW v, log' = PutIfAbsent(log, k, v) PROVE \A j \in DOMAIN log' \ DOMAIN log : j = k
  BY <1>a, PutNode
<1>1. ASSUME log' = log PROVE UNCHANGED <<SealedPlans, RecordedResults, CommittedSteps>>
  BY <1>1, PlansKept, ResultsKept, CommitsKept
<1>2. CASE log' = log /\ runs' = runs
  BY <1>1, <1>2 DEF Contract!vars
<1>3. CASE log' = log /\ RunTool(w)
  <2> DEFINE key == <<wk[w].step, wk[w].idx, Current(w)>>
  <2>1. wk[w].pc = "run" /\ wk[w].pc \in InCall
    BY <1>3 DEF RunTool, At, InCall, PastSeal
  <2>2. runs' = Put(runs, key, IF Executions(key) = 0 THEN 1 ELSE Many)
    BY <1>3 DEF RunTool
  <2>3. Gated(Current(w)) => key \notin DOMAIN runs
    <3>1. Gated(Current(w)) => GatedAt(wk[w])
      BY DEF GatedAt, Current, CallsOf
    <3>2. key[1] = wk[w].step /\ key[2] = wk[w].idx /\ key[3] = Current(w)
      OBVIOUS
    <3> HIDE DEF key
    <3> QED
      BY <2>1, <3>1, <3>2 DEF GateInv
  <2>4. Executions(key) = 0 <=> key \notin DOMAIN runs
    BY DEF Executions, TypeOK, Many
  <2>5. IF key \in DOMAIN runs
        THEN ~Gated(Current(w)) /\ runs' = Put(runs, key, Many)
        ELSE runs' = Put(runs, key, 1)
    BY <2>2, <2>3, <2>4
  <2>6. Contract!Fire(wk[w].step, wk[w].idx, Current(w))
    BY <1>1, <1>3, <2>1, <2>5, HeldIsPlanned DEF Contract!Fire, Contract!Put, Put
  <2> QED
    BY <2>1, <2>6, HeldIsPlanned DEF Contract!Next
<1>4. ASSUME runs' = runs, NEW k, NEW v,
             k.kind \in {"PROJECT_CONTEXT", "TOOL_CALL", "ABORT"}, log' = PutIfAbsent(log, k, v)
      PROVE  UNCHANGED Contract!vars
  BY <1>4, <1>a, PlansKept, ResultsKept, CommitsKept DEF Contract!vars
<1>5. CASE runs' = runs /\ At(w, "seal") /\ log' = PutIfAbsent(log, DecisionSlot(wk[w].step), wk[w].plan)
  <2> DEFINE s == wk[w].step
  <2>1. s \in Steps /\ wk[w].plan \in Plans
    BY <1>5 DEF TypeOK, LocalOK, At
  <2>2. UNCHANGED <<runs, RecordedResults, CommittedSteps>>
    <3>1. DecisionSlot(s).kind = "DECISION"
      BY DEF DecisionSlot, Slot
    <3> QED
      BY <1>5, <1>a, <3>1, ResultsKept, CommitsKept
  <2>3. CASE Sealed(s)
    <3>1. log' = log
      BY <1>5, <2>3 DEF Sealed, PutIfAbsent
    <3> QED
      BY <1>2, <1>5, <3>1
  <2>4. CASE ~Sealed(s)
    <3>1. SealedPlans[s] = None
      BY <2>1, <2>4 DEF SealedPlans
    <3>2. log' = Put(log, DecisionSlot(s), wk[w].plan)
      BY <1>5, <2>4 DEF Sealed, PutIfAbsent
    <3>3. \A t \in Steps : DecisionSlot(t) = DecisionSlot(s) => t = s
      BY DEF DecisionSlot, Slot
    <3>4. \A t \in Steps : /\ t # s => (Sealed(t)' <=> Sealed(t)) /\ (Sealed(t) => SealedPlan(t)' = SealedPlan(t))
                           /\ t = s => Sealed(t)' /\ SealedPlan(t)' = wk[w].plan
      BY <3>2, <3>3 DEF Sealed, SealedPlan, Put
    <3>5. SealedPlans' = [SealedPlans EXCEPT ![s] = wk[w].plan]
      BY <2>1, <3>4 DEF SealedPlans
    <3>6. Contract!SealPlan(s)
      BY <2>1, <2>2, <3>1, <3>5 DEF Contract!SealPlan
    <3> QED
      BY <2>1, <3>6 DEF Contract!Next
  <2> QED
    BY <2>3, <2>4
<1>6. CASE runs' = runs /\ At(w, "record")
           /\ log' = PutIfAbsent(log, ResultSlot(wk[w].step, wk[w].idx), wk[w].val)
  <2> DEFINE s == wk[w].step
             i == wk[w].idx
             slot == ResultSlot(s, i)
  <2>1. wk[w].pc = "record" /\ wk[w].pc \in InCall /\ wk[w].pc \in PastSeal
    BY <1>6 DEF At, InCall, PastSeal
  <2>2. slot.kind = "TOOL_RESULT" /\ slot.step = s /\ i \in Nat \ {0}
    BY <2>1, HeldPlan DEF ResultSlot, Slot
  <2>3. UNCHANGED <<runs, SealedPlans, CommittedSteps>>
    BY <1>6, <1>a, <2>2, PlansKept, CommitsKept
  <2>4. CASE slot \in DOMAIN log
    <3>1. log' = log
      BY <1>6, <2>4 DEF PutIfAbsent
    <3> QED
      BY <1>2, <1>6, <3>1
  <2>5. CASE slot \notin DOMAIN log
    <3>1. log' = Put(log, slot, wk[w].val)
      BY <1>6, <2>5 DEF PutIfAbsent
    <3>2. <<s, i, Current(w)>> \in DOMAIN runs /\ wk[w].val \in Outcomes[Current(w)]
      BY <2>1 DEF Progress, Backed, Current, CallsOf
    <3>3. <<s, i>> \notin DOMAIN RecordedResults
      <4> SUFFICES ASSUME <<s, i>> \in DOMAIN RecordedResults PROVE FALSE
        OBVIOUS
      <4>1. PICK j \in Nat \ {0} : <<s, i>> = <<s, j>> /\ ResultSlot(s, j) \in DOMAIN log
        BY RecordedAre
      <4> QED
        BY <2>5, <4>1
    <3>4. RecordedResults' = Put(RecordedResults, <<s, i>>, wk[w].val)
      <4> DEFINE slots == {k \in DOMAIN log : k.kind = "TOOL_RESULT"}
                 keys  == {<<k.step, (k.seq - 1) \div 2>> : k \in slots}
      <4>1. slots' = slots \cup {slot}
        BY <2>2, <3>1 DEF Put
      <4>2. (slot.seq - 1) \div 2 = i
        BY <2>2 DEF ResultSlot, Slot
      <4>3. keys' = keys \cup {<<s, i>>}
        BY <2>2, <4>1, <4>2
      <4>4. RecordedResults = [x \in keys |-> log[ResultSlot(x[1], x[2])]]
        BY DEF RecordedResults
      <4>5. RecordedResults' = [x \in keys' |-> log'[ResultSlot(x[1], x[2])]]
        BY DEF RecordedResults, ResultSlot, Slot
      <4>6. ASSUME NEW x \in keys
            PROVE  log'[ResultSlot(x[1], x[2])] = log[ResultSlot(x[1], x[2])]
        <5>1. PICK j \in Nat \ {0} : x = <<x[1], j>> /\ ResultSlot(x[1], j) \in DOMAIN log
          BY <4>4, RecordedAre
        <5>2. x[2] = j
          BY <5>1
        <5> QED
          BY <5>1, <5>2 DEF LogGrows
      <4>7. log'[slot] = wk[w].val
        BY <3>1 DEF Put
      <4>8. <<s, i>>[1] = s /\ <<s, i>>[2] = i /\ <<s, i>> \notin keys
        BY <3>3, <4>4
      <4> HIDE DEF keys
      <4>9. DOMAIN RecordedResults = keys /\ DOMAIN RecordedResults' = keys \cup {<<s, i>>}
        BY <4>3, <4>4, <4>5
      <4>10. \A x \in keys : RecordedResults'[x] = RecordedResults[x]
        BY <4>3, <4>4, <4>5, <4>6
      <4>11. RecordedResults'[<<s, i>>] = wk[w].val
        BY <4>3, <4>5, <4>7, <4>8
      <4>12. RecordedResults' = [x \in keys \cup {<<s, i>>} |-> RecordedResults'[x]]
        BY <4>3, <4>5
      <4> QED
        BY <4>8, <4>9, <4>10, <4>11, <4>12 DEF Put
    <3>5. Contract!Record(s, i, Current(w))
      BY <2>1, <2>3, <3>2, <3>3, <3>4, HeldIsPlanned DEF Contract!Record, Contract!Put, Put
    <3> QED
      BY <2>1, <3>5, HeldIsPlanned DEF Contract!Next
  <2> QED
    BY <2>4, <2>5
<1>7. CASE runs' = runs /\ At(w, "tools") /\ wk[w].idx > Len(CallsOf(w))
           /\ log' = PutIfAbsent(log, CommitSlot(wk[w].step, Len(CallsOf(w))), "{}")
  <2> DEFINE s == wk[w].step
             slot == CommitSlot(s, Len(CallsOf(w)))
  <2>1. wk[w].pc \in PastSeal
    BY <1>7 DEF At, PastSeal
  <2>2. slot.kind = "COMMIT_STEP" /\ slot.step = s
    BY DEF CommitSlot, Slot
  <2>3. UNCHANGED <<runs, SealedPlans, RecordedResults>>
    BY <1>7, <1>a, <2>2, PlansKept, ResultsKept
  <2>4. wk[w].plan \in DOMAIN ToolCalls /\ s \in Steps /\ wk[w].idx \in Nat
    BY <2>1, HeldPlan
  <2>5. SealedPlans[s] = wk[w].plan
    BY <2>1, <2>4 DEF SealedPlans, PlanAgreement
  <2>6. ASSUME NEW i \in DOMAIN ToolCalls[wk[w].plan] PROVE <<s, i>> \in DOMAIN RecordedResults
    <3>1. i \in 1..(wk[w].idx - 1) /\ i \in Nat \ {0}
      <4>1. ToolCalls[wk[w].plan] \in Seq(Calls)
        BY <2>4, PlansAssumption
      <4>2. i \in 1..Len(ToolCalls[wk[w].plan]) /\ Len(ToolCalls[wk[w].plan]) \in Nat
        BY <4>1
      <4>3. wk[w].idx > Len(ToolCalls[wk[w].plan]) /\ wk[w].idx \in Nat
        BY <1>7, <2>4 DEF CallsOf
      <4> QED
        BY <4>2, <4>3
    <3>2. ResultSlot(s, i) \in DOMAIN log
      BY <2>1, <3>1 DEF Progress, Backed
    <3> QED
      BY <3>1, <3>2, RecordedAre
  <2>7. DOMAIN log' = DOMAIN log \cup {slot}
    BY <1>7, PutNode
  <2>8. CommittedSteps' = CommittedSteps \cup {s}
    BY <2>2, <2>4, <2>7 DEF CommittedSteps, Committed
  <2>9. Contract!Commit(s)
    BY <2>3, <2>4, <2>5, <2>6, <2>8 DEF Contract!Commit, Contract!Complete
  <2> QED
    BY <2>4, <2>9 DEF Contract!Next
<1>8. CASE runs' # runs
  BY <1>3, <1>8 DEF RunsChange
<1>9. CASE runs' = runs /\ \E k, v : /\ k.kind \in {"PROJECT_CONTEXT", "TOOL_CALL", "ABORT"}
                                     /\ log' = PutIfAbsent(log, k, v)
  BY <1>4, <1>9
<1> QED
  BY <1>2, <1>5, <1>6, <1>7, <1>8, <1>9 DEF LogChange

\* The contract's state of an empty log.
LEMMA ContractInit == Init => Contract!Init
<1> SUFFICES ASSUME Init PROVE Contract!Init
  OBVIOUS
<1>1. log = [k \in {} |-> None] /\ runs = [k \in {} |-> 0] /\ DOMAIN log = {} /\ DOMAIN runs = {}
  BY DEF Init
<1>2. SealedPlans = [s \in Steps |-> None]
  BY <1>1 DEF SealedPlans, Sealed
<1>3. CommittedSteps = {}
  BY <1>1 DEF CommittedSteps, Committed
<1>4. DOMAIN RecordedResults = {}
  BY <1>1 DEF RecordedResults
<1> QED
  BY <1>1, <1>2, <1>3, <1>4 DEF Contract!Init

\* README chapter 8: whatever workers race, crash and re-drive their steps, a
\* plan is sealed once, tools fire from it and a gated one fires once, a result
\* follows its execution and is never replaced, and a step commits when all its
\* results are there, as long as no two steps share a memo key.
THEOREM RunStepImplementsContract == ASSUME MemoKeysDistinct PROVE Spec => ImplementsContract
<1>1. ASSUME TypeOK, PlanAgreement, GateInv, StepInv, [Next]_vars
      PROVE  [Contract!Next]_(Contract!vars)
  <2>1. LogGrows
    BY <1>1, LogMonotone
  <2>2. CASE UNCHANGED vars
    <3>1. UNCHANGED <<SealedPlans, RecordedResults, CommittedSteps>> /\ runs' = runs
      BY <1>1, <2>1, <2>2, PlansKept, ResultsKept, CommitsKept DEF vars, StepInv
    <3> QED
      BY <3>1 DEF Contract!vars
  <2>3. ASSUME NEW w \in Workers, Advance(w) \/ ClaimFails(w) \/ Stop(w)
        PROVE  [Contract!Next]_(Contract!vars)
    <3>1. LogChange(w) /\ RunsChange(w)
      BY <2>3, Changes
    <3>2. log' = log \/ runs' = runs
      BY <3>1 DEF RunsChange, RunTool
    <3> QED
      BY <1>1, <2>1, <3>1, <3>2, ContractStep DEF StepInv
  <2> QED
    BY <1>1, <2>2, <2>3 DEF Next
<1> QED
  BY <1>1, ContractInit, StepInvariant, GateInvariant, PlansAgree, TypeCorrect, PTL
  DEF Spec, ImplementsContract, Contract!Spec

----------------------------------------------------------------------------
(* One worker at a time: the resume protocol of README chapter 8.          *)

OneWorker == \A v, w \in Workers : v = w

\* Between the model and the memo no plan is memoized, and what is about to be
\* sealed is the memoized plan.
ReplayInv ==
    /\ SealedPlanReplays
    /\ \A w \in Workers :
          /\ wk[w].pc \in {"model", "savePlan"} => InferKey(wk[w].step) \notin DOMAIN memo
          /\ wk[w].pc = "seal" => /\ InferKey(wk[w].step) \in DOMAIN memo
                                  /\ memo[InferKey(wk[w].step)] = wk[w].plan

PlanMemoized(s, p) == \A i \in DOMAIN ToolCalls[p] : ToolKey(s, i, ToolCalls[p][i]) \in DOMAIN memo

\* A committed step has nothing left to append: its context and its plan are
\* in the log and each of its results is memoized.  So no worker is inside one
\* of its calls.
ClosedInv ==
    /\ \A w \in Workers :
          /\ wk[w].pc \in {"infer", "model", "savePlan", "seal"} \cup PastSeal =>
                ProjectSlot(wk[w].step) \in DOMAIN log
          /\ wk[w].pc \in PastSeal => \A i \in 1..(wk[w].idx - 1) :
                ToolKey(wk[w].step, i, ToolCalls[wk[w].plan][i]) \in DOMAIN memo
          /\ wk[w].pc \in InCall => ~Committed(wk[w].step)
    /\ \A k \in DOMAIN log : k.kind = "COMMIT_STEP" =>
          /\ ProjectSlot(k.step) \in DOMAIN log
          /\ Sealed(k.step) /\ SealedPlan(k.step) \in DOMAIN ToolCalls
          /\ k = CommitSlot(k.step, Len(ToolCalls[SealedPlan(k.step)]))
          /\ PlanMemoized(k.step, SealedPlan(k.step))

MemoGrows == DOMAIN memo \subseteq DOMAIN memo' /\ \A k \in DOMAIN memo : memo'[k] = memo[k]

\* A memoized value is never replaced.
LEMMA PutMemo ==
    ASSUME NEW k, NEW v, memo' = PutIfAbsent(memo, k, v)
    PROVE  DOMAIN memo' = DOMAIN memo \cup {k} /\ MemoGrows
  BY DEF PutIfAbsent, Put, MemoGrows

SameStep(w)  == wk'[w].step = wk[w].step
SamePlan(w)  == SameStep(w) /\ wk'[w].plan = wk[w].plan
SamePlace(w) == SamePlan(w) /\ wk'[w].idx = wk[w].idx
PlanKey(w)   == InferKey(wk[w].step)
ResultKey(w) == ToolKey(wk[w].step, wk[w].idx, ToolCalls[wk[w].plan][wk[w].idx])

\* What a step of a worker does, seen from one worker alone.
Turns(w)     == wk'[w].pc \in {"idle", "project"} /\ UNCHANGED <<log, memo>>
Projects(w)  == /\ wk'[w].pc = "infer" /\ SameStep(w) /\ memo' = memo
                /\ log' = PutIfAbsent(log, ProjectSlot(wk[w].step), wk[w].ctx)
LoadsPlan(w) == /\ At(w, "infer") /\ wk'[w].pc = "seal" /\ SameStep(w)
                /\ PlanKey(w) \in DOMAIN memo /\ wk'[w].plan = memo[PlanKey(w)]
                /\ UNCHANGED <<log, memo>>
HasNoPlan(w) == /\ At(w, "infer") /\ wk'[w].pc = "model" /\ SameStep(w)
                /\ PlanKey(w) \notin DOMAIN memo /\ UNCHANGED <<log, memo>>
Infers(w)    == /\ At(w, "model") /\ wk'[w].pc = "savePlan" /\ SameStep(w)
                /\ UNCHANGED <<log, memo>>
SavesPlan(w) == /\ At(w, "savePlan") /\ wk'[w].pc = "seal" /\ SamePlan(w) /\ log' = log
                /\ memo' = PutIfAbsent(memo, PlanKey(w), wk[w].plan)
Seals(w)     == /\ At(w, "seal") /\ memo' = memo
                /\ log' = PutIfAbsent(log, DecisionSlot(wk[w].step), wk[w].plan)
                /\ \/ wk'[w].pc = "idle"
                   \/ wk'[w].pc = "tools" /\ SamePlan(w) /\ wk'[w].idx = 1
GoesOn(w)    == /\ wk[w].pc \in PastSeal /\ wk'[w].pc = "tools" /\ SamePlan(w)
                /\ wk'[w].idx = wk[w].idx + 1 /\ log' = log
                /\ \/ memo' = memo /\ ResultKey(w) \in DOMAIN memo
                   \/ memo' = PutIfAbsent(memo, ResultKey(w), wk[w].val)
EntersCall(w) == /\ At(w, "tools") /\ wk[w].idx <= Len(CallsOf(w)) /\ wk'[w].pc \in InCall
                 /\ SamePlace(w) /\ ResultKey(w) \notin DOMAIN memo /\ UNCHANGED <<log, memo>>
InsideCall(w) == /\ wk[w].pc \in InCall /\ memo' = memo
                 /\ wk'[w].pc = "idle" \/ (wk'[w].pc \in InCall /\ SamePlace(w))
                 /\ \/ log' = log
                    \/ log' = PutIfAbsent(log, CallSlot(wk[w].step, wk[w].idx), Current(w))
                    \/ log' = PutIfAbsent(log, ResultSlot(wk[w].step, wk[w].idx), wk[w].val)
                    \/ log' = PutIfAbsent(log, AbortSlot(wk[w].step, wk[w].idx), NameOf[Current(w)])
Commits(w)   == /\ At(w, "tools") /\ wk[w].idx > Len(CallsOf(w)) /\ wk'[w].pc = "idle"
                /\ memo' = memo
                /\ log' = PutIfAbsent(log, CommitSlot(wk[w].step, Len(CallsOf(w))), "{}")

Does(w) == \/ Turns(w) \/ Projects(w) \/ LoadsPlan(w) \/ HasNoPlan(w) \/ Infers(w) \/ SavesPlan(w)
           \/ Seals(w) \/ GoesOn(w) \/ EntersCall(w) \/ InsideCall(w) \/ Commits(w)

\* Every step of a worker does one of these.
LEMMA WhatItDoes ==
    ASSUME FramesOK, NEW w \in Workers, Advance(w) \/ ClaimFails(w) \/ Stop(w)
    PROVE  Does(w)
<1>a. ASSUME Return(w) PROVE wk'[w].pc = "idle"
  BY <1>a DEF FramesOK, Return, Idle
<1>1. ASSUME NEW s \in Steps, Begin(w, s) PROVE Turns(w)
  <2>1. PICK c \in Contexts, m \in Modes :
           wk' = [wk EXCEPT ![w] = [Idle EXCEPT !.pc = "project", !.step = s,
                                                !.ctx = c, !.mode = m]]
    BY <1>1 DEF Begin
  <2> DEFINE l == [Idle EXCEPT !.pc = "project", !.step = s, !.ctx = c, !.mode = m]
  <2>2. l.pc = "project"
    BY DEF Idle
  <2>3. wk'[w] = l
    BY <2>1 DEF FramesOK
  <2> HIDE DEF l
  <2> QED
    BY <1>1, <2>2, <2>3 DEF Begin, Turns
<1>2. CASE Project(w)
  <2>1. CASE SlotConflict(log, ProjectSlot(wk[w].step), wk[w].ctx)
    BY <1>2, <1>a, <2>1 DEF Project, AppendThen, Turns, SlotConflict, PutIfAbsent, Does
  <2>2. CASE ~SlotConflict(log, ProjectSlot(wk[w].step), wk[w].ctx)
    BY <1>2, <2>2, GotoFrame DEF Project, AppendThen, Projects, SameStep, Does
  <2> QED
    BY <2>1, <2>2
<1>3. CASE LoadPlan(w)
  <2> DEFINE l == [wk[w] EXCEPT !.pc = "seal", !.plan = memo[InferKey(wk[w].step)]]
  <2>1. CASE InferKey(wk[w].step) \in DOMAIN memo
    <3>1. wk'[w] = l
      BY <1>3, <2>1 DEF LoadPlan, FramesOK
    <3>2. l.pc = "seal" /\ l.step = wk[w].step /\ l.plan = memo[InferKey(wk[w].step)]
      BY DEF FramesOK, LocalOK, Local
    <3> HIDE DEF l
    <3> QED
      BY <1>3, <2>1, <3>1, <3>2 DEF LoadPlan, LoadsPlan, PlanKey, SameStep, Does
  <2>2. CASE InferKey(wk[w].step) \notin DOMAIN memo
    BY <1>3, <2>2, GotoFrame DEF LoadPlan, HasNoPlan, PlanKey, SameStep, Does
  <2> QED
    BY <2>1, <2>2
<1>4. CASE CallModel(w)
  <2>1. PICK p \in Plans : wk' = [wk EXCEPT ![w].pc = "savePlan", ![w].plan = p]
    BY <1>4 DEF CallModel
  <2> DEFINE l == [wk[w] EXCEPT !.pc = "savePlan", !.plan = p]
  <2>2. wk'[w] = l
    BY <2>1 DEF FramesOK
  <2>3. l.pc = "savePlan" /\ l.step = wk[w].step
    BY DEF FramesOK, LocalOK, Local
  <2> HIDE DEF l
  <2> QED
    BY <1>4, <2>2, <2>3 DEF CallModel, Infers, SameStep, Does
<1>5. CASE SavePlan(w)
  BY <1>5, GotoFrame DEF SavePlan, SavesPlan, PlanKey, SamePlan, SameStep, Does
<1>6. CASE Seal(w)
  <2> DEFINE l == [wk[w] EXCEPT !.pc = "tools", !.idx = 1]
  <2>1. CASE Return(w)
    BY <1>6, <1>a, <2>1 DEF Seal, AppendThen, Seals, Does
  <2>2. CASE ~Return(w)
    <3>1. wk'[w] = l
      BY <1>6, <2>2 DEF Seal, AppendThen, FramesOK
    <3>2. l.pc = "tools" /\ l.step = wk[w].step /\ l.plan = wk[w].plan /\ l.idx = 1
      BY DEF FramesOK, LocalOK, Local
    <3> HIDE DEF l
    <3> QED
      BY <1>6, <3>1, <3>2 DEF Seal, AppendThen, Seals, SamePlan, SameStep, Does
  <2> QED
    BY <2>1, <2>2
<1>7. CASE RejectTool(w) \/ Stop(w)
  BY <1>7, <1>a DEF RejectTool, Stop, Turns, Does
<1>8. CASE LoadResult(w)
  <2>1. At(w, "tools") /\ wk[w].pc \in PastSeal /\ wk[w].idx <= Len(CallsOf(w)) /\ wk[w].idx \in Nat
    BY <1>8 DEF LoadResult, Pending, At, PastSeal, FramesOK, LocalOK, Local
  <2>2. ResultKey(w) = ToolKey(wk[w].step, wk[w].idx, Current(w))
    BY DEF ResultKey, Current, CallsOf
  <2>3. CASE ResultKey(w) \in DOMAIN memo
    <3> DEFINE l == [wk[w] EXCEPT !.idx = @ + 1]
    <3>1. wk'[w] = l
      BY <1>8, <2>2, <2>3 DEF LoadResult, FramesOK
    <3>2. l.pc = wk[w].pc /\ l.step = wk[w].step /\ l.plan = wk[w].plan /\ l.idx = wk[w].idx + 1
      BY DEF FramesOK, LocalOK, Local
    <3> HIDE DEF l
    <3> QED
      BY <1>8, <2>1, <2>3, <3>1, <3>2 DEF LoadResult, GoesOn, SamePlan, SameStep, At, Does
  <2>4. CASE ResultKey(w) \notin DOMAIN memo
    <3>1. Goto(w, "claim") \/ Goto(w, "call")
      BY <1>8, <2>2, <2>4 DEF LoadResult
    <3>2. SamePlace(w) /\ wk'[w].pc \in InCall
      BY <3>1, GotoFrame DEF SamePlace, SamePlan, SameStep, InCall, PastSeal
    <3> QED
      BY <1>8, <2>1, <2>4, <3>2 DEF LoadResult, EntersCall, Does
  <2> QED
    BY <2>3, <2>4
<1>b. ASSUME NEW label \in InCall, Goto(w, label) PROVE wk'[w].pc \in InCall /\ SamePlace(w)
  BY <1>b, GotoFrame DEF SamePlace, SamePlan, SameStep
<1>9. CASE Claim(w) \/ ClaimFails(w)
  <2>1. wk[w].pc \in InCall /\ {"abort", "run"} \subseteq InCall
    BY <1>9 DEF Claim, ClaimFails, At, InCall, PastSeal
  <2> QED
    BY <1>9, <1>b, <2>1 DEF Claim, ClaimFails, InsideCall, Does
<1>10. CASE RecordCall(w) \/ RecordResult(w) \/ Abort(w)
  <2>1. wk[w].pc \in InCall /\ {"run", "saveResult"} \subseteq InCall
    BY <1>10 DEF RecordCall, RecordResult, Abort, At, InCall, PastSeal
  <2> QED
    BY <1>10, <1>a, <1>b, <2>1 DEF RecordCall, RecordResult, Abort, AppendThen, InsideCall, Does
<1>11. CASE RunTool(w)
  <2>1. PICK r \in Outcomes[Current(w)] :
           wk' = [wk EXCEPT ![w].pc = "record", ![w].val = r]
    BY <1>11 DEF RunTool
  <2> DEFINE l == [wk[w] EXCEPT !.pc = "record", !.val = r]
  <2>2. wk'[w] = l
    BY <2>1 DEF FramesOK
  <2>3. l.pc = "record" /\ l.step = wk[w].step /\ l.plan = wk[w].plan /\ l.idx = wk[w].idx
    BY DEF FramesOK, LocalOK, Local
  <2>4. wk[w].pc \in InCall /\ "record" \in InCall
    BY <1>11 DEF RunTool, At, InCall, PastSeal
  <2> HIDE DEF l
  <2> QED
    BY <1>11, <2>2, <2>3, <2>4 DEF RunTool, InsideCall, SamePlace, SamePlan, SameStep, Does
<1>12. CASE SaveResult(w)
  <2> DEFINE l == [wk[w] EXCEPT !.pc = "tools", !.idx = @ + 1, !.val = None]
  <2>1. wk'[w] = l /\ wk[w].pc \in PastSeal
    BY <1>12 DEF SaveResult, At, PastSeal, FramesOK
  <2>2. l.pc = "tools" /\ l.step = wk[w].step /\ l.plan = wk[w].plan /\ l.idx = wk[w].idx + 1
    BY DEF FramesOK, LocalOK, Local
  <2> HIDE DEF l
  <2> QED
    BY <1>12, <2>1, <2>2 DEF SaveResult, GoesOn, ResultKey, Current, CallsOf, SamePlan, SameStep, Does
<1>13. CASE CommitStep(w)
  BY <1>13, <1>a DEF CommitStep, Commits, Does
<1> QED
  BY <1>1, <1>2, <1>3, <1>4, <1>5, <1>6, <1>7, <1>8, <1>9, <1>10, <1>11, <1>12, <1>13
  DEF Advance, Does

\* A step that is no append of DECISION leaves every seal as it is.
LEMMA DoesToSeals ==
    ASSUME NEW w \in Workers, Does(w), ~Seals(w)
    PROVE  \A s \in Steps : (DecisionSlot(s) \in DOMAIN log' <=> DecisionSlot(s) \in DOMAIN log)
<1>1. \A s \in Steps : /\ DecisionSlot(s) # ProjectSlot(wk[w].step)
                       /\ DecisionSlot(s) # CallSlot(wk[w].step, wk[w].idx)
                       /\ DecisionSlot(s) # ResultSlot(wk[w].step, wk[w].idx)
                       /\ DecisionSlot(s) # AbortSlot(wk[w].step, wk[w].idx)
                       /\ DecisionSlot(s) # CommitSlot(wk[w].step, Len(CallsOf(w)))
  BY DEF DecisionSlot, ProjectSlot, CallSlot, ResultSlot, AbortSlot, CommitSlot, Slot
<1>2. \/ log' = log
      \/ log' = PutIfAbsent(log, ProjectSlot(wk[w].step), wk[w].ctx)
      \/ log' = PutIfAbsent(log, CallSlot(wk[w].step, wk[w].idx), Current(w))
      \/ log' = PutIfAbsent(log, ResultSlot(wk[w].step, wk[w].idx), wk[w].val)
      \/ log' = PutIfAbsent(log, AbortSlot(wk[w].step, wk[w].idx), NameOf[Current(w)])
      \/ log' = PutIfAbsent(log, CommitSlot(wk[w].step, Len(CallsOf(w))), "{}")
  BY DEF Does, Turns, Projects, LoadsPlan, HasNoPlan, Infers, SavesPlan, GoesOn, EntersCall,
         InsideCall, Commits
<1>3. ASSUME NEW k, NEW v, log' = PutIfAbsent(log, k, v) PROVE DOMAIN log' = DOMAIN log \cup {k}
  BY <1>3, PutNode
<1> QED
  BY <1>1, <1>2, <1>3

\* A step that is no commit commits nothing.
LEMMA DoesToCommits ==
    ASSUME NEW w \in Workers, Does(w), ~Commits(w)
    PROVE  \A k \in DOMAIN log' : k.kind = "COMMIT_STEP" => k \in DOMAIN log
<1>1. /\ ProjectSlot(wk[w].step).kind = "PROJECT_CONTEXT"
      /\ DecisionSlot(wk[w].step).kind = "DECISION"
      /\ CallSlot(wk[w].step, wk[w].idx).kind = "TOOL_CALL"
      /\ ResultSlot(wk[w].step, wk[w].idx).kind = "TOOL_RESULT"
      /\ AbortSlot(wk[w].step, wk[w].idx).kind = "ABORT"
  BY DEF DecisionSlot, ProjectSlot, CallSlot, ResultSlot, AbortSlot, Slot
<1>2. \/ log' = log
      \/ log' = PutIfAbsent(log, ProjectSlot(wk[w].step), wk[w].ctx)
      \/ log' = PutIfAbsent(log, DecisionSlot(wk[w].step), wk[w].plan)
      \/ log' = PutIfAbsent(log, CallSlot(wk[w].step, wk[w].idx), Current(w))
      \/ log' = PutIfAbsent(log, ResultSlot(wk[w].step, wk[w].idx), wk[w].val)
      \/ log' = PutIfAbsent(log, AbortSlot(wk[w].step, wk[w].idx), NameOf[Current(w)])
  BY DEF Does, Turns, Projects, LoadsPlan, HasNoPlan, Infers, SavesPlan, Seals, GoesOn, EntersCall,
         InsideCall
<1>3. ASSUME NEW k, NEW v, log' = PutIfAbsent(log, k, v) PROVE DOMAIN log' = DOMAIN log \cup {k}
  BY <1>3, PutNode
<1> QED
  BY <1>1, <1>2, <1>3

\* What is memoized stays.
LEMMA DoesToMemo == ASSUME NEW w \in Workers, Does(w) PROVE MemoGrows
<1>1. \/ memo' = memo
      \/ memo' = PutIfAbsent(memo, PlanKey(w), wk[w].plan)
      \/ memo' = PutIfAbsent(memo, ResultKey(w), wk[w].val)
  BY DEF Does, Turns, Projects, LoadsPlan, HasNoPlan, Infers, SavesPlan, Seals, GoesOn, EntersCall,
         InsideCall, Commits
<1>2. CASE memo' = memo
  BY <1>2 DEF MemoGrows
<1> QED
  BY <1>1, <1>2, PutMemo

\* One worker alone keeps a step's plan in the memo from before its seal.
LEMMA ReplayStep ==
    ASSUME OneWorker, TypeOK, ReplayInv, LogGrows, NEW w \in Workers, Does(w)
    PROVE  ReplayInv'
<1>1. MemoGrows
  BY DoesToMemo
<1>2. \A v \in Workers : v = w
  BY DEF OneWorker
<1>3. ASSUME NEW s \in Steps, DecisionSlot(s) \in DOMAIN log'
      PROVE  InferKey(s) \in DOMAIN memo' /\ memo'[InferKey(s)] = log'[DecisionSlot(s)]
  <2>1. CASE DecisionSlot(s) \in DOMAIN log
    BY <1>1, <2>1 DEF ReplayInv, SealedPlanReplays, Sealed, SealedPlan, LogGrows, MemoGrows
  <2>2. CASE DecisionSlot(s) \notin DOMAIN log
    <3>1. Seals(w)
      BY <1>3, <2>2, DoesToSeals
    <3>2. DecisionSlot(s) = DecisionSlot(wk[w].step) /\ log'[DecisionSlot(s)] = wk[w].plan
      BY <1>3, <2>2, <3>1 DEF Seals, PutIfAbsent, Put
    <3>3. s = wk[w].step
      BY <3>2 DEF DecisionSlot, Slot
    <3> QED
      BY <3>1, <3>2, <3>3 DEF Seals, At, ReplayInv
  <2> QED
    BY <2>1, <2>2
<1>4. wk'[w].pc \in {"model", "savePlan"} => InferKey(wk'[w].step) \notin DOMAIN memo'
  BY DEF Does, Turns, Projects, LoadsPlan, HasNoPlan, Infers, SavesPlan, Seals, GoesOn, EntersCall,
         InsideCall, Commits, ReplayInv, SameStep, PlanKey, At, InCall, PastSeal
<1>5. wk'[w].pc = "seal" => /\ InferKey(wk'[w].step) \in DOMAIN memo'
                            /\ memo'[InferKey(wk'[w].step)] = wk'[w].plan
  <2>1. CASE LoadsPlan(w)
    BY <2>1 DEF LoadsPlan, SameStep, PlanKey
  <2>2. CASE SavesPlan(w)
    <3>1. PlanKey(w) \notin DOMAIN memo
      BY <2>2 DEF SavesPlan, ReplayInv, At, PlanKey
    <3>2. PlanKey(w) \in DOMAIN memo' /\ memo'[PlanKey(w)] = wk[w].plan
      BY <2>2, <3>1 DEF SavesPlan, PutIfAbsent, Put
    <3> QED
      BY <2>2, <3>2 DEF SavesPlan, SamePlan, SameStep, PlanKey
  <2>3. CASE ~LoadsPlan(w) /\ ~SavesPlan(w)
    BY <2>3 DEF Does, Turns, Projects, HasNoPlan, Infers, Seals, GoesOn, EntersCall,
         InsideCall, Commits, InCall, PastSeal
  <2> QED
    BY <2>1, <2>2, <2>3
<1>6. SealedPlanReplays'
  BY <1>3 DEF SealedPlanReplays, Sealed, SealedPlan, InferKey
<1> QED
  BY <1>2, <1>4, <1>5, <1>6 DEF ReplayInv, InferKey

\* One worker alone leaves a committed step closed.
LEMMA ClosedStep ==
    ASSUME OneWorker, TypeOK, PlanAgreement, ClosedInv, LogGrows, NEW w \in Workers, Does(w)
    PROVE  ClosedInv'
<1>1. MemoGrows
  BY DoesToMemo
<1>2. \A v \in Workers : v = w
  BY DEF OneWorker
<1>3. wk'[w].pc \in {"infer", "model", "savePlan", "seal"} \cup PastSeal =>
         ProjectSlot(wk'[w].step) \in DOMAIN log'
  <2>1. CASE Projects(w)
    <3>1. log' = PutIfAbsent(log, ProjectSlot(wk[w].step), wk[w].ctx) /\ wk'[w].step = wk[w].step
      BY <2>1 DEF Projects, SameStep
    <3>2. ProjectSlot(wk[w].step) \in DOMAIN log'
      BY <3>1, PutNode
    <3> QED
      BY <3>1, <3>2
  <2>2. CASE ~Projects(w) /\ wk'[w].pc \in {"infer", "model", "savePlan", "seal"} \cup PastSeal
    <3>1. SameStep(w) /\ wk[w].pc \in {"infer", "model", "savePlan", "seal"} \cup PastSeal
      BY <2>2 DEF Does, Turns, LoadsPlan, HasNoPlan, Infers, SavesPlan, Seals, GoesOn, EntersCall,
         InsideCall, Commits, SamePlace, SamePlan, At, InCall, PastSeal
    <3> QED
      BY <3>1 DEF SameStep, ClosedInv, LogGrows
  <2> QED
    BY <2>1, <2>2
<1>4. ASSUME wk'[w].pc \in PastSeal, NEW i \in 1..(wk'[w].idx - 1)
      PROVE  ToolKey(wk'[w].step, i, ToolCalls[wk'[w].plan][i]) \in DOMAIN memo'
  <2>1. CASE Seals(w)
    <3>1. wk'[w].idx = 1
      BY <1>4, <2>1 DEF Seals, PastSeal
    <3> QED
      BY <3>1
  <2>2. CASE GoesOn(w)
    <3>1. wk[w].pc \in PastSeal /\ wk'[w].idx = wk[w].idx + 1 /\ wk[w].idx \in Nat
      BY <2>2 DEF GoesOn, TypeOK, LocalOK, Local
    <3>2. i \in 1..(wk[w].idx - 1) \/ i = wk[w].idx
      BY <3>1
    <3>3. ResultKey(w) \in DOMAIN memo'
      BY <2>2, PutMemo DEF GoesOn
    <3>4. i \in 1..(wk[w].idx - 1) => ToolKey(wk[w].step, i, ToolCalls[wk[w].plan][i]) \in DOMAIN memo'
      BY <1>1, <3>1 DEF ClosedInv, MemoGrows
    <3> QED
      BY <2>2, <3>2, <3>3, <3>4 DEF GoesOn, SamePlan, SameStep, ResultKey
  <2>3. CASE ~Seals(w) /\ ~GoesOn(w)
    <3>1. SamePlace(w) /\ wk[w].pc \in PastSeal
      BY <1>4, <2>3 DEF Does, Turns, Projects, LoadsPlan, HasNoPlan, Infers, SavesPlan, EntersCall,
         InsideCall, Commits, At, InCall, PastSeal
    <3> QED
      BY <1>1, <3>1 DEF SamePlace, SamePlan, SameStep, ClosedInv, MemoGrows
  <2> QED
    BY <2>1, <2>2, <2>3
<1>5. ASSUME NEW k \in DOMAIN log, k.kind = "COMMIT_STEP"
      PROVE  /\ ProjectSlot(k.step) \in DOMAIN log'
             /\ DecisionSlot(k.step) \in DOMAIN log' /\ log'[DecisionSlot(k.step)] \in DOMAIN ToolCalls
             /\ k = CommitSlot(k.step, Len(ToolCalls[log'[DecisionSlot(k.step)]]))
             /\ \A i \in DOMAIN ToolCalls[log'[DecisionSlot(k.step)]] :
                   ToolKey(k.step, i, ToolCalls[log'[DecisionSlot(k.step)]][i]) \in DOMAIN memo'
  BY <1>1, <1>5 DEF ClosedInv, LogGrows, MemoGrows, PlanMemoized, Sealed, SealedPlan
<1>6. ASSUME NEW k \in DOMAIN log', k.kind = "COMMIT_STEP", k \notin DOMAIN log
      PROVE  /\ ProjectSlot(k.step) \in DOMAIN log'
             /\ DecisionSlot(k.step) \in DOMAIN log' /\ log'[DecisionSlot(k.step)] \in DOMAIN ToolCalls
             /\ k = CommitSlot(k.step, Len(ToolCalls[log'[DecisionSlot(k.step)]]))
             /\ \A i \in DOMAIN ToolCalls[log'[DecisionSlot(k.step)]] :
                   ToolKey(k.step, i, ToolCalls[log'[DecisionSlot(k.step)]][i]) \in DOMAIN memo'
  <2>1. Commits(w)
    BY <1>6, DoesToCommits
  <2>2. /\ k = CommitSlot(wk[w].step, Len(CallsOf(w))) /\ wk[w].pc \in PastSeal
        /\ wk[w].idx > Len(CallsOf(w))
    BY <1>6, <2>1, PutNode DEF Commits, At, PastSeal
  <2>3. k.step = wk[w].step
    BY <2>2 DEF CommitSlot, Slot
  <2>4. wk[w].plan \in DOMAIN ToolCalls /\ wk[w].idx \in Nat
    BY <2>2, HeldPlan
  <2>5. DecisionSlot(k.step) \in DOMAIN log' /\ log'[DecisionSlot(k.step)] = wk[w].plan
    BY <2>2, <2>3 DEF PlanAgreement, Sealed, SealedPlan, LogGrows
  <2>6. \A i \in DOMAIN ToolCalls[wk[w].plan] : i \in 1..(wk[w].idx - 1)
    BY <2>2, <2>4, PlansAssumption DEF CallsOf
  <2>7. \A i \in DOMAIN ToolCalls[wk[w].plan] :
           ToolKey(wk[w].step, i, ToolCalls[wk[w].plan][i]) \in DOMAIN memo'
    BY <1>1, <2>2, <2>6 DEF ClosedInv, MemoGrows
  <2>8. ProjectSlot(k.step) \in DOMAIN log'
    BY <2>2, <2>3 DEF ClosedInv, LogGrows
  <2> QED
    BY <2>2, <2>3, <2>4, <2>5, <2>7, <2>8 DEF CallsOf
<1>7. ASSUME wk'[w].pc \in InCall
      PROVE  ~\E k \in DOMAIN log' : k.step = wk'[w].step /\ k.kind = "COMMIT_STEP"
  <2>1. EntersCall(w) \/ InsideCall(w)
    BY <1>7 DEF Does, Turns, Projects, LoadsPlan, HasNoPlan, Infers, SavesPlan, Seals, GoesOn,
         Commits, InCall, PastSeal
  <2>2. SameStep(w) /\ ~Commits(w)
    BY <1>7, <2>1 DEF EntersCall, InsideCall, SamePlace, SamePlan, Commits, InCall, PastSeal
  <2>3. ~Committed(wk[w].step)
    <3>1. CASE InsideCall(w)
      BY <3>1 DEF InsideCall, ClosedInv
    <3>2. CASE EntersCall(w)
      <4> SUFFICES ASSUME NEW k \in DOMAIN log, k.step = wk[w].step, k.kind = "COMMIT_STEP"
                   PROVE  FALSE
        BY DEF Committed
      <4>1. wk[w].pc \in PastSeal /\ wk[w].idx <= Len(CallsOf(w))
        BY <3>2 DEF EntersCall, At, PastSeal
      <4>2. wk[w].idx \in DOMAIN ToolCalls[wk[w].plan]
        BY <4>1, HeldPlan, HeldCall
      <4>3. SealedPlan(k.step) = wk[w].plan
        BY <4>1 DEF PlanAgreement
      <4> QED
        BY <3>2, <4>2, <4>3 DEF ClosedInv, PlanMemoized, EntersCall, ResultKey
    <3> QED
      BY <2>1, <3>1, <3>2
  <2> QED
    BY <2>2, <2>3, DoesToCommits DEF Committed, SameStep
<1>8. \A k \in DOMAIN log' : k.kind = "COMMIT_STEP" =>
             /\ ProjectSlot(k.step) \in DOMAIN log'
             /\ DecisionSlot(k.step) \in DOMAIN log' /\ log'[DecisionSlot(k.step)] \in DOMAIN ToolCalls
             /\ k = CommitSlot(k.step, Len(ToolCalls[log'[DecisionSlot(k.step)]]))
             /\ \A i \in DOMAIN ToolCalls[log'[DecisionSlot(k.step)]] :
                   ToolKey(k.step, i, ToolCalls[log'[DecisionSlot(k.step)]][i]) \in DOMAIN memo'
  BY <1>5, <1>6
<1>9. (\A k \in DOMAIN log : k.kind = "COMMIT_STEP" =>
          /\ ProjectSlot(k.step) \in DOMAIN log
          /\ Sealed(k.step) /\ SealedPlan(k.step) \in DOMAIN ToolCalls
          /\ k = CommitSlot(k.step, Len(ToolCalls[SealedPlan(k.step)]))
          /\ PlanMemoized(k.step, SealedPlan(k.step)))'
  BY <1>8 DEF Sealed, SealedPlan, PlanMemoized, ToolKey
<1> QED
  BY <1>2, <1>3, <1>4, <1>7, <1>9 DEF ClosedInv, ToolKey, Committed

\* A step in which one worker alone appends to no committed step.
LEMMA ClosedStays ==
    ASSUME OneWorker, TypeOK, PlanAgreement, ClosedInv, NEW w \in Workers, Does(w),
           NEW s \in Steps, Committed(s), NEW k \in DOMAIN log' \ DOMAIN log
    PROVE  k.step # s
<1> SUFFICES ASSUME k.step = s PROVE FALSE
  OBVIOUS
<1>1. PICK c \in DOMAIN log : c.step = s /\ c.kind = "COMMIT_STEP"
  BY DEF Committed
<1>2. /\ ProjectSlot(s) \in DOMAIN log /\ DecisionSlot(s) \in DOMAIN log
      /\ CommitSlot(s, Len(ToolCalls[SealedPlan(s)])) \in DOMAIN log
  BY <1>1 DEF ClosedInv, Sealed
<1>3. ASSUME NEW slot, NEW v, log' = PutIfAbsent(log, slot, v) PROVE k = slot
  BY <1>3, PutNode
<1>4. /\ ProjectSlot(wk[w].step).step = wk[w].step
      /\ DecisionSlot(wk[w].step).step = wk[w].step
      /\ CallSlot(wk[w].step, wk[w].idx).step = wk[w].step
      /\ ResultSlot(wk[w].step, wk[w].idx).step = wk[w].step
      /\ AbortSlot(wk[w].step, wk[w].idx).step = wk[w].step
      /\ CommitSlot(wk[w].step, Len(CallsOf(w))).step = wk[w].step
  BY DEF DecisionSlot, ProjectSlot, CallSlot, ResultSlot, AbortSlot, CommitSlot, Slot
<1>5. CASE Projects(w)
  BY <1>2, <1>3, <1>4, <1>5 DEF Projects
<1>6. CASE Seals(w)
  BY <1>2, <1>3, <1>4, <1>6 DEF Seals
<1>7. CASE InsideCall(w)
  <2>1. ~Committed(wk[w].step)
    BY <1>7 DEF InsideCall, ClosedInv
  <2> QED
    BY <1>3, <1>4, <1>7, <2>1 DEF InsideCall
<1>8. CASE Commits(w)
  <2>1. k = CommitSlot(wk[w].step, Len(CallsOf(w))) /\ wk[w].step = s /\ wk[w].pc \in PastSeal
    BY <1>3, <1>4, <1>8 DEF Commits, At, PastSeal
  <2>2. SealedPlan(s) = wk[w].plan
    BY <2>1 DEF PlanAgreement
  <2> QED
    BY <1>2, <2>1, <2>2 DEF CallsOf
<1> QED
  BY <1>5, <1>6, <1>7, <1>8 DEF Does, Turns, LoadsPlan, HasNoPlan, Infers, SavesPlan, GoesOn,
     EntersCall

\* Nothing is sealed or committed in the initial state.
LEMMA AloneInit == Init => ReplayInv /\ ClosedInv
<1> SUFFICES ASSUME Init PROVE ReplayInv /\ ClosedInv
  OBVIOUS
<1>1. \A w \in Workers : wk[w].pc = "idle"
  BY DEF Init, Idle
<1>2. DOMAIN log = {}
  BY DEF Init
<1> QED
  BY <1>1, <1>2 DEF ReplayInv, SealedPlanReplays, ClosedInv, Sealed, InCall, PastSeal

\* The two invariants of a worker that has the trajectory to itself, whatever
\* crashes and re-drives it goes through.
THEOREM AloneInvariant == ASSUME OneWorker PROVE Spec => [](ReplayInv /\ ClosedInv)
<1>1. ASSUME TypeOK, PlanAgreement, ReplayInv, ClosedInv, [Next]_vars PROVE ReplayInv' /\ ClosedInv'
  <2>1. LogGrows /\ FramesOK
    BY <1>1, LogMonotone, TypeParts
  <2>2. CASE UNCHANGED vars
    BY <1>1, <2>2 DEF vars, ReplayInv, SealedPlanReplays, ClosedInv, PlanMemoized, Sealed, SealedPlan,
       Committed, InferKey, ToolKey
  <2>3. ASSUME NEW w \in Workers, Advance(w) \/ ClaimFails(w) \/ Stop(w)
        PROVE  ReplayInv' /\ ClosedInv'
    BY <1>1, <2>1, <2>3, WhatItDoes, ReplayStep, ClosedStep
  <2> QED
    BY <1>1, <2>2, <2>3 DEF Next
<1> QED
  BY <1>1, AloneInit, TypeCorrect, PlansAgree, PTL DEF Spec

\* README 8.2, "DECISION sealed ... Replay the sealed tools": a worker that has
\* the trajectory to itself is given the sealed plan on every re-drive.
THEOREM SealedIsReplayed == ASSUME OneWorker PROVE Spec => []SealedPlanReplays
<1>1. ReplayInv => SealedPlanReplays
  BY DEF ReplayInv
<1> QED
  BY <1>1, AloneInvariant, PTL

\* README 8.2, "Do not re invoke the model" for a sealed step.
THEOREM SealedIsNotReinferred == ASSUME OneWorker PROVE Spec => NoReinferAfterSeal
<1>1. ASSUME TypeOK, ReplayInv, [Next]_vars
      PROVE  [\A w \in Workers :
                 At(w, "model") /\ wk'[w].pc = "savePlan" => ~Sealed(wk[w].step)]_vars
  <2>1. ASSUME NEW w \in Workers, At(w, "model") PROVE ~Sealed(wk[w].step)
    <3>1. wk[w].step \in Steps /\ InferKey(wk[w].step) \notin DOMAIN memo
      BY <1>1, <2>1 DEF At, TypeOK, LocalOK, ReplayInv
    <3> QED
      BY <1>1, <3>1 DEF ReplayInv, SealedPlanReplays
  <2> QED
    BY <2>1
<1> QED
  BY <1>1, AloneInvariant, TypeCorrect, PTL DEF Spec, NoReinferAfterSeal

\* README 8.2, "never reopen a committed step": a re-drive of it adds no node.
THEOREM CommittedStaysClosed == ASSUME OneWorker PROVE Spec => NeverReopenCommitted
<1>1. ASSUME TypeOK, PlanAgreement, ClosedInv, [Next]_vars
      PROVE  [\A s \in Steps : Committed(s) =>
                 \A k \in DOMAIN log' \ DOMAIN log : k.step # s]_vars
  <2>1. FramesOK
    BY <1>1, TypeParts
  <2>2. ASSUME NEW w \in Workers, Advance(w) \/ ClaimFails(w) \/ Stop(w),
               NEW s \in Steps, Committed(s), NEW k \in DOMAIN log' \ DOMAIN log
        PROVE  k.step # s
    BY <1>1, <2>1, <2>2, WhatItDoes, ClosedStays
  <2> QED
    BY <1>1, <2>2 DEF Next
<1> QED
  BY <1>1, AloneInvariant, TypeCorrect, PlansAgree, PTL DEF Spec, NeverReopenCommitted

=============================================================================
