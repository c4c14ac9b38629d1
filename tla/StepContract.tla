---------------------------- MODULE StepContract ----------------------------
(***************************************************************************)
(* What a sealed step promises to whoever reads the trajectory or pays for *)
(* its side effects (README chapter 8), with no workers, memo, crashes or  *)
(* retries in sight: a plan is sealed once; tools fire from the sealed     *)
(* plan, a gated one once; a result is recorded after its tool fired and   *)
(* never replaced; a step commits when every call of its plan has its      *)
(* result.  RunStep is shown to implement it.                              *)
(***************************************************************************)
EXTENDS Naturals, Sequences, SlotStore

CONSTANTS Steps, Plans, ToolCalls, Outcomes, IsGated(_), Many, None

VARIABLES
    plan,       \* step -> its sealed plan
    fired,      \* (step, index, call) -> number of executions
    results,    \* (step, index) -> recorded result
    committed   \* set of steps

vars == <<plan, fired, results, committed>>

Planned(s, i, c) ==
    /\ plan[s] \in DOMAIN ToolCalls
    /\ i \in DOMAIN ToolCalls[plan[s]]
    /\ ToolCalls[plan[s]][i] = c

Complete(s) ==
    /\ plan[s] \in DOMAIN ToolCalls
    /\ \A i \in DOMAIN ToolCalls[plan[s]] : <<s, i>> \in DOMAIN results

\* The trajectory may come with a history: what was fired was planned, what
\* was recorded was fired, what was committed is complete.
Init ==
    /\ DOMAIN plan = Steps /\ \A s \in Steps : plan[s] \in Plans \cup {None}
    /\ \A k \in DOMAIN fired :
          Planned(k[1], k[2], k[3]) /\ fired[k] = 1
    /\ \A x \in DOMAIN results : \E k \in DOMAIN fired :
          k[1] = x[1] /\ k[2] = x[2] /\ results[x] \in Outcomes[k[3]]
    /\ \A s \in committed : Complete(s)

SealPlan(s) ==
    /\ plan[s] = None
    /\ \E p \in Plans : plan' = [plan EXCEPT ![s] = p]
    /\ UNCHANGED <<fired, results, committed>>

Fire(s, i, c) ==
    /\ Planned(s, i, c)
    /\ IF <<s, i, c>> \in DOMAIN fired
       THEN /\ ~IsGated(c)
            /\ fired' = Put(fired, <<s, i, c>>, Many)
       ELSE fired' = Put(fired, <<s, i, c>>, 1)
    /\ UNCHANGED <<plan, results, committed>>

Record(s, i, c) ==
    /\ Planned(s, i, c)
    /\ <<s, i, c>> \in DOMAIN fired
    /\ <<s, i>> \notin DOMAIN results
    /\ \E r \in Outcomes[c] : results' = Put(results, <<s, i>>, r)
    /\ UNCHANGED <<plan, fired, committed>>

Commit(s) ==
    /\ Complete(s)
    /\ committed' = committed \cup {s}
    /\ UNCHANGED <<plan, fired, results>>

Next ==
    \E s \in Steps :
       \/ SealPlan(s)
       \/ Commit(s)
       \/ \E p \in Plans \cap DOMAIN ToolCalls : \E i \in DOMAIN ToolCalls[p] :
             Fire(s, i, ToolCalls[p][i]) \/ Record(s, i, ToolCalls[p][i])

Spec == Init /\ [][Next]_vars

=============================================================================
