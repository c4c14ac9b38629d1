----------------------------- MODULE MCRunStep -----------------------------
(* Small instances of the sealed step protocol.  Plans are named by what   *)
(* they call: "d" deploys (gated), "r" reads, "p" is pure.                 *)
EXTENDS RunStepProperties

CallsMC   == {"deploy_a", "deploy_b", "read", "pure", "ghost"}
NameMC    == [c \in CallsMC |->
                 IF c \in {"deploy_a", "deploy_b"} THEN "deploy" ELSE c]
EffectMC  == [n \in {"deploy", "read", "pure"} |->
                 CASE n = "deploy" -> "NON_IDEMPOTENT_WRITE"
                   [] n = "read"   -> "READ_ONLY"
                   [] n = "pure"   -> "PURE"]

\* Plans that disagree on the arguments of the gated call, on where it comes
\* and on what else is called; one that names an unregistered tool; one that
\* does nothing.  "bad" is not among them: it does not parse.
PlanMC    == [dr   |-> <<"deploy_a", "read">>,
              ep   |-> <<"deploy_b", "pure">>,
              rd   |-> <<"read", "deploy_a">>,
              r    |-> <<"read">>,
              g    |-> <<"pure", "ghost">>,
              nop  |-> << >>]

\* A read may answer differently each time; the others are deterministic.
DivergingMC     == [c \in CallsMC |-> IF c = "read" THEN {"r1", "r2"} ELSE {"ok"}]
DeterministicMC == [c \in CallsMC |-> {"ok"}]

PerStepMC    == [s \in 1..2 |-> s]
TrajectoryMC == [s \in 1..2 |-> 0]
=============================================================================
