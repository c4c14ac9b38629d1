----------------------------- MODULE Projector -----------------------------
(***************************************************************************)
(* trajir/projector: ProjectContext chooses the nodes of a trajectory that *)
(* go into the model's context under a size budget.  CONSTRAINT and pinned *)
(* nodes come first, whatever they cost; the others are then taken in the  *)
(* order (step, seq, id) as long as they fit.  An agent projects again and *)
(* again, with its own budget and pins, while its trajectory grows.        *)
(*                                                                         *)
(* Nodes come into the log in any order: the caller chooses step and seq.  *)
(* An id is a content hash, so its place among the other ids is arbitrary; *)
(* the model has its rank.  Ids are never empty (the guard for that has    *)
(* nothing to do for nodes of a log).                                      *)
(*                                                                         *)
(* "Variant" definitions are the following one with a mistake in it.       *)
(***************************************************************************)
EXTENDS NodeSlots, SlotStore, FiniteSetsExt

CONSTANTS
    NodeKinds,  \* kinds of nodes, "CONSTRAINT" among them
    Sizes,      \* NodeSizeUnits of a node
    Budgets,    \* budgets
    Pins,       \* sets of pinned ids
    MaxNodes    \* bound on the number of nodes, and the ranks of their ids

ASSUME SizesAssumption   == Sizes \subseteq Nat
ASSUME BudgetsAssumption == Budgets \subseteq Nat
ASSUME NodesAssumption   == MaxNodes \in Nat
ASSUME PinsAssumption    == Pins \subseteq SUBSET (1..MaxNodes)

VARIABLES
    nodes,     \* the trajectory: id -> node
    budget,
    pinned,    \* pinnedIDs
    pc,        \* where ProjectContext is
    todo,      \* ids its current loop has still to visit
    included,  \* ids taken
    used,      \* size of those taken
    last       \* history: the projection before: ids it was given and kept

vars == <<nodes, budget, pinned, pc, todo, included, used, last>>

Node == [kind : NodeKinds, step : StepN, seq : Seqs, size : Sizes]
Ids  == DOMAIN nodes

Must == {i \in Ids : nodes[i].kind = "CONSTRAINT" \/ i \in pinned}

\* A node without a step sorts after those of any step below AfterSteps.
AfterSteps     == 1000000000
nodeSortKey(n) == IF n.step = NoStep THEN AfterSteps ELSE n.step

\* sortNodes: by step, seq and id.
Before(i, j) ==
    LET si == nodeSortKey(nodes[i])  sj == nodeSortKey(nodes[j])
    IN  \/ si < sj
        \/ si = sj /\ nodes[i].seq < nodes[j].seq
        \/ si = sj /\ nodes[i].seq = nodes[j].seq /\ i < j
IsNext(i) == \A j \in todo \ {i} : Before(i, j)

Init ==
    /\ nodes = [i \in {} |-> << >>]
    /\ budget \in Budgets
    /\ pinned \in Pins
    /\ pc = "idle"
    /\ todo = {}
    /\ included = {}
    /\ used = 0
    /\ last = [given |-> {}, kept |-> {}]

\* A node that is there already (a replay) or whose slot is taken changes
\* nothing.
AppendNode ==
    /\ pc = "idle"
    /\ \E i \in (1..MaxNodes) \ Ids, n \in Node :
       /\ \A j \in Ids : ~SameSlot(nodes[j], n)
       /\ nodes' = Put(nodes, i, n)
    /\ UNCHANGED <<budget, pinned, pc, todo, included, used, last>>

StartProjection ==
    /\ pc = "idle"
    /\ pc' = "must"
    /\ todo' = Must
    /\ included' = {}
    /\ used' = 0
    /\ UNCHANGED <<nodes, budget, pinned, last>>

\* Variant: what is pinned or a constraint is taken only if it fits.
AddMustThatFits ==
    /\ pc = "must"
    /\ \E i \in todo :
       /\ IsNext(i)
       /\ todo' = todo \ {i}
       /\ IF used + nodes[i].size > budget
          THEN UNCHANGED <<included, used>>
          ELSE included' = included \cup {i} /\ used' = used + nodes[i].size
    /\ UNCHANGED <<nodes, budget, pinned, pc, last>>

AddMust ==
    /\ pc = "must"
    /\ \E i \in todo :
       /\ IsNext(i)
       /\ todo' = todo \ {i}
       /\ included' = included \cup {i}
       /\ used' = used + nodes[i].size
    /\ UNCHANGED <<nodes, budget, pinned, pc, last>>

\* Variant: the nodes taken already are considered again.
CheckMustAll ==
    /\ pc = "must"
    /\ todo = {}
    /\ IF used > budget
       THEN pc' = "impossible" /\ UNCHANGED todo
       ELSE pc' = "fill" /\ todo' = Ids
    /\ UNCHANGED <<nodes, budget, pinned, included, used, last>>

\* BudgetImpossible, or on to the optional nodes.
CheckMust ==
    /\ pc = "must"
    /\ todo = {}
    /\ IF used > budget
       THEN pc' = "impossible" /\ UNCHANGED todo
       ELSE pc' = "fill" /\ todo' = Ids \ included
    /\ UNCHANGED <<nodes, budget, pinned, included, used, last>>

\* Variant: the first node that does not fit ends the loop.
FillUntilFull ==
    /\ pc = "fill"
    /\ \E i \in todo :
       /\ IsNext(i)
       /\ IF used + nodes[i].size > budget
          THEN todo' = {} /\ UNCHANGED <<included, used>>
          ELSE /\ todo' = todo \ {i}
               /\ included' = included \cup {i} /\ used' = used + nodes[i].size
    /\ UNCHANGED <<nodes, budget, pinned, pc, last>>

\* Variant: the nodes are taken from the end of the order.
FillLastFirst ==
    /\ pc = "fill"
    /\ \E i \in todo :
       /\ \A j \in todo \ {i} : Before(j, i)
       /\ todo' = todo \ {i}
       /\ IF used + nodes[i].size > budget
          THEN UNCHANGED <<included, used>>
          ELSE included' = included \cup {i} /\ used' = used + nodes[i].size
    /\ UNCHANGED <<nodes, budget, pinned, pc, last>>

\* A node that does not fit is passed over; a later, smaller one may still be
\* taken.
Fill ==
    /\ pc = "fill"
    /\ \E i \in todo :
       /\ IsNext(i)
       /\ todo' = todo \ {i}
       /\ IF used + nodes[i].size > budget
          THEN UNCHANGED <<included, used>>
          ELSE included' = included \cup {i} /\ used' = used + nodes[i].size
    /\ UNCHANGED <<nodes, budget, pinned, pc, last>>

Finish ==
    /\ pc = "fill"
    /\ todo = {}
    /\ pc' = "ok"
    /\ UNCHANGED <<nodes, budget, pinned, todo, included, used, last>>

Return ==
    /\ pc \in {"ok", "impossible"}
    /\ pc' = "idle"
    /\ last' = IF pc = "ok" THEN [given |-> Ids, kept |-> included] ELSE last
    /\ todo' = {}
    /\ included' = {}
    /\ used' = 0
    /\ UNCHANGED <<nodes, budget, pinned>>

Next ==
    \/ AppendNode \/ StartProjection \/ AddMust \/ CheckMust \/ Fill \/ Finish
    \/ Return

Spec == Init /\ [][Next]_vars

----------------------------------------------------------------------------
\* What ProjectContext holds is about the trajectory it was given.
TypeOK ==
    /\ Ids \subseteq 1..MaxNodes /\ nodes \in [Ids -> Node]
    /\ budget \in Budgets
    /\ pinned \subseteq 1..MaxNodes
    /\ pc \in {"idle", "must", "fill", "ok", "impossible"}
    /\ todo \subseteq Ids /\ included \subseteq Ids /\ todo \cap included = {}
    /\ used \in Nat

SizeOf(S) == MapThenSumSet(LAMBDA i : nodes[i].size, S)

\* README R04, "A CONSTRAINT node is never silently dropped under budget
\* pressure; the system either includes it or raises a hard error": every
\* context contains all of them and the pinned nodes, and stays in its budget.
ConstraintsSurvive == pc = "ok" => Must \subseteq included /\ used <= budget

\* The reference definition of the context.  BUDGET_IMPOSSIBLE is raised exactly
\* when what must be included does not fit, whatever the optional nodes are;
\* otherwise an optional node is in it exactly if it fits beside what must be
\* there and the optional nodes that are and sort before it, and the size
\* reported is the size taken.
TakenIffItFits ==
    /\ pc = "impossible" => SizeOf(Must) > budget
    /\ pc = "ok" =>
          /\ SizeOf(Must) <= budget /\ used = SizeOf(included)
          /\ \A i \in Ids \ Must :
                i \in included <=>
                   SizeOf(Must) + SizeOf({j \in included \ Must : Before(j, i)}) + nodes[i].size
                      <= budget

\* From one projection to the next a node stays in, or out of, the context
\* unless a CONSTRAINT or pinned node has come, or one that was taken and sorts
\* before it: at an earlier step or seq, or in the same place with a lower id.
\* What comes later in the order, taken or not, and what is passed over never
\* costs the model what it has seen.
ContextIsStable ==
    pc = "ok" /\ Must \subseteq last.given =>
       \A i \in last.given :
          (\A j \in included \ last.given : Before(i, j)) =>
             (i \in included <=> i \in last.kept)

=============================================================================
