----------------------------- MODULE NodeSlots -----------------------------
(***************************************************************************)
(* Where a node stands in its trajectory.  The caller of NodeLog.Append    *)
(* chooses the kind, the step (or none: the node belongs to the whole      *)
(* trajectory) and the seq of a node, in whatever order it likes; only the *)
(* slot (step, seq, kind) has to be free, which idx_nodes_slot sees to.    *)
(***************************************************************************)
EXTENDS Integers

CONSTANTS
    StepNumbers,   \* step_n of the nodes that belong to a step
    Seqs           \* seq

ASSUME SlotsAssumption == StepNumbers \subseteq Nat /\ Seqs \subseteq Nat

\* A NULL step_n, as the queries and the index have it: COALESCE(step_n, -1).
NoStep == -1
StepN  == StepNumbers \cup {NoStep}

SameSlot(m, n) == m.step = n.step /\ m.seq = n.seq /\ m.kind = n.kind

=============================================================================
