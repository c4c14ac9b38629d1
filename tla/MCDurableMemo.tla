--------------------------- MODULE MCDurableMemo ---------------------------
(* Two goroutines of one process and one of another, on each backend.      *)
EXTENDS DurableMemo

ProcMC == [c \in {"a1", "a2", "b1"} |-> IF c = "b1" THEN "B" ELSE "A"]
=============================================================================
