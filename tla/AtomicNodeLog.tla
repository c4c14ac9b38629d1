--------------------------- MODULE AtomicNodeLog ---------------------------
(***************************************************************************)
(* What the node log promises its callers: each Append and each            *)
(* ClaimToolCall takes effect at one instant between its call and its      *)
(* return, or not at all.  A row is never changed or removed.              *)
(***************************************************************************)
EXTENDS SlotStore

CONSTANTS Procs, Slots, Payloads, None

VARIABLES
    tab,    \* slot -> payload
    call    \* process -> its call in progress, with the answer once it has one

vars == <<tab, call>>

Request(op, slot, payload) ==
    [op |-> op, slot |-> slot, payload |-> payload, ans |-> "pending"]

Init ==
    /\ tab = [k \in {} |-> None]
    /\ call = [p \in Procs |-> None]

Invoke(p) ==
    /\ call[p] = None
    /\ \E op \in {"append", "claim"}, k \in Slots, v \in Payloads :
          call' = [call EXCEPT ![p] = Request(op, k, v)]
    /\ UNCHANGED tab

Pending(p, op) == call[p] # None /\ call[p].op = op /\ call[p].ans = "pending"
Answer(p, ans) == call' = [call EXCEPT ![p].ans = ans]

\* Stored now, or found stored with the same content.
AppendOk(p) ==
    /\ Pending(p, "append")
    /\ ~SlotConflict(tab, call[p].slot, call[p].payload)
    /\ tab' = PutIfAbsent(tab, call[p].slot, call[p].payload)
    /\ Answer(p, "ok")

AppendConflict(p) ==
    /\ Pending(p, "append")
    /\ SlotConflict(tab, call[p].slot, call[p].payload)
    /\ Answer(p, "conflict")
    /\ UNCHANGED tab

Claimed(p) ==
    /\ Pending(p, "claim")
    /\ call[p].slot \notin DOMAIN tab
    /\ tab' = Put(tab, call[p].slot, call[p].payload)
    /\ Answer(p, "claimed")

\* Nothing is promised of the table when a claim is refused.
NotClaimed(p) == Pending(p, "claim") /\ Answer(p, "refused") /\ UNCHANGED tab

Fails(p) ==
    /\ \E op \in {"append", "claim"} : Pending(p, op)
    /\ Answer(p, "error")
    /\ UNCHANGED tab

\* The operation took effect, and the caller is told otherwise.
AnswerLost(p) ==
    /\ call[p] # None /\ call[p].ans \in {"ok", "claimed"}
    /\ Answer(p, "error")
    /\ UNCHANGED tab

\* The caller takes its answer, or dies with or without one.
Leave(p) ==
    /\ call[p] # None
    /\ call' = [call EXCEPT ![p] = None]
    /\ UNCHANGED tab

Next ==
    \E p \in Procs :
       \/ Invoke(p) \/ AppendOk(p) \/ AppendConflict(p) \/ Claimed(p)
       \/ NotClaimed(p) \/ Fails(p) \/ AnswerLost(p) \/ Leave(p)

Spec == Init /\ [][Next]_vars

=============================================================================
