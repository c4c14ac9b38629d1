-------------------------- MODULE PostgresNodeLog --------------------------
(***************************************************************************)
(* trajir/postgres: the node log on PostgreSQL, one NodeLog per process    *)
(* (l.mu leaves one call at a time in it), one server.  A call is a READ   *)
(* COMMITTED transaction.  A statement sees the rows committed when it     *)
(* starts and those of its own transaction; an INSERT that meets another   *)
(* transaction's uncommitted row in the unique slot index waits until that *)
(* transaction ends.                                                       *)
(*                                                                         *)
(* Go processes (trajir/postgres) and Python ones (drivers/postgres) share *)
(* the table.  A Go call begins and ends its own transaction on a pooled   *)
(* connection.  A Python log keeps one connection, whose transaction       *)
(* psycopg opens by itself: a statement that fails leaves it aborted, and  *)
(* the server refuses every statement until a rollback.                    *)
(*                                                                         *)
(* "Variant" definitions are the following one with a mistake in it.       *)
(***************************************************************************)
EXTENDS Naturals, SlotStore

CONSTANTS
    Procs,            \* processes connected to the server
    PyProcs,          \* those of them that run the Python driver
    Slots,            \* logical slots
    Payloads,         \* node payloads
    MaxFaults,        \* bound on crashes, lost connections and failed statements
    None

ASSUME BoundsAssumption == MaxFaults \in Nat
ASSUME PyAssumption == PyProcs \subseteq Procs
ASSUME NoSlotAssumption == None \notin Slots
ASSUME NoCallAssumption ==
    None \notin [op : {"append", "claim"}, slot : Slots, payload : Payloads,
                 ans : {"pending", "ok", "conflict", "claimed", "refused", "error"}]

VARIABLES
    db,       \* committed rows: slot -> payload
    open,     \* process -> slot of its transaction's uncommitted row
    pc,       \* process -> next statement of its call
    call,     \* process -> its call in progress
    conn,     \* process -> "clean", "aborted" or "broken" connection
    faults,
    failed    \* history: processes whose Append INSERT failed by itself

vars == <<db, open, pc, call, conn, faults, failed>>

Init ==
    /\ db = [k \in {} |-> None]
    /\ open = [p \in Procs |-> None]
    /\ pc = [p \in Procs |-> "idle"]
    /\ call = [p \in Procs |-> None]
    /\ conn = [p \in Procs |-> "clean"]
    /\ faults = 0
    /\ failed = {}

At(p, label) == pc[p] = label
Slot(p)      == call[p].slot
Payload(p)   == call[p].payload

IsPy(p)   == p \in PyProcs
Usable(p) == conn[p] = "clean"
Leaves(p, c) == conn' = [conn EXCEPT ![p] = IF IsPy(p) THEN c ELSE "clean"]

Goto(p, label) == pc' = [pc EXCEPT ![p] = label]
Answer(p, ans) == call' = [call EXCEPT ![p].ans = ans] /\ Goto(p, "return")

\* Variant: a return path without the deferred Rollback.
KeepOpen(p) == UNCHANGED open

\* defer tx.Rollback().
Rollback(p) == open' = [open EXCEPT ![p] = None]

\* The slot is held by a transaction still in progress.
MustWait(p) == \E q \in Procs \ {p} : open[q] = Slot(p)

InsertRow(p) == open' = [open EXCEPT ![p] = Slot(p)]

Invoke(p) ==
    /\ At(p, "idle")
    /\ \E op \in {"append", "claim"}, k \in Slots, v \in Payloads :
          /\ call' = [call EXCEPT ![p] = [op |-> op, slot |-> k, payload |-> v,
                                          ans |-> "pending"]]
          /\ Goto(p, IF op = "append" THEN "insert" ELSE "select")
    /\ UNCHANGED <<db, open, conn, faults, failed>>

\* Variant: claim_tool_call answers False for every exception.
WedgedCallRefuses(p) ==
    /\ pc[p] \in {"insert", "select"}
    /\ ~Usable(p)
    /\ Answer(p, IF call[p].op = "claim" THEN "refused" ELSE "error")
    /\ conn' = IF call[p].op = "claim" /\ conn[p] = "aborted"
               THEN [conn EXCEPT ![p] = "clean"] ELSE conn
    /\ UNCHANGED <<db, open, faults, failed>>

\* A Python call on a connection an earlier call left unusable: its first
\* statement raises.  Only claim_tool_call rolls back then, which ends an
\* aborted transaction and mends nothing on a broken connection.
WedgedCall(p) ==
    /\ pc[p] \in {"insert", "select"}
    /\ ~Usable(p)
    /\ Answer(p, "error")
    /\ conn' = IF call[p].op = "claim" /\ conn[p] = "aborted"
               THEN [conn EXCEPT ![p] = "clean"] ELSE conn
    /\ UNCHANGED <<db, open, faults, failed>>


----------------------------------------------------------------------------
(* Append: BEGIN; SAVEPOINT; INSERT ... ON CONFLICT (id) DO NOTHING; SELECT *)
(* the owner of the slot; COMMIT.                                           *)

\* A row with the same id is no error; another id in the slot is one.
Insert(p) ==
    /\ At(p, "insert") /\ Usable(p)
    /\ ~MustWait(p)
    /\ IF SlotConflict(db, Slot(p), Payload(p))
       THEN Goto(p, "ownerAfterError") /\ UNCHANGED open
       ELSE /\ Goto(p, "owner")
            /\ IF Slot(p) \in DOMAIN db THEN UNCHANGED open ELSE InsertRow(p)
    /\ UNCHANGED <<db, call, conn, faults, failed>>

\* The INSERT fails for a reason of its own (disk full, lock or statement
\* timeout).  Go: like a conflict, it leads to ROLLBACK TO SAVEPOINT.
\* Python: raised, as append catches UniqueViolation only.
InsertFails(p) ==
    /\ At(p, "insert") /\ Usable(p)
    /\ faults < MaxFaults
    /\ faults' = faults + 1
    /\ Leaves(p, "aborted")
    /\ IF IsPy(p)
       THEN Answer(p, "error") /\ UNCHANGED failed
       ELSE failed' = failed \cup {p} /\ Goto(p, "ownerAfterError") /\ UNCHANGED call
    /\ UNCHANGED <<db, open>>

OwnerAfterError(p) ==
    /\ At(p, "ownerAfterError")
    /\ Answer(p, IF SlotConflict(db, Slot(p), Payload(p)) THEN "conflict" ELSE "ok")
    /\ Rollback(p)
    /\ UNCHANGED <<db, conn, faults, failed>>

Owner(p) ==
    /\ At(p, "owner")
    /\ IF open[p] = None /\ SlotConflict(db, Slot(p), Payload(p))
       THEN Answer(p, "conflict") /\ Rollback(p)
       ELSE Goto(p, "commit") /\ UNCHANGED <<call, open>>
    /\ UNCHANGED <<db, conn, faults, failed>>

----------------------------------------------------------------------------
(* ClaimToolCall: BEGIN; SELECT ... FOR UPDATE; INSERT; COMMIT.  FOR UPDATE *)
(* locks a row that exists; a free slot is protected by nothing until the   *)
(* INSERT.                                                                  *)

Select(p) ==
    /\ At(p, "select") /\ Usable(p)
    /\ IF Slot(p) \in DOMAIN db
       THEN Answer(p, "refused") /\ Rollback(p)
       ELSE Goto(p, "claimInsert") /\ UNCHANGED <<call, open>>
    /\ UNCHANGED <<db, conn, faults, failed>>

\* Variant: a table without the unique slot index.
ClaimInsertUnprotected(p) ==
    /\ At(p, "claimInsert")
    /\ Goto(p, "commit") /\ InsertRow(p)
    /\ UNCHANGED <<db, call, conn, faults, failed>>

ClaimInsert(p) ==
    /\ At(p, "claimInsert")
    /\ ~MustWait(p)
    /\ IF Slot(p) \in DOMAIN db
       THEN Answer(p, "refused") /\ Rollback(p)
       ELSE Goto(p, "commit") /\ InsertRow(p) /\ UNCHANGED call
    /\ UNCHANGED <<db, conn, faults, failed>>

\* Any other error of that INSERT: Go reports a lost race here too, Python
\* rolls back and raises.
ClaimInsertFails(p) ==
    /\ At(p, "claimInsert")
    /\ faults < MaxFaults
    /\ faults' = faults + 1
    /\ Answer(p, IF IsPy(p) THEN "error" ELSE "refused")
    /\ Rollback(p)
    /\ UNCHANGED <<db, conn, failed>>

----------------------------------------------------------------------------
\* The server commits; its reply is under way.
Commit(p) ==
    /\ At(p, "commit")
    /\ db' = IF open[p] = None THEN db ELSE Put(db, Slot(p), Payload(p))
    /\ open' = [open EXCEPT ![p] = None]
    /\ call' = [call EXCEPT ![p].ans = IF call[p].op = "claim" THEN "claimed" ELSE "ok"]
    /\ Goto(p, "reply")
    /\ UNCHANGED <<conn, faults, failed>>

CommitReply(p) ==
    /\ At(p, "reply")
    /\ Goto(p, "return")
    /\ UNCHANGED <<db, open, call, conn, faults, failed>>

\* The connection breaks before the reply arrives: tx.Commit reports an error
\* for a transaction that is committed.  The pool replaces a Go connection.
CommitReplyLost(p) ==
    /\ At(p, "reply")
    /\ faults < MaxFaults
    /\ faults' = faults + 1
    /\ Answer(p, "error")
    /\ Leaves(p, "broken")
    /\ UNCHANGED <<db, open, failed>>

\* A statement whose error is returned: BEGIN, SAVEPOINT, SELECT or COMMIT.
\* On the server every such error ends what the transaction did.
Error(p) ==
    /\ pc[p] \in {"insert", "owner", "ownerAfterError", "select", "commit"}
    /\ Usable(p)
    /\ faults < MaxFaults
    /\ faults' = faults + 1
    /\ Answer(p, "error")
    /\ Rollback(p)
    /\ Leaves(p, IF call[p].op = "claim" \/ At(p, "commit") THEN "clean" ELSE "aborted")
    /\ UNCHANGED <<db, failed>>

Leave(p) ==
    /\ Goto(p, "idle")
    /\ call' = [call EXCEPT ![p] = None]
    /\ failed' = failed \ {p}
    /\ UNCHANGED <<db>>

Return(p) == At(p, "return") /\ Leave(p) /\ UNCHANGED <<open, conn, faults>>

\* The process dies, or closes its log: the server rolls its transaction back,
\* and the log it opens next has a connection of its own.
Crash(p) ==
    /\ ~At(p, "idle") \/ ~Usable(p)
    /\ faults < MaxFaults
    /\ faults' = faults + 1
    /\ Leave(p)
    /\ open' = [open EXCEPT ![p] = None]
    /\ conn' = [conn EXCEPT ![p] = "clean"]

Proceed(p) ==
    \/ WedgedCall(p) \/ Insert(p) \/ OwnerAfterError(p) \/ Owner(p) \/ Select(p)
    \/ ClaimInsert(p) \/ Commit(p) \/ CommitReply(p) \/ Return(p)

Next ==
    \E p \in Procs :
       \/ Invoke(p) \/ Proceed(p) \/ InsertFails(p) \/ ClaimInsertFails(p)
       \/ CommitReplyLost(p) \/ Error(p) \/ Crash(p)

Spec == Init /\ [][Next]_vars

\* The server runs every statement that does not have to wait, and a caller
\* goes on when it has its answer.
FairSpec == Spec /\ \A p \in Procs : WF_vars(Proceed(p))

----------------------------------------------------------------------------
PCs == {"idle", "insert", "owner", "ownerAfterError", "select", "claimInsert",
        "commit", "reply", "return"}
Calls == [op : {"append", "claim"}, slot : Slots, payload : Payloads,
          ans : {"pending", "ok", "conflict", "claimed", "refused", "error"}]

\* A transaction holds an uncommitted row only between its INSERT and the end
\* of its call, and never two for one slot; only a Python connection outlives
\* its failures.
TypeOK ==
    /\ DOMAIN db \subseteq Slots /\ \A k \in DOMAIN db : db[k] \in Payloads
    /\ pc \in [Procs -> PCs]
    /\ DOMAIN call = Procs
    /\ \A p \in Procs : IF At(p, "idle") THEN call[p] = None ELSE call[p] \in Calls
    /\ open \in [Procs -> Slots \cup {None}]
    /\ \A p \in Procs : open[p] # None => pc[p] \in {"owner", "commit"}
    /\ \A p, q \in Procs : open[p] # None /\ open[p] = open[q] => p = q
    /\ conn \in [Procs -> {"clean", "aborted", "broken"}]
    /\ \A p \in Procs : ~Usable(p) => IsPy(p) /\ open[p] = None
    /\ faults \in 0..MaxFaults /\ failed \subseteq Procs

\* log.py claim_tool_call, "single winner under concurrency": when the Python
\* driver answers False somebody holds the slot, so the gate never blocks a
\* call that nobody ran; not even after an earlier append left the connection
\* in an aborted transaction, or broken.
PyRefusalMeansTaken ==
    \A p \in PyProcs :
       At(p, "return") /\ call[p].ans = "refused" => Slot(p) \in DOMAIN db

\* log.go (postgres), "Append stores a node. Same content id is ignored.
\* Different payload at the same logical slot returns ErrSlotConflict".
AppendStores ==
    \A p \in Procs : At(p, "return") /\ call[p].ans = "ok" =>
       Slot(p) \in DOMAIN db /\ db[Slot(p)] = Payload(p)

\* Nobody waits for ever for a slot: a transaction that holds one ends.
CallsReturn == \A p \in Procs : ~At(p, "idle") ~> At(p, "idle")

\* The PostgreSQL log makes the promises the SQLite log makes, Go and Python
\* processes together: among any number that read the slot free one claim is
\* answered claimed, ok and conflict are true when given, no row changes.  The
\* answer of a Go Append whose INSERT failed by itself is read as an error;
\* AppendStores is about it.
Promised(p) ==
    IF p \in failed /\ call[p].ans = "ok"
    THEN [call[p] EXCEPT !.ans = "error"] ELSE call[p]
Atomic ==
    INSTANCE AtomicNodeLog WITH tab <- db, call <- [p \in Procs |-> Promised(p)]
ImplementsAtomicLog == Atomic!Spec

=============================================================================
