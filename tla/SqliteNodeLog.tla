--------------------------- MODULE SqliteNodeLog ---------------------------
(***************************************************************************)
(* trajir/log on SQLite, one NodeLog per process on a shared database      *)
(* file.  l.mu and SetMaxOpenConns(1) leave one call at a time in a        *)
(* process; between processes there is only SQLite: WAL journal, deferred  *)
(* transactions, and no busy_timeout, so a statement that needs the write  *)
(* lock while another connection holds it fails at once with SQLITE_BUSY,  *)
(* and one that wants to write from a read snapshot that is no longer the  *)
(* latest fails with SQLITE_BUSY_SNAPSHOT.                                 *)
(***************************************************************************)
EXTENDS Naturals, SlotStore

CONSTANTS
    Procs,      \* processes with the database open
    Slots,      \* logical slots, of any trajectory in this database
    Payloads,   \* node payloads
    MaxFaults,  \* bound on crashes and I/O errors
    None

ASSUME FaultsAssumption == MaxFaults \in Nat
ASSUME NoProcAssumption == None \notin Procs
ASSUME NoCallAssumption ==
    None \notin [op : {"append", "claim"}, slot : Slots, payload : Payloads,
                 ans : {"pending", "ok", "conflict", "claimed", "refused", "error"}]

VARIABLES
    db,      \* committed rows of table nodes: slot -> payload
    writer,  \* process whose transaction holds the write lock
    pc,      \* process -> next statement of its call
    call,    \* process -> its call in progress
    snap,    \* process -> rows its open transaction has read
    wins,    \* history: slot -> number of calls told "claimed"
    faults

vars == <<db, writer, pc, call, snap, wins, faults>>

Empty == [k \in {} |-> None]

Init ==
    /\ db = Empty
    /\ writer = None
    /\ pc = [p \in Procs |-> "idle"]
    /\ call = [p \in Procs |-> None]
    /\ snap = [p \in Procs |-> None]
    /\ wins = [k \in Slots |-> 0]
    /\ faults = 0

At(p, label)  == pc[p] = label
Slot(p)       == call[p].slot
Payload(p)    == call[p].payload

Goto(p, label) == pc' = [pc EXCEPT ![p] = label]
Answer(p, ans) ==
    /\ call' = [call EXCEPT ![p].ans = ans]
    /\ Goto(p, "return")

\* Append or ClaimToolCall is called, the node built and encoded, l.mu taken.
Invoke(p) ==
    /\ At(p, "idle")
    /\ \E op \in {"append", "claim"}, k \in Slots, v \in Payloads :
          /\ call' = [call EXCEPT ![p] = [op |-> op, slot |-> k, payload |-> v,
                                          ans |-> "pending"]]
          /\ Goto(p, IF op = "append" THEN "insertOrIgnore" ELSE "select")
    /\ UNCHANGED <<db, writer, snap, wins, faults>>

----------------------------------------------------------------------------
(* Append: an autocommit INSERT OR IGNORE, then a look at the slot's owner. *)

InsertOrIgnore(p) ==
    /\ At(p, "insertOrIgnore")
    /\ writer = None
    /\ db' = PutIfAbsent(db, Slot(p), Payload(p))
    /\ IF Slot(p) \in DOMAIN db
       THEN Goto(p, "slotOwner") /\ UNCHANGED call
       ELSE Answer(p, "ok")
    /\ UNCHANGED <<writer, snap, wins, faults>>

AppendBusy(p) ==
    /\ At(p, "insertOrIgnore")
    /\ writer # None
    /\ Answer(p, "error")
    /\ UNCHANGED <<db, writer, snap, wins, faults>>

\* Variant: an ignored insert is taken for a replay of the same node.
SlotOwnerUnchecked(p) ==
    /\ At(p, "slotOwner")
    /\ Answer(p, "ok")
    /\ UNCHANGED <<db, writer, snap, wins, faults>>

SlotOwner(p) ==
    /\ At(p, "slotOwner")
    /\ Answer(p, IF SlotConflict(db, Slot(p), Payload(p)) THEN "conflict" ELSE "ok")
    /\ UNCHANGED <<db, writer, snap, wins, faults>>

----------------------------------------------------------------------------
(* ClaimToolCall: BEGIN; SELECT; INSERT; COMMIT.                            *)

\* The SELECT opens the read snapshot.  A row found ends the transaction.
Select(p) ==
    /\ At(p, "select")
    /\ IF Slot(p) \in DOMAIN db
       THEN Answer(p, "refused") /\ UNCHANGED snap
       ELSE Goto(p, "insert") /\ snap' = [snap EXCEPT ![p] = db] /\ UNCHANGED call
    /\ UNCHANGED <<db, writer, wins, faults>>

CanWrite(p) == writer = None /\ snap[p] = db

\* Variant: the snapshot is not held to the end of the transaction, as if
\* SELECT and INSERT were two autocommit statements on a table without the
\* unique slot index.
InsertUnprotected(p) ==
    /\ At(p, "insert")
    /\ writer = None
    /\ writer' = p
    /\ Goto(p, "commit")
    /\ UNCHANGED <<db, call, snap, wins, faults>>

Insert(p) ==
    /\ At(p, "insert")
    /\ CanWrite(p)
    /\ writer' = p
    /\ Goto(p, "commit")
    /\ UNCHANGED <<db, call, snap, wins, faults>>

\* SQLITE_BUSY or SQLITE_BUSY_SNAPSHOT: rolled back and reported as a claim
\* somebody else won.
InsertBusy(p) ==
    /\ At(p, "insert")
    /\ ~CanWrite(p)
    /\ Answer(p, "refused")
    /\ snap' = [snap EXCEPT ![p] = None]
    /\ UNCHANGED <<db, writer, wins, faults>>

Commit(p) ==
    /\ At(p, "commit")
    /\ db' = Put(db, Slot(p), Payload(p))
    /\ writer' = None
    /\ snap' = [snap EXCEPT ![p] = None]
    /\ wins' = [wins EXCEPT ![Slot(p)] = @ + 1]
    /\ Answer(p, "claimed")
    /\ UNCHANGED faults

----------------------------------------------------------------------------
\* Variant: no deferred Rollback.
ReleaseNothing(p) == UNCHANGED <<writer, snap>>

\* defer tx.Rollback(), or SQLite's own when the process is gone.
Release(p) ==
    /\ writer' = IF writer = p THEN None ELSE writer
    /\ snap' = [snap EXCEPT ![p] = None]

\* An I/O error at any statement other than the INSERT of a claim, whose
\* errors are not reported: the open transaction is rolled back.
Error(p) ==
    /\ pc[p] \in {"insertOrIgnore", "slotOwner", "select", "commit"}
    /\ faults < MaxFaults
    /\ faults' = faults + 1
    /\ Release(p)
    /\ Answer(p, "error")
    /\ UNCHANGED <<db, wins>>

\* The INSERT of a claim fails for a reason outside the database's locks.
InsertError(p) ==
    /\ At(p, "insert")
    /\ faults < MaxFaults
    /\ faults' = faults + 1
    /\ Release(p)
    /\ Answer(p, "refused")
    /\ UNCHANGED <<db, wins>>

Leave(p) ==
    /\ Goto(p, "idle")
    /\ call' = [call EXCEPT ![p] = None]
    /\ Release(p)
    /\ UNCHANGED <<db, wins>>

\* The call returns to its caller.
Return(p) == At(p, "return") /\ Leave(p) /\ UNCHANGED faults

\* The process dies; SQLite drops what its transaction had not committed.
Crash(p) ==
    /\ ~At(p, "idle")
    /\ faults < MaxFaults
    /\ faults' = faults + 1
    /\ Leave(p)

Next ==
    \E p \in Procs :
       \/ Invoke(p) \/ InsertOrIgnore(p) \/ AppendBusy(p) \/ SlotOwner(p)
       \/ Select(p) \/ Insert(p) \/ InsertBusy(p) \/ Commit(p)
       \/ Error(p) \/ InsertError(p) \/ Return(p) \/ Crash(p)

Spec == Init /\ [][Next]_vars

----------------------------------------------------------------------------
PCs == {"idle", "insertOrIgnore", "slotOwner", "select", "insert", "commit",
        "return"}
Calls == [op : {"append", "claim"}, slot : Slots, payload : Payloads,
          ans : {"pending", "ok", "conflict", "claimed", "refused", "error"}]

\* A call is in progress exactly when its process is not idle, its next
\* statement is one of the method called, and a transaction is open only
\* between the SELECT of a claim and its COMMIT or rollback.
TypeOK ==
    /\ DOMAIN db \subseteq Slots /\ \A k \in DOMAIN db : db[k] \in Payloads
    /\ writer \in Procs \cup {None}
    /\ pc \in [Procs -> PCs]
    /\ DOMAIN call = Procs
    /\ \A p \in Procs :
          IF At(p, "idle") THEN call[p] = None
          ELSE /\ call[p] \in Calls
               /\ pc[p] \in {"insertOrIgnore", "slotOwner"} => call[p].op = "append"
               /\ pc[p] \in {"select", "insert", "commit"} => call[p].op = "claim"
    /\ DOMAIN snap = Procs
    /\ \A p \in Procs : snap[p] # None => pc[p] \in {"insert", "commit"}
    /\ wins \in [Slots -> Nat]
    /\ faults \in 0..MaxFaults

\* gate.go, "Concurrent workers cannot both win the same (trajectory, step,
\* seq) TOOL_CALL slot": over any interleaving of statements, busy errors and
\* crashes, at most one call is ever told it owns a slot, and its row is there.
OneWinner == \A k \in Slots : wins[k] <= 1 /\ (wins[k] = 1 => k \in DOMAIN db)

\* log.go Append: a caller told "ok" finds its own node stored, and one told
\* ErrSlotConflict finds another one, for as long as the database lives.
AnswersAreTrue ==
    \A p \in Procs : At(p, "return") =>
       /\ call[p].ans \in {"ok", "claimed"} =>
             Slot(p) \in DOMAIN db /\ db[Slot(p)] = Payload(p)
       /\ call[p].ans = "conflict" => SlotConflict(db, Slot(p), Payload(p))

\* log.go ClaimToolCall, "Returns claimed=false if the slot was already taken".
RefusedIsTaken ==
    \A p \in Procs : At(p, "return") /\ call[p].ans = "refused" => Slot(p) \in DOMAIN db

\* Statement by statement, the log behaves as one where Append and
\* ClaimToolCall are single indivisible operations.
Atomic == INSTANCE AtomicNodeLog WITH tab <- db
ImplementsAtomicLog == Atomic!Spec

=============================================================================
