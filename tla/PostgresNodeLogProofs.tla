----------------------- MODULE PostgresNodeLogProofs -----------------------
(***************************************************************************)
(* For any number of Go and Python processes, slots, payloads and faults:  *)
(* the node log on PostgreSQL implements the log whose operations are      *)
(* indivisible, and so has one winner per claim, rows that stay and true   *)
(* answers, but for that of a Go Append whose INSERT failed by itself; and *)
(* the Python driver refuses a claim only for a slot that is taken.        *)
(***************************************************************************)
EXTENDS PostgresNodeLog, TLAPS

\* Which statements belong to which operation, and that a call has its answer
\* from its COMMIT, or from the statement that ended it, on.  Between its first
\* statement and its end a transaction has a usable connection.
CallProgress ==
    \A p \in Procs :
       /\ pc[p] \in {"insert", "owner", "ownerAfterError"} => call[p].op = "append"
       /\ pc[p] \in {"select", "claimInsert"} => call[p].op = "claim"
       /\ ~At(p, "idle") => (call[p].ans = "pending" <=> pc[p] \notin {"reply", "return"})
       /\ At(p, "reply") => call[p].ans \in {"ok", "claimed"}
       /\ pc[p] \notin {"idle", "insert", "select", "return"} => Usable(p)

\* A transaction's uncommitted row is for its own slot, which no committed row
\* has; one that came past its INSERT without a row is an Append that found
\* the same node stored.
RowDiscipline ==
    \A p \in Procs :
       /\ open[p] # None => open[p] = Slot(p) /\ Slot(p) \notin DOMAIN db
       /\ pc[p] \in {"owner", "commit"} /\ open[p] = None =>
             call[p].op = "append" /\ Slot(p) \in DOMAIN db /\ db[Slot(p)] = Payload(p)

\* An Append of Go whose INSERT failed is marked until it returns; any other
\* one that rolls back to its savepoint met another node in its slot.
FailedAppends ==
    \A p \in Procs :
       /\ p \in failed => pc[p] \in {"ownerAfterError", "return"} /\ call[p].op = "append"
       /\ At(p, "ownerAfterError") /\ p \notin failed => SlotConflict(db, Slot(p), Payload(p))

IInv == TypeOK /\ CallProgress /\ RowDiscipline /\ FailedAppends /\ PyRefusalMeansTaken

\* An empty table with nobody connected satisfies the inductive invariant.
LEMMA InitIInv == Init => IInv
  BY BoundsAssumption, PyAssumption
  DEF Init, IInv, TypeOK, CallProgress, RowDiscipline, FailedAppends, PyRefusalMeansTaken,
      At, PCs, Usable

\* The statements keep the types; an INSERT waits while another transaction
\* holds its slot, so that no two hold the same one.
LEMMA TypeStep ==
    TypeOK /\ CallProgress /\ RowDiscipline /\ [Next]_vars => TypeOK'
<1> SUFFICES ASSUME TypeOK, CallProgress, RowDiscipline, [Next]_vars PROVE TypeOK'
  OBVIOUS
<1> USE BoundsAssumption, PyAssumption, NoSlotAssumption, NoCallAssumption
<1>1. CASE UNCHANGED vars
  BY <1>1 DEF TypeOK, At, Slot, Payload, PCs, Calls, Usable, IsPy, vars
<1>2. ASSUME NEW p \in Procs, Invoke(p) PROVE TypeOK'
  BY <1>2 DEF TypeOK, At, Slot, Payload, PCs, Calls, Usable, IsPy, Invoke, Goto
<1>3. ASSUME NEW p \in Procs, WedgedCall(p) PROVE TypeOK'
  BY <1>3 DEF TypeOK, At, Slot, Payload, PCs, Calls, Usable, IsPy, WedgedCall, Goto, Answer
<1>4. ASSUME NEW p \in Procs, Insert(p) PROVE TypeOK'
  BY <1>4 DEF TypeOK, At, Slot, Payload, PCs, Calls, Usable, IsPy, Insert, Goto, MustWait,
     InsertRow, SlotConflict, RowDiscipline
<1>5. ASSUME NEW p \in Procs, OwnerAfterError(p) PROVE TypeOK'
  BY <1>5 DEF TypeOK, At, Slot, Payload, PCs, Calls, Usable, IsPy, OwnerAfterError, Goto,
     Answer, Rollback, SlotConflict
<1>6. ASSUME NEW p \in Procs, Owner(p) PROVE TypeOK'
  BY <1>6 DEF TypeOK, At, Slot, Payload, PCs, Calls, Usable, IsPy, Owner, Goto, Answer,
     Rollback, SlotConflict
<1>7. ASSUME NEW p \in Procs, Select(p) PROVE TypeOK'
  BY <1>7 DEF TypeOK, At, Slot, Payload, PCs, Calls, Usable, IsPy, Select, Goto, Answer,
     Rollback
<1>8. ASSUME NEW p \in Procs, ClaimInsert(p) PROVE TypeOK'
  BY <1>8 DEF TypeOK, At, Slot, Payload, PCs, Calls, Usable, IsPy, ClaimInsert, Goto, Answer,
     Rollback, MustWait, InsertRow, CallProgress
<1>9. ASSUME NEW p \in Procs, Commit(p) PROVE TypeOK'
  BY <1>9 DEF TypeOK, At, Slot, Payload, PCs, Calls, Usable, IsPy, Commit, Goto, Put,
     RowDiscipline
<1>10. ASSUME NEW p \in Procs, CommitReply(p) PROVE TypeOK'
  BY <1>10 DEF TypeOK, At, Slot, Payload, PCs, Calls, Usable, IsPy, CommitReply, Goto
<1>11. ASSUME NEW p \in Procs, Return(p) PROVE TypeOK'
  BY <1>11 DEF TypeOK, At, Slot, Payload, PCs, Calls, Usable, IsPy, Return, Goto, Leave
<1>12. ASSUME NEW p \in Procs, InsertFails(p) PROVE TypeOK'
  BY <1>12 DEF TypeOK, At, Slot, Payload, PCs, Calls, Usable, IsPy, InsertFails, Goto, Answer,
     Leaves
<1>13. ASSUME NEW p \in Procs, ClaimInsertFails(p) PROVE TypeOK'
  BY <1>13 DEF TypeOK, At, Slot, Payload, PCs, Calls, Usable, IsPy, ClaimInsertFails, Goto,
     Answer, Rollback
<1>14. ASSUME NEW p \in Procs, CommitReplyLost(p) PROVE TypeOK'
  BY <1>14 DEF TypeOK, At, Slot, Payload, PCs, Calls, Usable, IsPy, CommitReplyLost, Goto,
     Answer, Leaves
<1>15. ASSUME NEW p \in Procs, Error(p) PROVE TypeOK'
  BY <1>15 DEF TypeOK, At, Slot, Payload, PCs, Calls, Usable, IsPy, Error, Goto, Answer,
     Rollback, Leaves
<1>16. ASSUME NEW p \in Procs, Crash(p) PROVE TypeOK'
  BY <1>16 DEF TypeOK, At, Slot, Payload, PCs, Calls, Usable, IsPy, Crash, Goto, Leave
<1> QED
  BY <1>1, <1>2, <1>3, <1>4, <1>5, <1>6, <1>7, <1>8, <1>9, <1>10, <1>11, <1>12, <1>13, <1>14,
     <1>15, <1>16
  DEF Next, Proceed

\* The statements of a call follow one another, and its answer comes last.
LEMMA ProgressStep == TypeOK /\ CallProgress /\ RowDiscipline /\ [Next]_vars => CallProgress'
<1> SUFFICES ASSUME TypeOK, CallProgress, RowDiscipline, [Next]_vars PROVE CallProgress'
  OBVIOUS
<1>1. CASE UNCHANGED vars
  BY <1>1 DEF TypeOK, CallProgress, At, PCs, Calls, Usable, IsPy, vars
<1>2. ASSUME NEW p \in Procs, Invoke(p) PROVE CallProgress'
  BY <1>2 DEF TypeOK, CallProgress, At, PCs, Calls, Usable, IsPy, Invoke, Goto
<1>3. ASSUME NEW p \in Procs, WedgedCall(p) PROVE CallProgress'
  BY <1>3 DEF TypeOK, CallProgress, At, PCs, Calls, Usable, IsPy, WedgedCall, Goto, Answer
<1>4. ASSUME NEW p \in Procs, Insert(p) PROVE CallProgress'
  BY <1>4 DEF TypeOK, CallProgress, At, PCs, Calls, Usable, IsPy, Insert, Goto, MustWait,
     InsertRow, SlotConflict
<1>5. ASSUME NEW p \in Procs, OwnerAfterError(p) PROVE CallProgress'
  BY <1>5 DEF TypeOK, CallProgress, At, PCs, Calls, Usable, IsPy, OwnerAfterError, Goto,
     Answer, Rollback, SlotConflict
<1>6. ASSUME NEW p \in Procs, Owner(p) PROVE CallProgress'
  BY <1>6 DEF TypeOK, CallProgress, At, PCs, Calls, Usable, IsPy, Owner, Goto, Answer,
     Rollback, SlotConflict
<1>7. ASSUME NEW p \in Procs, Select(p) PROVE CallProgress'
  BY <1>7 DEF TypeOK, CallProgress, At, PCs, Calls, Usable, IsPy, Select, Goto, Answer,
     Rollback
<1>8. ASSUME NEW p \in Procs, ClaimInsert(p) PROVE CallProgress'
  BY <1>8 DEF TypeOK, CallProgress, At, PCs, Calls, Usable, IsPy, ClaimInsert, Goto, Answer,
     Rollback, MustWait, InsertRow
<1>9. ASSUME NEW p \in Procs, Commit(p) PROVE CallProgress'
  BY <1>9 DEF TypeOK, CallProgress, At, PCs, Calls, Usable, IsPy, Commit, Goto, Put,
     RowDiscipline
<1>10. ASSUME NEW p \in Procs, CommitReply(p) PROVE CallProgress'
  BY <1>10 DEF TypeOK, CallProgress, At, PCs, Calls, Usable, IsPy, CommitReply, Goto
<1>11. ASSUME NEW p \in Procs, Return(p) PROVE CallProgress'
  BY <1>11 DEF TypeOK, CallProgress, At, PCs, Calls, Usable, IsPy, Return, Goto, Leave
<1>12. ASSUME NEW p \in Procs, InsertFails(p) PROVE CallProgress'
  BY <1>12 DEF TypeOK, CallProgress, At, PCs, Calls, Usable, IsPy, InsertFails, Goto, Answer,
     Leaves
<1>13. ASSUME NEW p \in Procs, ClaimInsertFails(p) PROVE CallProgress'
  BY <1>13 DEF TypeOK, CallProgress, At, PCs, Calls, Usable, IsPy, ClaimInsertFails, Goto,
     Answer, Rollback
<1>14. ASSUME NEW p \in Procs, CommitReplyLost(p) PROVE CallProgress'
  BY <1>14 DEF TypeOK, CallProgress, At, PCs, Calls, Usable, IsPy, CommitReplyLost, Goto,
     Answer, Leaves
<1>15. ASSUME NEW p \in Procs, Error(p) PROVE CallProgress'
  BY <1>15 DEF TypeOK, CallProgress, At, PCs, Calls, Usable, IsPy, Error, Goto, Answer,
     Rollback, Leaves
<1>16. ASSUME NEW p \in Procs, Crash(p) PROVE CallProgress'
  BY <1>16 DEF TypeOK, CallProgress, At, PCs, Calls, Usable, IsPy, Crash, Goto, Leave
<1> QED
  BY <1>1, <1>2, <1>3, <1>4, <1>5, <1>6, <1>7, <1>8, <1>9, <1>10, <1>11, <1>12, <1>13, <1>14,
     <1>15, <1>16
  DEF Next, Proceed

\* A COMMIT adds the row of its own slot, which nobody else holds, and changes
\* no other row.
LEMMA RowStep ==
    TypeOK /\ CallProgress /\ RowDiscipline /\ [Next]_vars => RowDiscipline'
<1> SUFFICES ASSUME TypeOK, CallProgress, RowDiscipline, [Next]_vars PROVE RowDiscipline'
  OBVIOUS
<1> USE NoSlotAssumption
<1>1. CASE UNCHANGED vars
  BY <1>1 DEF TypeOK, CallProgress, RowDiscipline, At, Slot, Payload, PCs, Calls, vars
<1>2. ASSUME NEW p \in Procs, Invoke(p) PROVE RowDiscipline'
  BY <1>2 DEF TypeOK, CallProgress, RowDiscipline, At, Slot, Payload, PCs, Calls, Invoke, Goto
<1>3. ASSUME NEW p \in Procs, WedgedCall(p) PROVE RowDiscipline'
  BY <1>3 DEF TypeOK, CallProgress, RowDiscipline, At, Slot, Payload, PCs, Calls, WedgedCall,
     Goto, Answer
<1>4. ASSUME NEW p \in Procs, Insert(p) PROVE RowDiscipline'
  BY <1>4 DEF TypeOK, CallProgress, RowDiscipline, At, Slot, Payload, PCs, Calls, Insert, Goto,
     MustWait, InsertRow, SlotConflict
<1>5. ASSUME NEW p \in Procs, OwnerAfterError(p) PROVE RowDiscipline'
  BY <1>5 DEF TypeOK, CallProgress, RowDiscipline, At, Slot, Payload, PCs, Calls,
     OwnerAfterError, Goto, Answer, Rollback, SlotConflict
<1>6. ASSUME NEW p \in Procs, Owner(p) PROVE RowDiscipline'
  BY <1>6 DEF TypeOK, CallProgress, RowDiscipline, At, Slot, Payload, PCs, Calls, Owner, Goto,
     Answer, Rollback, SlotConflict
<1>7. ASSUME NEW p \in Procs, Select(p) PROVE RowDiscipline'
  BY <1>7 DEF TypeOK, CallProgress, RowDiscipline, At, Slot, Payload, PCs, Calls, Select, Goto,
     Answer, Rollback
<1>8. ASSUME NEW p \in Procs, ClaimInsert(p) PROVE RowDiscipline'
  BY <1>8 DEF TypeOK, CallProgress, RowDiscipline, At, Slot, Payload, PCs, Calls, ClaimInsert,
     Goto, Answer, Rollback, MustWait, InsertRow
<1>9. ASSUME NEW p \in Procs, Commit(p) PROVE RowDiscipline'
  BY <1>9 DEF TypeOK, CallProgress, RowDiscipline, At, Slot, Payload, PCs, Calls, Commit, Goto,
     Put
<1>10. ASSUME NEW p \in Procs, CommitReply(p) PROVE RowDiscipline'
  BY <1>10 DEF TypeOK, CallProgress, RowDiscipline, At, Slot, Payload, PCs, Calls, CommitReply,
     Goto
<1>11. ASSUME NEW p \in Procs, Return(p) PROVE RowDiscipline'
  BY <1>11 DEF TypeOK, CallProgress, RowDiscipline, At, Slot, Payload, PCs, Calls, Return,
     Goto, Leave
<1>12. ASSUME NEW p \in Procs, InsertFails(p) PROVE RowDiscipline'
  BY <1>12 DEF TypeOK, CallProgress, RowDiscipline, At, Slot, Payload, PCs, Calls, InsertFails,
     Goto, Answer, Leaves
<1>13. ASSUME NEW p \in Procs, ClaimInsertFails(p) PROVE RowDiscipline'
  BY <1>13 DEF TypeOK, CallProgress, RowDiscipline, At, Slot, Payload, PCs, Calls,
     ClaimInsertFails, Goto, Answer, Rollback
<1>14. ASSUME NEW p \in Procs, CommitReplyLost(p) PROVE RowDiscipline'
  BY <1>14 DEF TypeOK, CallProgress, RowDiscipline, At, Slot, Payload, PCs, Calls,
     CommitReplyLost, Goto, Answer, Leaves
<1>15. ASSUME NEW p \in Procs, Error(p) PROVE RowDiscipline'
  BY <1>15 DEF TypeOK, CallProgress, RowDiscipline, At, Slot, Payload, PCs, Calls, Error, Goto,
     Answer, Rollback, Leaves
<1>16. ASSUME NEW p \in Procs, Crash(p) PROVE RowDiscipline'
  BY <1>16 DEF TypeOK, CallProgress, RowDiscipline, At, Slot, Payload, PCs, Calls, Crash, Goto,
     Leave
<1> QED
  BY <1>1, <1>2, <1>3, <1>4, <1>5, <1>6, <1>7, <1>8, <1>9, <1>10, <1>11, <1>12, <1>13, <1>14,
     <1>15, <1>16
  DEF Next, Proceed

\* A row that was in the way of an INSERT stays.
LEMMA FailedStep ==
    TypeOK /\ CallProgress /\ RowDiscipline /\ FailedAppends /\ [Next]_vars => FailedAppends'
<1> SUFFICES ASSUME TypeOK, CallProgress, RowDiscipline, FailedAppends, [Next]_vars
             PROVE  FailedAppends'
  OBVIOUS
<1>1. CASE UNCHANGED vars
  BY <1>1 DEF TypeOK, CallProgress, RowDiscipline, FailedAppends, SlotConflict, At, Slot,
     Payload, PCs, Calls, vars
<1>2. ASSUME NEW p \in Procs, Invoke(p) PROVE FailedAppends'
  BY <1>2 DEF TypeOK, CallProgress, RowDiscipline, FailedAppends, SlotConflict, At, Slot,
     Payload, PCs, Calls, Invoke, Goto
<1>3. ASSUME NEW p \in Procs, WedgedCall(p) PROVE FailedAppends'
  BY <1>3 DEF TypeOK, CallProgress, RowDiscipline, FailedAppends, SlotConflict, At, Slot,
     Payload, PCs, Calls, WedgedCall, Goto, Answer
<1>4. ASSUME NEW p \in Procs, Insert(p) PROVE FailedAppends'
  BY <1>4 DEF TypeOK, CallProgress, RowDiscipline, FailedAppends, SlotConflict, At, Slot,
     Payload, PCs, Calls, Insert, Goto, MustWait, InsertRow
<1>5. ASSUME NEW p \in Procs, OwnerAfterError(p) PROVE FailedAppends'
  BY <1>5 DEF TypeOK, CallProgress, RowDiscipline, FailedAppends, SlotConflict, At, Slot,
     Payload, PCs, Calls, OwnerAfterError, Goto, Answer, Rollback
<1>6. ASSUME NEW p \in Procs, Owner(p) PROVE FailedAppends'
  BY <1>6 DEF TypeOK, CallProgress, RowDiscipline, FailedAppends, SlotConflict, At, Slot,
     Payload, PCs, Calls, Owner, Goto, Answer, Rollback
<1>7. ASSUME NEW p \in Procs, Select(p) PROVE FailedAppends'
  BY <1>7 DEF TypeOK, CallProgress, RowDiscipline, FailedAppends, SlotConflict, At, Slot,
     Payload, PCs, Calls, Select, Goto, Answer, Rollback
<1>8. ASSUME NEW p \in Procs, ClaimInsert(p) PROVE FailedAppends'
  BY <1>8 DEF TypeOK, CallProgress, RowDiscipline, FailedAppends, SlotConflict, At, Slot,
     Payload, PCs, Calls, ClaimInsert, Goto, Answer, Rollback, MustWait, InsertRow
<1>9. ASSUME NEW p \in Procs, Commit(p) PROVE FailedAppends'
  BY <1>9 DEF TypeOK, CallProgress, RowDiscipline, FailedAppends, SlotConflict, At, Slot,
     Payload, PCs, Calls, Commit, Goto, Put
<1>10. ASSUME NEW p \in Procs, CommitReply(p) PROVE FailedAppends'
  BY <1>10 DEF TypeOK, CallProgress, RowDiscipline, FailedAppends, SlotConflict, At, Slot,
     Payload, PCs, Calls, CommitReply, Goto
<1>11. ASSUME NEW p \in Procs, Return(p) PROVE FailedAppends'
  BY <1>11 DEF TypeOK, CallProgress, RowDiscipline, FailedAppends, SlotConflict, At, Slot,
     Payload, PCs, Calls, Return, Goto, Leave
<1>12. ASSUME NEW p \in Procs, InsertFails(p) PROVE FailedAppends'
  BY <1>12 DEF TypeOK, CallProgress, RowDiscipline, FailedAppends, SlotConflict, At, Slot,
     Payload, PCs, Calls, InsertFails, Goto, Answer, Leaves
<1>13. ASSUME NEW p \in Procs, ClaimInsertFails(p) PROVE FailedAppends'
  BY <1>13 DEF TypeOK, CallProgress, RowDiscipline, FailedAppends, SlotConflict, At, Slot,
     Payload, PCs, Calls, ClaimInsertFails, Goto, Answer, Rollback
<1>14. ASSUME NEW p \in Procs, CommitReplyLost(p) PROVE FailedAppends'
  BY <1>14 DEF TypeOK, CallProgress, RowDiscipline, FailedAppends, SlotConflict, At, Slot,
     Payload, PCs, Calls, CommitReplyLost, Goto, Answer, Leaves
<1>15. ASSUME NEW p \in Procs, Error(p) PROVE FailedAppends'
  BY <1>15 DEF TypeOK, CallProgress, RowDiscipline, FailedAppends, SlotConflict, At, Slot,
     Payload, PCs, Calls, Error, Goto, Answer, Rollback, Leaves
<1>16. ASSUME NEW p \in Procs, Crash(p) PROVE FailedAppends'
  BY <1>16 DEF TypeOK, CallProgress, RowDiscipline, FailedAppends, SlotConflict, At, Slot,
     Payload, PCs, Calls, Crash, Goto, Leave
<1> QED
  BY <1>1, <1>2, <1>3, <1>4, <1>5, <1>6, <1>7, <1>8, <1>9, <1>10, <1>11, <1>12, <1>13, <1>14,
     <1>15, <1>16
  DEF Next, Proceed

\* The Python driver answers False where it read the row, or where its INSERT
\* met it.
LEMMA RefusalStep ==
    TypeOK /\ CallProgress /\ RowDiscipline /\ PyRefusalMeansTaken /\ [Next]_vars
       => PyRefusalMeansTaken'
<1> SUFFICES ASSUME TypeOK, CallProgress, RowDiscipline, PyRefusalMeansTaken, [Next]_vars
             PROVE  PyRefusalMeansTaken'
  OBVIOUS
<1> USE PyAssumption
<1>1. CASE UNCHANGED vars
  BY <1>1 DEF TypeOK, CallProgress, RowDiscipline, PyRefusalMeansTaken, IsPy, At, Slot,
     Payload, PCs, Calls, vars
<1>2. ASSUME NEW p \in Procs, Invoke(p) PROVE PyRefusalMeansTaken'
  BY <1>2 DEF TypeOK, CallProgress, RowDiscipline, PyRefusalMeansTaken, IsPy, At, Slot,
     Payload, PCs, Calls, Invoke, Goto
<1>3. ASSUME NEW p \in Procs, WedgedCall(p) PROVE PyRefusalMeansTaken'
  BY <1>3 DEF TypeOK, CallProgress, RowDiscipline, PyRefusalMeansTaken, IsPy, At, Slot,
     Payload, PCs, Calls, WedgedCall, Goto, Answer
<1>4. ASSUME NEW p \in Procs, Insert(p) PROVE PyRefusalMeansTaken'
  BY <1>4 DEF TypeOK, CallProgress, RowDiscipline, PyRefusalMeansTaken, IsPy, At, Slot,
     Payload, PCs, Calls, Insert, Goto, MustWait, InsertRow, SlotConflict
<1>5. ASSUME NEW p \in Procs, OwnerAfterError(p) PROVE PyRefusalMeansTaken'
  BY <1>5 DEF TypeOK, CallProgress, RowDiscipline, PyRefusalMeansTaken, IsPy, At, Slot,
     Payload, PCs, Calls, OwnerAfterError, Goto, Answer, Rollback, SlotConflict
<1>6. ASSUME NEW p \in Procs, Owner(p) PROVE PyRefusalMeansTaken'
  BY <1>6 DEF TypeOK, CallProgress, RowDiscipline, PyRefusalMeansTaken, IsPy, At, Slot,
     Payload, PCs, Calls, Owner, Goto, Answer, Rollback, SlotConflict
<1>7. ASSUME NEW p \in Procs, Select(p) PROVE PyRefusalMeansTaken'
  BY <1>7 DEF TypeOK, CallProgress, RowDiscipline, PyRefusalMeansTaken, IsPy, At, Slot,
     Payload, PCs, Calls, Select, Goto, Answer, Rollback
<1>8. ASSUME NEW p \in Procs, ClaimInsert(p) PROVE PyRefusalMeansTaken'
  BY <1>8 DEF TypeOK, CallProgress, RowDiscipline, PyRefusalMeansTaken, IsPy, At, Slot,
     Payload, PCs, Calls, ClaimInsert, Goto, Answer, Rollback, MustWait, InsertRow
<1>9. ASSUME NEW p \in Procs, Commit(p) PROVE PyRefusalMeansTaken'
  BY <1>9 DEF TypeOK, CallProgress, RowDiscipline, PyRefusalMeansTaken, IsPy, At, Slot,
     Payload, PCs, Calls, Commit, Goto, Put
<1>10. ASSUME NEW p \in Procs, CommitReply(p) PROVE PyRefusalMeansTaken'
  BY <1>10 DEF TypeOK, CallProgress, RowDiscipline, PyRefusalMeansTaken, IsPy, At, Slot,
     Payload, PCs, Calls, CommitReply, Goto
<1>11. ASSUME NEW p \in Procs, Return(p) PROVE PyRefusalMeansTaken'
  BY <1>11 DEF TypeOK, CallProgress, RowDiscipline, PyRefusalMeansTaken, IsPy, At, Slot,
     Payload, PCs, Calls, Return, Goto, Leave
<1>12. ASSUME NEW p \in Procs, InsertFails(p) PROVE PyRefusalMeansTaken'
  BY <1>12 DEF TypeOK, CallProgress, RowDiscipline, PyRefusalMeansTaken, IsPy, At, Slot,
     Payload, PCs, Calls, InsertFails, Goto, Answer, Leaves
<1>13. ASSUME NEW p \in Procs, ClaimInsertFails(p) PROVE PyRefusalMeansTaken'
  BY <1>13 DEF TypeOK, CallProgress, RowDiscipline, PyRefusalMeansTaken, IsPy, At, Slot,
     Payload, PCs, Calls, ClaimInsertFails, Goto, Answer, Rollback
<1>14. ASSUME NEW p \in Procs, CommitReplyLost(p) PROVE PyRefusalMeansTaken'
  BY <1>14 DEF TypeOK, CallProgress, RowDiscipline, PyRefusalMeansTaken, IsPy, At, Slot,
     Payload, PCs, Calls, CommitReplyLost, Goto, Answer, Leaves
<1>15. ASSUME NEW p \in Procs, Error(p) PROVE PyRefusalMeansTaken'
  BY <1>15 DEF TypeOK, CallProgress, RowDiscipline, PyRefusalMeansTaken, IsPy, At, Slot,
     Payload, PCs, Calls, Error, Goto, Answer, Rollback, Leaves
<1>16. ASSUME NEW p \in Procs, Crash(p) PROVE PyRefusalMeansTaken'
  BY <1>16 DEF TypeOK, CallProgress, RowDiscipline, PyRefusalMeansTaken, IsPy, At, Slot,
     Payload, PCs, Calls, Crash, Goto, Leave
<1> QED
  BY <1>1, <1>2, <1>3, <1>4, <1>5, <1>6, <1>7, <1>8, <1>9, <1>10, <1>11, <1>12, <1>13, <1>14,
     <1>15, <1>16
  DEF Next, Proceed

\* The inductive invariant holds for ever.
THEOREM PostgresInvariant == Spec => []IInv
<1>1. IInv /\ [Next]_vars => IInv'
  BY TypeStep, ProgressStep, RowStep, FailedStep, RefusalStep DEF IInv
<1> QED
  BY InitIInv, <1>1, PTL DEF Spec

\* Whatever statements fail and connections break: an uncommitted row is held
\* only between the INSERT and the end of its call, no slot is held twice, and
\* only a connection of the Python driver outlives a failure.
THEOREM TypeCorrect == Spec => []TypeOK
  BY PostgresInvariant, PTL DEF IInv

\* For any number of processes and faults: when claim_tool_call of the Python
\* driver answers False, somebody holds the slot.
THEOREM PyRefusalTrue == Spec => []PyRefusalMeansTaken
  BY PostgresInvariant, PTL DEF IInv

----------------------------------------------------------------------------
(* Every statement is a step of the log whose operations are indivisible,  *)
(* or invisible to it.                                                     *)

\* The mapping shows a call that is not one of the marked Appends as it is.
LEMMA PromisedPlain ==
    ASSUME NEW p \in Procs, p \notin failed \/ call[p].ans # "ok"
    PROVE  Promised(p) = call[p]
  BY DEF Promised

\* A statement that answers a call, and does not let a marked Append answer
\* "ok", is seen through the mapping as that answer.
LEMMA MappedAnswer ==
    ASSUME TypeOK, NEW p \in Procs, NEW a, call[p] \in Calls,
           p \notin failed \/ (call[p].ans # "ok" /\ a # "ok"),
           call' = [call EXCEPT ![p].ans = a], failed' = failed
    PROVE  Atomic!Answer(p, a)
<1>1. ASSUME NEW q \in Procs PROVE q # p => Promised(q)' = Promised(q)
  BY <1>1 DEF Promised, TypeOK
<1>2. Promised(p) = call[p] /\ Promised(p)' = call'[p]
  BY DEF Promised, TypeOK, Calls
<1>3. call'[p] = [call[p] EXCEPT !.ans = a]
  BY DEF TypeOK
<1> QED
  BY <1>1, <1>2, <1>3, Zenon DEF Atomic!Answer

\* A call that has no answer yet is pending for the indivisible log too.
LEMMA MappedPending ==
    ASSUME TypeOK, CallProgress, NEW p \in Procs,
           pc[p] \notin {"idle", "reply", "return"}
    PROVE  /\ call[p] \in Calls /\ call[p].ans = "pending"
           /\ Promised(p) = call[p]
           /\ Atomic!Pending(p, call[p].op)
<1>1. call[p] \in Calls /\ call[p].ans = "pending"
  BY DEF TypeOK, CallProgress, At, Calls
<1>2. Promised(p) = call[p]
  BY <1>1, PromisedPlain
<1> QED
  BY <1>1, <1>2, NoCallAssumption DEF Atomic!Pending, Calls

\* A statement that leaves calls and marks alone is invisible.
LEMMA MappedStutter ==
    ASSUME db' = db, call' = call, failed' = failed
    PROVE  UNCHANGED Atomic!vars
  BY DEF Atomic!vars, Promised

\* The end of a call, or of its process.
LEMMA MappedLeave ==
    ASSUME TypeOK, NEW p \in Procs, Leave(p)
    PROVE  Atomic!Leave(p) \/ UNCHANGED Atomic!vars
<1>1. ASSUME NEW q \in Procs PROVE q # p => Promised(q)' = Promised(q)
  BY <1>1 DEF Promised, TypeOK, Leave
<1>2. Promised(p)' = None /\ db' = db
  BY DEF Promised, TypeOK, Leave
<1>3. CASE Promised(p) = None
  BY <1>1, <1>2, <1>3 DEF Atomic!vars
<1>4. CASE Promised(p) # None
  BY <1>1, <1>2, <1>4 DEF Atomic!Leave
<1> QED
  BY <1>3, <1>4

\* Every statement is a step of the indivisible log, or invisible to it: an
\* Append takes effect at its COMMIT, and so does a claim; a refusal, a
\* conflict and an error change nothing, whatever the connection went through.
LEMMA AtomicStep == IInv /\ [Next]_vars => [Atomic!Next]_(Atomic!vars)
<1> SUFFICES ASSUME TypeOK, CallProgress, RowDiscipline, FailedAppends, [Next]_vars
             PROVE  [Atomic!Next]_(Atomic!vars)
  BY DEF IInv
<1>1. CASE UNCHANGED vars
  BY <1>1, MappedStutter DEF vars
<1>2. ASSUME NEW p \in Procs, Invoke(p) PROVE Atomic!Invoke(p)
  <2>1. PICK op \in {"append", "claim"}, k \in Slots, v \in Payloads :
           call' = [call EXCEPT ![p] = [op |-> op, slot |-> k, payload |-> v,
                                        ans |-> "pending"]]
    BY <1>2 DEF Invoke
  <2>2. p \notin failed /\ call[p] = None /\ db' = db /\ failed' = failed
    BY <1>2 DEF Invoke, TypeOK, FailedAppends, At
  <2>3. Promised(p) = None /\ Promised(p)' = Atomic!Request(op, k, v)
    BY <2>1, <2>2 DEF Promised, TypeOK, Atomic!Request
  <2>4. ASSUME NEW q \in Procs PROVE q # p => Promised(q)' = Promised(q)
    BY <2>1, <2>2, <2>4 DEF Promised, TypeOK
  <2> QED
    BY <2>2, <2>3, <2>4 DEF Atomic!Invoke
<1>3. ASSUME NEW p \in Procs, WedgedCall(p) PROVE Atomic!Fails(p)
  BY <1>3, MappedPending, MappedAnswer DEF WedgedCall, Answer, Calls, Atomic!Fails
<1>4. ASSUME NEW p \in Procs, Insert(p) PROVE UNCHANGED Atomic!vars
  BY <1>4, MappedStutter DEF Insert
<1>5. ASSUME NEW p \in Procs, OwnerAfterError(p)
      PROVE  Atomic!AppendConflict(p) \/ Atomic!Fails(p)
  <2>1. /\ Atomic!Pending(p, "append") /\ call[p] \in Calls
        /\ Promised(p) = call[p] /\ call[p].ans = "pending"
    BY <1>5, MappedPending DEF OwnerAfterError, CallProgress, At
  <2>2. CASE SlotConflict(db, Slot(p), Payload(p))
    <3>1. Atomic!Answer(p, "conflict")
      BY <1>5, <2>1, <2>2, MappedAnswer DEF OwnerAfterError, Answer
    <3> QED
      BY <1>5, <2>1, <2>2, <3>1
      DEF OwnerAfterError, Slot, Payload, SlotConflict, Atomic!AppendConflict, Atomic!SlotConflict
  <2>3. CASE ~SlotConflict(db, Slot(p), Payload(p))
    <3>1. p \in failed /\ failed' = failed /\ db' = db
      BY <1>5, <2>3 DEF OwnerAfterError, FailedAppends
    <3>2. call' = [call EXCEPT ![p].ans = "ok"]
      BY <1>5, <2>3 DEF OwnerAfterError, Answer
    <3>3. Promised(p)' = [Promised(p) EXCEPT !.ans = "error"]
      BY <2>1, <3>1, <3>2 DEF Promised, TypeOK, Calls
    <3>4. ASSUME NEW q \in Procs PROVE q # p => Promised(q)' = Promised(q)
      BY <3>1, <3>2, <3>4 DEF Promised, TypeOK
    <3> QED
      BY <2>1, <3>1, <3>3, <3>4, Zenon DEF Atomic!Fails, Atomic!Answer
  <2> QED
    BY <2>2, <2>3
<1>6. ASSUME NEW p \in Procs, Owner(p) PROVE UNCHANGED Atomic!vars
  BY <1>6, MappedStutter DEF Owner, RowDiscipline, At, SlotConflict
<1>7. ASSUME NEW p \in Procs, Select(p)
      PROVE  Atomic!NotClaimed(p) \/ UNCHANGED Atomic!vars
  <2>1. Atomic!Pending(p, "claim") /\ call[p] \in Calls /\ call[p].ans = "pending"
    BY <1>7, MappedPending DEF Select, CallProgress, At
  <2> QED
    BY <1>7, <2>1, MappedAnswer, MappedStutter DEF Select, Answer, Atomic!NotClaimed
<1>8. ASSUME NEW p \in Procs, ClaimInsert(p)
      PROVE  Atomic!NotClaimed(p) \/ UNCHANGED Atomic!vars
  <2>1. Atomic!Pending(p, "claim") /\ call[p] \in Calls /\ call[p].ans = "pending"
    BY <1>8, MappedPending DEF ClaimInsert, CallProgress, At
  <2> QED
    BY <1>8, <2>1, MappedAnswer, MappedStutter DEF ClaimInsert, Answer, Atomic!NotClaimed
<1>9. ASSUME NEW p \in Procs, Commit(p) PROVE Atomic!Claimed(p) \/ Atomic!AppendOk(p)
  <2>1. /\ Atomic!Pending(p, call[p].op) /\ call[p] \in Calls
        /\ call[p].ans = "pending" /\ Promised(p) = call[p]
    BY <1>9, MappedPending DEF Commit, At
  <2>2. p \notin failed
    BY <1>9 DEF Commit, FailedAppends, At
  <2>3. CASE call[p].op = "claim"
    <3>1. Slot(p) \notin DOMAIN db /\ open[p] # None
      BY <1>9, <2>3 DEF Commit, RowDiscipline, At
    <3>2. Atomic!Answer(p, "claimed")
      BY <1>9, <2>1, <2>2, <2>3, MappedAnswer DEF Commit
    <3> QED
      BY <1>9, <2>1, <2>3, <3>1, <3>2
      DEF Commit, Slot, Payload, Put, Atomic!Claimed, Atomic!Put
  <2>4. CASE call[p].op = "append"
    <3>1. Atomic!Answer(p, "ok")
      BY <1>9, <2>1, <2>2, <2>4, MappedAnswer DEF Commit
    <3>2. ~SlotConflict(db, Slot(p), Payload(p)) /\ db' = PutIfAbsent(db, Slot(p), Payload(p))
      BY <1>9 DEF Commit, RowDiscipline, At, SlotConflict, PutIfAbsent
    <3> QED
      BY <2>1, <2>4, <3>1, <3>2
      DEF Slot, Payload, SlotConflict, PutIfAbsent, Put,
          Atomic!AppendOk, Atomic!SlotConflict, Atomic!PutIfAbsent, Atomic!Put
  <2> QED
    BY <2>1, <2>3, <2>4 DEF Calls
<1>10. ASSUME NEW p \in Procs, CommitReply(p) PROVE UNCHANGED Atomic!vars
  BY <1>10, MappedStutter DEF CommitReply
<1>11. ASSUME NEW p \in Procs, Return(p) PROVE Atomic!Leave(p) \/ UNCHANGED Atomic!vars
  BY <1>11, MappedLeave DEF Return
<1>12. ASSUME NEW p \in Procs, InsertFails(p)
       PROVE  Atomic!Fails(p) \/ UNCHANGED Atomic!vars
  <2>1. Atomic!Pending(p, "append") /\ call[p] \in Calls /\ call[p].ans = "pending" /\ db' = db
    BY <1>12, MappedPending DEF InsertFails, CallProgress, At
  <2>2. CASE IsPy(p)
    BY <1>12, <2>1, <2>2, MappedAnswer DEF InsertFails, Answer, Atomic!Fails
  <2>3. CASE ~IsPy(p)
    <3>1. call' = call /\ failed' = failed \cup {p}
      BY <1>12, <2>3 DEF InsertFails
    <3>2. ASSUME NEW q \in Procs PROVE Promised(q)' = Promised(q)
      BY <2>1, <3>1, <3>2 DEF Promised
    <3> QED
      BY <2>1, <3>2 DEF Atomic!vars
  <2> QED
    BY <2>2, <2>3
<1>13. ASSUME NEW p \in Procs, ClaimInsertFails(p)
       PROVE  Atomic!NotClaimed(p) \/ Atomic!Fails(p)
  <2>1. Atomic!Pending(p, "claim") /\ call[p] \in Calls /\ call[p].ans = "pending"
    BY <1>13, MappedPending DEF ClaimInsertFails, CallProgress, At
  <2>2. CASE IsPy(p)
    BY <1>13, <2>1, <2>2, MappedAnswer DEF ClaimInsertFails, Answer, Atomic!Fails
  <2>3. CASE ~IsPy(p)
    BY <1>13, <2>1, <2>3, MappedAnswer DEF ClaimInsertFails, Answer, Atomic!NotClaimed
  <2> QED
    BY <2>2, <2>3
<1>14. ASSUME NEW p \in Procs, CommitReplyLost(p) PROVE Atomic!AnswerLost(p)
  <2>1. p \notin failed /\ call[p] \in Calls /\ call[p].ans \in {"ok", "claimed"}
    BY <1>14 DEF CommitReplyLost, CallProgress, FailedAppends, TypeOK, At
  <2>2. Atomic!Answer(p, "error") /\ Promised(p) = call[p] /\ db' = db
    BY <1>14, <2>1, MappedAnswer, PromisedPlain DEF CommitReplyLost, Answer
  <2> QED
    BY <2>1, <2>2, NoCallAssumption DEF Atomic!AnswerLost, Calls
<1>15. ASSUME NEW p \in Procs, Error(p) PROVE Atomic!Fails(p)
  BY <1>15, MappedPending, MappedAnswer DEF Error, Answer, Calls, Atomic!Fails
<1>16. ASSUME NEW p \in Procs, Crash(p) PROVE Atomic!Leave(p) \/ UNCHANGED Atomic!vars
  BY <1>16, MappedLeave DEF Crash
<1> QED
  BY <1>1, <1>2, <1>3, <1>4, <1>5, <1>6, <1>7, <1>8, <1>9, <1>10, <1>11, <1>12, <1>13, <1>14,
     <1>15, <1>16
  DEF Next, Proceed, Atomic!Next

\* The node log on PostgreSQL, Go and Python processes together, makes the
\* promises of the log whose Append and ClaimToolCall are indivisible.
THEOREM PostgresImplementsAtomicLog == Spec => ImplementsAtomicLog
<1>1. Init => Atomic!Init
  BY DEF Init, Promised, Atomic!Init
<1> QED
  BY PostgresInvariant, AtomicStep, <1>1, PTL DEF Spec, ImplementsAtomicLog, Atomic!Spec

----------------------------------------------------------------------------
(* What callers rely on, from the indivisible log.                         *)

\* A row that is committed stays as it is.
RowsKept == \A k \in DOMAIN db : k \in DOMAIN db' /\ db'[k] = db[k]

\* An answer is true as long as the caller may act on it.
TrueAnswer(c) ==
    /\ c.ans \in {"ok", "claimed"} => c.slot \in DOMAIN db /\ db[c.slot] = c.payload
    /\ c.ans = "conflict" => c.slot \in DOMAIN db /\ db[c.slot] # c.payload

\* What the mapping shows of the answers is true, and no two processes have
\* claimed one slot.
Promises ==
    /\ \A p \in Procs : Promised(p) # None => TrueAnswer(Promised(p))
    /\ \A p, q \in Procs :
          /\ p # q /\ Promised(p) # None /\ Promised(q) # None
          /\ Promised(p).ans = "claimed" /\ Promised(q).ans = "claimed"
          => Promised(p).slot # Promised(q).slot

\* The calls the mapping shows are calls.
LEMMA MappedType ==
    ASSUME TypeOK, FailedAppends, NEW p \in Procs
    PROVE  Promised(p) \in Calls \cup {None}
<1>1. call[p] \in Calls \cup {None}
  BY DEF TypeOK
<1>2. CASE call[p] \in Calls
  BY <1>2 DEF Promised, Calls
<1>3. CASE call[p] = None
  <2>1. At(p, "idle")
    BY <1>3, NoCallAssumption DEF TypeOK, Calls
  <2>2. p \notin failed
    BY <2>1 DEF FailedAppends, At
  <2> QED
    BY <1>3, <2>2 DEF Promised
<1> QED
  BY <1>1, <1>2, <1>3

\* One call is answered and the others go on.
LEMMA AnswerFacts ==
    ASSUME TypeOK, FailedAppends, NEW p \in Procs, NEW a, Promised(p) # None, Atomic!Answer(p, a)
    PROVE  /\ \A q \in Procs : q # p => Promised(q)' = Promised(q)
           /\ Promised(p)' = [Promised(p) EXCEPT !.ans = a]
           /\ Promised(p)'.ans = a /\ Promised(p)'.slot = Promised(p).slot
           /\ Promised(p)'.payload = Promised(p).payload
<1> PICK c, d : c = [q \in Procs |-> Promised(q)] /\ d = [q \in Procs |-> Promised(q)']
  OBVIOUS
<1>1. d = [c EXCEPT ![p].ans = a]
  BY DEF Atomic!Answer
<1>2. \A q \in Procs : c[q] = Promised(q) /\ d[q] = Promised(q)'
  OBVIOUS
<1>3. \A q \in Procs : q # p => d[q] = c[q]
  BY <1>1
<1>4. d[p] = [c[p] EXCEPT !.ans = a]
  BY <1>1
<1>5. c[p] \in Calls
  BY <1>2, MappedType
<1>6. d[p].ans = a /\ d[p].slot = c[p].slot /\ d[p].payload = c[p].payload
  BY <1>4, <1>5 DEF Calls
<1> QED
  BY <1>2, <1>3, <1>4, <1>6

\* Rows that stay keep a true answer true.
LEMMA TruthStays ==
    ASSUME NEW c, TrueAnswer(c), RowsKept
    PROVE  /\ c.ans \in {"ok", "claimed"} => c.slot \in DOMAIN db' /\ db'[c.slot] = c.payload
           /\ c.ans = "conflict" => c.slot \in DOMAIN db' /\ db'[c.slot] # c.payload
  BY DEF TrueAnswer, RowsKept

\* Every step of the indivisible log keeps rows and promises.
LEMMA PromisesStep ==
    ASSUME TypeOK, FailedAppends, Promises, [Atomic!Next]_(Atomic!vars)
    PROVE  Promises' /\ RowsKept
<1> DEFINE True2(c) == /\ c.ans \in {"ok", "claimed"} => c.slot \in DOMAIN db' /\ db'[c.slot] = c.payload
                       /\ c.ans = "conflict" => c.slot \in DOMAIN db' /\ db'[c.slot] # c.payload
<1>1. ASSUME NEW p \in Procs, NEW a, Promised(p) # None, Atomic!Answer(p, a), RowsKept,
             a \in {"ok", "claimed"} => Promised(p).slot \in DOMAIN db' /\ db'[Promised(p).slot] = Promised(p).payload,
             a = "conflict" => Promised(p).slot \in DOMAIN db' /\ db'[Promised(p).slot] # Promised(p).payload,
             a = "claimed" => Promised(p).slot \notin DOMAIN db
      PROVE  Promises'
  <2>1. /\ \A q \in Procs : q # p => Promised(q)' = Promised(q)
        /\ Promised(p)'.ans = a /\ Promised(p)'.slot = Promised(p).slot
        /\ Promised(p)'.payload = Promised(p).payload
    BY <1>1, AnswerFacts
  <2>2. ASSUME NEW q \in Procs, Promised(q)' # None PROVE True2(Promised(q)')
    <3>1. CASE q = p
      BY <1>1, <2>1, <3>1
    <3>2. CASE q # p
      <4>1. Promised(q)' = Promised(q) /\ Promised(q) # None
        BY <2>1, <2>2, <3>2
      <4>2. True2(Promised(q))
        BY <1>1, <4>1, TruthStays DEF Promises
      <4> QED
        BY <4>1, <4>2
    <3> QED
      BY <3>1, <3>2
  <2>3. ASSUME NEW q \in Procs, q # p, Promised(q) # None, Promised(q).ans = "claimed", a = "claimed"
        PROVE  Promised(q).slot # Promised(p).slot
    BY <1>1, <2>3 DEF Promises, TrueAnswer
  <2>4. ASSUME NEW q \in Procs, NEW r \in Procs, q # r, Promised(q)' # None, Promised(r)' # None,
               Promised(q)'.ans = "claimed", Promised(r)'.ans = "claimed"
        PROVE  Promised(q)'.slot # Promised(r)'.slot
    <3>1. CASE q = p
      BY <2>1, <2>3, <2>4, <3>1
    <3>2. CASE r = p
      BY <2>1, <2>3, <2>4, <3>2
    <3>3. CASE q # p /\ r # p
      BY <2>1, <2>4, <3>3 DEF Promises
    <3> QED
      BY <3>1, <3>2, <3>3
  <2> QED
    BY <2>2, <2>4 DEF Promises, TrueAnswer
<1>2. ASSUME NEW p \in Procs, db' = db, \A q \in Procs : q # p => Promised(q)' = Promised(q),
             Promised(p)' = None \/ Promised(p)'.ans = "pending"
      PROVE  Promises'
  <2>1. \A q \in Procs : Promised(q)' # None => True2(Promised(q)')
    BY <1>2 DEF Promises, TrueAnswer
  <2> QED
    BY <1>2, <2>1 DEF Promises, TrueAnswer
<1>3. CASE UNCHANGED Atomic!vars
  <2>1. db' = db /\ [q \in Procs |-> Promised(q)'] = [q \in Procs |-> Promised(q)]
    BY <1>3 DEF Atomic!vars
  <2>2. \A q \in Procs : Promised(q)' = Promised(q)
    <3> PICK c, d : c = [q \in Procs |-> Promised(q)] /\ d = [q \in Procs |-> Promised(q)']
      OBVIOUS
    <3>1. c = d /\ \A q \in Procs : c[q] = Promised(q) /\ d[q] = Promised(q)'
      BY <2>1
    <3> QED
      BY <3>1
  <2> QED
    BY <2>1, <2>2 DEF Promises, TrueAnswer, RowsKept
<1>4. ASSUME NEW p \in Procs, Atomic!Invoke(p) PROVE Promises' /\ RowsKept
  <2> PICK c, d : c = [q \in Procs |-> Promised(q)] /\ d = [q \in Procs |-> Promised(q)']
    OBVIOUS
  <2>1. PICK op, k, v : d = [c EXCEPT ![p] = Atomic!Request(op, k, v)]
    BY <1>4 DEF Atomic!Invoke
  <2>2. \A q \in Procs : c[q] = Promised(q) /\ d[q] = Promised(q)'
    OBVIOUS
  <2>3. d[p].ans = "pending" /\ \A q \in Procs : q # p => d[q] = c[q]
    BY <2>1 DEF Atomic!Request
  <2>4. db' = db
    BY <1>4 DEF Atomic!Invoke
  <2> QED
    BY <1>2, <2>2, <2>3, <2>4 DEF RowsKept
<1>5. ASSUME NEW p \in Procs, Atomic!Leave(p) PROVE Promises' /\ RowsKept
  <2> PICK c, d : c = [q \in Procs |-> Promised(q)] /\ d = [q \in Procs |-> Promised(q)']
    OBVIOUS
  <2>1. d = [c EXCEPT ![p] = None] /\ db' = db
    BY <1>5 DEF Atomic!Leave
  <2>2. \A q \in Procs : c[q] = Promised(q) /\ d[q] = Promised(q)'
    OBVIOUS
  <2>3. d[p] = None /\ \A q \in Procs : q # p => d[q] = c[q]
    BY <2>1
  <2> QED
    BY <1>2, <2>1, <2>2, <2>3 DEF RowsKept
<1>6. ASSUME NEW p \in Procs, Atomic!AppendOk(p) PROVE Promises' /\ RowsKept
  <2>1. /\ Promised(p) # None /\ Atomic!Answer(p, "ok")
        /\ ~Atomic!SlotConflict(db, Promised(p).slot, Promised(p).payload)
        /\ db' = Atomic!PutIfAbsent(db, Promised(p).slot, Promised(p).payload)
    BY <1>6 DEF Atomic!AppendOk, Atomic!Pending
  <2>2. RowsKept /\ Promised(p).slot \in DOMAIN db' /\ db'[Promised(p).slot] = Promised(p).payload
    BY <2>1 DEF RowsKept, Atomic!SlotConflict, Atomic!PutIfAbsent, Atomic!Put
  <2> QED
    BY <1>1, <2>1, <2>2
<1>7. ASSUME NEW p \in Procs, Atomic!AppendConflict(p) PROVE Promises' /\ RowsKept
  <2>1. /\ Promised(p) # None /\ Atomic!Answer(p, "conflict") /\ db' = db
        /\ Atomic!SlotConflict(db, Promised(p).slot, Promised(p).payload)
    BY <1>7 DEF Atomic!AppendConflict, Atomic!Pending
  <2>2. RowsKept /\ Promised(p).slot \in DOMAIN db' /\ db'[Promised(p).slot] # Promised(p).payload
    BY <2>1 DEF RowsKept, Atomic!SlotConflict
  <2> QED
    BY <1>1, <2>1, <2>2
<1>8. ASSUME NEW p \in Procs, Atomic!Claimed(p) PROVE Promises' /\ RowsKept
  <2>1. /\ Promised(p) # None /\ Atomic!Answer(p, "claimed") /\ Promised(p).slot \notin DOMAIN db
        /\ db' = Atomic!Put(db, Promised(p).slot, Promised(p).payload)
    BY <1>8 DEF Atomic!Claimed, Atomic!Pending
  <2>2. RowsKept /\ Promised(p).slot \in DOMAIN db' /\ db'[Promised(p).slot] = Promised(p).payload
    BY <2>1 DEF RowsKept, Atomic!Put
  <2> QED
    BY <1>1, <2>1, <2>2
<1>9. ASSUME NEW p \in Procs, Atomic!NotClaimed(p) PROVE Promises' /\ RowsKept
  BY <1>1, <1>9 DEF Atomic!NotClaimed, Atomic!Pending, RowsKept
<1>10. ASSUME NEW p \in Procs, Atomic!Fails(p) \/ Atomic!AnswerLost(p) PROVE Promises' /\ RowsKept
  BY <1>1, <1>10 DEF Atomic!Fails, Atomic!AnswerLost, Atomic!Pending, RowsKept
<1> QED
  BY <1>3, <1>4, <1>5, <1>6, <1>7, <1>8, <1>9, <1>10 DEF Atomic!Next

\* The answers as the mapping shows them, without the false "ok" of a failed
\* INSERT, keep their promises.
LEMMA PromisesHold == Spec => []Promises
<1>1. Init => Promises
  BY DEF Init, Promises, Promised
<1>2. IInv /\ Promises /\ [Next]_vars => Promises'
  BY AtomicStep, PromisesStep DEF IInv
<1> QED
  BY PostgresInvariant, <1>1, <1>2, PTL DEF Spec

\* What the callers are really told.  Go's Append may say "ok" of a node that is
\* not stored when its INSERT failed by itself (failed, see AppendStores); every
\* other answer that says something of the table is true.
AnswersHold ==
    /\ \A p \in Procs : call[p] # None =>
          /\ call[p].ans = "claimed" => Slot(p) \in DOMAIN db /\ db[Slot(p)] = Payload(p)
          /\ call[p].ans = "conflict" => SlotConflict(db, Slot(p), Payload(p))
          /\ call[p].ans = "ok" /\ ~(p \in failed /\ call[p].op = "append") =>
                Slot(p) \in DOMAIN db /\ db[Slot(p)] = Payload(p)
    /\ \A p, q \in Procs :
          /\ p # q /\ call[p] # None /\ call[q] # None
          /\ call[p].ans = "claimed" /\ call[q].ans = "claimed"
          => Slot(p) # Slot(q)

\* postgres/log.go and log.py, for as long as a caller has its answer: a claim
\* that was granted is in the table with the caller's payload and nobody else
\* was granted the slot; a conflict is one; an "ok" is true unless it is that of
\* an Append whose INSERT failed by itself, where the code may answer "ok" for a
\* node it has not stored.
THEOREM AnswersTrueUnlessInsertFailed == Spec => []AnswersHold
<1>1. IInv /\ Promises => AnswersHold
  <2> SUFFICES ASSUME IInv, Promises PROVE AnswersHold
    OBVIOUS
  <2>1. \A p \in Procs : call[p].ans # "ok" \/ p \notin failed => Promised(p) = call[p]
    BY DEF Promised
  <2>2. \A p \in Procs : p \in failed => call[p].op = "append"
    BY DEF IInv, FailedAppends
  <2>3. ASSUME NEW p \in Procs, call[p] # None,
               call[p].ans \in {"claimed", "conflict"} \/ p \notin failed
        PROVE  TrueAnswer(call[p])
    BY <2>1, <2>3 DEF Promises
  <2>4. ASSUME NEW p \in Procs, call[p] # None
        PROVE  /\ call[p].ans = "claimed" => Slot(p) \in DOMAIN db /\ db[Slot(p)] = Payload(p)
               /\ call[p].ans = "conflict" => SlotConflict(db, Slot(p), Payload(p))
               /\ call[p].ans = "ok" /\ ~(p \in failed /\ call[p].op = "append") =>
                     Slot(p) \in DOMAIN db /\ db[Slot(p)] = Payload(p)
    BY <2>2, <2>3, <2>4 DEF TrueAnswer, SlotConflict, Slot, Payload
  <2>5. ASSUME NEW p \in Procs, NEW q \in Procs, p # q, call[p] # None, call[q] # None,
               call[p].ans = "claimed", call[q].ans = "claimed"
        PROVE  Slot(p) # Slot(q)
    <3>1. Promised(p) = call[p] /\ Promised(q) = call[q]
      BY <2>1, <2>5
    <3> QED
      BY <2>5, <3>1 DEF Promises, Slot
  <2> QED
    BY <2>4, <2>5 DEF AnswersHold
<1> QED
  BY PostgresInvariant, PromisesHold, <1>1, PTL

\* A node of the PostgreSQL log is never changed or removed, by whatever
\* statements, faults and retries.
THEOREM NodesAreImmutable == Spec => [][RowsKept]_vars
<1>1. IInv /\ Promises /\ [Next]_vars => [RowsKept]_vars
  BY AtomicStep, PromisesStep DEF IInv
<1> QED
  BY PostgresInvariant, PromisesHold, <1>1, PTL DEF Spec

=============================================================================
