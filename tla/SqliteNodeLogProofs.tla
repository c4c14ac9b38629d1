------------------------ MODULE SqliteNodeLogProofs ------------------------
(***************************************************************************)
(* For any number of processes, slots, payloads and faults: the node log   *)
(* on SQLite answers "claimed" at most once per slot.                      *)
(***************************************************************************)
EXTENDS SqliteNodeLog, TLAPS

\* The write lock is held exactly between the INSERT of a claim and its
\* COMMIT; until then nobody changes the rows the claim has read, and the
\* claimed slot is free.  An unlocked claim still knows its snapshot had the
\* slot free.
LockDiscipline ==
    \A p \in Procs :
       /\ writer = p <=> At(p, "commit")
       /\ At(p, "commit") => Slot(p) \notin DOMAIN db
       /\ At(p, "insert") => Slot(p) \notin DOMAIN snap[p]

IInv == TypeOK /\ LockDiscipline /\ OneWinner

\* An empty database with nobody in it satisfies the inductive invariant.
LEMMA InitIInv == Init => IInv
  BY FaultsAssumption, NoProcAssumption
  DEF Init, IInv, TypeOK, LockDiscipline, OneWinner, At, Slot, Empty, PCs

\* The steps of a call keep the types.
LEMMA TypeStep == TypeOK /\ [Next]_vars => TypeOK'
<1> SUFFICES ASSUME TypeOK, [Next]_vars PROVE TypeOK'
  OBVIOUS
<1> USE FaultsAssumption, NoCallAssumption
<1>1. CASE UNCHANGED vars
  BY <1>1 DEF TypeOK, vars, At
<1>2. ASSUME NEW p \in Procs, Invoke(p) PROVE TypeOK'
  BY <1>2 DEF TypeOK, Invoke, At, Goto, PCs, Calls
<1>3. ASSUME NEW p \in Procs, InsertOrIgnore(p) PROVE TypeOK'
  BY <1>3 DEF PutIfAbsent, Put, TypeOK, InsertOrIgnore, At, Goto, Answer, PCs, Calls, Slot, Payload
<1>4. ASSUME NEW p \in Procs, AppendBusy(p) PROVE TypeOK'
  BY <1>4 DEF TypeOK, AppendBusy, At, Goto, Answer, PCs, Calls
<1>5. ASSUME NEW p \in Procs, SlotOwner(p) PROVE TypeOK'
  BY <1>5 DEF TypeOK, SlotOwner, At, Goto, Answer, PCs, Calls
<1>6. ASSUME NEW p \in Procs, Select(p) PROVE TypeOK'
  BY <1>6 DEF TypeOK, Select, At, Goto, Answer, PCs, Calls
<1>7. ASSUME NEW p \in Procs, Insert(p) PROVE TypeOK'
  BY <1>7 DEF TypeOK, Insert, At, Goto, PCs, Calls
<1>8. ASSUME NEW p \in Procs, InsertBusy(p) PROVE TypeOK'
  BY <1>8 DEF TypeOK, InsertBusy, At, Goto, Answer, PCs, Calls
<1>9. ASSUME NEW p \in Procs, Commit(p) PROVE TypeOK'
  BY <1>9 DEF Put, TypeOK, Commit, At, Goto, Answer, PCs, Calls, Slot, Payload
<1>10. ASSUME NEW p \in Procs, Error(p) PROVE TypeOK'
  BY <1>10 DEF TypeOK, Error, Release, At, Goto, Answer, PCs, Calls
<1>11. ASSUME NEW p \in Procs, InsertError(p) PROVE TypeOK'
  BY <1>11 DEF TypeOK, InsertError, Release, At, Goto, Answer, PCs, Calls
<1>12. ASSUME NEW p \in Procs, Return(p) PROVE TypeOK'
  BY <1>12 DEF TypeOK, Return, Leave, Release, At, Goto, PCs, Calls
<1>13. ASSUME NEW p \in Procs, Crash(p) PROVE TypeOK'
  BY <1>13 DEF TypeOK, Crash, Leave, Release, At, Goto, PCs, Calls
<1> QED
  BY <1>1, <1>2, <1>3, <1>4, <1>5, <1>6, <1>7, <1>8, <1>9, <1>10, <1>11, <1>12, <1>13
  DEF Next

\* Only the process that inserted holds the lock, and while it does no other
\* statement writes.
LEMMA LockStep == TypeOK /\ LockDiscipline /\ [Next]_vars => LockDiscipline'
<1> SUFFICES ASSUME TypeOK, LockDiscipline, [Next]_vars PROVE LockDiscipline'
  OBVIOUS
<1> USE NoProcAssumption
<1>1. CASE UNCHANGED vars
  BY <1>1 DEF TypeOK, LockDiscipline, At, Slot, Calls, PCs, vars
<1>2. ASSUME NEW p \in Procs, Invoke(p) PROVE LockDiscipline'
  BY <1>2 DEF TypeOK, LockDiscipline, At, Slot, Calls, PCs, Invoke, Goto
<1>3. ASSUME NEW p \in Procs, InsertOrIgnore(p) PROVE LockDiscipline'
  BY <1>3 DEF TypeOK, LockDiscipline, At, Slot, Calls, PCs, InsertOrIgnore, Goto, Answer, PutIfAbsent, Put
<1>4. ASSUME NEW p \in Procs, AppendBusy(p) PROVE LockDiscipline'
  BY <1>4 DEF TypeOK, LockDiscipline, At, Slot, Calls, PCs, AppendBusy, Goto, Answer
<1>5. ASSUME NEW p \in Procs, SlotOwner(p) PROVE LockDiscipline'
  BY <1>5 DEF TypeOK, LockDiscipline, At, Slot, Calls, PCs, SlotOwner, Goto, Answer
<1>6. ASSUME NEW p \in Procs, Select(p) PROVE LockDiscipline'
  BY <1>6 DEF TypeOK, LockDiscipline, At, Slot, Calls, PCs, Select, Goto, Answer
<1>7. ASSUME NEW p \in Procs, Insert(p) PROVE LockDiscipline'
  BY <1>7 DEF TypeOK, LockDiscipline, At, Slot, Calls, PCs, Insert, Goto, CanWrite
<1>8. ASSUME NEW p \in Procs, InsertBusy(p) PROVE LockDiscipline'
  BY <1>8 DEF TypeOK, LockDiscipline, At, Slot, Calls, PCs, InsertBusy, Goto, Answer
<1>9. ASSUME NEW p \in Procs, Commit(p) PROVE LockDiscipline'
  BY <1>9 DEF TypeOK, LockDiscipline, At, Slot, Calls, PCs, Commit, Goto, Answer, Put
<1>10. ASSUME NEW p \in Procs, Error(p) PROVE LockDiscipline'
  BY <1>10 DEF TypeOK, LockDiscipline, At, Slot, Calls, PCs, Error, Release, Goto, Answer
<1>11. ASSUME NEW p \in Procs, InsertError(p) PROVE LockDiscipline'
  BY <1>11 DEF TypeOK, LockDiscipline, At, Slot, Calls, PCs, InsertError, Release, Goto, Answer
<1>12. ASSUME NEW p \in Procs, Return(p) PROVE LockDiscipline'
  BY <1>12 DEF TypeOK, LockDiscipline, At, Slot, Calls, PCs, Return, Leave, Release, Goto
<1>13. ASSUME NEW p \in Procs, Crash(p) PROVE LockDiscipline'
  BY <1>13 DEF TypeOK, LockDiscipline, At, Slot, Calls, PCs, Crash, Leave, Release, Goto
<1> QED
  BY <1>1, <1>2, <1>3, <1>4, <1>5, <1>6, <1>7, <1>8, <1>9, <1>10, <1>11, <1>12, <1>13
  DEF Next

\* COMMIT finds its slot free, so nobody was told "claimed" for it before.
LEMMA WinnerStep == IInv /\ [Next]_vars => OneWinner'
<1> SUFFICES ASSUME TypeOK, LockDiscipline, OneWinner, [Next]_vars PROVE OneWinner'
  BY DEF IInv
<1>1. CASE UNCHANGED vars
  BY <1>1 DEF TypeOK, LockDiscipline, OneWinner, At, Slot, Calls, vars
<1>2. ASSUME NEW p \in Procs, Invoke(p) PROVE OneWinner'
  BY <1>2 DEF TypeOK, LockDiscipline, OneWinner, At, Slot, Calls, Invoke, Goto
<1>3. ASSUME NEW p \in Procs, InsertOrIgnore(p) PROVE OneWinner'
  BY <1>3 DEF TypeOK, LockDiscipline, OneWinner, At, Slot, Calls, InsertOrIgnore, Goto, Answer, PutIfAbsent, Put
<1>4. ASSUME NEW p \in Procs, AppendBusy(p) PROVE OneWinner'
  BY <1>4 DEF TypeOK, LockDiscipline, OneWinner, At, Slot, Calls, AppendBusy, Goto, Answer
<1>5. ASSUME NEW p \in Procs, SlotOwner(p) PROVE OneWinner'
  BY <1>5 DEF TypeOK, LockDiscipline, OneWinner, At, Slot, Calls, SlotOwner, Goto, Answer
<1>6. ASSUME NEW p \in Procs, Select(p) PROVE OneWinner'
  BY <1>6 DEF TypeOK, LockDiscipline, OneWinner, At, Slot, Calls, Select, Goto, Answer
<1>7. ASSUME NEW p \in Procs, Insert(p) PROVE OneWinner'
  BY <1>7 DEF TypeOK, LockDiscipline, OneWinner, At, Slot, Calls, Insert, Goto, CanWrite
<1>8. ASSUME NEW p \in Procs, InsertBusy(p) PROVE OneWinner'
  BY <1>8 DEF TypeOK, LockDiscipline, OneWinner, At, Slot, Calls, InsertBusy, Goto, Answer
<1>9. ASSUME NEW p \in Procs, Commit(p) PROVE OneWinner'
  BY <1>9 DEF TypeOK, LockDiscipline, OneWinner, At, Slot, Calls, Commit, Goto, Answer, Put
<1>10. ASSUME NEW p \in Procs, Error(p) PROVE OneWinner'
  BY <1>10 DEF TypeOK, LockDiscipline, OneWinner, At, Slot, Calls, Error, Release, Goto, Answer
<1>11. ASSUME NEW p \in Procs, InsertError(p) PROVE OneWinner'
  BY <1>11 DEF TypeOK, LockDiscipline, OneWinner, At, Slot, Calls, InsertError, Release, Goto, Answer
<1>12. ASSUME NEW p \in Procs, Return(p) PROVE OneWinner'
  BY <1>12 DEF TypeOK, LockDiscipline, OneWinner, At, Slot, Calls, Return, Leave, Release, Goto
<1>13. ASSUME NEW p \in Procs, Crash(p) PROVE OneWinner'
  BY <1>13 DEF TypeOK, LockDiscipline, OneWinner, At, Slot, Calls, Crash, Leave, Release, Goto
<1> QED
  BY <1>1, <1>2, <1>3, <1>4, <1>5, <1>6, <1>7, <1>8, <1>9, <1>10, <1>11, <1>12, <1>13
  DEF Next

\* The inductive invariant holds for ever.
THEOREM SqliteInvariant == Spec => []IInv
<1>1. IInv /\ [Next]_vars => IInv'
  BY TypeStep, LockStep, WinnerStep DEF IInv
<1> QED
  BY InitIInv, <1>1, PTL DEF Spec

\* For any number of processes, the connection, the transaction's lock and the
\* rows have their types, whatever fails and whoever dies.
THEOREM TypeCorrect == Spec => []TypeOK
  BY SqliteInvariant, PTL DEF IInv

\* R02 rests on this: for any number of processes sharing the database, and
\* whatever statements fail or processes die, ClaimToolCall answers
\* claimed=true at most once for a slot, and then the TOOL_CALL row is stored.
THEOREM ClaimHasOneWinner == Spec => []OneWinner
  BY SqliteInvariant, PTL DEF IInv


----------------------------------------------------------------------------
\* A call has its answer exactly when it is about to return, and one that
\* came to slotOwner found its slot taken.
AnswerProgress ==
    \A p \in Procs :
       /\ call[p] # None => (call[p].ans = "pending" <=> ~At(p, "return"))
       /\ At(p, "slotOwner") => Slot(p) \in DOMAIN db

\* Rows stay, so what a caller was told stays true until it returns.
LEMMA AnswerStep ==
    IInv /\ AnswerProgress /\ AnswersAreTrue /\ [Next]_vars
       => AnswerProgress' /\ AnswersAreTrue'
<1> SUFFICES ASSUME TypeOK, LockDiscipline, AnswerProgress, AnswersAreTrue, [Next]_vars
             PROVE  (AnswerProgress /\ AnswersAreTrue)'
  BY DEF IInv
<1> USE NoCallAssumption
<1>1. CASE UNCHANGED vars
  BY <1>1 DEF TypeOK, LockDiscipline, AnswerProgress, AnswersAreTrue, At, Slot, Payload, Calls, SlotConflict, vars
<1>2. ASSUME NEW p \in Procs, Invoke(p) PROVE (AnswerProgress /\ AnswersAreTrue)'
  BY <1>2 DEF TypeOK, LockDiscipline, AnswerProgress, AnswersAreTrue, At, Slot, Payload, Calls, SlotConflict, Invoke, Goto
<1>3. ASSUME NEW p \in Procs, InsertOrIgnore(p) PROVE (AnswerProgress /\ AnswersAreTrue)'
  BY <1>3 DEF TypeOK, LockDiscipline, AnswerProgress, AnswersAreTrue, At, Slot, Payload, Calls, SlotConflict, InsertOrIgnore, Goto, Answer, PutIfAbsent, Put
<1>4. ASSUME NEW p \in Procs, AppendBusy(p) PROVE (AnswerProgress /\ AnswersAreTrue)'
  BY <1>4 DEF TypeOK, LockDiscipline, AnswerProgress, AnswersAreTrue, At, Slot, Payload, Calls, SlotConflict, AppendBusy, Goto, Answer
<1>5. ASSUME NEW p \in Procs, SlotOwner(p) PROVE (AnswerProgress /\ AnswersAreTrue)'
  BY <1>5 DEF TypeOK, LockDiscipline, AnswerProgress, AnswersAreTrue, At, Slot, Payload, Calls, SlotConflict, SlotOwner, Goto, Answer
<1>6. ASSUME NEW p \in Procs, Select(p) PROVE (AnswerProgress /\ AnswersAreTrue)'
  BY <1>6 DEF TypeOK, LockDiscipline, AnswerProgress, AnswersAreTrue, At, Slot, Payload, Calls, SlotConflict, Select, Goto, Answer
<1>7. ASSUME NEW p \in Procs, Insert(p) PROVE (AnswerProgress /\ AnswersAreTrue)'
  BY <1>7 DEF TypeOK, LockDiscipline, AnswerProgress, AnswersAreTrue, At, Slot, Payload, Calls, SlotConflict, Insert, Goto, CanWrite
<1>8. ASSUME NEW p \in Procs, InsertBusy(p) PROVE (AnswerProgress /\ AnswersAreTrue)'
  BY <1>8 DEF TypeOK, LockDiscipline, AnswerProgress, AnswersAreTrue, At, Slot, Payload, Calls, SlotConflict, InsertBusy, Goto, Answer
<1>9. ASSUME NEW p \in Procs, Commit(p) PROVE (AnswerProgress /\ AnswersAreTrue)'
  BY <1>9 DEF TypeOK, LockDiscipline, AnswerProgress, AnswersAreTrue, At, Slot, Payload, Calls, SlotConflict, Commit, Goto, Answer, Put
<1>10. ASSUME NEW p \in Procs, Error(p) PROVE (AnswerProgress /\ AnswersAreTrue)'
  BY <1>10 DEF TypeOK, LockDiscipline, AnswerProgress, AnswersAreTrue, At, Slot, Payload, Calls, SlotConflict, Error, Release, Goto, Answer
<1>11. ASSUME NEW p \in Procs, InsertError(p) PROVE (AnswerProgress /\ AnswersAreTrue)'
  BY <1>11 DEF TypeOK, LockDiscipline, AnswerProgress, AnswersAreTrue, At, Slot, Payload, Calls, SlotConflict, InsertError, Release, Goto, Answer
<1>12. ASSUME NEW p \in Procs, Return(p) PROVE (AnswerProgress /\ AnswersAreTrue)'
  BY <1>12 DEF TypeOK, LockDiscipline, AnswerProgress, AnswersAreTrue, At, Slot, Payload, Calls, SlotConflict, Return, Leave, Release, Goto
<1>13. ASSUME NEW p \in Procs, Crash(p) PROVE (AnswerProgress /\ AnswersAreTrue)'
  BY <1>13 DEF TypeOK, LockDiscipline, AnswerProgress, AnswersAreTrue, At, Slot, Payload, Calls, SlotConflict, Crash, Leave, Release, Goto
<1> QED
  BY <1>1, <1>2, <1>3, <1>4, <1>5, <1>6, <1>7, <1>8, <1>9, <1>10, <1>11, <1>12, <1>13
  DEF Next

\* Rows stay and answers are tied to them: the second inductive invariant.
THEOREM AnswerInvariant == Spec => [](AnswerProgress /\ AnswersAreTrue)
<1>1. Init => AnswerProgress /\ AnswersAreTrue
  BY DEF Init, AnswerProgress, AnswersAreTrue, At
<1> QED
  BY SqliteInvariant, AnswerStep, <1>1, PTL DEF Spec

\* For any number of processes and faults, Append and ClaimToolCall tell
\* their callers the truth about what is stored.
THEOREM AnswersTrue == Spec => []AnswersAreTrue
  BY AnswerInvariant, PTL

\* Every statement is a step of the atomic log, or invisible to it.
LEMMA AtomicStep ==
    IInv /\ AnswerProgress /\ [Next]_vars => [Atomic!Next]_(Atomic!vars)
<1> SUFFICES ASSUME TypeOK, LockDiscipline, AnswerProgress, [Next]_vars
             PROVE  [Atomic!Next]_(Atomic!vars)
  BY DEF IInv
<1> USE NoCallAssumption
<1>1. CASE UNCHANGED vars
  BY <1>1 DEF vars, Atomic!vars
<1>2. ASSUME NEW p \in Procs, Invoke(p) PROVE Atomic!Invoke(p)
  <2>1. PICK op \in {"append", "claim"}, k \in Slots, v \in Payloads :
           call' = [call EXCEPT ![p] = [op |-> op, slot |-> k, payload |-> v,
                                        ans |-> "pending"]]
    BY <1>2 DEF Invoke
  <2>2. call[p] = None /\ db' = db
    BY <1>2 DEF Invoke, TypeOK, At
  <2> QED
    BY <2>1, <2>2 DEF Atomic!Invoke, Atomic!Request
<1>3. ASSUME NEW p \in Procs, InsertOrIgnore(p)
       PROVE  Atomic!AppendOk(p) \/ UNCHANGED Atomic!vars
  <2>1. CASE Slot(p) \in DOMAIN db
    BY <1>3, <2>1 DEF InsertOrIgnore, TypeOK, AnswerProgress, At, Slot, Payload, Calls, Goto, Answer,
       Atomic!AppendOk, Atomic!Pending, Atomic!Answer, Atomic!vars, PutIfAbsent
  <2>2. CASE Slot(p) \notin DOMAIN db
    <3>1. Atomic!Pending(p, "append")
      BY <1>3 DEF InsertOrIgnore, TypeOK, AnswerProgress, At, Calls, Atomic!Pending
    <3> QED
      BY <1>3, <2>2, <3>1
      DEF InsertOrIgnore, Slot, Payload, Answer, PutIfAbsent, Put,
          Atomic!AppendOk, Atomic!Answer, Atomic!SlotConflict, Atomic!PutIfAbsent, Atomic!Put
  <2> QED
    BY <2>1, <2>2
<1>4. ASSUME NEW p \in Procs, AppendBusy(p) PROVE Atomic!Fails(p)
  BY <1>4 DEF AppendBusy, TypeOK, LockDiscipline, AnswerProgress, At, Slot, Payload, Calls, Goto, Answer,
     Atomic!Fails, Atomic!Pending, Atomic!Answer
<1>5. ASSUME NEW p \in Procs, SlotOwner(p) PROVE Atomic!AppendOk(p) \/ Atomic!AppendConflict(p)
  <2>1. Atomic!Pending(p, "append")
    BY <1>5 DEF SlotOwner, TypeOK, AnswerProgress, At, Calls, Atomic!Pending
  <2>2. db' = db /\ db = Atomic!PutIfAbsent(db, call[p].slot, call[p].payload)
    BY <1>5 DEF SlotOwner, AnswerProgress, At, Slot, Atomic!PutIfAbsent
  <2> QED
    BY <1>5, <2>1, <2>2 DEF SlotOwner, Slot, Payload, Answer, SlotConflict,
       Atomic!AppendOk, Atomic!AppendConflict, Atomic!Answer, Atomic!SlotConflict
<1>6. ASSUME NEW p \in Procs, Select(p)
       PROVE  Atomic!NotClaimed(p) \/ UNCHANGED Atomic!vars
  <2>1. CASE Slot(p) \in DOMAIN db
    BY <1>6, <2>1 DEF Select, TypeOK, AnswerProgress, At, Slot, Payload, Calls, Goto, Answer,
       Atomic!NotClaimed, Atomic!Pending, Atomic!Answer, Atomic!vars
  <2>2. CASE Slot(p) \notin DOMAIN db
    BY <1>6, <2>2 DEF Select, TypeOK, AnswerProgress, At, Slot, Payload, Calls, Goto, Answer,
       Atomic!NotClaimed, Atomic!Pending, Atomic!Answer, Atomic!vars
  <2> QED
    BY <2>1, <2>2
<1>7. ASSUME NEW p \in Procs, Insert(p) PROVE UNCHANGED Atomic!vars
  BY <1>7 DEF Insert, Atomic!vars
<1>8. ASSUME NEW p \in Procs, InsertBusy(p) PROVE Atomic!NotClaimed(p)
  BY <1>8 DEF InsertBusy, TypeOK, LockDiscipline, AnswerProgress, At, Slot, Payload, Calls, Goto, Answer,
     Atomic!NotClaimed, Atomic!Pending, Atomic!Answer
<1>9. ASSUME NEW p \in Procs, Commit(p) PROVE Atomic!Claimed(p)
  <2>1. Atomic!Pending(p, "claim")
    BY <1>9 DEF Commit, TypeOK, AnswerProgress, At, Calls, Atomic!Pending
  <2>2. call[p].slot \notin DOMAIN db
    BY <1>9 DEF Commit, LockDiscipline, At, Slot
  <2> QED
    BY <1>9, <2>1, <2>2 DEF Commit, Slot, Payload, Answer, Put,
       Atomic!Claimed, Atomic!Answer, Atomic!Put
<1>10. ASSUME NEW p \in Procs, Error(p) PROVE Atomic!Fails(p)
  BY <1>10 DEF Error, TypeOK, LockDiscipline, AnswerProgress, At, Slot, Payload, Calls, Release, Goto, Answer,
     Atomic!Fails, Atomic!Pending, Atomic!Answer
<1>11. ASSUME NEW p \in Procs, InsertError(p) PROVE Atomic!NotClaimed(p)
  BY <1>11 DEF InsertError, TypeOK, LockDiscipline, AnswerProgress, At, Slot, Payload, Calls, Release, Goto, Answer,
     Atomic!NotClaimed, Atomic!Pending, Atomic!Answer
<1>12. ASSUME NEW p \in Procs, Return(p) PROVE Atomic!Leave(p)
  BY <1>12 DEF Return, TypeOK, LockDiscipline, AnswerProgress, At, Slot, Payload, Calls, Leave, Release, Goto,
     Atomic!Leave, Atomic!Pending, Atomic!Answer
<1>13. ASSUME NEW p \in Procs, Crash(p) PROVE Atomic!Leave(p)
  BY <1>13 DEF Crash, TypeOK, LockDiscipline, AnswerProgress, At, Slot, Payload, Calls, Leave, Release, Goto,
     Atomic!Leave, Atomic!Pending, Atomic!Answer
<1> QED
  BY <1>1, <1>2, <1>3, <1>4, <1>5, <1>6, <1>7, <1>8, <1>9, <1>10, <1>11, <1>12, <1>13
  DEF Next, Atomic!Next

\* The node log on SQLite implements the log whose Append and ClaimToolCall
\* are indivisible, for any number of processes and faults.
THEOREM SqliteImplementsAtomicLog == Spec => ImplementsAtomicLog
<1>1. Init => Atomic!Init
  BY DEF Init, Empty, Atomic!Init
<1> QED
  BY SqliteInvariant, AnswerInvariant, AtomicStep, <1>1, PTL
  DEF Spec, ImplementsAtomicLog, Atomic!Spec

=============================================================================
