------------------------- MODULE DurableMemoProofs -------------------------
(***************************************************************************)
(* For any number of goroutines, processes, keys and faults, on each of    *)
(* the three backends: Step's mutex, its memo and its "fn once".           *)
(***************************************************************************)
EXTENDS DurableMemo, TLAPS

CallRecord ==
    [pc : {"idle", "load", "fn", "save", "return"} \cup Holding, key : Keys \cup {None},
     val : Callers \cup {None}, late : BOOLEAN, ans : {"ok", "error", None}]

\* What a call of Step holds at each of its points.
CallShape ==
    /\ cl \in [Callers -> CallRecord]
    /\ mu \in [Procs -> Callers \cup {None}]
    /\ \A c \in Callers :
          /\ At(c, "idle") => ~cl[c].late
          /\ cl[c].pc \in {"save", "saving", "waiting"} => cl[c].val = c

\* A value that some Step returned is in the memo.  Only Temporal makes Save
\* wait, and then for a workflow that exists.
MemoBacked ==
    /\ settled \subseteq DOMAIN memo
    /\ \A c \in Callers : At(c, "waiting") => backend = "temporal" /\ Stored(c)

\* A closed backend is inside no call, and a closed map is empty.
ClosedIsQuiet ==
    \A p \in closed :
       /\ mu[p] = None
       /\ backend = "memory" => \A k \in DOMAIN memo : k[1] # p

\* A memo that was there when a call began is gone only with the map of a
\* closed memory backend.
LateKept ==
    \A c \in Callers :
       cl[c].late /\ Place(c) \notin settled => backend = "memory" /\ ProcOf[c] \in closed

IInv == TypeOK /\ CallShape /\ MemoBacked /\ ClosedIsQuiet /\ LateKept /\ FnOnceAfterReturn

\* Nobody has called Step: the inductive invariant holds.
LEMMA InitIInv == Init => IInv
<1> SUFFICES ASSUME Init PROVE IInv
  OBVIOUS
<1> USE NoCallerAssumption, MemoFaultsAssumption DEF Init
<1>1. TypeOK
  BY DEF TypeOK, NoCall, Holding, Procs
<1>2. CallShape
  BY DEF CallShape, CallRecord, NoCall, Holding, At
<1>3. MemoBacked /\ ClosedIsQuiet /\ LateKept /\ FnOnceAfterReturn
  BY DEF MemoBacked, ClosedIsQuiet, LateKept, FnOnceAfterReturn, NoCall, At
<1> QED
  BY <1>1, <1>2, <1>3 DEF IInv

\* A goroutine's process is one of the processes, and its memo's place is in
\* that process's map or in the shared store.
LEMMA PlaceType ==
    ASSUME NEW c \in Callers
    PROVE  /\ ProcOf[c] \in Procs
           /\ Store(ProcOf[c]) \in Procs \cup {"shared"}
           /\ cl[c].key \in Keys => Place(c) \in (Procs \cup {"shared"}) \X Keys
  BY DEF Procs, Store, Place

----------------------------------------------------------------------------
\* The call of c goes on to a point; the key it is about, and the calls of the
\* others, stay.
Moves(c, label) ==
    /\ cl' \in [Callers -> CallRecord]
    /\ cl'[c].pc = label /\ cl'[c].key = cl[c].key /\ cl'[c].late = cl[c].late
    /\ \A d \in Callers \ {c} : cl'[d] = cl[d]

\* A call goes on, and keeps its value.
LEMMA GotoMoves ==
    ASSUME CallShape, NEW c \in Callers,
           NEW label \in {"idle", "load", "fn", "save", "return"} \cup Holding, Goto(c, label)
    PROVE  Moves(c, label) /\ cl'[c].val = cl[c].val /\ cl'[c].ans = cl[c].ans
  BY DEF CallShape, CallRecord, Goto, Moves

\* Step returns a value, and from then on its memo is relied upon.
LEMMA ReturnMoves ==
    ASSUME CallShape, NEW c \in Callers, NEW v \in Callers, Return(c, v)
    PROVE  /\ Moves(c, "return") /\ cl'[c].val = v /\ cl'[c].ans = "ok"
           /\ settled' = settled \cup {Place(c)}
<1> DEFINE r == [cl[c] EXCEPT !.pc = "return", !.ans = "ok", !.val = v]
<1>1. cl' = [cl EXCEPT ![c] = r]
  BY DEF CallShape, Return
<1>2. cl[c] \in CallRecord
  BY DEF CallShape
<1>3. /\ r \in CallRecord /\ r.pc = "return" /\ r.val = v /\ r.ans = "ok"
      /\ r.key = cl[c].key /\ r.late = cl[c].late
  BY <1>2 DEF CallRecord
<1>4. settled' = settled \cup {Place(c)}
  BY DEF Return
<1> QED
  BY <1>1, <1>3, <1>4 DEF CallShape, Moves

\* Step returns an error.
LEMMA FailMoves ==
    ASSUME CallShape, NEW c \in Callers, Fail(c)
    PROVE  /\ Moves(c, "return") /\ cl'[c].val = cl[c].val /\ cl'[c].ans = "error"
           /\ settled' = settled
<1> DEFINE r == [cl[c] EXCEPT !.pc = "return", !.ans = "error"]
<1>1. cl' = [cl EXCEPT ![c] = r]
  BY DEF CallShape, Fail
<1>2. cl[c] \in CallRecord
  BY DEF CallShape
<1>3. /\ r \in CallRecord /\ r.pc = "return" /\ r.val = cl[c].val /\ r.ans = "error"
      /\ r.key = cl[c].key /\ r.late = cl[c].late
  BY <1>2 DEF CallRecord
<1>4. settled' = settled
  BY DEF Fail
<1> QED
  BY <1>1, <1>3, <1>4 DEF CallShape, Moves

\* A hit returns the memo, a miss goes on to fn; the mutex is released.
LoadEffect(c) ==
    /\ cl[c].pc = "loading" /\ mu' = [mu EXCEPT ![ProcOf[c]] = None]
    /\ UNCHANGED <<backend, memo, closed, closing, up, faults>>
    /\ \/ /\ Place(c) \in DOMAIN memo /\ Moves(c, "return")
          /\ cl'[c].val = memo[Place(c)].val /\ cl'[c].ans = "ok"
          /\ settled' = settled \cup {Place(c)}
       \/ /\ Place(c) \notin DOMAIN memo /\ Moves(c, "fn")
          /\ cl'[c].val = cl[c].val /\ cl'[c].ans = cl[c].ans
          /\ settled' = settled

\* Load does so.
LEMMA LoadMoves == ASSUME TypeOK, CallShape, NEW c \in Callers, Load(c) PROVE LoadEffect(c)
<1>1. /\ cl[c].pc = "loading" /\ mu' = [mu EXCEPT ![ProcOf[c]] = None]
      /\ UNCHANGED <<backend, memo, closed, closing, up, faults>>
  BY DEF Load, At, Unlock
<1>2. CASE Ready(c)
  <2>1. Place(c) \in DOMAIN memo /\ memo[Place(c)].val \in Callers
    BY <1>2 DEF Ready, Stored, TypeOK
  <2>2. Return(c, memo[Place(c)].val)
    BY <1>2 DEF Load
  <2> QED
    BY <1>1, <2>1, <2>2, ReturnMoves DEF LoadEffect
<1>3. CASE ~Ready(c)
  <2>1. Place(c) \notin DOMAIN memo /\ Goto(c, "fn") /\ settled' = settled
    BY <1>3 DEF Load, Stored
  <2> QED
    BY <1>1, <2>1, GotoMoves DEF LoadEffect, Holding
<1> QED
  BY <1>2, <1>3

\* fn has computed the caller's value.
FnEffect(c) ==
    /\ cl[c].pc = "fn" /\ Moves(c, "save") /\ cl'[c].val = c /\ cl'[c].ans = cl[c].ans
    /\ UNCHANGED <<backend, memo, mu, closed, closing, up, settled, faults>>

\* Fn does so.
LEMMA FnMoves == ASSUME CallShape, NEW c \in Callers, Fn(c) PROVE FnEffect(c)
<1> DEFINE r == [cl[c] EXCEPT !.pc = "save", !.val = c]
<1>1. cl' = [cl EXCEPT ![c] = r]
  BY DEF CallShape, Fn
<1>2. cl[c] \in CallRecord
  BY DEF CallShape
<1>3. /\ r \in CallRecord /\ r.pc = "save" /\ r.val = c /\ r.ans = cl[c].ans
      /\ r.key = cl[c].key /\ r.late = cl[c].late
  BY <1>2 DEF CallRecord
<1>4. /\ cl[c].pc = "fn"
      /\ UNCHANGED <<backend, memo, mu, closed, closing, up, settled, faults>>
  BY DEF Fn, At
<1> QED
  BY <1>1, <1>3, <1>4 DEF CallShape, Moves, FnEffect

\* A new call of Step is about one key, and late if a value of it was returned.
StartEffect(c) ==
    /\ cl' \in [Callers -> CallRecord]
    /\ cl[c].pc \in {"idle", "return"}
    /\ cl'[c].pc = "load" /\ cl'[c].key \in Keys /\ cl'[c].ans = None
    /\ cl'[c].late => <<Store(ProcOf[c]), cl'[c].key>> \in settled
    /\ \A d \in Callers \ {c} : cl'[d] = cl[d]
    /\ UNCHANGED <<backend, memo, mu, closed, closing, up, settled, faults>>

\* StartStep does so.
LEMMA StartMoves ==
    ASSUME CallShape, NEW c \in Callers, StartStep(c) PROVE StartEffect(c)
<1>1. PICK k \in Keys :
         cl' = [cl EXCEPT ![c] = [NoCall EXCEPT !.pc = "load", !.key = k,
                                     !.late = <<Store(ProcOf[c]), k>> \in settled]]
  BY DEF StartStep
<1> DEFINE was == <<Store(ProcOf[c]), k>> \in settled
           r == [NoCall EXCEPT !.pc = "load", !.key = k, !.late = was]
<1>2. was \in BOOLEAN
  OBVIOUS
<1>3. cl' = [cl EXCEPT ![c] = r]
  BY <1>1
<1> HIDE DEF was
<1>4. NoCall \in CallRecord /\ NoCall.ans = None
  BY DEF NoCall, CallRecord
<1>5. /\ r \in CallRecord /\ r.pc = "load" /\ r.key = k /\ r.ans = None /\ r.late = was
  BY <1>2, <1>4 DEF CallRecord
<1> HIDE DEF r
<1>6. /\ cl' \in [Callers -> CallRecord] /\ cl'[c] = r
      /\ \A d \in Callers \ {c} : cl'[d] = cl[d]
  BY <1>3, <1>5 DEF CallShape
<1>7. r.late => <<Store(ProcOf[c]), k>> \in settled
  BY <1>5 DEF was
<1>8. /\ cl[c].pc \in {"idle", "return"}
      /\ UNCHANGED <<backend, memo, mu, closed, closing, up, settled, faults>>
  BY DEF StartStep, AtRest
<1> QED
  BY <1>5, <1>6, <1>7, <1>8 DEF StartEffect

\* The process of p ends: its calls are gone.
LEMMA DieMoves ==
    ASSUME CallShape, NEW p \in Procs, Die(p)
    PROVE  /\ cl' \in [Callers -> CallRecord]
           /\ \A d \in Callers : cl'[d] = IF ProcOf[d] = p THEN NoCall ELSE cl[d]
  BY DEF CallShape, CallRecord, Die, NoCall

\* Each step leaves every call in a shape of its point.
LEMMA ShapeStep == TypeOK /\ CallShape /\ [Next]_vars => CallShape'
<1> SUFFICES ASSUME TypeOK, CallShape, [Next]_vars PROVE CallShape'
  OBVIOUS
<1> USE PlaceType, ClosersAssumption
<1>1. CASE UNCHANGED vars
  BY <1>1 DEF TypeOK, CallShape, CallRecord, Holding, At, NoCall, Moves, vars
<1>2. ASSUME NEW c \in Callers, StartStep(c) PROVE CallShape'
  <2>1. StartEffect(c)
    BY <1>2, StartMoves
  <2> QED
    BY <1>2, <2>1 DEF TypeOK, CallShape, CallRecord, Holding, At, NoCall, Moves,
       StartEffect
<1>3. ASSUME NEW c \in Callers, Load(c) PROVE CallShape'
  <2>1. LoadEffect(c)
    BY <1>3, LoadMoves
  <2> QED
    BY <1>3, <2>1 DEF TypeOK, CallShape, CallRecord, Holding, At, NoCall, Moves, LoadEffect
<1>4. ASSUME NEW c \in Callers, Fn(c) PROVE CallShape'
  <2>1. FnEffect(c)
    BY <1>4, FnMoves
  <2> QED
    BY <1>4, <2>1 DEF TypeOK, CallShape, CallRecord, Holding, At, NoCall, Moves, FnEffect
<1>5. ASSUME NEW c \in Callers, Save(c) PROVE CallShape'
  BY <1>5, GotoMoves, ReturnMoves, SMTT(30) DEF TypeOK, CallShape, CallRecord, Holding, At, NoCall,
     Moves, Save, Unlock, PutIfAbsent, Put
<1>6. ASSUME NEW c \in Callers, SaveWait(c) PROVE CallShape'
  BY <1>6, ReturnMoves, SMTT(30) DEF TypeOK, CallShape, CallRecord, Holding, At, NoCall, Moves,
     SaveWait, Unlock, Ready
<1>7. ASSUME NEW c \in Callers, ClosedPanic(c) PROVE CallShape'
  BY <1>7, DieMoves DEF TypeOK, CallShape, CallRecord, Holding, At, NoCall, Moves,
     ClosedPanic, Die, Own
<1>8. ASSUME NEW c \in Callers, ClosedMiss(c) PROVE CallShape'
  <2>1. Moves(c, "fn") /\ cl'[c].val = cl[c].val
    BY <1>8, GotoMoves DEF ClosedMiss
  <2> QED
    BY <1>8, <2>1 DEF TypeOK, CallShape, CallRecord, Holding, At, NoCall, Moves, ClosedMiss
<1>9. ASSUME NEW c \in Callers, LoadLock(c) PROVE CallShape'
  <2>1. Moves(c, "loading") /\ cl'[c].ans = cl[c].ans
    BY <1>9, GotoMoves DEF LoadLock, Holding
  <2> QED
    BY <1>9, <2>1 DEF TypeOK, CallShape, CallRecord, Holding, At, NoCall, Moves, LoadLock,
       Lock
<1>10. ASSUME NEW c \in Callers, SaveLock(c) PROVE CallShape'
  BY <1>10, GotoMoves DEF TypeOK, CallShape, CallRecord, Holding, At, NoCall, Moves,
     SaveLock, Lock
<1>11. ASSUME NEW c \in Callers, ClosedError(c) PROVE CallShape'
  BY <1>11, FailMoves DEF TypeOK, CallShape, CallRecord, Holding, At, NoCall, Moves,
     ClosedError
<1>12. ASSUME NEW c \in Callers, FnFails(c) PROVE CallShape'
  BY <1>12, FailMoves DEF TypeOK, CallShape, CallRecord, Holding, At, NoCall, Moves,
     FnFails, Fault
<1>13. ASSUME NEW c \in Callers, SaveFails(c) PROVE CallShape'
  BY <1>13, FailMoves DEF TypeOK, CallShape, CallRecord, Holding, At, NoCall, Moves,
     SaveFails, Fault, Unlock, PutIfAbsent, Put
<1>14. ASSUME NEW c \in Callers, Expires(c) PROVE CallShape'
  BY <1>14, FailMoves DEF TypeOK, CallShape, CallRecord, Holding, At, NoCall, Moves,
     Expires, Fault, Unlock
<1>15. ASSUME NEW p \in Closers, CallClose(p) PROVE CallShape'
  BY <1>15 DEF TypeOK, CallShape, CallRecord, Holding, At, NoCall, Moves, CallClose
<1>16. ASSUME NEW p \in Closers, Close(p) PROVE CallShape'
  BY <1>16 DEF TypeOK, CallShape, CallRecord, Holding, At, NoCall, Moves, Close, Own
<1>17. ASSUME NEW p \in Procs, Crash(p) PROVE CallShape'
  BY <1>17, DieMoves DEF TypeOK, CallShape, CallRecord, Holding, At, NoCall, Moves, Crash,
     Fault, Die, Own
<1>18. ASSUME NEW p \in Procs \cup {"shared"}, NEW k \in Keys, MemoWorkflow(<<p, k>>) PROVE CallShape'
  BY <1>18 DEF TypeOK, CallShape, CallRecord, Holding, At, NoCall, Moves, MemoWorkflow
<1>19. CASE WorkerStops
  BY <1>19 DEF TypeOK, CallShape, CallRecord, Holding, At, NoCall, Moves, WorkerStops,
     Fault
<1>20. CASE WorkerStarts
  BY <1>20 DEF TypeOK, CallShape, CallRecord, Holding, At, NoCall, Moves, WorkerStarts
<1> QED
  BY <1>1, <1>2, <1>3, <1>4, <1>5, <1>6, <1>7, <1>8, <1>9, <1>10, <1>11, <1>12, <1>13,
     <1>14, <1>15, <1>16, <1>17, <1>18, <1>19, <1>20
  DEF Next, Proceed, Acquire

\* The mutex of a process is with the goroutine that is inside Load or Save.
LEMMA TypeStep == TypeOK /\ CallShape /\ [Next]_vars => TypeOK'
<1> SUFFICES ASSUME TypeOK, CallShape, [Next]_vars PROVE TypeOK'
  OBVIOUS
<1> USE PlaceType, ClosersAssumption, MemoFaultsAssumption, NoCallerAssumption
<1>1. CASE UNCHANGED vars
  BY <1>1 DEF TypeOK, CallShape, CallRecord, Holding, At, NoCall, Moves, vars
<1>2. ASSUME NEW c \in Callers, StartStep(c) PROVE TypeOK'
  <2>1. StartEffect(c)
    BY <1>2, StartMoves
  <2> QED
    BY <1>2, <2>1 DEF TypeOK, CallShape, CallRecord, Holding, At, NoCall, Moves,
       StartEffect
<1>3. ASSUME NEW c \in Callers, Load(c) PROVE TypeOK'
  <2>1. LoadEffect(c)
    BY <1>3, LoadMoves
  <2> QED
    BY <1>3, <2>1 DEF TypeOK, CallShape, CallRecord, Holding, At, NoCall, Moves, LoadEffect
<1>4. ASSUME NEW c \in Callers, Fn(c) PROVE TypeOK'
  <2>1. FnEffect(c)
    BY <1>4, FnMoves
  <2> QED
    BY <1>4, <2>1 DEF TypeOK, CallShape, CallRecord, Holding, At, NoCall, Moves, FnEffect
<1>5. ASSUME NEW c \in Callers, Save(c) PROVE TypeOK'
  BY <1>5, GotoMoves, ReturnMoves, SMTT(30) DEF TypeOK, CallShape, CallRecord, Holding, At, NoCall,
     Moves, Save, Unlock, PutIfAbsent, Put
<1>6. ASSUME NEW c \in Callers, SaveWait(c) PROVE TypeOK'
  BY <1>6, ReturnMoves, SMTT(30) DEF TypeOK, CallShape, CallRecord, Holding, At, NoCall, Moves,
     SaveWait, Unlock, Ready
<1>7. ASSUME NEW c \in Callers, ClosedPanic(c) PROVE TypeOK'
  BY <1>7, DieMoves DEF TypeOK, CallShape, CallRecord, Holding, At, NoCall, Moves,
     ClosedPanic, Die, Own
<1>8. ASSUME NEW c \in Callers, ClosedMiss(c) PROVE TypeOK'
  <2>1. Moves(c, "fn") /\ cl'[c].val = cl[c].val
    BY <1>8, GotoMoves DEF ClosedMiss
  <2> QED
    BY <1>8, <2>1 DEF TypeOK, CallShape, CallRecord, Holding, At, NoCall, Moves, ClosedMiss
<1>9. ASSUME NEW c \in Callers, LoadLock(c) PROVE TypeOK'
  <2>1. Moves(c, "loading") /\ cl'[c].ans = cl[c].ans
    BY <1>9, GotoMoves DEF LoadLock, Holding
  <2> QED
    BY <1>9, <2>1 DEF TypeOK, CallShape, CallRecord, Holding, At, NoCall, Moves, LoadLock,
       Lock
<1>10. ASSUME NEW c \in Callers, SaveLock(c) PROVE TypeOK'
  BY <1>10, GotoMoves DEF TypeOK, CallShape, CallRecord, Holding, At, NoCall, Moves,
     SaveLock, Lock
<1>11. ASSUME NEW c \in Callers, ClosedError(c) PROVE TypeOK'
  BY <1>11, FailMoves DEF TypeOK, CallShape, CallRecord, Holding, At, NoCall, Moves,
     ClosedError
<1>12. ASSUME NEW c \in Callers, FnFails(c) PROVE TypeOK'
  BY <1>12, FailMoves DEF TypeOK, CallShape, CallRecord, Holding, At, NoCall, Moves,
     FnFails, Fault
<1>13. ASSUME NEW c \in Callers, SaveFails(c) PROVE TypeOK'
  <2>1. /\ memo' = memo \/ memo' = PutIfAbsent(memo, Place(c), [val |-> c, done |-> FALSE])
        /\ Place(c) \in (Procs \cup {"shared"}) \X Keys
    BY <1>13 DEF SaveFails, TypeOK, CallShape, At
  <2>2. DOMAIN memo' \subseteq (Procs \cup {"shared"}) \X Keys
    BY <2>1 DEF TypeOK, PutIfAbsent, Put
  <2>3. ASSUME NEW k \in DOMAIN memo' PROVE memo'[k] \in [val : Callers, done : BOOLEAN]
    <3>1. memo'[k] = [val |-> c, done |-> FALSE] \/ (k \in DOMAIN memo /\ memo'[k] = memo[k])
      BY <2>1, <2>3 DEF PutIfAbsent, Put
    <3>2. [val |-> c, done |-> FALSE] \in [val : Callers, done : BOOLEAN]
      OBVIOUS
    <3> QED
      BY <3>1, <3>2 DEF TypeOK
  <2> QED
    BY <1>13, <2>2, <2>3, FailMoves DEF TypeOK, CallShape, CallRecord, Holding, At, Moves, SaveFails,
       Fault, Unlock
<1>14. ASSUME NEW c \in Callers, Expires(c) PROVE TypeOK'
  BY <1>14, FailMoves DEF TypeOK, CallShape, CallRecord, Holding, At, NoCall, Moves,
     Expires, Fault, Unlock
<1>15. ASSUME NEW p \in Closers, CallClose(p) PROVE TypeOK'
  BY <1>15 DEF TypeOK, CallShape, CallRecord, Holding, At, NoCall, Moves, CallClose
<1>16. ASSUME NEW p \in Closers, Close(p) PROVE TypeOK'
  BY <1>16 DEF TypeOK, CallShape, CallRecord, Holding, At, NoCall, Moves, Close, Own
<1>17. ASSUME NEW p \in Procs, Crash(p) PROVE TypeOK'
  BY <1>17, DieMoves DEF TypeOK, CallShape, CallRecord, Holding, At, NoCall, Moves, Crash,
     Fault, Die, Own
<1>18. ASSUME NEW p \in Procs \cup {"shared"}, NEW k \in Keys, MemoWorkflow(<<p, k>>) PROVE TypeOK'
  <2>1. ASSUME NEW j \in DOMAIN memo
        PROVE  [memo[j] EXCEPT !.done = TRUE] \in [val : Callers, done : BOOLEAN]
    <3>1. memo[j] \in [val : Callers, done : BOOLEAN]
      BY <2>1 DEF TypeOK
    <3> QED
      BY <3>1
  <2>2. /\ DOMAIN memo' = DOMAIN memo
        /\ \A j \in DOMAIN memo' : memo'[j] \in [val : Callers, done : BOOLEAN]
    BY <1>18, <2>1 DEF MemoWorkflow, TypeOK
  <2> QED
    BY <1>18, <2>2 DEF MemoWorkflow, TypeOK, At
<1>19. CASE WorkerStops
  BY <1>19 DEF TypeOK, CallShape, CallRecord, Holding, At, NoCall, Moves, WorkerStops,
     Fault
<1>20. CASE WorkerStarts
  BY <1>20 DEF TypeOK, CallShape, CallRecord, Holding, At, NoCall, Moves, WorkerStarts
<1> QED
  BY <1>1, <1>2, <1>3, <1>4, <1>5, <1>6, <1>7, <1>8, <1>9, <1>10, <1>11, <1>12, <1>13,
     <1>14, <1>15, <1>16, <1>17, <1>18, <1>19, <1>20
  DEF Next, Proceed, Acquire

\* Once a value is returned its memo stays, but for the map of a memory
\* backend that is closed or dies, which takes its keys out of settled too.
LEMMA BackedStep == TypeOK /\ CallShape /\ MemoBacked /\ [Next]_vars => MemoBacked'
<1> SUFFICES ASSUME TypeOK, CallShape, MemoBacked, [Next]_vars PROVE MemoBacked'
  OBVIOUS
<1> USE PlaceType
<1>1. CASE UNCHANGED vars
  BY <1>1 DEF TypeOK, CallShape, MemoBacked, Holding, At, NoCall, Moves, Stored, Place,
     Store, vars
<1>2. ASSUME NEW c \in Callers, StartStep(c) PROVE MemoBacked'
  <2>1. StartEffect(c)
    BY <1>2, StartMoves
  <2> QED
    BY <1>2, <2>1 DEF TypeOK, CallShape, MemoBacked, Holding, At, NoCall, Moves, Stored,
       Place, Store, StartEffect
<1>3. ASSUME NEW c \in Callers, Load(c) PROVE MemoBacked'
  <2>1. LoadEffect(c)
    BY <1>3, LoadMoves
  <2> QED
    BY <1>3, <2>1 DEF TypeOK, CallShape, MemoBacked, Holding, At, NoCall, Moves, Stored,
       Place, Store, LoadEffect
<1>4. ASSUME NEW c \in Callers, Fn(c) PROVE MemoBacked'
  <2>1. FnEffect(c)
    BY <1>4, FnMoves
  <2> QED
    BY <1>4, <2>1 DEF TypeOK, CallShape, MemoBacked, Holding, At, NoCall, Moves, Stored,
       Place, Store, FnEffect
<1>5. ASSUME NEW c \in Callers, Save(c) PROVE MemoBacked'
  BY <1>5, GotoMoves, ReturnMoves, SMTT(30) DEF TypeOK, CallShape, MemoBacked, Holding, At, NoCall,
     Moves, Stored, Place, Store, Save, Unlock, PutIfAbsent, Put
<1>6. ASSUME NEW c \in Callers, SaveWait(c) PROVE MemoBacked'
  BY <1>6, ReturnMoves, SMTT(30) DEF TypeOK, CallShape, MemoBacked, Holding, At, NoCall, Moves,
     Stored, Place, Store, SaveWait, Unlock, Ready
<1>7. ASSUME NEW c \in Callers, ClosedPanic(c) PROVE MemoBacked'
  BY <1>7, DieMoves DEF TypeOK, CallShape, MemoBacked, Holding, At, NoCall, Moves, Stored,
     Place, Store, ClosedPanic, Die, Own
<1>8. ASSUME NEW c \in Callers, ClosedMiss(c) PROVE MemoBacked'
  <2>1. Moves(c, "fn") /\ cl'[c].val = cl[c].val
    BY <1>8, GotoMoves DEF ClosedMiss
  <2> QED
    BY <1>8, <2>1 DEF TypeOK, CallShape, MemoBacked, Holding, At, NoCall, Moves, Stored,
       Place, Store, ClosedMiss
<1>9. ASSUME NEW c \in Callers, LoadLock(c) PROVE MemoBacked'
  <2>1. Moves(c, "loading") /\ cl'[c].ans = cl[c].ans
    BY <1>9, GotoMoves DEF LoadLock, Holding
  <2> QED
    BY <1>9, <2>1 DEF TypeOK, CallShape, MemoBacked, Holding, At, NoCall, Moves, Stored,
       Place, Store, LoadLock, Lock
<1>10. ASSUME NEW c \in Callers, SaveLock(c) PROVE MemoBacked'
  BY <1>10, GotoMoves DEF TypeOK, CallShape, MemoBacked, Holding, At, NoCall, Moves,
     Stored, Place, Store, SaveLock, Lock
<1>11. ASSUME NEW c \in Callers, ClosedError(c) PROVE MemoBacked'
  BY <1>11, FailMoves DEF TypeOK, CallShape, MemoBacked, Holding, At, NoCall, Moves,
     Stored, Place, Store, ClosedError
<1>12. ASSUME NEW c \in Callers, FnFails(c) PROVE MemoBacked'
  BY <1>12, FailMoves DEF TypeOK, CallShape, MemoBacked, Holding, At, NoCall, Moves,
     Stored, Place, Store, FnFails, Fault
<1>13. ASSUME NEW c \in Callers, SaveFails(c) PROVE MemoBacked'
  BY <1>13, FailMoves DEF TypeOK, CallShape, MemoBacked, Holding, At, NoCall, Moves,
     Stored, Place, Store, SaveFails, Fault, Unlock, PutIfAbsent, Put
<1>14. ASSUME NEW c \in Callers, Expires(c) PROVE MemoBacked'
  BY <1>14, FailMoves DEF TypeOK, CallShape, MemoBacked, Holding, At, NoCall, Moves,
     Stored, Place, Store, Expires, Fault, Unlock
<1>15. ASSUME NEW p \in Closers, CallClose(p) PROVE MemoBacked'
  BY <1>15 DEF TypeOK, CallShape, MemoBacked, Holding, At, NoCall, Moves, Stored, Place,
     Store, CallClose
<1>16. ASSUME NEW p \in Closers, Close(p) PROVE MemoBacked'
  BY <1>16 DEF TypeOK, CallShape, MemoBacked, Holding, At, NoCall, Moves, Stored, Place,
     Store, Close, Own
<1>17. ASSUME NEW p \in Procs, Crash(p) PROVE MemoBacked'
  BY <1>17, DieMoves DEF TypeOK, CallShape, MemoBacked, Holding, At, NoCall, Moves, Stored,
     Place, Store, Crash, Fault, Die, Own
<1>18. ASSUME NEW p \in Procs \cup {"shared"}, NEW k \in Keys, MemoWorkflow(<<p, k>>) PROVE MemoBacked'
  BY <1>18 DEF TypeOK, CallShape, MemoBacked, Holding, At, NoCall, Moves, Stored, Place,
     Store, MemoWorkflow
<1>19. CASE WorkerStops
  BY <1>19 DEF TypeOK, CallShape, MemoBacked, Holding, At, NoCall, Moves, Stored, Place,
     Store, WorkerStops, Fault
<1>20. CASE WorkerStarts
  BY <1>20 DEF TypeOK, CallShape, MemoBacked, Holding, At, NoCall, Moves, Stored, Place,
     Store, WorkerStarts
<1> QED
  BY <1>1, <1>2, <1>3, <1>4, <1>5, <1>6, <1>7, <1>8, <1>9, <1>10, <1>11, <1>12, <1>13,
     <1>14, <1>15, <1>16, <1>17, <1>18, <1>19, <1>20
  DEF Next, Proceed, Acquire

\* Close waits for the mutex, and nobody takes the mutex of a closed backend.
LEMMA QuietStep == TypeOK /\ CallShape /\ ClosedIsQuiet /\ [Next]_vars => ClosedIsQuiet'
<1> SUFFICES ASSUME TypeOK, CallShape, ClosedIsQuiet, [Next]_vars PROVE ClosedIsQuiet'
  OBVIOUS
<1> USE PlaceType, NoCallerAssumption
<1>1. CASE UNCHANGED vars
  BY <1>1 DEF TypeOK, CallShape, ClosedIsQuiet, Holding, At, NoCall, Moves, Place, Store,
     vars
<1>2. ASSUME NEW c \in Callers, StartStep(c) PROVE ClosedIsQuiet'
  <2>1. StartEffect(c)
    BY <1>2, StartMoves
  <2> QED
    BY <1>2, <2>1 DEF TypeOK, CallShape, ClosedIsQuiet, Holding, At, NoCall, Moves, Place,
       Store, StartEffect
<1>3. ASSUME NEW c \in Callers, Load(c) PROVE ClosedIsQuiet'
  <2>1. LoadEffect(c)
    BY <1>3, LoadMoves
  <2> QED
    BY <1>3, <2>1 DEF TypeOK, CallShape, ClosedIsQuiet, Holding, At, NoCall, Moves, Place,
       Store, LoadEffect
<1>4. ASSUME NEW c \in Callers, Fn(c) PROVE ClosedIsQuiet'
  <2>1. FnEffect(c)
    BY <1>4, FnMoves
  <2> QED
    BY <1>4, <2>1 DEF TypeOK, CallShape, ClosedIsQuiet, Holding, At, NoCall, Moves, Place,
       Store, FnEffect
<1>5. ASSUME NEW c \in Callers, Save(c) PROVE ClosedIsQuiet'
  BY <1>5, GotoMoves, ReturnMoves, SMTT(30) DEF TypeOK, CallShape, ClosedIsQuiet, Holding, At,
     NoCall, Moves, Place, Store, Save, Unlock, PutIfAbsent, Put
<1>6. ASSUME NEW c \in Callers, SaveWait(c) PROVE ClosedIsQuiet'
  BY <1>6, ReturnMoves, SMTT(30) DEF TypeOK, CallShape, ClosedIsQuiet, Holding, At, NoCall, Moves,
     Place, Store, SaveWait, Unlock, Ready
<1>7. ASSUME NEW c \in Callers, ClosedPanic(c) PROVE ClosedIsQuiet'
  BY <1>7, DieMoves DEF TypeOK, CallShape, ClosedIsQuiet, Holding, At, NoCall, Moves,
     Place, Store, ClosedPanic, Die, Own
<1>8. ASSUME NEW c \in Callers, ClosedMiss(c) PROVE ClosedIsQuiet'
  <2>1. Moves(c, "fn") /\ cl'[c].val = cl[c].val
    BY <1>8, GotoMoves DEF ClosedMiss
  <2> QED
    BY <1>8, <2>1 DEF TypeOK, CallShape, ClosedIsQuiet, Holding, At, NoCall, Moves, Place,
       Store, ClosedMiss
<1>9. ASSUME NEW c \in Callers, LoadLock(c) PROVE ClosedIsQuiet'
  <2>1. Moves(c, "loading") /\ cl'[c].ans = cl[c].ans
    BY <1>9, GotoMoves DEF LoadLock, Holding
  <2> QED
    BY <1>9, <2>1 DEF TypeOK, CallShape, ClosedIsQuiet, Holding, At, NoCall, Moves, Place,
       Store, LoadLock, Lock
<1>10. ASSUME NEW c \in Callers, SaveLock(c) PROVE ClosedIsQuiet'
  BY <1>10, GotoMoves DEF TypeOK, CallShape, ClosedIsQuiet, Holding, At, NoCall, Moves,
     Place, Store, SaveLock, Lock
<1>11. ASSUME NEW c \in Callers, ClosedError(c) PROVE ClosedIsQuiet'
  BY <1>11, FailMoves DEF TypeOK, CallShape, ClosedIsQuiet, Holding, At, NoCall, Moves,
     Place, Store, ClosedError
<1>12. ASSUME NEW c \in Callers, FnFails(c) PROVE ClosedIsQuiet'
  BY <1>12, FailMoves DEF TypeOK, CallShape, ClosedIsQuiet, Holding, At, NoCall, Moves,
     Place, Store, FnFails, Fault
<1>13. ASSUME NEW c \in Callers, SaveFails(c) PROVE ClosedIsQuiet'
  BY <1>13, FailMoves DEF TypeOK, CallShape, ClosedIsQuiet, Holding, At, NoCall, Moves,
     Place, Store, SaveFails, Fault, Unlock, PutIfAbsent, Put
<1>14. ASSUME NEW c \in Callers, Expires(c) PROVE ClosedIsQuiet'
  BY <1>14, FailMoves DEF TypeOK, CallShape, ClosedIsQuiet, Holding, At, NoCall, Moves,
     Place, Store, Expires, Fault, Unlock
<1>15. ASSUME NEW p \in Closers, CallClose(p) PROVE ClosedIsQuiet'
  BY <1>15 DEF TypeOK, CallShape, ClosedIsQuiet, Holding, At, NoCall, Moves, Place, Store,
     CallClose
<1>16. ASSUME NEW p \in Closers, Close(p) PROVE ClosedIsQuiet'
  BY <1>16 DEF TypeOK, CallShape, ClosedIsQuiet, Holding, At, NoCall, Moves, Place, Store,
     Close, Own
<1>17. ASSUME NEW p \in Procs, Crash(p) PROVE ClosedIsQuiet'
  BY <1>17, DieMoves DEF TypeOK, CallShape, ClosedIsQuiet, Holding, At, NoCall, Moves,
     Place, Store, Crash, Fault, Die, Own
<1>18. ASSUME NEW p \in Procs \cup {"shared"}, NEW k \in Keys, MemoWorkflow(<<p, k>>) PROVE ClosedIsQuiet'
  BY <1>18 DEF TypeOK, CallShape, ClosedIsQuiet, Holding, At, NoCall, Moves, Place, Store,
     MemoWorkflow
<1>19. CASE WorkerStops
  BY <1>19 DEF TypeOK, CallShape, ClosedIsQuiet, Holding, At, NoCall, Moves, Place, Store,
     WorkerStops, Fault
<1>20. CASE WorkerStarts
  BY <1>20 DEF TypeOK, CallShape, ClosedIsQuiet, Holding, At, NoCall, Moves, Place, Store,
     WorkerStarts
<1> QED
  BY <1>1, <1>2, <1>3, <1>4, <1>5, <1>6, <1>7, <1>8, <1>9, <1>10, <1>11, <1>12, <1>13,
     <1>14, <1>15, <1>16, <1>17, <1>18, <1>19, <1>20
  DEF Next, Proceed, Acquire

\* settled loses only the keys of a process whose map is closed or dies.
LEMMA LateStep ==
    TypeOK /\ CallShape /\ ClosedIsQuiet /\ LateKept /\ [Next]_vars => LateKept'
<1> SUFFICES ASSUME TypeOK, CallShape, ClosedIsQuiet, LateKept, [Next]_vars PROVE LateKept'
  OBVIOUS
<1> USE PlaceType
<1>1. CASE UNCHANGED vars
  BY <1>1 DEF TypeOK, CallShape, LateKept, Holding, At, NoCall, Moves, Place, Store, vars
<1>2. ASSUME NEW c \in Callers, StartStep(c) PROVE LateKept'
  <2>1. StartEffect(c)
    BY <1>2, StartMoves
  <2> QED
    BY <1>2, <2>1 DEF TypeOK, CallShape, LateKept, Holding, At, NoCall, Moves, Place,
       Store, StartEffect
<1>3. ASSUME NEW c \in Callers, Load(c) PROVE LateKept'
  <2>1. LoadEffect(c)
    BY <1>3, LoadMoves
  <2> QED
    BY <1>3, <2>1 DEF TypeOK, CallShape, LateKept, Holding, At, NoCall, Moves, Place,
       Store, LoadEffect
<1>4. ASSUME NEW c \in Callers, Fn(c) PROVE LateKept'
  <2>1. FnEffect(c)
    BY <1>4, FnMoves
  <2> QED
    BY <1>4, <2>1 DEF TypeOK, CallShape, LateKept, Holding, At, NoCall, Moves, Place,
       Store, FnEffect
<1>5. ASSUME NEW c \in Callers, Save(c) PROVE LateKept'
  BY <1>5, GotoMoves, ReturnMoves, SMTT(30) DEF TypeOK, CallShape, LateKept, Holding, At, NoCall,
     Moves, Place, Store, Save, Unlock, PutIfAbsent, Put
<1>6. ASSUME NEW c \in Callers, SaveWait(c) PROVE LateKept'
  BY <1>6, ReturnMoves, SMTT(30) DEF TypeOK, CallShape, LateKept, Holding, At, NoCall, Moves, Place,
     Store, SaveWait, Unlock, Ready
<1>7. ASSUME NEW c \in Callers, ClosedPanic(c) PROVE LateKept'
  BY <1>7, DieMoves DEF TypeOK, CallShape, LateKept, Holding, At, NoCall, Moves, Place,
     Store, ClosedPanic, Die, Own
<1>8. ASSUME NEW c \in Callers, ClosedMiss(c) PROVE LateKept'
  <2>1. Moves(c, "fn") /\ cl'[c].val = cl[c].val
    BY <1>8, GotoMoves DEF ClosedMiss
  <2> QED
    BY <1>8, <2>1 DEF TypeOK, CallShape, LateKept, Holding, At, NoCall, Moves, Place,
       Store, ClosedMiss
<1>9. ASSUME NEW c \in Callers, LoadLock(c) PROVE LateKept'
  <2>1. Moves(c, "loading") /\ cl'[c].ans = cl[c].ans
    BY <1>9, GotoMoves DEF LoadLock, Holding
  <2> QED
    BY <1>9, <2>1 DEF TypeOK, CallShape, LateKept, Holding, At, NoCall, Moves, Place,
       Store, LoadLock, Lock
<1>10. ASSUME NEW c \in Callers, SaveLock(c) PROVE LateKept'
  BY <1>10, GotoMoves DEF TypeOK, CallShape, LateKept, Holding, At, NoCall, Moves, Place,
     Store, SaveLock, Lock
<1>11. ASSUME NEW c \in Callers, ClosedError(c) PROVE LateKept'
  BY <1>11, FailMoves DEF TypeOK, CallShape, LateKept, Holding, At, NoCall, Moves, Place,
     Store, ClosedError
<1>12. ASSUME NEW c \in Callers, FnFails(c) PROVE LateKept'
  BY <1>12, FailMoves DEF TypeOK, CallShape, LateKept, Holding, At, NoCall, Moves, Place,
     Store, FnFails, Fault
<1>13. ASSUME NEW c \in Callers, SaveFails(c) PROVE LateKept'
  BY <1>13, FailMoves DEF TypeOK, CallShape, LateKept, Holding, At, NoCall, Moves, Place,
     Store, SaveFails, Fault, Unlock, PutIfAbsent, Put
<1>14. ASSUME NEW c \in Callers, Expires(c) PROVE LateKept'
  BY <1>14, FailMoves DEF TypeOK, CallShape, LateKept, Holding, At, NoCall, Moves, Place,
     Store, Expires, Fault, Unlock
<1>15. ASSUME NEW p \in Closers, CallClose(p) PROVE LateKept'
  BY <1>15 DEF TypeOK, CallShape, LateKept, Holding, At, NoCall, Moves, Place, Store,
     CallClose
<1>16. ASSUME NEW p \in Closers, Close(p) PROVE LateKept'
  BY <1>16 DEF TypeOK, CallShape, LateKept, Holding, At, NoCall, Moves, Place, Store,
     Close, Own
<1>17. ASSUME NEW p \in Procs, Crash(p) PROVE LateKept'
  BY <1>17, DieMoves DEF TypeOK, CallShape, LateKept, Holding, At, NoCall, Moves, Place,
     Store, Crash, Fault, Die, Own
<1>18. ASSUME NEW p \in Procs \cup {"shared"}, NEW k \in Keys, MemoWorkflow(<<p, k>>) PROVE LateKept'
  BY <1>18 DEF TypeOK, CallShape, LateKept, Holding, At, NoCall, Moves, Place, Store,
     MemoWorkflow
<1>19. CASE WorkerStops
  BY <1>19 DEF TypeOK, CallShape, LateKept, Holding, At, NoCall, Moves, Place, Store,
     WorkerStops, Fault
<1>20. CASE WorkerStarts
  BY <1>20 DEF TypeOK, CallShape, LateKept, Holding, At, NoCall, Moves, Place, Store,
     WorkerStarts
<1> QED
  BY <1>1, <1>2, <1>3, <1>4, <1>5, <1>6, <1>7, <1>8, <1>9, <1>10, <1>11, <1>12, <1>13,
     <1>14, <1>15, <1>16, <1>17, <1>18, <1>19, <1>20
  DEF Next, Proceed, Acquire

\* A late call finds the memo, waits for it if its workflow still runs, and
\* returns it; and the memo does not change afterwards.
LEMMA OnceStep == IInv /\ [Next]_vars => FnOnceAfterReturn'
<1> SUFFICES ASSUME TypeOK, CallShape, MemoBacked, ClosedIsQuiet, LateKept, FnOnceAfterReturn,
                    [Next]_vars
             PROVE  FnOnceAfterReturn'
  BY DEF IInv
<1> USE PlaceType, NoCallerAssumption
<1>1. CASE UNCHANGED vars
  BY <1>1 DEF TypeOK, CallShape, MemoBacked, ClosedIsQuiet, LateKept, FnOnceAfterReturn,
     Holding, At, NoCall, Moves, Stored, Place, Store, vars
<1>2. ASSUME NEW c \in Callers, StartStep(c) PROVE FnOnceAfterReturn'
  <2>1. StartEffect(c)
    BY <1>2, StartMoves
  <2> QED
    BY <1>2, <2>1 DEF TypeOK, CallShape, MemoBacked, ClosedIsQuiet, LateKept,
       FnOnceAfterReturn, Holding, At, NoCall, Moves, Stored, Place, Store, StartEffect
<1>3. ASSUME NEW c \in Callers, Load(c) PROVE FnOnceAfterReturn'
  <2>1. LoadEffect(c)
    BY <1>3, LoadMoves
  <2>2. settled' \subseteq DOMAIN memo' /\ memo' = memo /\ Place(c)' = Place(c)
    BY <2>1 DEF LoadEffect, MemoBacked, Moves, Place, Store
  <2>3. ASSUME NEW d \in Callers, cl'[d].late, Place(d)' \in settled'
        PROVE  /\ cl'[d].pc \notin {"fn", "save", "saving", "waiting"}
               /\ At(d, "return")' /\ cl'[d].ans = "ok" => cl'[d].val = memo'[Place(d)'].val
    <3>1. CASE d = c
      BY <2>1, <2>2, <2>3, <3>1 DEF LoadEffect, Moves, MemoBacked, At
    <3>2. CASE d # c
      <4>1. cl'[d] = cl[d] /\ Place(d)' = Place(d)
        BY <2>1, <3>2 DEF LoadEffect, Moves, Place, Store
      <4>2. Place(d) \in settled
        <5>1. SUFFICES ASSUME Place(d) \notin settled PROVE FALSE
          OBVIOUS
        <5>2. Place(d) = Place(c)
          BY <2>1, <2>3, <4>1, <5>1 DEF LoadEffect
        <5>3. ProcOf[c] \in closed
          BY <2>3, <4>1, <5>1, <5>2 DEF LateKept, Place, Store
        <5> QED
          BY <2>1, <5>3 DEF LoadEffect, ClosedIsQuiet, TypeOK, Holding
      <4> QED
        BY <2>2, <2>3, <4>1, <4>2 DEF FnOnceAfterReturn, At
    <3> QED
      BY <3>1, <3>2
  <2> QED
    BY <2>2, <2>3 DEF FnOnceAfterReturn
<1>4. ASSUME NEW c \in Callers, Fn(c) PROVE FnOnceAfterReturn'
  <2>1. FnEffect(c)
    BY <1>4, FnMoves
  <2>2. \A d \in Callers : Place(d)' = Place(d) /\ cl'[d].late = cl[d].late
    BY <2>1 DEF FnEffect, Moves, Place, Store
  <2>3. ~(cl[c].late /\ Place(c) \in settled)
    BY <2>1 DEF FnEffect, FnOnceAfterReturn
  <2> QED
    BY <2>1, <2>2, <2>3 DEF FnEffect, Moves, FnOnceAfterReturn, At
<1>5. ASSUME NEW c \in Callers, Save(c) PROVE FnOnceAfterReturn'
  BY <1>5, GotoMoves, ReturnMoves, SMTT(30) DEF TypeOK, CallShape, MemoBacked, ClosedIsQuiet,
     LateKept, FnOnceAfterReturn, Holding, At, NoCall, Moves, Stored, Place, Store, Save,
     Unlock, PutIfAbsent, Put
<1>6. ASSUME NEW c \in Callers, SaveWait(c) PROVE FnOnceAfterReturn'
  BY <1>6, ReturnMoves, SMTT(30) DEF TypeOK, CallShape, MemoBacked, ClosedIsQuiet, LateKept,
     FnOnceAfterReturn, Holding, At, NoCall, Moves, Stored, Place, Store, SaveWait, Unlock,
     Ready
<1>7. ASSUME NEW c \in Callers, ClosedPanic(c) PROVE FnOnceAfterReturn'
  BY <1>7, DieMoves DEF TypeOK, CallShape, MemoBacked, ClosedIsQuiet, LateKept,
     FnOnceAfterReturn, Holding, At, NoCall, Moves, Stored, Place, Store, ClosedPanic, Die,
     Own
<1>8. ASSUME NEW c \in Callers, ClosedMiss(c) PROVE FnOnceAfterReturn'
  <2>1. Moves(c, "fn")
    BY <1>8, GotoMoves DEF ClosedMiss
  <2>2. \A d \in Callers : Place(d)' = Place(d) /\ cl'[d].late = cl[d].late
    BY <1>8, <2>1 DEF ClosedMiss, Moves, Place, Store
  <2>3. Place(c) \notin settled
    BY <1>8 DEF ClosedMiss, ClosedIsQuiet, MemoBacked, Place, Store
  <2> QED
    BY <1>8, <2>1, <2>2, <2>3 DEF ClosedMiss, Moves, FnOnceAfterReturn, At
<1>9. ASSUME NEW c \in Callers, LoadLock(c) PROVE FnOnceAfterReturn'
  <2>1. Moves(c, "loading") /\ cl'[c].ans = cl[c].ans
    BY <1>9, GotoMoves DEF LoadLock, Holding
  <2> QED
    BY <1>9, <2>1 DEF TypeOK, CallShape, MemoBacked, ClosedIsQuiet, LateKept,
       FnOnceAfterReturn, Holding, At, NoCall, Moves, Stored, Place, Store, LoadLock, Lock
<1>10. ASSUME NEW c \in Callers, SaveLock(c) PROVE FnOnceAfterReturn'
  BY <1>10, GotoMoves DEF TypeOK, CallShape, MemoBacked, ClosedIsQuiet, LateKept,
     FnOnceAfterReturn, Holding, At, NoCall, Moves, Stored, Place, Store, SaveLock, Lock
<1>11. ASSUME NEW c \in Callers, ClosedError(c) PROVE FnOnceAfterReturn'
  BY <1>11, FailMoves DEF TypeOK, CallShape, MemoBacked, ClosedIsQuiet, LateKept,
     FnOnceAfterReturn, Holding, At, NoCall, Moves, Stored, Place, Store, ClosedError
<1>12. ASSUME NEW c \in Callers, FnFails(c) PROVE FnOnceAfterReturn'
  BY <1>12, FailMoves DEF TypeOK, CallShape, MemoBacked, ClosedIsQuiet, LateKept,
     FnOnceAfterReturn, Holding, At, NoCall, Moves, Stored, Place, Store, FnFails, Fault
<1>13. ASSUME NEW c \in Callers, SaveFails(c) PROVE FnOnceAfterReturn'
  BY <1>13, FailMoves DEF TypeOK, CallShape, MemoBacked, ClosedIsQuiet, LateKept,
     FnOnceAfterReturn, Holding, At, NoCall, Moves, Stored, Place, Store, SaveFails, Fault,
     Unlock, PutIfAbsent, Put
<1>14. ASSUME NEW c \in Callers, Expires(c) PROVE FnOnceAfterReturn'
  BY <1>14, FailMoves DEF TypeOK, CallShape, MemoBacked, ClosedIsQuiet, LateKept,
     FnOnceAfterReturn, Holding, At, NoCall, Moves, Stored, Place, Store, Expires, Fault,
     Unlock
<1>15. ASSUME NEW p \in Closers, CallClose(p) PROVE FnOnceAfterReturn'
  BY <1>15 DEF TypeOK, CallShape, MemoBacked, ClosedIsQuiet, LateKept, FnOnceAfterReturn,
     Holding, At, NoCall, Moves, Stored, Place, Store, CallClose
<1>16. ASSUME NEW p \in Closers, Close(p) PROVE FnOnceAfterReturn'
  BY <1>16 DEF TypeOK, CallShape, MemoBacked, ClosedIsQuiet, LateKept, FnOnceAfterReturn,
     Holding, At, NoCall, Moves, Stored, Place, Store, Close, Own
<1>17. ASSUME NEW p \in Procs, Crash(p) PROVE FnOnceAfterReturn'
  BY <1>17, DieMoves DEF TypeOK, CallShape, MemoBacked, ClosedIsQuiet, LateKept,
     FnOnceAfterReturn, Holding, At, NoCall, Moves, Stored, Place, Store, Crash, Fault,
     Die, Own
<1>18. ASSUME NEW p \in Procs \cup {"shared"}, NEW k \in Keys, MemoWorkflow(<<p, k>>) PROVE FnOnceAfterReturn'
  BY <1>18 DEF TypeOK, CallShape, MemoBacked, ClosedIsQuiet, LateKept, FnOnceAfterReturn,
     Holding, At, NoCall, Moves, Stored, Place, Store, MemoWorkflow
<1>19. CASE WorkerStops
  BY <1>19 DEF TypeOK, CallShape, MemoBacked, ClosedIsQuiet, LateKept, FnOnceAfterReturn,
     Holding, At, NoCall, Moves, Stored, Place, Store, WorkerStops, Fault
<1>20. CASE WorkerStarts
  BY <1>20 DEF TypeOK, CallShape, MemoBacked, ClosedIsQuiet, LateKept, FnOnceAfterReturn,
     Holding, At, NoCall, Moves, Stored, Place, Store, WorkerStarts
<1> QED
  BY <1>1, <1>2, <1>3, <1>4, <1>5, <1>6, <1>7, <1>8, <1>9, <1>10, <1>11, <1>12, <1>13,
     <1>14, <1>15, <1>16, <1>17, <1>18, <1>19, <1>20
  DEF Next, Proceed, Acquire

\* The inductive invariant holds for ever.
THEOREM MemoInvariant == Spec => []IInv
<1>1. IInv /\ [Next]_vars => IInv'
  BY TypeStep, ShapeStep, BackedStep, QuietStep, LateStep, OnceStep DEF IInv
<1> QED
  BY InitIInv, <1>1, PTL DEF Spec

\* On every backend a goroutine has its process's mutex exactly while it is
\* inside Load or Save, however calls fail, expire, panic or are closed under.
THEOREM MutexCorrect == Spec => []TypeOK
  BY MemoInvariant, PTL DEF IInv

\* For any number of processes and goroutines: a call of Step that begins after
\* one of the same key has returned a value does not run fn, and returns the
\* memoized value.
THEOREM FnOnce == Spec => []FnOnceAfterReturn
  BY MemoInvariant, PTL DEF IInv

\* No step of any goroutine, process or worker changes a memoized value.
LEMMA FirstStep ==
    TypeOK /\ CallShape /\ [Next]_vars
       => \A j \in DOMAIN memo \cap DOMAIN memo' : memo'[j].val = memo[j].val
<1> SUFFICES ASSUME TypeOK, CallShape, [Next]_vars, NEW j \in DOMAIN memo \cap DOMAIN memo'
             PROVE  memo'[j].val = memo[j].val
  OBVIOUS
<1>1. CASE UNCHANGED vars
  BY <1>1 DEF TypeOK, vars
<1>2. ASSUME NEW c \in Callers, StartStep(c) PROVE memo'[j].val = memo[j].val
  BY <1>2 DEF TypeOK, StartStep, AtRest
<1>3. ASSUME NEW c \in Callers, Load(c) PROVE memo'[j].val = memo[j].val
  BY <1>3 DEF TypeOK, Load, Unlock, Ready
<1>4. ASSUME NEW c \in Callers, Fn(c) PROVE memo'[j].val = memo[j].val
  BY <1>4 DEF TypeOK, Fn
<1>5. ASSUME NEW c \in Callers, Save(c) PROVE memo'[j].val = memo[j].val
  BY <1>5 DEF TypeOK, Save, Unlock, PutIfAbsent, Put
<1>6. ASSUME NEW c \in Callers, SaveWait(c) PROVE memo'[j].val = memo[j].val
  BY <1>6 DEF TypeOK, SaveWait, Unlock, Ready
<1>7. ASSUME NEW c \in Callers, ClosedPanic(c) PROVE memo'[j].val = memo[j].val
  BY <1>7 DEF TypeOK, ClosedPanic, Die, Own
<1>8. ASSUME NEW c \in Callers, ClosedMiss(c) PROVE memo'[j].val = memo[j].val
  BY <1>8 DEF TypeOK, ClosedMiss
<1>9. ASSUME NEW c \in Callers, LoadLock(c) PROVE memo'[j].val = memo[j].val
  BY <1>9 DEF TypeOK, LoadLock, Lock
<1>10. ASSUME NEW c \in Callers, SaveLock(c) PROVE memo'[j].val = memo[j].val
  BY <1>10 DEF TypeOK, SaveLock, Lock
<1>11. ASSUME NEW c \in Callers, ClosedError(c) PROVE memo'[j].val = memo[j].val
  BY <1>11 DEF TypeOK, ClosedError
<1>12. ASSUME NEW c \in Callers, FnFails(c) PROVE memo'[j].val = memo[j].val
  BY <1>12 DEF TypeOK, FnFails, Fault
<1>13. ASSUME NEW c \in Callers, SaveFails(c) PROVE memo'[j].val = memo[j].val
  BY <1>13 DEF TypeOK, SaveFails, Fault, Unlock, PutIfAbsent, Put
<1>14. ASSUME NEW c \in Callers, Expires(c) PROVE memo'[j].val = memo[j].val
  BY <1>14 DEF TypeOK, Expires, Fault, Unlock
<1>15. ASSUME NEW p \in Closers, CallClose(p) PROVE memo'[j].val = memo[j].val
  BY <1>15 DEF TypeOK, CallClose
<1>16. ASSUME NEW p \in Closers, Close(p) PROVE memo'[j].val = memo[j].val
  BY <1>16 DEF TypeOK, Close, Own
<1>17. ASSUME NEW p \in Procs, Crash(p) PROVE memo'[j].val = memo[j].val
  BY <1>17 DEF TypeOK, Crash, Fault, Die, Own
<1>18. ASSUME NEW p \in Procs \cup {"shared"}, NEW k \in Keys, MemoWorkflow(<<p, k>>) PROVE memo'[j].val = memo[j].val
  BY <1>18 DEF TypeOK, MemoWorkflow
<1>19. CASE WorkerStops
  BY <1>19 DEF TypeOK, WorkerStops, Fault
<1>20. CASE WorkerStarts
  BY <1>20 DEF TypeOK, WorkerStarts
<1> QED
  BY <1>1, <1>2, <1>3, <1>4, <1>5, <1>6, <1>7, <1>8, <1>9, <1>10, <1>11, <1>12, <1>13,
     <1>14, <1>15, <1>16, <1>17, <1>18, <1>19, <1>20
  DEF Next, Proceed, Acquire

\* Saving twice under a key keeps the first value, for ever and on each backend.
THEOREM FirstSaveKept == Spec => FirstSaveWins
<1>1. IInv /\ [Next]_vars
        => [\A k \in DOMAIN memo \cap DOMAIN memo' : memo'[k].val = memo[k].val]_vars
  BY FirstStep DEF IInv
<1> QED
  BY MemoInvariant, <1>1, PTL DEF Spec, FirstSaveWins

=============================================================================
