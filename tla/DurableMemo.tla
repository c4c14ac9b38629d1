---------------------------- MODULE DurableMemo ----------------------------
(***************************************************************************)
(* trajir/durable: Step (Load, fn, Save) over its three backends, called   *)
(* by goroutines of several processes.                                     *)
(*                                                                         *)
(* temporal: a memo is a workflow on the server that returns the value it  *)
(*   was started with; it runs when a worker of the task queue is up.      *)
(*   Load waits for a workflow that is still running, Save for the one it  *)
(*   started, both with the backend's mutex held.                          *)
(* sqlite: a row in a file the processes share.                            *)
(* memory: a map in the process.                                           *)
(*                                                                         *)
(* A goroutine computes its own value of a step: its name.  "Variant"      *)
(* definitions are the following one with a mistake in it.                 *)
(***************************************************************************)
EXTENDS Naturals, SlotStore

CONSTANTS
    Callers,    \* goroutines that call Step
    ProcOf,     \* goroutine -> its process
    Closers,    \* processes that may close their backend while it is in use
    Keys,       \* (workflow id, step key) pairs
    Backends,   \* backends to choose from
    MaxFaults,  \* bound on crashes, failed calls, expired contexts, worker stops
    None

ASSUME BackendAssumption == Backends \subseteq {"temporal", "sqlite", "memory"}
ASSUME MemoFaultsAssumption == MaxFaults \in Nat
ASSUME NoCallerAssumption == None \notin Callers

Procs == {ProcOf[c] : c \in Callers}

ASSUME ClosersAssumption == Closers \subseteq Procs

VARIABLES
    backend,  \* the backend in use
    memo,     \* (store, key) -> [val, done]
    mu,       \* process -> goroutine that holds its backend's mutex, or None
    closed,   \* processes whose backend is closed
    closing,  \* processes with a call of Close that has not returned
    cl,       \* goroutine -> its call of Step
    up,       \* a Temporal worker is running
    settled,  \* history: (store, key) for which some Step has returned a value
    faults

vars == <<backend, memo, mu, closed, closing, cl, up, settled, faults>>

NoCall == [pc |-> "idle", key |-> None, val |-> None, late |-> FALSE, ans |-> None]

Init ==
    /\ backend \in Backends
    /\ memo = [k \in {} |-> None]
    /\ mu = [p \in Procs |-> None]
    /\ closed = {}
    /\ closing = {}
    /\ cl = [c \in Callers |-> NoCall]
    /\ up = TRUE
    /\ settled = {}
    /\ faults = 0

At(c, label)   == cl[c].pc = label
Goto(c, label) == cl' = [cl EXCEPT ![c].pc = label]
Fault          == faults < MaxFaults /\ faults' = faults + 1

\* Where the process keeps the memo of a key.
Store(p)  == IF backend = "memory" THEN p ELSE "shared"
Place(c)  == <<Store(ProcOf[c]), cl[c].key>>
Stored(c) == Place(c) \in DOMAIN memo
Ready(c)  == Stored(c) /\ memo[Place(c)].done

Lock(c)   == mu[ProcOf[c]] = None /\ mu' = [mu EXCEPT ![ProcOf[c]] = c]
Unlock(c) == mu' = [mu EXCEPT ![ProcOf[c]] = None]

Return(c, v) ==
    /\ cl' = [cl EXCEPT ![c].pc = "return", ![c].ans = "ok", ![c].val = v]
    /\ settled' = settled \cup {Place(c)}
Fail(c) ==
    /\ cl' = [cl EXCEPT ![c].pc = "return", ![c].ans = "error"]
    /\ UNCHANGED settled

\* The end of process p: its goroutines, its mutex, and its map if the memo is one.
Own(p) == IF backend = "memory" THEN {k \in DOMAIN memo : k[1] = p} ELSE {}
Die(p) ==
    /\ cl' = [c \in Callers |-> IF ProcOf[c] = p THEN NoCall ELSE cl[c]]
    /\ mu' = [mu EXCEPT ![p] = None]
    /\ closed' = closed \ {p}
    /\ closing' = closing \ {p}
    /\ memo' = [k \in DOMAIN memo \ Own(p) |-> memo[k]]
    /\ settled' = settled \ Own(p)

----------------------------------------------------------------------------
(* Step: Load                                                              *)

AtRest(c) == cl[c].pc \in {"idle", "return"}

StartStep(c) ==
    /\ AtRest(c)
    /\ \E k \in Keys :
          cl' = [cl EXCEPT ![c] = [NoCall EXCEPT !.pc = "load", !.key = k,
                                     !.late = <<Store(ProcOf[c]), k>> \in settled]]
    /\ UNCHANGED <<backend, memo, mu, closed, closing, up, settled, faults>>

LoadLock(c) ==
    /\ At(c, "load") /\ ProcOf[c] \notin closed
    /\ Lock(c)
    /\ Goto(c, "loading")
    /\ UNCHANGED <<backend, memo, closed, closing, up, settled, faults>>

\* Variant: a workflow that is still running counts as not found.
LoadRunningIsMissing(c) ==
    /\ At(c, "loading")
    /\ Unlock(c)
    /\ IF Ready(c) THEN Return(c, memo[Place(c)].val) ELSE Goto(c, "fn") /\ UNCHANGED settled
    /\ UNCHANGED <<backend, memo, closed, closing, up, faults>>

\* A hit is returned, a miss goes on to fn; a running workflow is waited for.
Load(c) ==
    /\ At(c, "loading")
    /\ Stored(c) => Ready(c)
    /\ Unlock(c)
    /\ IF Ready(c) THEN Return(c, memo[Place(c)].val) ELSE Goto(c, "fn") /\ UNCHANGED settled
    /\ UNCHANGED <<backend, memo, closed, closing, up, faults>>

\* fn runs without the mutex.
Fn(c) ==
    /\ At(c, "fn")
    /\ cl' = [cl EXCEPT ![c].pc = "save", ![c].val = c]
    /\ UNCHANGED <<backend, memo, mu, closed, closing, up, settled, faults>>

FnFails(c) ==
    /\ At(c, "fn")
    /\ Fault
    /\ Fail(c)
    /\ UNCHANGED <<backend, memo, mu, closed, closing, up>>

----------------------------------------------------------------------------
(* Step: Save                                                              *)

SaveLock(c) ==
    /\ At(c, "save") /\ ProcOf[c] \notin closed
    /\ Lock(c)
    /\ Goto(c, "saving")
    /\ UNCHANGED <<backend, memo, closed, closing, up, settled, faults>>

\* Variant: the id of a finished workflow may be used again.
SaveReusesId(c) ==
    /\ At(c, "saving")
    /\ memo' = Put(memo, Place(c), [val |-> cl[c].val, done |-> backend # "temporal"])
    /\ IF backend = "temporal"
       THEN Goto(c, "waiting") /\ UNCHANGED <<mu, settled>>
       ELSE Unlock(c) /\ Return(c, cl[c].val)
    /\ UNCHANGED <<backend, closed, closing, up, faults>>

\* The first value stays.  Step returns its own value in any case, at once if
\* there was one already, and else (Temporal) when its workflow has finished.
Save(c) ==
    /\ At(c, "saving")
    /\ memo' = PutIfAbsent(memo, Place(c), [val |-> cl[c].val, done |-> backend # "temporal"])
    /\ IF backend = "temporal" /\ ~Stored(c)
       THEN Goto(c, "waiting") /\ UNCHANGED <<mu, settled>>
       ELSE Unlock(c) /\ Return(c, cl[c].val)
    /\ UNCHANGED <<backend, closed, closing, up, faults>>

SaveWait(c) ==
    /\ At(c, "waiting") /\ Ready(c)
    /\ Unlock(c)
    /\ Return(c, cl[c].val)
    /\ UNCHANGED <<backend, memo, closed, closing, up, faults>>

\* The write fails; a workflow may have been started all the same.
SaveFails(c) ==
    /\ At(c, "saving") /\ backend # "memory"
    /\ Fault
    /\ \/ UNCHANGED memo
       \/ backend = "temporal" /\ memo' = PutIfAbsent(memo, Place(c), [val |-> cl[c].val, done |-> FALSE])
    /\ Unlock(c)
    /\ Fail(c)
    /\ UNCHANGED <<backend, closed, closing, up>>

\* Variant: an early return that keeps the mutex.
ExpiresLocked(c) ==
    /\ cl[c].pc \in {"loading", "waiting"} /\ backend # "memory"
    /\ Fault
    /\ Fail(c)
    /\ UNCHANGED <<backend, memo, mu, closed, closing, up>>

\* The context expires, or the call fails, during Load or while Save waits.  A
\* map does neither.
Expires(c) ==
    /\ cl[c].pc \in {"loading", "waiting"} /\ backend # "memory"
    /\ Fault
    /\ Unlock(c)
    /\ Fail(c)
    /\ UNCHANGED <<backend, memo, closed, closing, up>>

----------------------------------------------------------------------------
(* A backend that was closed: the Temporal one returns an error; LocalSQLite *)
(* has no database and Memory no map any more.                               *)

ClosedError(c) ==
    /\ cl[c].pc \in {"load", "save"} /\ ProcOf[c] \in closed
    /\ mu[ProcOf[c]] = None
    /\ backend = "temporal"
    /\ Fail(c)
    /\ UNCHANGED <<backend, memo, mu, closed, closing, up, faults>>

\* A nil *sql.DB, or a write to a nil map: the process panics.
ClosedPanic(c) ==
    /\ ProcOf[c] \in closed
    /\ \/ backend = "sqlite" /\ cl[c].pc \in {"load", "save"}
       \/ backend = "memory" /\ At(c, "save")
    /\ Die(ProcOf[c])
    /\ UNCHANGED <<backend, up, faults>>

\* A nil map reads as empty.
ClosedMiss(c) ==
    /\ ProcOf[c] \in closed
    /\ backend = "memory" /\ At(c, "load")
    /\ Goto(c, "fn")
    /\ UNCHANGED <<backend, memo, mu, closed, closing, up, settled, faults>>

CallClose(p) ==
    /\ p \notin closing \cup closed
    /\ closing' = closing \cup {p}
    /\ UNCHANGED <<backend, memo, mu, closed, cl, up, settled, faults>>

\* Variant: Close waits until no call of the process is under way.
CloseWaitsForCalls(p) ==
    /\ p \in closing
    /\ \A c \in Callers : ProcOf[c] = p => AtRest(c)
    /\ closed' = closed \cup {p}
    /\ closing' = closing \ {p}
    /\ memo' = [k \in DOMAIN memo \ Own(p) |-> memo[k]]
    /\ settled' = settled \ Own(p)
    /\ UNCHANGED <<backend, mu, cl, up, faults>>

\* Close needs the mutex too.  The memory backend drops its map.
Close(p) ==
    /\ p \in closing
    /\ mu[p] = None
    /\ closed' = closed \cup {p}
    /\ closing' = closing \ {p}
    /\ memo' = [k \in DOMAIN memo \ Own(p) |-> memo[k]]
    /\ settled' = settled \ Own(p)
    /\ UNCHANGED <<backend, mu, cl, up, faults>>

----------------------------------------------------------------------------
(* The environment: processes die, the Temporal worker runs and stops.     *)

Crash(p) == Fault /\ Die(p) /\ UNCHANGED <<backend, up>>

MemoWorkflow(k) ==
    /\ up
    /\ k \in DOMAIN memo /\ ~memo[k].done
    /\ memo' = [memo EXCEPT ![k].done = TRUE]
    /\ UNCHANGED <<backend, mu, closed, closing, cl, up, settled, faults>>

WorkerStops ==
    /\ backend = "temporal" /\ up
    /\ Fault
    /\ up' = FALSE
    /\ UNCHANGED <<backend, memo, mu, closed, closing, cl, settled>>

WorkerStarts ==
    /\ ~up
    /\ up' = TRUE
    /\ UNCHANGED <<backend, memo, mu, closed, closing, cl, settled, faults>>

Proceed(c) ==
    \/ Load(c) \/ Fn(c) \/ Save(c) \/ SaveWait(c)
    \/ ClosedPanic(c) \/ ClosedMiss(c)

Acquire(c) == LoadLock(c) \/ SaveLock(c) \/ ClosedError(c)

Next ==
    \/ \E c \in Callers :
          \/ StartStep(c) \/ Proceed(c) \/ Acquire(c)
          \/ FnFails(c) \/ SaveFails(c) \/ Expires(c)
    \/ \E p \in Closers : CallClose(p) \/ Close(p)
    \/ \E p \in Procs : Crash(p)
    \/ \E p \in Procs \cup {"shared"}, k \in Keys : MemoWorkflow(<<p, k>>)
    \/ WorkerStops \/ WorkerStarts

Spec == Init /\ [][Next]_vars

\* Goroutines run, a waiting goroutine gets a mutex that keeps being released
\* (sync.Mutex does not starve), and a worker of the task queue is restarted
\* when it stopped, as backend.go requires ("must be running for Save to
\* complete").
FairSpec ==
    /\ Spec
    /\ \A c \in Callers : WF_vars(Proceed(c)) /\ SF_vars(Acquire(c))
    /\ \A p \in Closers : SF_vars(Close(p))
    /\ \A k \in Keys : WF_vars(MemoWorkflow(<<"shared", k>>))
    /\ WF_vars(WorkerStarts)

----------------------------------------------------------------------------
Holding == {"loading", "saving", "waiting"}

\* A goroutine has the mutex of its process exactly while it is inside Load or
\* Save.
TypeOK ==
    /\ backend \in Backends
    /\ DOMAIN memo \subseteq (Procs \cup {"shared"}) \X Keys
    /\ \A k \in DOMAIN memo : memo[k] \in [val : Callers, done : BOOLEAN]
    /\ closed \subseteq Procs /\ closing \subseteq Procs
    /\ \A c \in Callers :
          /\ cl[c].pc \in {"idle", "load", "fn", "save", "return"} \cup Holding
          /\ cl[c].pc # "idle" => cl[c].key \in Keys
          /\ (mu[ProcOf[c]] = c) <=> (cl[c].pc \in Holding)
    /\ \A p \in Procs : mu[p] \in {c \in Callers : ProcOf[c] = p} \cup {None}
    /\ faults \in 0..MaxFaults

\* backend.go, "Step runs fn once per (workflowID, stepKey). On later calls it
\* returns the memoized JSON ... without calling fn": a value that Step has
\* returned is backed by a memo, which survives the process where the backend
\* does; and a call that begins after any Step of the key has returned one, in
\* whatever process, with the workflow still running or not, does not run fn
\* and returns the memo.
FnOnceAfterReturn ==
    /\ settled \subseteq DOMAIN memo
    /\ \A c \in Callers : cl[c].late /\ Place(c) \in settled =>
          /\ cl[c].pc \notin {"fn", "save", "saving", "waiting"}
          /\ At(c, "return") /\ cl[c].ans = "ok" => cl[c].val = memo[Place(c)].val

\* backend.go, "Saving twice with the same key should be idempotent (keep first
\* value)": no later Save, start or restart changes a memo.
FirstSaveWins ==
    [][\A k \in DOMAIN memo \cap DOMAIN memo' : memo'[k].val = memo[k].val]_vars

\* Load and Save hold the mutex while they wait for the server, and still every
\* Step returns (or its process dies), and so does Close behind them.
CallsReturn ==
    /\ \A c \in Callers : ~AtRest(c) ~> AtRest(c)
    /\ \A p \in Closers : p \in closing ~> p \notin closing

=============================================================================
