# Trajectory IR in TLA+

Models of the Go runtime under `src/go/trajir` (the Python packages under
`src/pkg`, `src/client` and `src/drivers` are a parity port and are cited where
they say more). Every definition is read off the code; `PROJECT.json` maps it to
its lines.

## 1. The system

Trajectory IR records an agent's run as *nodes* in an append-only log and makes a
step of the agent safe to repeat after a crash: the model's plan is sealed before
any tool runs, tools with side effects are claimed before they run, and results are
memoized.

| Component | State | Operations | Interacts with |
|---|---|---|---|
| Step coordinator, `resume/step.go` | none of its own | `RunStep`: project, infer, seal, tools, commit | log, memo, model, tools |
| Tool gates, `resume/gate.go` | none | gated call (claim, run, record or abort), plain call | log, tools |
| Node log, `log/log.go` (SQLite), `postgres/log.go` | rows keyed by id, unique per slot (tenant, trajectory, step, kind, seq) | `Append`, `ClaimToolCall`, `Has`, `ListNodes` | every writer of the trajectory, across processes |
| Durable memo, `durable/*.go` | (workflow, step key) -> value | `Load`, `Save`, `Step`, `Infer`, `Tool` | coordinator; shared file or Temporal server |
| Content store, `cas/cas.go`, `cas/s3*.go` | objects by hash, temporary files | `Put`, `Get`, `Has`, sweep, `Rehydrate` | packages, other processes on the root |
| Packages, `tir/tir.go`, `tir/signature.go` | a `.tir` file, its backup | `Export`, `Sign`, `Load`, `Import` | logs at both ends, readers of the path |
| Projector, `projector/projector.go` | none | `ProjectContext` | log (reads), coordinator (context) |
| Effects and sandbox, `effects`, `sandbox` | none | classify, gate and allow decisions | coordinator |
| Nodes, `nodes/nodes.go` | none | canonical JSON, ids | all |
| Redaction and graft, `redact`, `graft` | none | scrub a context; append a reference | projector output; log |
| Client, `client/client.go`, hosts such as `examples/adoption_host` | open handles | `OpenTrajectory`, `Resume`, one method per node kind, `RunStep` | log, memo, gates |
| MCP server, `mcp/*.go` | none | four tools; confine the paths they are given to a root | client, packages, file system |
| Crash agent, examples | none | demonstration | client |

What is hard in it: several processes share one log and one memo without any other
coordination; a process may die between any two calls; the log, the memo and the
outside world are three stores that change one after the other; SQLite and
PostgreSQL calls are several statements each; files are replaced while others read
them. `PROJECT.json` lists these as hazards, each at its line with the properties
that would notice it going wrong.

What makes each part correct: a gated tool fires at most once per sealed call and
only sealed calls fire (coordinator, gates); a slot keeps its first content and one
claimer (log); a result given from the memo is the one in the log (memo); a hash
names its bytes or nothing (store); a loaded package is one that was exported, and an
import is all, or a prefix (packages); constraints are never dropped (projector);
nothing that redaction reaches of a context is a secret afterwards, and no thought goes
with a graft (redaction, graft; section 5 says what redaction does not reach); a tool
call opens no file outside its root and refuses none inside (MCP server).

## 2. Modules

| Module | Models | State and actions |
|---|---|---|
| `SlotStore` | the first-writer-wins table | operators `Put`, `PutIfAbsent`, `SlotConflict` |
| `RunStep` | `RunStep`, the gates, `durable.Step` as `Load` and `Save` | `log`, `memo`, one frame per worker; an action per call on a store, the model or a tool |
| `RunStepProperties` | what the resume protocol promises | properties, and the mapping to the contract |
| `Client` | `client.go`, the adoption host's loop | hosts (frames without memo points) beside `RunStep` workers; a log that is empty or imported |
| `DurableMemo` | `durable/*.go`, `durable/temporal/*.go` | the memo, one mutex per process, a frame per goroutine; an action per lock, request and wait |
| `StepContract` | abstract: a step without workers, memo or crashes | seal, fire, record, commit |
| `AtomicNodeLog` | abstract: a log whose calls are indivisible | append, claim, answers |
| `SqliteNodeLog` | `log.go` on SQLite | rows, WAL snapshots and the write lock; an action per statement |
| `PostgresNodeLog` | `postgres/log.go` and the Python driver | rows, uncommitted rows, waiting INSERTs, the state of a Python process's one connection; an action per statement |
| `CasFileSystem` | `cas.go` | objects, temporary files; an action per system call |
| `S3Store` | `s3.go`, `s3_aws.go` | a bucket in the place of `CasFileSystem`'s directory; an action per request |
| `TirPackage` | `tir.go`, `signature.go` | the file, its backup, one writer, readers, both logs |
| `NodeSlots` | where a node stands in its trajectory | step (or none), seq and kind, chosen by the caller of `Append`; used by `Projector` and `Graft` |
| `Projector` | `projector.go` | an action per iteration of `ProjectContext`'s loops |
| `Redact` | `redact.go` | recursive functions on trees, with the Go types that are passed over; the loop over a context's items, an action per item, and a second scrub |
| `Graft` | `graft.go` | a source that grows at any free slot, the slot in the target; an action per outcome of a call |
| `Workspace` | `paths.go`, the tools of `tools.go` | file trees with links; the request and the paths each tool opens for it, an action per call |
| `Tasks` | the four sequential parts side by side | one of projection, scrubbing, grafting, a tool call |
| `MC...` | instances for TLC | model values, symmetry |
| `...Proofs` | theorems for any constants | |

`RunStep` uses the log as `AtomicNodeLog` describes it; `SqliteNodeLog` and
`PostgresNodeLog` are shown to implement `AtomicNodeLog`, and `RunStep` to implement
`StepContract`. So the step protocol is checked over the promise of the log, and the
promise is checked against the statements. `Client` extends `RunStep`: its hosts use
the gates' actions as they are, and leave out `Load` and `Save`. `S3Store` extends
`CasFileSystem`, so that the same readers fetch and rehydrate from either.
`DurableMemo` opens up the `Load` and `Save` that `RunStep` takes as atomic.

Abstractions that matter:

* A node's id is a hash of its slot and payload. It is modelled as the pair: hashes
  are taken to be injective and canonical JSON to be canonical.
* A plan is a name with a list of calls; a call is a name with its arguments; a
  result is a value of a small set. A plan without a list in `ToolCalls` is one that
  `toolCallsFromPlan` cannot read.
* In `RunStep` a crash and an error returned by a store, the model or a tool are the
  same action, `Stop`: `RunStep` returns at once and keeps nothing.
* The number of executions of a call is counted up to "many" (2).
* A file's contents are the right ones or not; an archive is whole or torn. A power
  loss may damage what was not fsynced. In `CasFileSystem` a directory entry may be
  lost with it (the code fsyncs no directory); in `TirPackage` a completed rename is
  kept, which is what the comment in `signature.go:429` relies on.
* `TirPackage` has one writer of a path. Two processes that sign one path at once
  share the name of the backup and can remove each other's only copy; the code
  promises nothing for that case.
* A package that `Client` starts from holds a step up to some node in order of seq, as
  `ListNodes` returns it; the call that was under way when it was exported may have
  fired. The memo of that run stayed behind.
* A Temporal memo is a workflow that is running or has finished. What the server does
  (one workflow per id, `Get` waits) is read off how `temporal/backend.go` uses it.
* An S3 request is done, fails, or fails for its caller and is done later.
* A value that `redact.go` is given is a tree of maps (`map[string]any`), lists (`[]any`),
  containers of any other Go type ("typed") and leaves. The code tells these apart by type
  assertions, and so does the model: a typed container is returned as it is. The items of
  the context that `ProjectContext` returns are one (`[]map[string]any`), and contexts of
  that form are among those scrubbed. The two regular expressions are a set of keys and a
  kind of leaf. A path is the sequence of its
  names; a file tree does not change during a tool call, and a link in it records where
  it leads in the end, links to links followed (nowhere, for one that dangles or is in a
  cycle, which `EvalSymlinks` answers with an error too).
* In the projector a node has the step (or none), the seq and the kind its caller chose, in
  a slot that was free, and a size, which is a number. Its id is a content hash; what the
  code uses of it is its place among the other ids, so the model has its rank, and nodes
  come in any order of ranks. Nodes without a step sort last, as in `nodeSortKey`. Ids are
  not empty, so the guard at `projector.go:123` has nothing to do.
* A graft's source lists its nodes as `log.go:298` does, by step (none first) and seq; the
  stable sort of `FindArtifactRef` by kind and seq is therefore the order (kind, seq,
  step). Of the metadata of a node one field, `logical_path`, stands for all three.

Definitions whose comment begins with "Variant" are not part of a specification.
Each is the definition after it with one plausible mistake; putting it in the
other's place makes the property it is listed with in `PROJECT.json` fail.

## 3. Runs

| Run | Instance | What it shows |
|---|---|---|
| `two_workers` | 2 workers on one step, none, one or both of them hosts; a fresh log or any imported prefix; three plans that disagree, diverging reads, 2 stops | gated tools fire once; only calls of the sealed plan fire; memo and log agree on results; where only `RunStep` drives, no step is sealed before its inference is memoized; `StepContract` is implemented, so a committed step is complete |
| `one_worker` | 1 worker, 2 steps, both modes, unreadable and unknown-tool plans, diverging reads, 2 stops, fair | the resume matrix of README 8.2: a sealed plan is replayed, the model is not called again, a committed step is not touched; `StepContract`; every step the agent comes to is committed, or stays in one of three named states: its plan cannot be run; a stop left a gated call without its memo (`GatedLeft`); a stop left a read without its memo, and it answers differently now (`ReadLeft`) |
| `durable_memo` | 2 goroutines in one process, 1 in another, one key, each backend, `Close` of one process, 2 faults, fair | a Step that begins after another returned does not run its function and returns the memo; a returned value is memoized; the first save stays; Step and Close return although the mutex is held across waits |
| `sqlite_log` | 3 processes, 2 slots, 2 payloads, 1 fault | one winner per claim, true answers, `AtomicNodeLog` implemented |
| `postgres_log` | 2 Go processes and a Python one, 1 slot, 2 payloads, 2 faults, fair | `AtomicNodeLog` implemented on PostgreSQL too (hence one winner and true answers), a refusal by the Python driver means that the slot is taken, and nobody waits for ever |
| `cas_fs` | 2 writers of an object, a sweeper, a reader of a package that names two, on a directory or on an S3 bucket, 2 faults | an object is missing or right unless damaged from outside; an acknowledged Put is stored; a temporary file has a writer that will try to remove it, or was left by one that died or whose removal failed; a rehydrated package is complete |
| `tir_package` | 1 writer, 2 readers, trajectories of 2 nodes, 3 faults | a loaded package is one export with its own signature; an exported package is not lost while it is signed; an import is whole or leaves a prefix |
| `projector` | trajectories of up to 3 nodes in any order of slots and ids (one step or none, two seqs, three kinds), sizes 1 and 3, three budgets, one node pinned or none; contexts of maps, lists and typed containers two deep, alone or as one of two items, and the projector's own; a graft source of up to 2 nodes at any slots; 24 file trees, 3 roots, 11 work directories, 47 package paths | the projected context is the one its definition says, and a node stays in or out of it unless a CONSTRAINT or pinned node, or a taken one that sorts before it, has come; a scrubbed context shows no secret where redaction looks, and has lost nothing else; a graft carries an artifact's metadata and no thought, and a retry conflicts only when the source has got something that takes precedence; tools open what is under the root, and only that |
| `concurrent_seal` | 2 workers | **violated**: memo and DECISION can disagree (below) |
| `shared_memo_key` | 1 worker, 2 steps, default `WorkflowID` | **violated**: a step commits without its call |
| `busy_claim` | 2 processes | **violated**: a claim is refused although the slot is free |
| `postgres_insert_error` | 1 process | **violated**: `Append` reports a node stored that is not |

Why the bounds are enough. Every protocol here is decided between two parties and
one bystander: two workers can disagree on a plan, lose a claim to one another or
find each other's memo; a third adds only another loser (the log runs use three
processes to have a loser beside the winner and the blocked one). Two steps are
needed for what crosses steps (memo keys, reopening), two slots for the SQLite write
lock, which is shared between slots, and one for PostgreSQL, where different slots
never meet. Faults: two or three, so that a fault hits the recovery from another one;
three is the least that makes the backup rename, its installation and its
restoration all fail. Sizes 1 and 3 with budgets 0, 2 and 4 give exact fits, a node
passed over before one that fits, and constraints that do not fit. `ContextIsStable` is
about a node that was seen, one that comes and a third between them; with one step or
none, two seqs and ids in any order each part of the sort key decides somewhere, and the
property without its exception for an earlier seq, or for a lower id, is violated. In `durable_memo`
two goroutines meet at one mutex and the third in the shared store; keys never meet,
except under the mutex, where one key blocks as well as two. Two graft sources, one
before and one after the first call, are what a retry can tell apart. The file trees
have a link in the root that leads out, in, to the root itself, to nothing or to a
file, and a database that is missing, a file, or a link out or in.

Deadlock is checked in every run but `projector`, whose scrubbing and tool calls end.

### Fairness

`one_worker` assumes weak fairness of each worker's next call (a process that runs goes
on) and strong fairness of `Begin` (a supervisor restarts the agent, whose loop comes
to the first uncommitted step again, as `cmd/crashagent` and the examples do). Stops
are bounded by `MaxStops`, so that a step is eventually attempted without one. Reads may
answer differently each time. `StepSettles` names the two states in which a stop between
a call and its memo leaves a step for good (section 5), and shows that there are no
others. `postgres_log` assumes
weak fairness of each process's next statement: the server runs a statement that need
not wait, and a caller that has its answer goes on. A wait for a row lock is not
assumed to end; that it does is what `CallsReturn` shows. `durable_memo` assumes weak
fairness of a goroutine's own steps and of a workflow whose worker is up, strong
fairness of taking a mutex (`sync.Mutex` hands it to a waiter that starves), and that
a stopped worker is started again: `temporal/backend.go:21` requires one to be running.
Without that, `Save` holds the mutex until its context expires, and the context that
`RunStep` passes on may have no deadline.

## 4. Proofs

A theorem holds for every value of the constants its module's assumptions allow: any
number of workers, processes, steps, slots, plans, nodes, faults and stops, where a run
has a small instance. The assumptions are those of the modules and say what the values
are: bounds are natural numbers, steps are numbers, plans list calls, effect classes are
the six of `effects.go`, `None` is none of the things it stands for the absence of
(`NoSlotAssumption`, `NoCallerAssumption`, `NoFileAssumption`, ...). TLC evaluates them
in the runs. Two more hypotheses are about how the code is used, and stand in the
theorems that need them:

* `MemoKeysDistinct`: no two steps share a tool's memo key, as with one workflow id per
  step. Without it a step may commit without its call: `shared_memo_key`.
* `OneWorker`: one worker at a time, which is what README 8.2 describes. Without it a
  re-drive may be given a plan that is not the sealed one: `concurrent_seal`.

### The step protocol

`RunStepProofs`:

* `TypeCorrect`: `TypeOK`, proved part by part (log, frames, memo, counters).
* `GatedRunsOnce`: `GatedAtMostOnce` for any number of workers, plans and stops. By
  itself it is not inductive: that a tool has not run yet when a worker is about to
  run it depends on where all workers are. `GateInv` adds that a worker between its
  claim and its tool owns the TOOL_CALL slot, that it is alone in it, and that a call
  that has run has its TOOL_CALL node. The log's slots never change
  (`LogMonotone`), which is why ownership, once gained, lasts.
* `PlansAgree` and `ToolsRunFromSealedPlan`: a worker past the seal holds the plan of
  the DECISION node (`PlanAgreement`), since its append of DECISION succeeded, and the
  slot keeps its first plan; so what runs is sealed. This needs nothing of the memo,
  and holds although the memo may disagree with the log.
* Under `MemoKeysDistinct`, from `StepInv`: a worker at call `i` has the results of the
  calls before it in the log (`Progress`), a memoized result is that of its TOOL_RESULT
  node (`MemoBacked`), a result has its call and an execution (`ResultsBacked`), and a
  committed step has all its results (`CommitsBacked`). Each part needs the others: a
  worker that skips a call because of its memo knows only through `MemoBacked` that the
  log has the result. It gives `MemoFollowsLog`, `CommitsAreComplete`, and
  `RunStepImplementsContract`, where a step of a worker maps to sealing, firing,
  recording or committing, or to nothing: loads, saves and stops are invisible to the
  contract.
* Under `OneWorker`, whatever the memo keys: `SealedIsReplayed`, and the action properties
  `SealedIsNotReinferred` and `CommittedStaysClosed`. `ReplayInv` says that between the
  model and the memo no plan is memoized and that what is about to be sealed is the
  memoized plan; `ClosedInv` says that a committed step has all results memoized, so that
  a re-drive of it passes every call without touching the log.

`ClientProofs` carries the invariants over to `Client`, hosts and imported logs included. A
host's step is one of RunStep's or one of four that go around the memo; the four are
shown to keep `GateInv`, `PlanAgreement` and `StepInv`, and an imported log is shown to satisfy
them (`History`: an export that was cut at a seq has every node below it, and a call that
fired has its TOOL_CALL). Theorems: `ClientTypeCorrect`, `ClientGatedOnce`,
`ClientToolsFromSealedPlan`, `ClientMemoFollowsLog`, `ClientImplementsContract`; and
`SealAfterMemo`, from `SealsFromMemo`: a worker of `RunStep` about to seal has a memo.

### The logs

`SqliteNodeLogProofs`:

* `ClaimHasOneWinner` from `IInv`: the write lock is held exactly between the INSERT
  of a claim and its COMMIT, the claimed slot is free until then, and a claim that has
  not inserted yet has a snapshot in which the slot was free (`LockDiscipline`).
* `AnswersTrue`, with what each program point of a call already knows
  (`AnswerProgress`).
* `SqliteImplementsAtomicLog`: every statement is a step of `AtomicNodeLog` or changes
  nothing it sees; the claim takes effect at COMMIT, the append at its INSERT, a
  conflict when the slot's owner is read.
* `TypeCorrect`.

`PostgresNodeLogProofs`, for Go and Python processes together:

* `IInv` says which statement belongs to which operation and when it has its answer
  (`CallProgress`), that an uncommitted row is for a slot no committed row has, and that
  an append past its INSERT without a row found its own node (`RowDiscipline`), and that
  an append that rolls back met a different node unless its INSERT failed
  (`FailedAppends`). `TypeCorrect` and `PyRefusalTrue` are part of it.
* `AnswersTrueUnlessInsertFailed`, over the answers the code gives: no two processes hold a
  granted claim of one slot, and what a caller was told of its slot is so as long as it
  has the answer, except for the "ok" of an append whose INSERT failed by itself, which
  `postgres_insert_error` shows to be false. It comes from the lemma `PromisesHold`, which
  says it of the answers as the refinement reads them (that "ok" is an error there), and
  from `FailedAppends`. That two claims cannot both be granted needs the other part: a
  granted claim's slot is taken. `NodesAreImmutable`: no row changes.
* `PostgresImplementsAtomicLog`: the operation takes effect at COMMIT. An append whose
  INSERT failed for another reason (`postgres_insert_error`) has its answer read as an
  error, as in the run. The proof shows that the answer "conflict" of the owner query
  after a successful INSERT is never given: the INSERT has decided it.

### Memo, store, packages

`DurableMemoProofs`, on each of the three backends: `MutexCorrect`; `FnOnce`, from `IInv`: a value that
a Step returned is in the memo (`MemoBacked`), a Save that waits has a workflow to wait for,
and a memo that was there when a call began is gone only with a closed map (`LateKept`,
`ClosedIsQuiet`); `FirstSaveKept`, an action property.

`CasFileSystemProofs`, on a directory and on S3: `ObjectsNeverTorn`, from `FilesWhole` (what a Put
is about to rename is complete and synced, and nobody else writes its temporary file);
`AckedStaysStored`; `NoForgottenTemps` (an ignored error of `os.Remove`, `cas.go:171`, is among
the steps); `RehydrateComplete`, from `Reads` (what was stored when a
Rehydrate began it has, or still has to ask for); `TypeCorrect`.

`TirPackageProofs`: `PackageKept`, from `PackageSafe` (the promised package is at the path, or at the
backup when nothing is at the path, and what Sign is about to install is that package too)
and `WriterProgress` (which of the two names has a file at each step of `replaceFile`);
`LoadReturnsOnePackage`, from `Made` (an archive is of one Export) and `ReaderProgress`;
`ImportLeavesNoHole`, from `LogProgress` (the log is a prefix, and every Import under way has
its nodes so far in it); `TypeCorrect`.

### Algorithms

`AlgorithmProofs`:

* Projector: `TypeCorrect`, and `ConstraintsNeverDropped` (R04) from `MustCollected`: the first
  loop has taken or has still to visit every constraint and pinned node, the second
  starts when all are taken and fit.
* Projector: `ContextStaysStable`, for appends at any step and seq and ids in any order.
  `LastInv` says that the reference definition of a context still holds of the projection
  before, over the nodes it was given, however many have come since (`LastIsTheReference`).
  The contexts of two projections then satisfy the same definition; of the nodes on which
  they differ the one that sorts first has the same taken ones before it in both, unless
  one that is new was taken there, which the property excludes. It rests on `Before` being a
  linear order with a least element in every set of nodes (`BeforeOrder`, `BeforeLeast`).
* Graft, for a source of any size that grows at any free slot (`GraftSpec`, the graft
  behaviours of `Tasks`): no two nodes share a slot (`SlotsTaken`), so the sort of
  `FindArtifactRef` has one first node (`FirstNode`, `OneFirst`). `GraftInv` says what stands
  behind the node in the slot (`Behind`); `GraftNeverCopiesThoughts` follows from it, and
  `RetriedGraftReplays` since a retry that finds another path has found another first node,
  which is then ahead of all that the source had (`ConflictHasNewer`).
* Projector: `ContextIsTheReference` (`TakenIffItFits`), from `SizesCounted`: what a projection has
  used is the total size of what it has taken (`SizeInv`). `SizeOf` adds up a set in an order
  that TLA+ leaves open; that the total grows by a node's size when the node is added is
  shown with a least set for which it fails. The loop over the optional nodes compares the
  running total with the budget, the reference definition compares the total of those
  taken that sort before the node; `SizeInv`, with the order of the visits (`OrderInv`),
  makes them one.
* Redaction: `NoSecretLeaves` (`SecretsRedacted`), from `RedactInvariant`: what the item loop has
  returned so far is what it was given, scrubbed (`RedactInv`). That a scrubbed value is
  clean, typed containers set aside (the scrub returns them whole, which is part of the
  statement), differs from what it was only in its secrets, and is left alone by a second scrub
  is shown for values nested to any depth. `Values` is any set of trees closed under taking
  parts and under putting others, no deeper, in their place; `Nesting` is any measure that
  is smaller for parts (`ValuesAssumption`). `Recursion` shows that the recursive functions have the value
  their definition gives, and a least value by `Nesting` for which a claim fails has parts
  for which it holds.
* MCP paths: `ToolsStayUnderRoot` (`PathsStayUnderRoot`), for every file tree in which an entry is
  in a directory and a link leads to what is no link (`TreesAssumption`), and for names
  other than "..", "" and the error's (`NamesAssumption`). `EvalStep` and `CleanFacts` give
  what `EvalSymlinks` and `Clean` do for a path of any length from what they do with one
  name. What exists without links leads to itself (`RealIsItself`), and below what is
  missing nothing exists (`NowhereStays`); so a path that was resolved through its nearest
  existing ancestor is opened where it says, or not at all (`ResolvedIsOpened`), and one
  that can be opened is resolved to where it goes (`OpenedIsResolved`). `isSubpath` is the
  prefix order, since no name is ".." (`SubpathIffUnder`). Both directions are needed: one
  that nothing outside is opened, the other that nothing inside is refused.

The provers have no induction over data: the library's induction theorems have an operator
as a parameter. Where it is needed, the set of counterexamples is shown to have a least
element (`LeastNat`, `LeastSet`, `LeastValue`) and that to be none.

### Only model-checked

* `StepSettles` and `CallsReturn` (of the memo and of the PostgreSQL log): liveness under
  fairness, which is out of the prover's reach.
* The four violations.

## 5. Where the code and its documentation differ

Four have a run (and an entry under `findings`): the memo keeps the first plan saved
while `durable.Step` returns its own (`concurrent_seal`); a tool's memo key has no
step number in it (`shared_memo_key`); any error of a claim's INSERT is a refusal
(`busy_claim`); an INSERT of the PostgreSQL append that fails for another reason than
a conflict is answered as success (`postgres_insert_error`).

Three more are behaviours of `RunStep` as modelled and bound what is claimed above:

* A read that is repeated after a stop and answers differently is refused as a slot
  conflict each time, where README 7.1 (`src/README.md:216`) has it recorded as a new
  TOOL_RESULT and no error. `one_worker` has such reads, and `StepSettles` names the state
  a step is then left in, `ReadLeft`.
* After a stop between a gated call's TOOL_RESULT and its memo the re-drive is refused
  the claim and blocks the step, where README 8.2 (`src/README.md:268`) has it committed.
  `StepSettles` names that state too, `GatedLeft`.
* A worker whose claim is refused appends its ABORT without looking whether the winner
  has committed the step, where `src/README.md:269` says never to reopen one.
  `NeverReopenCommitted` is therefore checked, and proved, for one worker at a time; that
  the committed plan and results stand with two is part of `StepContract`.

Smaller ones, found while reading and without a run of their own:

* The comment at `s3.go:119` says that unexpected errors must not look like a missing
  object; `Has` answers false for them, and `Put` then uploads again. `S3Store` models
  it as the code has it.
* `S3Store.Put` acknowledges an object that exists under the key without reading it;
  the file store reads it back. `AckedIsStored` therefore says of S3 that an object is
  there, and `Get` is where damage shows.
* The comment at `temporal/backend.go:72` takes a running workflow for "not found";
  `Get` waits for it instead, and `FnOnceAfterReturn` depends on that.
* `temporal/config.go:93` joins workflow id and step key with a slash, so two pairs can
  have one memo id when a workflow id holds a slash. Ids are taken apart here.
* R08 (`src/README.md:434`) says that redaction removes secrets from what is projected.
  `RedactProjectionContext` takes its items branch only for a `[]any` (`redact.go:71`), and
  `RedactValue` returns what is neither `map[string]any` nor `[]any` as it is
  (`redact.go:46`). `ProjectContext` builds its items as `[]map[string]any`
  (`projector.go:191`): its context, given to `RedactProjectionContext` in Go without a trip
  through JSON, comes back with its items unredacted. `SecretsRedacted` claims the scrub of
  what is reached, and says in its comment that this is less than R08.
* `RedactProjectionContext` leaves fields beside `items`, and fields of an item beside
  its payload, as they are; `SecretsRedacted` claims what the code scrubs.
* `ClassifyFromMCP` says a missing annotation is gated; `readOnlyHint` alone gives
  READ_ONLY.
* A trajectory that was imported, or sealed by a host, has no memo: `RunStep` asks the
  model again, and a different plan is refused at DECISION. `SealNeedsMemo` is about
  trajectories that only `RunStep` has driven, and `one_worker` starts from them.
* `Resume` accepts another tenant's history (`client.go:131`).

## 6. Not modelled

Hashing, canonical JSON, zip and JSON encodings and size limits (pure data, no control
beyond an early return); the configuration of Temporal and of S3 requests; the DBOS and
Restate adapters, whose durable behaviour is the engine's; the fields of the MCP tools'
answers; the Python-only projector policy file; the artifacts helper;
`ClassifyFromMCP`, which nothing in the Go runtime calls; test harnesses and examples
other than the adoption host. `PROJECT.json` gives the reason for each.

Assumed instead of checked: the file tree does not change between the check of a path
and its opening (`paths.go:177`); one process signs a path at a time
(`signature.go:463`); a trajectory is not resumed while it is half imported, when the
calls still missing from the log would fire again (`tir.go:793`); a Temporal server
keeps finished memos for longer than they are needed, and no other error of it has
"not found" in its text (`temporal/backend.go:73`); the trajectory does not grow between
an MCP export and the count in its answer (`tools.go:148`).

## 7. Plan

Of what section 2 models, every invariant and action property of the runs has a theorem;
only liveness has none. Left, the most consequential first:

* the composition of `DurableMemo` with `RunStep`, whose `Load` and `Save` are atomic: a step
  whose memo calls wait for each other's mutex;
* two processes that sign one path at once (`signature.go:463`), once the code says what it
  promises then.
