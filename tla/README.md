# A verification of AutoAgent in TLA+

AutoAgent runs *workflows*: directed graphs of nodes, possibly with loops, whose
nodes call operators (functions, tools, models). An *Invocation* is one run of a
workflow in a *Session*. It executes in memory on one event loop; what it did is
recorded as events that a separate thread writes to SQLite or PostgreSQL
without ever making the execution wait.

This directory holds TLA+ models of the parts whose correctness depends on the order
of things: the persistence pipeline, Sessions and what a restart finds of them, the compiler,
the scheduler, the drive loop of an Invocation with its crash recovery, the execution of its nodes,
and the way of a UserEvent from a streaming handler to a follower of the server. TLC checks them on
small instances, and TLAPS proves, for every value of the parameters, the safety of the whole persistence pipeline (the coordinator's
invariants, the truth of its reports, and that it implements an abstract journal), that of Sessions across retention and crashes,
the slots, workers and threads of NodeExecutor, and the way of a UserEvent. Paths below are relative to `src/autoagent/`.

## 1. Inventory

| Component | State | Operations | Talks to | Hard because | Correct if |
|---|---|---|---|---|---|
| Persistence coordinator (`core/runtime/persistence.py`) | deques by Session, round-robin order, byte ledger, gaps, failures, durable sequences, health | reserve, publish (with coalescing of recovery snapshots), cancel, take, adjust size, discard, mark durable, fail, degrade, status, flush | RuntimeStore (producer, any thread), database writer (consumer) | two threads, limits, replacement inside a queue, purges | ledger and deques agree; the newest snapshot survives; a failed journal never goes on; "durable" is true |
| Database writer (`core/runtime/backends/database.py`) | prepared items by Session, batch in hand, asyncio event | import, sleep, batch, two transactions, retry with backoff, halt, settle, flush, close | coordinator, RuntimeStore, database | lost wake-ups, ambiguous commits, partial failure, shutdown | the database holds a prefix of every journal; nothing published is forgotten |
| RuntimeStore (`core/runtime/store.py`, `session.py`, `retention.py`) | aggregates, events, Session index, retention order | admit, record event, publish, claim a waiting Session, evict, rebuild | executor, coordinator, app | admission checked around an await; eviction reads three statuses | one active Invocation in a Session; only durable data is evicted |
| Scheduler (`core/scheduler/scheduler.py`, `core/runtime/scheduler.py`) | cursor: edge and boundary resolutions, scheduled and skipped instances, ready queue, waits | initialize, advance, resolve instances, skip, finalize a loop boundary | executor | fan-in in any order, nested loops, skipping | a node runs once, when all its inputs are decided; iterations do not overlap |
| WorkflowExecutor (`core/executor/workflow_executor.py`) | Invocation state, NodeExecutions, transition queue, deferred failure | drive loop, submit, apply result, park, resume, cancel, fail, recover | scheduler, NodeExecutor through the mailbox, store | results, resumes and cancellations at every await | every path is decided before it ends; nothing goes on afterwards |
| Invocation mailbox (`core/runtime/mailbox.py`) | tracked tasks, messages | track, post, wait, abandon, close | executor, worker tasks | late answers | no answer is lost, none arrives after the end |
| Compiler (`core/compiler/`) | diagnostics, IR | expansion, nodes, edges, contracts, loop regions, policies, analysis, preview, snapshot | registries; scheduler reads the IR | nested workflows, dominators and natural loops of arbitrary graphs, declarations that compile in part | what is accepted is the nested workflow, flattened, and reducible; the analysis states nothing false |
| NodeExecutor (`core/executor/node_executor.py`, `core/runtime/concurrency.py`) | units, attempts, semaphores | map, replication, retry, fallback, timeout, aggregation | mailbox, thread pool | synchronous operators outlive their timeout | one answer for each execution, limits kept |
| Streamed UserEvent batcher (`core/executor/node_executor.py`) | specs, generation | append, deadline, flush | mailbox | handler thread against timer and retry | events in order, each once, none stuck |
| Runtime contexts (`core/runtime/context.py`) | data, revision, revisions by path | commit_isolated | executor | bindings on stale copies | no update lost, none published in half |
| Crash recovery (`core/executor/workflow_executor.py`, `core/app/app.py`) | what the database holds | rebuild, requeue, reject, interrupt | store, scheduler | any prefix may be what is left | no node runs again unless its policy allows it |
| Application (`core/app/app.py`, `core/runtime/hooks.py`) | registry, live Invocations, event loop | start, invoke, resume, close | all | calls from other threads | one claim for each live Invocation |
| Operators (`core/operators/`), policies and declarations (`core/workflow/`) | registries | register, enable, resolve | compiler, NodeExecutor | resolved later than compiled | a compiled node finds an Operator that keeps its contract |
| Values (`serialization.py`, `snapshot.py`, `artifact.py`, `output.py`) | recovery states | operations, reduction, encoding | database writer | caches against rollbacks | a rebuild gives the state that was recorded |
| Server and trace (`core/server/`) | tasks, stream listeners | routes, SSE, read models | app, store | another loop than the Runtime's; a stream ends while events still come | a follower gets every event and ends |
| Project, CLI, AI workflows (`project/`, `cli/`, `ai/`) | – | files, arguments, HTTP | app | pure I/O or users of the framework | – |

`PROJECT.json` lists the same components with what is modelled of each, and under
`hazards` the places in the code where an error would be hard to find by testing.

## 2. Modules

```
WorkflowGraph              graphs, dominance and natural loops, from paths
  ├─ LoopCompiler          the loop stages of the compiler
  │    └─ WorkflowCompiler     all stages, registries, resolver   MCWorkflowCompiler
  │         (also extends WorkflowExpansion: nested workflows)
  └─ SchedulerContext      the cursor of an Invocation
       ├─ Scheduler            the methods that move it
       └─ WorkflowExecutor     one Invocation, its crashes        MCWorkflowExecutor
            │  (also extends ContextCommit: contexts of bindings; MCWorkflowExecutor
            │   gives its driver the methods of Scheduler)
            └─ WorkflowExecutorProofs  (TLAPS)
Subsequences               filtering a sequence by a set
CollectionProofs           lemmas on sequences and finite sets (TLAPS)
NodeExecutor               slots, units, attempts, threads        MCNodeExecutor
  └─ NodeExecutorProofs        (TLAPS)
UserEventStream            handler, batcher, store, follower      MCUserEventStream
  └─ UserEventStreamProofs     the batcher and the follower (TLAPS)
       └─ StreamJournalProofs      the journal of streams (TLAPS)
ExecutionHistory           rows, events, caches, recovery states
  └─ SessionStore          one Session key, retention, restart    MCSessionStore
       └─ SessionStoreProofs       (TLAPS)
PersistenceCoordinator                                            MCPersistenceCoordinator
  ├─ PersistenceCoordinatorProofs  with the sums of the ledger and coalescing (TLAPS)
  └─ DatabaseBackend       store + coordinator + writer           MCDatabaseBackend
       ├─ DurableJournal       what the pipeline promises (INSTANCE ... WITH)
       └─ DatabaseBackendProofs    the pipeline and its refinement (TLAPS; also extends PersistenceCoordinatorProofs)
```

Definitions with the comment "Wrong:" are variants of the definition after them with
a plausible mistake. No specification uses them; each property is tried against one of
them to see that it can fail.

### PersistenceCoordinator

One action per method of the class. All methods run under one re-entrant lock, so a
method is one step, except `take` and `fail_invocation`: they loop while they hold
the lock and are sequences of steps (`BeginTake`, `TakeOne`, `EndTake`; `BeginFail`,
`PurgeOne`, `EndFail`) during which no other action is enabled (`LockFree`). An
envelope is a record of its kind, deque, Invocation, sequence and three sizes:
estimated, of its recovery snapshot, and exact. `stage` is where an envelope is in the
hands of its client; it keeps a client from publishing without a reservation. The client
is otherwise free: any order of calls. Left out: condition-variable waiters
(`await_admission` and `flush` read the modelled state), timestamps and messages of health,
and log output.

| State | Code |
|---|---|
| `incoming`, `ready`, `readySet` | `_incoming`, `_ready_sessions`, `_ready_set` |
| `outstanding`, `size`, `pendingBytes` | `_outstanding_bytes`, `_pending_bytes` |
| `stripped` | envelopes whose `recovery_snapshot` was replaced by `None` |
| `errors`, `gaps`, `userGaps` | `_invocation_errors`, `_invocation_gaps`, `_user_event_gaps` |
| `durableSeq`, `durableUserSeq`, `admitted` | `_durable_sequences`, `_durable_user_event_sequences`, `_durable_admissions` |
| `health`, `pressure` | `_health.state`, `_admission_pressure` |
| `waking` | publishers between the lock and `wake()` |

### DatabaseBackend and DurableJournal

`DatabaseBackend` extends the coordinator with its real clients. A producer follows
`_publish_persistence`: drop if the Invocation has failed or has a gap, reserve, publish, wake;
a refusal is reported as a gap. The producer respects the order in which the Runtime
records (`Predecessors`). The writer is the task `_persistence_loop` with a program
counter; it gives up the event loop only in the states `Awaiting`, and only there a
wake-up callback (`Signal`) can run. `CommitRuntime`, `RetryRuntime`, `CommitUsers`,
`RetryUsers`, `RejectUsers` and `Halt` are the outcomes of the two transactions of
`_persist_batch`; a retryable error is ambiguous: the rows may be committed or not.
`SettleOne` marks items durable, one at a time, as the loop does. `FlushBegins`,
`FlushDrained`, `FlushChecked`, `FlushEnds` and `CloseStops` are `aflush` and `aclose`.

`DurableJournal` is the promise: the rows of each Invocation are a prefix of what was
recorded, they grow, and after a loss nothing at or beyond it is ever stored. The refinement
(`ImplementsJournal`) maps `stored` to rows and the first envelope given up to the cut.
Stopping the process at any state leaves what `rows` holds there, so this is also what a
restart finds.

### WorkflowGraph, LoopCompiler, WorkflowExpansion, WorkflowCompiler

`WorkflowGraph` defines reachability, dominance ("on every path from an entry"), back
edges and natural loops directly, and `Compiled(g)`, the graph with its loops and
loop stacks. `LoopCompiler` is `_compile_loop_regions`: the dominator iteration in
insertion order (`Dominate`), the check of cycles for a single entry, acyclicity without back edges,
collection and overlap of natural loops, regions and depth, each stage ending in a
diagnostic or the next stage.

`WorkflowExpansion` is `expand_child_workflows`, a recursive function from declarations to a flat
workflow and the codes of its diagnostics. An id is the sequence of names between its slashes.
`WorkflowCompiler` is `compile`: one action for each stage, with the registries of Operators and
capabilities, which applications change between any two stages and after the last. `ResolveCandidates` is
`OperatorResolver.resolve_candidates`, which reads the registries again each time a compiled node runs. A contract is
the set of its parameters and of the required ones, whether it is open to further ones (`allow_extra`) and whether it is known
at all (`inspectable`); `Compatible` is `compare_contracts`. A callable that is bound to a node, mapping, hook or condition is
taken to be one that the compiler can inspect. A diagnostic is its code.

### SchedulerContext, Scheduler

`SchedulerContext` is the cursor: which instances were scheduled, skipped or left, how edges and loop boundaries were resolved, the ready queue.
`Scheduler` holds operators from a cursor to a cursor, one per method, since the scheduler runs inside the driver
and never waits. `ResolveInstances` is the worklist of `_resolve_node_instances`, with
`SkipInstance` and `SkipLoop`; `Finalize` is `_finalize_loop_boundary`. A scope is the list of
loop iterations an instance is in. A method that raises or fails the Invocation leaves an error
in the cursor. An activation is its source instance: values do not matter to any property.

### ContextCommit, WorkflowExecutor

`WorkflowExecutor` has one action for each branch of the drive loop, in the order the loop tries them: `Start`, `Route`
(one transition), `Submit` (all ready requests), `Receive` (all messages), `Park`,
`TerminateFailed`, `TerminateInterrupted` (a deferred end), `Complete`, `DeadEnd`, `FinishFailed`; `Raise` is an exception that
escapes to `afail_infrastructure`. Worker tasks answer at any time (`WorkerFinishes`). A workflow is a graph and a
*policy*, which says what its hooks, handlers and callers may do; both are chosen in `Init`, so that one run
explores many. The five methods of the Scheduler that the driver calls are operator constants of this module
(`SchedulerInitialize`, `SchedulerEvaluate`, `SchedulerCompleted`, `SchedulerBlocked`, `SchedulerSkip`); the
configurations assign those of module `Scheduler` to them, and the proofs hold for whatever they return.
`Cancel` covers a cancelled caller and the server's cancel of a parked Invocation.

| State | Code |
|---|---|
| `inv.cursor` | `SchedulerContext` |
| `inv.executions`, `replays`, `bases` | the last `NodeExecution` of an instance, its `recovery_attempt` and the context revisions it started from |
| `inv.waits`, `transitions`, `state`, `deferred`, `mode` | `waiting_executions`, `transition_queue`, `Invocation.state`, `deferred_terminal_state`, `execution_mode` |
| `inv.contexts`, `commits` | the contexts of Invocation and Session; which revisions a binding made (history) |
| `working`, `mailbox` | tracked tasks and messages of `InvocationExecutionMailbox` |
| `resuming`, `drivers` | resumes suspended in their binding, with their copies of the contexts; tasks inside `_drive` |
| `saved` | the images of the Invocation that the latest step recorded, and the one before them |

A claim is `aclaim_waiting_session` followed by the first statement of the resume, which removes
the key. Where hooks may suspend (`asyncHooks`), the output binding of the resume is
a point at which others run, so a resume is `ResumeSuspends` and later `ResumeContinues`,
and several drivers may share an Invocation (`drivers`). Where they may not, the resume and
what follows until the Invocation parks, ends or submits a node cannot be interrupted, and
`Resume` requires that no driver runs. `_cancel_unfinished_nodes` is one step: with one
driver nobody can observe the moment in which it waits for cancelled workers. With two somebody could; the
instances with `asyncHooks` therefore have no failures, cancellation or limits that would abandon a worker.

A step of the driver is a fold over an accumulator that also collects the images: what `_record_event` would
store as recovery state, in the standard mode at recovery points, in the full mode at each event. An image holds of the node
executions only those its event names (`Image`). `Crash` takes one of the images, as the journal is written behind the
execution and keeps a prefix, and goes on as `arecover` does (`RestartWaiting`, `RestartCreated`, `RestartRunning`).

`ContextCommit` is `RuntimeContext.commit_isolated`: documents are functions from paths to leaves, and `CanCommit` /
`Committed` the two-phase commit of `_run_output_binding` to both contexts. `PutAll` stands for the user's binding: it sets paths none of which is above another.

### ExecutionHistory, SessionStore

`ExecutionHistory` has no state of its own: it is the row of an Invocation with events and recovery state, what
`_persist_events` makes of a batch (`PersistEvents`, with the caches the writer keeps between transactions) and what
`arebuild_execution` reads (`Rebuilt`). The state after event *n* is *n*; an operation applied to another state than the one
it was made for gives `Garbage`.

`SessionStore` is one Session key: calls of `ainvoke` and `aresume` with their waits (lookup in the database, memory),
the drivers reduced to the events they record, the writer with commits that fail or are repeated, retention
on the writer's thread (`Advance`, `Evict`), and `Restart` with the recovery of `app.py`. A Session *object* is distinguished from
a Session *id*, since two calls can load two objects of one Session. Any number of calls look the Session up side by side, as nothing in the
code keeps them apart; the history variable `lapses` records what a lookup did because another call came in between: it reported
an Invocation that is in memory by now (`"overtaken"`), it put its object over the one in memory (`"replaced"`), or it made a second Session of the
key (`"doubled"`). The properties that do not hold after one of these name it. The coordinator between Runtime and writer
is one queue that coalesces snapshots; the module above shows what it does with several. An admission always waits once, a superset of what the code does.

### UserEventStream

Handlers produce chunks on the Runtime loop or in a thread (`NextChunk`, `Post`, `EndStream`); the batcher collects
them (`batch`, its deadlines in `timers`, `FlushGeneration`); the Runtime loop runs callbacks one at a time (`RunCallback`); the driver takes messages,
records UserEvents and announces them (`Take`, `RecordUserEvents`, `Notify`, `ApplyResult`), fails, is cancelled (`AbandonWork`; results that are already there are dropped by `SkipResult`) or completes;
`Commit` stores what is durable; and a follower runs the loop of `stream_invocation_user_events` (`Clear`, `ListUserEvents`,
`LoadUserEvents`, `SendPage`, `ReadDetail`, `Heartbeat`). Recording and announcing are two steps because the server's loop is another
thread. No retention and one process lifetime; `past` are the UserEvents that an earlier process left in the database.

### NodeExecutor

The executions of one concurrency key: those of a node in any Invocation. `phase` is where the task of an
execution waits (`_execute_job`): for a slot, in its item selector, for its units, in its aggregator. `units` holds the
state its unit workers share on the event loop (iterator, `_CallBudget`, results) and where each worker is;
`queued` and `running` are the thread pool. A step runs from one await to the next, so that a worker that ends a unit
takes the next one and starts its first attempt in the same step. `TimesOut` is `asyncio.wait_for` around an attempt, `Abandon`
the cancellation of the task by the mailbox in any of its waits, `UnitsFail` the failure of a unit, which cancels the other
workers. A synchronous handler that nobody awaits any more stays in `running` until `OrphanReturns`. `ExecuteCommand` answers
system commands without a task, and `Summary` is the `ParallelExecutionSummary` of a map or replication. A call counts as one handler call,
the consumption of a stream included; coroutine handlers are assumed to end when they are cancelled.
`WorkflowExecutor` sees of all this only that a submitted execution is answered at some time, once.

## 3. Runs

All bounds are in the `.cfg` files and the MC modules.

| Run | Instance | Result |
|---|---|---|
| `coordinator` | two Invocations in one deque (three events with snapshots) and the control deque, or admission, event and UserEvents of one Invocation; together above the hard limit, sizes that grow and shrink | `ReadyExact`, `QueuedExact`, `OutstandingExact`, `BytesExact`, `NewestSnapshotKept` hold |
| `pipeline` | two Invocations, six envelopes, one of them unserializable, ambiguous commits; or every kind of record in short memory, every fault, `aflush` and `aclose`; under fairness | `ReportsTruthful`, `EventuallySettled`, `AdmissionResumes` hold, and the pipeline implements `DurableJournal` (`ImplementsJournal`) |
| `compiler` | all 4096 graphs of four nodes; all 64 children of three nodes, embedded once or twice, two levels deep, under several selectors; workflows with one or two of some 40 faults; one node whose Operators, with closed, open and unknown contracts, are registered and disabled at any time, and one bound to an Operator by reference or as the object | `AcceptsReducible`, `ExpansionExact`, `AnalysisExact`, `LateBindingSound` hold |
| `invocation` | joins, two entries, limits, failures of every kind, one wait key for all, cancellation; every accepted graph of four nodes with one entry and at most six conditional edges, and a loop in a loop with a side branch and an exit through both; resumes whose bindings suspend; bindings that write side by side; two crashes of sequential workflows in both event modes | `ExitsDecided`, `NothingLost`, `WaitsExact`, `QuietAtEnd`, `ScheduledOnce`, `FanInComplete`, `IterationsSequential`, `RecoveryGated`, `ContextsExact`, `ContinueKeepsBranches` hold (1.0 million states) |
| `node_executor` | a map of three items and a single call, one slot, one thread, a synchronous and a coroutine candidate, two attempts each, limits on attempts, timeouts; under fairness | `SlotsExact`, `QueueExact`, `QuietAfterAnswer`, `CompletedWhole`, `EventuallyAnswered` hold (0.24 million states) |
| `sessions` | two calls of `ainvoke` and one of `aresume` that look the Session up side by side, batches of two, policies that keep no, one or two ended Invocations, a crash, a lookup that fails, an end that takes its time | `OneActiveUntilReplaced`, `ActiveReachable`, `EvictedDurable`, `NoResurrection`, `NeverHalts`, `RebuildExact` hold |
| `streams` | a thread's stream that times out and its retry; two streams, either of which may end the other; a followed stream that ends in every way; a follower after a restart; under fairness | `StreamExact`, `NoChunkStuck`, `NoLostWakeup`, `FollowerExact`, `StreamEnds` hold |
| `pipeline_stall` | two unserializable admissions before a sound one, `take` limit 1 | `EventuallySettled` is violated |
| `invocation_overlap` | two nodes that may wait, resumed at once | `TerminalQuiet` is violated |
| `invocation_crash` | two parallel branches, one crash | `NothingLost` is violated |
| `sessions_evict` | the writer comes between an end and its record | `RetainedUntilDurable` is violated |
| `sessions_race` | two lookups at once | `OneActivePerSession` is violated |

Why the bounds are enough to be interesting:

* The coordinator treats envelopes alike except for kind, deque and Invocation, so two
  Invocations in one deque are the smallest case in which coalescing or purging can touch the
  wrong one, and two snapshots of the same Invocation the smallest in which it has to choose.
* The memory limits are set so that some offers are refused and pressure is reached.
* The take limit and batch limit are below the number of envelopes, so that batches
  split journals.
* Four nodes are the smallest number that gives every shape of two loops (nested, sharing a header,
  disjoint, overlapping) with an entry of their own. `invocation` adds one larger graph, with
  two branches inside a loop around another loop.
* `limit` of a policy (executions of a node) bounds loops. It is at most 3: the
  second iteration is where scopes could be confused, the third where a first and a second one could be.
* `crashes` is 2 in `invocation`: a crash during the recovery from a crash, in which a replay may be lost again. Workflows
  that crash are sequential (a chain, one loop); with parallel branches recovery loses one (section 4).
* Two writers of a context and one reader that writes where it read are enough for each overlap of paths (equal, one below
  the other, beside each other) with each order of base and commit.
* In `sessions` the three calls look up the Session in any order and overlap, which reaches each of the `lapses`; a second active Invocation needs
  three calls of `ainvoke`, as in `sessions_race`. `BatchLimit` 2 splits an Invocation's records over transactions, `RecoveryInterval` 2 puts a checkpoint of the full mode between them.
* In `streams` batches hold two items and pages two events: three or four chunks make a full batch, a rest for the timer and a second page.

Deadlock checking is on for the coordinator, the compiler and the WorkflowExecutor; there it means that the drive loop always
has a next step until the Invocation is over or waits for a resume, and as all executions of the model
are finite, every Invocation ends or waits. It is off for the pipeline, the Sessions and the streams, where everything
may rest when nothing is left to do, and for NodeExecutor, which may have answered everything.

### Fairness

Liveness is stated for the pipeline, NodeExecutor and the streams. In the pipeline (`FairSpec` of `DatabaseBackend`) a thread inside `publish` goes on (weak
fairness of publishing and waking). The event loop of the database thread runs scheduled
callbacks and ready tasks (`Signal`, `Import`, `Write`). `SF_vars(CommitRuntime)` and
`SF_vars(CommitUsers)` say that a transaction that is retried again and again commits at
some time: the loop retries without limit (`database.py` 1638-1650), and a
database that fails for ever cannot make progress. Nothing is assumed of the
producers: they need not offer anything.

In NodeExecutor the event loop runs its ready tasks, timers fire and a free slot goes to a waiting
task (`WF_vars(Works(x))` for each execution: a worker cannot go round for ever, as attempts are finite).
Hooks (item selector, aggregator) return. Nothing is assumed of handlers or threads: with a TimeoutPolicy `EventuallyAnswered`
holds although handlers hang and fill the thread pool. Without one it cannot hold, and `Timeouts` is TRUE in the run.

In the streams (`Fairness` of `UserEventStream`) both event loops run what is ready, timers fire, a cancelled task learns it, handlers end at
some time, and a follower that waits gets its heartbeat after 15 seconds: without the last assumption `StreamEnds` would rest on
the wake-up alone, which a full page can miss (section 4).

## 4. What the runs found

The first five are described with their sources in `PROJECT.json` under `findings`.

1. **The writer can sleep on a backlog** (`pipeline_stall`). It looks twice before it sleeps, but a look that
   only drops records it cannot serialize finds "nothing", and `publish` does not
   wake a writer whose queue it found non-empty. A sound record stays pending until some
   later publication finds the queue empty, which cannot happen while it is there.
   (The second look itself is not needed against a lost wake-up: callbacks
   run only at awaits, and there is none between the first look and `wait()`.)
2. **Two resumes of one Invocation can overlap** (`invocation_overlap`): the claim changes
   nothing while other waits are left, so with asynchronous bindings one driver
   completes the Invocation while another execution is still being resumed, and the
   state then goes from "completed" back to "running".
3. **Recovery forgets a parallel branch** (`invocation_crash`): the images of the standard mode hold neither the
   drained queue nor a running node that has not ended, so the recovered Invocation completes without it.
4. **Retention can evict an Invocation before its end is recorded** (`sessions_evict`): the event of the end is then refused, and
   the database keeps the Invocation as running.
5. **Two lookups of a Session can admit two Invocations** (`sessions_race`): `afind_session` caches what the database answered without
   looking into memory again (`store.py` 448), so the second answer replaces the Session object that has the active one. From then on later
   calls do not find it, and a restart recovers only the newest; its journal in memory and its rows in the database stay right, as the other properties of `sessions` show.

Further limits of the code showed up while the models were written. The instances stay
clear of them or the properties except them, so no run shows them.

Persistence:

* An admission can reach the database before its workflow version when two workflows are
  used: all versions share one deque, round robin serves the other deques between
  them, and a batch may end there. The writer then raises an error it takes for fatal
  (`database.py` 1914-1918) and halts. The pipeline's runs have one workflow, whose version is always first.
* When the lookup of a Session fails, the call makes a new Session of the same key (`database.py` 379); when the database is back, its
  admission is refused for good and persistence halts. The same happens without a failure when a lookup has found no row, and is answered only after the Session of another
  call was created, ended, made durable and evicted. `NeverHalts` excepts both (`Doubled`).
* The second query of `afind_session` may find an active Invocation that another call has put into memory since the first: the call is told that it was not loaded
  during the start, although it is there (`database.py` 394-408). `NoResurrection` excepts it (`Overtaken`).
* UserEvents of an Invocation whose admission was refused violate a foreign key, which is not retryable either (`database.py` 1853); an exception in
  retention ends the writer task without marking the backend unavailable (`database.py` 1699).

Scheduling and execution:

* An entry that was not chosen is not skipped past its own edges: `Scheduler.initialize` drops the targets that
  `_skip_node_instance` returns (`scheduler/scheduler.py` 68-76). With two nodes between such an entry and a join, the join waits for
  ever and the Invocation ends in WORKFLOW_DEAD_END, contrary to `tests/test_workflow_executor.py` 2361.
  The graphs with two entries in the runs have one edge there.
* In `continue_active_branches` mode a failed loop body makes `_finalize_loop_boundary` fail the Invocation with
  LOOP_DEAD_END at once, which cancels independent branches (`scheduler/scheduler.py` 593).
  `ContinueKeepsBranches` speaks of nodes outside loops.
* When a unit of a map or a replication fails, the attempts of the units cancelled with it appear in no
  result: `_parallel_execution` counts those of finished units only (`node_executor.py` 1865). A later execution of the same
  node in the Invocation may therefore exceed `max_operator_attempts_per_invocation`, which `policy.py` 175-181
  describes as the maximum of *actual* handler attempts. `CompletedWhole` states the count for completed executions.
* Contexts: what is protected is the conflict check, since after it a merge of all changed paths yields the working copy. A binding
  that suspends works on a copy that is stale when it ends, so a disjoint write committed meanwhile looks like a change of its own and is a
  conflict; two branches that both create the same parent dictionary conflict; keys that are not
  strings make `_merge_changed_path` raise KeyError, which fails the node.

Recovery (`ExitsDecided` and the instances with crashes are chosen accordingly):

* In the full mode every event of a batch is an image, and some are taken while a queue has been drained.
* The standard mode never requeues an execution that was running, as it is in no image: `max_attempts` and the idempotency mode of
  RecoveryPolicy matter in the full mode only.
* A crash between the image of `invocation.running` and the end of `initialize` leaves entries that were not chosen unskipped.
* A rejected request interrupts the Invocation, but jobs collected before it are still submitted (`workflow_executor.py` 522).
* A resume that leaves other waits keeps the state "waiting" while its successor runs; start-up passes waiting Invocations by (`workflow_executor.py` 833).
  A crash between the two events of a resume leaves an Invocation that waits for nothing (`Stranded`).
* A node of the mode "never" runs again if the crash hits a resume of another wait; a crash between `node.cancelled` and
  `invocation.cancelled` goes on with what was to be cancelled; an image with a wait whose execution was never recorded raises KeyError.
* `arecover`'s branch for a changed definition (`workflow_executor.py` 324-331) is not reached at start-up: only Invocations of registered
  revisions are looked for (`app.py` 184-211), and the revision contains the hash. An Invocation of a changed workflow stays "running" and its Session busy.

Streams:

* A follower may be sent `stream_end` before the last UserEvents, since the state becomes terminal before they are recorded
  (`workflow_executor.py` 1907-1932) and the page is read before the state (`server/app.py` 866-892), although `tests/test_server.py` 597 says
  "A terminal state alone must not close the stream before final UserEvents."
* A page that is full is followed by a wait of up to 15 s for the next one unless something is announced, although "no wakeup can be lost" (`server/app.py` 862-864). `NoLostWakeup` excepts it (`full`).
* After a restart UserEvents are numbered from the last durable one (`store.py` 1008-1020): a number that a follower has seen may be used again.
* Cancellation while drained messages are applied drops the UserEvents behind the one under way (`workflow_executor.py` 541-556). A handler thread that
  timed out goes on after its `message_aborted`, and its batches may overtake each other. `StreamExact` excepts both.

Compiler:

* `_resolve_endpoint` leaves an unknown id of a child as it is (`expansion.py` 424-432), so an edge to a missing node of a child is
  captured by a node of that name around it, and EDGE_UNKNOWN_NODE is not reported, contrary to `tests/test_compiler.py` 372; an edge *from* a missing node is dropped.
  `ExpansionExact` assumes `WellScoped`. A hook's local id of a pruned node likewise falls through to one of that name outside.
* A capability contract with `**kwargs` serves names that no Operator is checked for: `compare_contracts` (`operators/contract.py` 447-528) compares declared names only. Its docstring says both that it
  checks whether an Operator can "serve every valid Capability invocation" (line 324) and that only mismatches that make it "definitely impossible" are errors (line 326). `LateBindingSound` is about the declared names, and for contracts that can be inspected on both
  sides; the others are not compared.
* An Operator that cannot be inspected is registered with the warning that its contract is checked only when it is invoked, but then `_call_handler`
  inspects the signature again (`operator.py` 170-178), which fails.
* A placeholder and a node with the same id give no NODE_DUPLICATE_ID.
* When the loop stage refuses a complete graph, `loop_regions` of the analysis is empty, although `analysis.py` 99-101 says that None means unknown.
  `AnalysisExact` asks for exact loops only without loop errors.

## 5. What is proved

TLAPS checks thirty-one theorems. Each holds for every value of the constants under the assumptions named in the module it is about,
which TLC evaluates for the instances of the runs. The last step of each combines three facts by temporal logic: the initial
states satisfy an inductive invariant, every step keeps it, and it implies the statement.

| Module | Theorem | Statement |
|---|---|---|
| `PersistenceCoordinatorProofs` | `TypeCorrect` | `Spec => []TypeOK` |
| | `RoundRobinExact` | `Spec => []ReadyExact` |
| | `DequesExact` | `Spec => []QueuedExact` |
| | `LedgerExact` | `Spec => []OutstandingExact` |
| | `MemoryExact` | `Spec => []BytesExact` |
| | `NoReservationLeaks` | the ledger is never negative, and zero when nothing is outstanding |
| | `CoalescingExact` | `Spec => []NewestSnapshotKept` |
| `DatabaseBackendProofs` | `PipelineInvariant` | `DatabaseSpec => []PInv`, the inductive invariant |
| | `PipelineUsesCoordinator` | `DatabaseSpec => Spec` |
| | `StatusTruthful` | `DatabaseSpec => []ReportsTruthful` |
| | `PipelineImplementsJournal` | `DatabaseSpec => ImplementsJournal` (a refinement) |
| `SessionStoreProofs` | `ActiveIsReachable` | `Spec => []ActiveReachable` |
| | `OneIsActive` | `Spec => []OneActiveUntilReplaced` |
| | `EvictionIsDurable` | `Spec => []EvictedDurable` |
| | `NothingResurrected` | `Spec => []NoResurrection` |
| | `PersistenceNeverHalts` | `Spec => []NeverHalts` |
| | `RebuildIsExact` | `Spec => []RebuildExact` |
| `WorkflowExecutorProofs` | `WaitsStayExact` | `Spec /\ []ScheduledOnce => [](crashes = 0 => WaitsExact)` |
| | `EndIsQuiet` | `Spec /\ []ScheduledOnce => [](crashes = 0 => QuietAtEnd)` |
| | `CompletionLosesNothing` | `Spec /\ []ScheduledOnce => [](crashes = 0 => NothingLost)` |
| | `ContextsStayExact` | `Spec /\ []ScheduledOnce => [](crashes = 0 => ContextsExact)` |
| | `ReplaysStayGated` | `Spec /\ []ScheduledOnce /\ []WaitsExact => []RecoveryGated` |
| `NodeExecutorProofs` | `SlotsReturned` | `Spec => []SlotsExact` |
| | `ConcurrencyBounded` | never more than `SlotLimit` executions inside their slot |
| | `AnswersAreFinal` | `Spec => []QuietAfterAnswer` |
| | `PoolServesWorkers` | `Spec => []QueueExact` |
| | `AnswersAreWhole` | `Spec => []CompletedWhole` |
| `UserEventStreamProofs` | `ChunksFlow` | `StreamSpec => []NoChunkStuck` |
| | `WakeupsArrive` | `StreamSpec => []NoLostWakeup` |
| | `FollowerIsComplete` | `StreamSpec => []FollowerExact` |
| `StreamJournalProofs` | `StreamsAreExact` | `StreamSpec => []StreamExact` |

**Persistence coordinator**, for any set of envelopes, Invocations and
deques, any watermarks and any take limit (assumed: well-formed envelopes, `Low < High < Hard`, a positive limit).
None of the five is inductive alone. That `take` finds a deque for the Session it pops needs
`ReadyExact`; that `ReadyExact` survives a purge needs to know which envelopes a deque holds
(`QueuedExact`); that `pendingBytes` stays a natural number when an envelope leaves needs its bytes to be part
of the ledger (`OutstandingExact`, and the part of `TypeOK` that bounds each size by the sum); and that an envelope is not queued twice needs the client
protocol in `stage`. The invariant is their conjunction, `IInv`. The proof has one lemma per
action, and below it one step per conjunct that the action can disturb; lemmas on
sequences (removing a position, the range of a tail, injectivity of an appended
sequence) are stated once at the top.
The theorems speak of the coordinator with an arbitrary client, so they hold in
particular for the coordinator inside `DatabaseBackend`, which uses only its actions (`PipelineUsesCoordinator`).

**The ledger.** `BytesExact` says that `pendingBytes` is the sum of the sizes of what is outstanding. The sum is a fold over a set in the
order CHOOSE happens to give, so the lemmas up to `SumAdd` first show that a fold of finite sets does not depend on that order. They argue by
a smallest counterexample (a finite set of least cardinality for which the statement fails) instead of the induction theorem of the library, which
takes an operator as parameter. Then each action adds one size, removes one or changes one.

**Coalescing.** `NewestSnapshotKept` is about positions in a deque that changes at its head (`take`), in the middle (a purge) and at its end (`publish`, which also strips the
newest snapshot before it). The lemmas `CoalescedTail`, `CoalescedRemoveAt`, `CoalescedAppend` and `CoalescedReplace` say under which
condition each change keeps it. `SnapshotsKept` adds that an envelope once stripped is never published again; that a purge removes no newer snapshot from behind an older
envelope that lost its own rests on the order in which it goes through the deque: the oldest record of the failed Invocation first.

**The pipeline**, for any finite set of Invocations and journals of any length, any scenarios of offers, faults and calls, any batch and memory limits.
Assumed of the envelopes (`JournalsAssumption`): the records of an Invocation are numbered from its admission, 0, without holes, and no number is used twice. This
is what `_record_event` and the admission give in the standard and full modes; records of the minimal mode, which has no events, are not covered.
`ReportsTruthful` compares numbers (the last recorded sequence, the durable one) and faults with rows. A durable number proves that *one* row exists. That all
earlier ones do needs that the rows are a prefix (`PrefixStored`), which needs that nothing overtakes a record of its line on
its way, from the deque over the imported and prepared items to the batch (`InOrder`, `StoredAhead`), and that behind a record which was dropped, refused or failed
nothing of its journal arrives any more (`RefusedCuts`, `LostBehind`). The last is the hard part: a record fails in the writer while its successors are on both sides
of the coordinator's lock, and `fail_invocation` purges the deques step by step while the failed record has not been reported. `ReportingWhere` says where the
writer is while a failure is not yet known to the coordinator, `SettledExcused` that it becomes known, `Held` that the writer has not
forgotten anything in a retry. `FlushKnows` follows what a flush found handed over through its two checks.

**The refinement.** `PipelineImplementsJournal` maps each step to one of `DurableJournal`: an offer that is queued or dropped is `Record` or `RecordLost`, a transaction
that commits is `Commit`, giving up a record moves the cut (`Lose`) or stays behind it (a stutter), and all else is a stutter. `RecordFates` lists what can become of one
record in a step, `OneAtATime` that only a commit concerns more than one, and `PrefixCount` turns the prefix of *numbers* that `PInv` gives into the *count* the
abstract journal speaks of: the cardinality of a set of naturals without holes.

**Sessions**, for any finite set of calls that look the Session up, wait and are admitted in any order, any scenarios of events, retention, event modes and crashes, any batch limit.
No property is inductive alone, and none without the others. The difficulty is that most of what one would like to say fails once a lookup has
replaced the Session's object (`"replaced"`) or made a second Session of the key (`"doubled"`), and that the rest must be shown to survive both. So the invariant separates what
each of the two can break. `SInv` has six parts:

* `CoreInv`, the memory of the process whatever lookups do: which object, journal and driver an Invocation has, which calls it may belong to, and that retention keeps only what has ended;
* `StoreInv`, until the object is replaced: an id stands for an object only as the id of the key (`Keys`), what has a journal belongs to the
  Session of the key (`Journals`), and the active Invocation is current there (`Reached`), which gives `ActiveReachable` and `OneActiveUntilReplaced`;
* `CallInv`, where each call is and what it was given;
* `FlowInv`, the records between memory and tables: queue and batch are in order, an admission first and events by number (`FlowOrder`), what is on its way is
  not durable yet (`Bounded`), of a call not yet admitted there is nothing anywhere (`Unborn`), and the event that ends an Invocation is its last (`EndsLast`);
* `EndInv`, what has ended: when its last event is durable, the row says so (`Recorded`), retention lets go of nothing else (`Retention`), and the Session's row
  leads to an Invocation that has ended or is known here (`Current`). A call that finds an active row in the database was overtaken (`NoOrphan`);
* `TablesInv`, until the key has a second Session: all objects, calls and admissions agree on one id (`OneKey`), which outlives the
  memory of the Session only in its row (`Begun`), a row comes before its events (`RowFirst`), and only the same event comes under a number that the tables have
  (`SameEvents`), which is what a retry after a commit whose answer was lost brings again. Hence they refuse nothing, and the writer is available.

That objects replaced by others do no harm to the tables is `OneKey`: a loaded object has the id of the row, and the object it replaces has the same one. A call
whose lookup missed makes a Session of a new id only while nothing of the key is in memory; if there is no row either, then by `Begun` no other id was ever given out.
A rollback leaves the batch and the tables apart, a lost commit leaves them overlapping: `TablesStep` treats both and the real commit at once. `RestartStep` rebuilds
the memory from the rows alone; that the rebuilt Invocation is not one that had ended, nor one of a call that has not begun,
are `EndsLast` and `Current`. The exceptions of the properties are those of section 4; the theorems carry them as the properties do.

`RebuildExact` compares what `apply_batch` made of the events, through its caches, with what the events say. It needs an invariant of its own
beside `SInv`, `HistoryInv`:

* `Solids`: the events of a row are `1 .. durable`, its recovery state is the state after one of them (in the standard mode after a recovery
  point), and a cache that claims to stand at a number holds the state at that number;
* `Gapless`: from what is durable to what was recorded last, every event is on its way;
* `Ahead`: the rows are never ahead of the whole of a batch that is tried again, and what it brings a second time is the same;
* `OwnRow`: while the writer is alive a row comes before its events. `TablesInv` says it only until the key has a second Session;
  the rows must be right after that, too;
* `Carry`: an event whose snapshot `_coalesce` removed has a later one with a snapshot behind it;
* `Lags`: while a row lacks its newest point, that point is on its way, and retention has not been offered the Invocation; until a crash or the end of the writer.

In the full mode the batch continues the row, the cached state or the loaded checkpoint (`BatchContinues`), so reducing it gives its last number
(`ReduceIs`, over `IntervalSequence`). Both argue by a least counterexample, not by induction, which the provers cannot instantiate; `Reduce` is
therefore a recursive function, and the batch is filtered with `Kept`. In the standard mode the newest snapshot of the batch is the newest point unless
`Lags` says that another is coming. `RebuildExact` excepts a point still on its way and one that went with the process or with the writer.

**WorkflowExecutor**, for any workflows with finitely many edges and any policies, whatever the methods of the Scheduler do to the cursor. The theorems
have hypotheses that runs check and that are not proved, because they speak of the worklists: `[]ScheduledOnce`, that the
Scheduler hands out each instance once. An instance handed out twice would have two tasks and one execution, and nothing below would hold.

Until the process crashes (`DriverInv`): what runs is exactly what the mailbox tracks or holds an answer of, and what waits is under a key or being resumed
(`Tracked`); a failure is still to be routed or was put off (`FailuresKept`). Where no resume suspends, `OneDriver` adds which states go with a driver at work, that a failed Invocation cannot be parked,
and `AllCompleted`, what an end means. `WaitsExact` is a part of `Tracked`; `QuietAtEnd` and `NothingLost` need both, since only the exactness of what runs lets a driver that finds
mailbox and waits empty conclude that everything has ended. One step submits all ready requests or applies all messages: lemmas from `SubmitAllTrace` to
`RecoverAllTrace` turn these into traces, along which `SubmitOneIs` and `ApplyOneIs` go one instance at a time, with a least counterexample in place of an induction.

`ContextsExact` compares a document with what all bindings so far have written, each on a copy it took when it began. Its part of the invariant is `Sane`:

* `Revised`: nobody knows a revision that a context has not reached, and what was committed has a revision;
* `Published`: what is in a context was written by a completed node, and what one wrote is there unless a binding that knew of it wrote over it; above each value some path bears
  a revision not lower than that of its commit (`Dated`);
* `Copied`: the copy a suspended resume keeps holds its own writes, all it knew of and did not write over, and of the others only what is still there or was overwritten at a revision it does not know.

The argument: `_changed_paths` compares the copy with the document as it is at the commit, not as it was when it was taken. So a copy with a value since overwritten would bring it back, but
there `Dated` has a revision the binding does not know, which is a conflict. If there is none, the document after the commit is the copy (`MergeIs`), and the invariant
of the copy becomes that of the document (`PublishCarries`), while the copies of others stay what they are (`PublishCopied`). The paths that a binding writes are assumed not to
contain the root, which `data` and `metadata` are below, nor one path above another: of two such writes the effect is that of one.

After crashes these four are not proved: `invocation_crash` shows that the images lose what runs in parallel. `ReplaysStayGated` is: `RecoveryInv`
holds of the Invocation and of every image that a crash may leave (`Gated`, `AllGated`), so each restart begins with it. An image mixes the Invocation as it is with older
executions (`ImageGated`), within one step several are recorded, one on top of the other (`SaveGuarded`, `SaveEdgesGuarded`), and a recovery may
end in the middle of the instances it queues again (`RecoverOneGuarded`). That a request is refused before its execution is
created, and not only when it is queued again, is what bounds the replays of nodes that become ready later (`HandOne`). The theorem's second hypothesis,
`[]WaitsExact`, leaves out one case, with the cause that `invocation_crash` shows: in the standard mode a crash may leave the wait of a branch whose execution no image holds yet.

**NodeExecutor**, for any finite set of executions, any numbers of units, workers, threads and slots, any list of Operators
and any limits on attempts. `SInv` counts: free slots and executions inside their slot add up to the limit. Every
way in which an execution ends (a command, a failed preparation, an answer, an abandonment at any await) goes through `Finish`, and
one lemma (`OneHolderMoves`) speaks of the one execution that changes sides. `QInv` says that no worker lives outside the phase
"units". Its difficulty is that one step ends a unit, takes the next one and starts its first attempt: the lemmas from `WorkerSet` to
`ReturnShaped` follow these operators and show that what they return is again a record of units. `QueueExact` (`KInv`) follows the calls in the thread pool:
those of one execution are apart from those of another (`UnitsApart`), a worker waits for one call at most, and a call that has
returned is not made again (`ReturnChanges`). An abandoned or failed execution takes all of its calls out of the queue at once, so
the queue is filtered by a set (`Kept` of `Subsequences`, a recursive function, since the library's `SelectSeq` cannot be reasoned about).

`CompletedWhole` is about sums: each attempt takes one from a budget that all workers share, and is written into the record of its unit only when
the handler returns. `LInv` keeps a ledger of both (`Whole`). A unit that was taken has either one worker or one result, never two of them
(`Covering`, `Apart`, `Recorded`); its record begins with its one normal attempt and holds retries and fallbacks after it (`Ordered`);
and the budget and all attempts made, those under way included, add up to the limit (`Balanced`). One lemma for each operator of a worker (`SettleWhole` to
`RetryWhole`) shows how it moves the ledger. At the end every unit is settled and no attempt is under way, so the sum over units becomes the sum over results that the summary
of the code takes (`EndedWhole`); `SumMoved`, `SumTake`, `SumRenamed` and `SumOfParts` are the facts on sums this needs, and
rest like those of the coordinator's ledger on a smallest counterexample.

**The batcher**, for any scenarios with any streams of chunks, attempts and batch sizes. `NoChunkStuck` is inductive together with the types of batches,
posts, callbacks and timers (`BatcherTypeOK`). The argument: a batch that becomes non-empty has its deadline among what is
scheduled in the same step (`DeadlinesOfNewBatch`), a deadline only moves from the posts of a thread to the loop's callbacks and from
there to the timers, and it is dropped only with the generation of its batch.

**The follower**, for any pages and any numbers left by an earlier process (assumed: they increase). `NoLostWakeup` alone says nothing of what the follower read before it waits.
`FInv` adds what links its reads: it never is ahead of what was recorded (`WithinEvents`), and while no
notification is due, set or on its way, the snapshot, page and cursor it holds lead to the latest event (`LeadsToLatest`). The hard case is a page made of rows read
from the database and of events read from memory at another moment: `MergedReaches` shows that such a page, if not full, ends with the
latest event, although the rows are a prefix that may end anywhere. It uses lemmas on the first few elements of a bounded set (`FirstFewBound`, `FirstFewAll`).
`MailInv` carries the types of messages and events.

`FollowerExact` says what the follower has been sent. It is inductive (`GInv`) once it is known of what the follower holds between two reads: a page leaves out nothing that
is wanted (`Wanted`: stored before the start, or to be stored, or all if nothing is read from the database) between the cursor and its own last event (`PageWhole`), and what
was read of memory has no hole (`SnapWhole`). The hard case is again the page from two moments: rows that were committed when they were read, memory as it was before.
`MergedWhole` shows that their first few, together, leave out nothing either. This uses that the writer commits in the order of numbers: a wanted event that is not
among the rows comes behind all of them, where the events from memory, which have no hole, are those that fill the page.

**The journal of streams**, for any nodes, attempts, chunks and batch sizes. `StreamExact` relates what is recorded to what was said; everything in
between may be overtaken by a timer, a handler thread or the end of the stream. The proof follows the chunks of one call through the six places where they
may be: the batch, what the thread is about to hand over, the callbacks of the loop, the mailbox, what the driver has drained, and the journal. Each place is a set of
numbers, those of its chunks, with two more behind the last chunk for the announcement of the end and for the output; the six form a line (`LineOf`).
The inductive invariant is `StreamInv`:

* `InLine`: the line is in order, journal first, and no number occurs twice. For a thread nobody waits for any more (`Awaited` is false) only the second;
* `Known` and `Whole`: the line holds what was said, and nothing else; the end is announced once the task has learnt it, the output recorded once the task is done;
* `Finished`: success is that of a stream somebody waited for, and that came to its last chunk; `OfLastAttempt`: an output is one of the last attempt;
* `Phases`: nothing of an attempt that has not begun, and nothing left in batch, posts and callbacks once the task has learnt its end or the deadline of a batch is set as a timer;
* `Markers`: no chunk comes behind the deadline of its batch or the end of its stream, in the callbacks or in what the thread is about to hand over;
* `Course` and `Sound`: the order in which an Invocation ends, and which messages and callbacks may be where.

The hard case is that the last chunks are flushed by the task on the loop (`Conclude`), straight into the mailbox, while earlier ones of the same stream came through
a thread and the loop's callbacks. They stay in order because the thread hands over the end of the stream last (`Markers`) and the task learns it only from there (`Phases`); this is
what fails for a thread that timed out, and why `StreamExact` excepts it. An action concerns one call and leaves the others as they are, so each has one
lemma for its own call (`NextChunkKeeps`, `PostKeeps`, `ConcludeKeeps`, ...) and one for any other (`ForeignChunk`, ...). TLC found `StreamInv` to hold of all states of the run `streams`
before it was proved.

The runs `coordinator`, `pipeline`, `sessions`, `invocation`, `node_executor` and `streams` check the same properties on small instances.

Only model-checked: all liveness, which TLAPS cannot treat under fairness; what graphs, compiler and Scheduler compute (`ExitsDecided`, `ScheduledOnce`, `FanInComplete`, `IterationsSequential`,
`ContinueKeepsBranches`, `AcceptsReducible`, `ExpansionExact`, `AnalysisExact`, `LateBindingSound`), whose worklists recurse over data; and `WaitsExact`, `QuietAtEnd`, `NothingLost` and `ContextsExact` after a crash. What a recursive definition computes for every input needs induction with an operator as parameter, which the installed provers cannot instantiate.

## 6. Not modelled

Not modelled, because it is data or I/O: encodings of values and artifacts, the types in contracts and how a callable is inspected,
previews and definition hashes, the trace's queries, the project loader, the CLI, the AI providers. Not modelled, and within reach:

1. `RuntimeEventLoop` (`core/runtime/hooks.py`): submission from other threads against stop, the pending wake-ups and the watchdog.
2. Crashes of Invocations that write contexts, and of workflows with parallel branches once their images hold what was drained.
3. Invocations of the minimal mode, and replay checkpoints.
