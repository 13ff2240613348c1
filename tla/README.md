# Verification of the durable workflow engine

TLA+ models of `src/workflow_engine` (paths below are relative to the repository's
`src/workflow_engine/`), checked with TLC on small instances, and theorems about them
checked with TLAPS for every value of the constants.

The engine executes tasks that live in one SQLite database. Tasks are claimed by worker
processes, local or remote, that register a session in the database, and by engines without
a session; a recovery coordinator takes over the tasks of workers that are proven dead; a
workflow is a graph of tasks whose rows stay blocked until their dependencies succeeded. The
same task objects can also be executed inside one process without a database. Correctness is
a matter of how transactions, threads and requests interleave, and that is what is modelled.

## Inventory

| component | state | operations | interacts through |
|---|---|---|---|
| worker registry (`worker_registry.py`) | one row per worker id and per session: state, stop request, last heartbeat | register, heartbeat, stop, detect_overdue, fence, request_stop, confirm_stopped | called by workers, monitor, coordinator, operators |
| task store (`persistence.py`) | task rows: status, attempt and retry counters, owner, order, gate | submit, claim, claim_next, finish, recover_worker, recover_interrupted | one SQLite transaction each; consults registry and holds |
| executor (`persistence.py`) | none of its own | claim, invoke, decide on retry, commit | store |
| reliable worker (`reliable_worker.py`) | two threads, stop events, the claimed task | start, consume, heartbeat, stop, drain | store and registry, over calls that may fail |
| remote transport (`remote.py`) | requests in flight | the worker's calls over HTTP, `_dispatch`, `_finish` | late and lost requests and answers |
| recovery coordinator (`recovery.py`) | incidents, holds, confirmations | tick (several transactions), confirm, resolve, pause, resume | registry, store, workflow store |
| workflow store and orchestrator (`workflow_store.py`, `dag.py`, `workflow.py`) | runs, node states, gates | submit, advance, admit_llm | inside transactions of the store and the coordinator |
| LLM accounting (`llm_usage.py`) | derived from attempts and their results | workflow_usage, budget_status | read by every claim of a generation node |
| engine without session (`taskengine.py`) | a local queue of copies of rows | construction, submit, start, recover | store |
| in-memory execution (`queue.py`, `worker.py`, `concurrency.py`, `executor.py`, `timeout.py`, `task.py`, `scheduler.py`) | heaps, conditions, locks, workers | enqueue, dequeue_wait, process_next, run, stop, execute | threads and locks |
| writer queue and connection pool (`persistence.py`) | FIFO tickets, connections | take, wait with a deadline, give back, discard, close | below every transaction |
| management service (`management.py`, `management_store.py`) | handler slots, threads | admit, handle, coordinate, start, shutdown | pool, writer queue, store |
| handlers (`llm.py`, `http_tool.py`, `tools.py`, `ai_workflow.py`) and `failures.py`, `retry.py` | none | one call outside per attempt; classification of how it failed | executor, recovery |
| deployment, metrics, scripts | none that coordinates | I/O | the operations above |

What makes each correct, and what is hard about it, is listed line by line under `hazards`
in `PROJECT.json`. The hard behaviours are: a result that arrives after its row was taken
over; a session that is fenced while its call still runs; claims whose answer is lost, and
requests that are executed after their client gave them up; a coordinator that dies inside a
tick while another one runs its own; incidents and holds written in several places; operators
who decide while scans go on; node states that lag behind their tasks; budgets shared between
processes; stale copies of rows; consumers that sleep while work or a stop arrives; waits that
time out in a FIFO; a shutdown under load; calls to the outside whose outcome is unknown.

## Modules

### The durable engine

Each of these extends the one before it, so the composition shares one set of variables; an
action is one transaction, with everything the handler writes in it. A call that raises
rolls back and is not a step.

* `WorkerRegistry` - the two registry tables. Clocks are reduced to the age class of the
  last heartbeat (fresh, overdue, past `fence_after`), because nothing else is compared.
* `TaskStore` - the task table and the journal that every claim reads. `ClaimNext` is
  `claim_next` (priority, then sequence, skipping rows that are not admitted, failing rows
  that are out of budget on the way), `EngineClaim` is `claim`, `Finish` is `finish`,
  `Release` what a row loses when it leaves RUNNING. The uuid of a claim is represented by the
  claimant together with the attempt number, which every claim increments. The order by
  `sequence` is represented by the set of rows ahead of a row, so it needs no bound.
* `TaskLifecycle` - what a caller may rely on: the abstract life of a task. `DurableQueue`
  and `LocalExecution` are shown to implement it without operators, `RecoverySystem` with
  them. In memory, FAILED is read as the end of a task only once the consumer is through with
  it: the executor writes FAILED first, and `_handle_failure` may still turn it to RETRYING.
* `DurableQueue` - the store under clients that keep no discipline: whatever holds here holds
  by the SQL alone. Standalone tasks only.
* `ReliableWorker` - the consumer and heartbeat threads of `ReliableWorker`, its drain,
  process death, and the supervisors around it. `pc` names the place of the consumer thread;
  every call to the store may also break before or after it took effect.
* `RemoteWorker` - extends `ReliableWorker` for workers on other hosts. A call that is not
  answered in time leaves its request in `wire`; the service may execute it at any later time,
  once, or never. A claim is executed and answered in two steps, since the payload is read in
  a second transaction, and a remote commit decides on the retry (`Decides`) before it writes
  (`Writes`).
* `EngineQueue` - extends `TaskStore`: engines without a session that share one database.
  The local queue of an engine holds versions of rows (status, attempts, retries); a claim
  compares its version with the row. Crashes lose the queue; `RecoveringBoot` is the
  construction with `recover_interrupted=True`, which the docstring allows only while nobody
  executes. An engine runs once (`Worker._begin_run` raises RuntimeError on a second `start`):
  after its run it is "over", may still journal submissions, and only a new engine, which takes
  its name (`Boot`), executes anything again.
* `WorkflowStore` - runs, nodes and gates. `Reconcile` states the result of `_advance`: the new
  states of the waiting nodes are a solution of the equations that the loop over the
  topological order evaluates, and on an acyclic graph there is one for each choice of
  failing input bindings.
* `RecoverySystem` - store, worker, workflows and coordinators together: the transactions of
  `tick`, confirmations, operator decisions, engines without session. Several coordinators,
  each with its own registry of handlers, are the set `Registries`: no transaction uses what
  an earlier one of the same tick read, apart from which sessions were fenced, and a fenced
  session can only become stopped.

### Threads of one process, and the outside

* `LocalExecution` - the queue in memory with its ready and delayed heaps, `Worker.run`,
  `WorkerLoop`, `ConcurrentWorker.run` with the slots of its pool, the executor, timeouts and
  retries. A step ends where a thread gives up a lock or would wait for one, so the two
  dangerous waits are states: a thread inside enqueue that keeps the queue lock (`enqueuer`),
  and a callable that submits while its task is locked. The condition variable is `sleep`:
  who waits without a deadline is woken only by a notification.
* `ManagementAccess` - how requests reach the database and how the service stops: handler
  slots, the leases of the connection pool, the FIFO of the writers, which the loop of the
  coordinator shares, the answers, and `shutdown` with its deadlines. Every wait may time out,
  every connection, rollback, transaction and read may fail. A request may be refused (a 4xx)
  before it uses the database, by what it reads first and inside its transaction; afterwards
  the response of a committed write may still prove larger than `max_response_bytes`
  (`Response`), and reading back what was written may fail, which is a 503.
* `ExternalCalls` - one task whose handler calls a model, a web service, a tool or ordinary
  code, with the classification tables of `LLMHTTPError`, `HTTPStatusError`, `_transport_error`
  and `classify_task_failure`, and the retry decisions at commit and at recovery. The other
  side executes a request at any time after it was sent, whether or not somebody still waits.

### Proofs and instances

* `TaskStoreProofs` (registry and store), `ReliableWorkerProofs`, `RemoteWorkerProofs`,
  `StoreClientsProofs` (`DurableQueue` and `EngineQueue`), `RecoverySystemProofs` (also the
  workflows), `LocalExecutionProofs`, `ManagementAccessProofs`, `ExternalCallsProofs` - theorems
  and lemmas.
* `MC*` - values of the constants for TLC.

`PROJECT.json` maps every definition to its lines. Operators preceded by the comment
"Mutant" are wrong versions of the definition that follows them, used to confirm that each
property notices a plausible bug; the specifications do not use them.

## Runs

| run | instance | shows |
|---|---|---|
| `queue` | two sessions of one id, one engine, two tasks (two retries, none), three age classes | at most one incarnation lives, sessions only wind down; counters, ownership of attempts and results; implements `TaskLifecycle` |
| `remote` | a remote and a local worker, one task with a retry, two requests on their way | an invocation owns its attempt, no overlap, the consumer knows its rows, late results keep the budget |
| `recovery` | one worker, one engine, one task, coordinators that know all or no handlers, two stages of lateness | incidents and holds agree; decisions stand; no overlap; lost rows are recovered, failures surface, waiting tasks are released, drains end |
| `workflow` | two engines, join of three nodes, call cap of two | dependencies first, runs agree with tasks, call cap, pauses; implements `TaskLifecycle` |
| `workflow_progress` | two engines, join followed by a fourth node, call cap and token cap | one call in flight; the workflow ends or waits for an operator |
| `local` | a loop and a pool with one slot, or a plain run; two tasks, one delayed, retried and submitting the other, one with a limit | nothing is lost, executions were granted, outcomes are of live attempts, stops end, work is done; implements `TaskLifecycle` |
| `access` | three requests, one a write, one connection | resources are sound, shutdown is complete and returns, requests are answered; what the answer to a write says is true: success and a 413 for the response mean that it was committed, a refusal that it was not |
| `engine` | two engines, two tasks, two crashes | an engine owns what it runs; every task is finished |
| `external` | every kind and registration of a handler, budget up to two, eleven answer codes | effects are not repeated, failures are told truly, calls do not overlap |
| `recovery_isolation`, `lock_order`, `model_replay` | small variants of `recovery`, `local`, `external` | the disagreements below |

Type invariants (`RegistryTypeOK`, `QueueTypeOK`, `TypeOK`, `CallsTypeOK`, ...) are not
repeated in the runs: they are proved, as theorems or inside the inductive invariants below.

### Bounds

All runs are exhaustive over finite instances. Attempt numbers are bounded by retry limits;
`MaxLimit` bounds what operators may grant and what budgets exist (0, 1 and 2 are the cases:
none, the last one, one before the last), `MaxAttempts` only the domain of the journal, and is
chosen not to cut anything off. `FenceAge` is the number of age classes: 1 where only "overdue"
matters, 2 where overdue and past the fence differ. `MaxWire` bounds the requests given up and
still under way: two let a late claim and a late result, or a claim and a heartbeat, overtake
each other; `Remote` holds one of the two sessions, so that late requests meet a worker that is
not affected by them. `MaxCrashes` is two, so that an engine crashes, recovers, and the same or
the other one crashes again. `Capacity` is one and `MaxConcurrency` three: one request holds
the connection, two wait for it, which is needed for a middle of the FIFO to give up. A request that
is turned away is one for which there is no slot or no thread; the model does not tell the two
apart, and with a slot for each the instance shows the second. In `local` the task with a time
limit has no retries: that a call which was given up does not reach a later attempt of its task
is the theorem `OutcomesAreLive`, the run shows the same of a task that has ended. `Casts`
names which workers share the queue in memory: the pairs differ in how they wait, and a plain
run leaves when the queue is empty. `Codes` has a value on each side of every boundary of the
classification. Two claimants are enough for any conflict about a row, since a row has one
owner; a join and a chain are the two ways a node can depend on others. A token cap of zero
is left out (such a workflow is refused from the start).

Deadlock is not checked: a system whose tasks have ended may stop, and sessions, requests and
crashes are finite. Where something must happen, a liveness property says so.

### Fairness

`FairRecoverySpec` assumes that time passes, that one coordinator that knows every handler
keeps ticking (the loop of `RecoverySystem._run`), that its verifier is asked about fenced
sessions and eventually answers for processes that are gone, that threads are scheduled and
business callables return. Nothing is assumed of heartbeats, starts, operators, or of
other coordinators, which may scan with an empty registry at any time.

`FairWorkflowSpec` assumes a ticking coordinator whose last transactions reach every
workflow, an engine that takes what it may run and commits what it ran, and that retry
delays pass. An engine may still give up any invocation; the run then waits for the operator
who confirms its exit, which the property says.

`LocalSpec` assumes that threads are scheduled once they were started, that callables end,
delays pass, and a stop that has begun notifies the queue. Nobody has to start, stop or submit.
`WorkIsDone` is about a queue that a loop consumes, and excludes a consumer that ended with an
error, because its exception is what the caller is told.

`AccessSpec` assumes that threads go on. No timeout is fair, so answers and the end of shutdown
do not depend on one.

`EngineSpec` assumes that engines that are up go on, and of those who use them: that a driver
builds a new engine after one that crashed or has run, since an engine executes during one
`start` only (`tests/test_persistence.py` restarts so, and so does the example of the
repository's README for a restart after a failure), that it starts the new engine once there is
work and not before, and that an operator recovers when all engines have stopped. None of this
is in the code: an application that builds one engine and starts it once leaves what comes later
to nobody. `TasksEnd` says that such driving is enough, not that the engine does it.

### Disagreements with the documentation

1. `docs/failure_recovery.md:123` says that a waiting task whose handler is not registered is
   isolated by the scan as `RECOVERY_ERROR`. `_incident` returns early when an operator resolved
   the incident of that attempt (`recovery.py:130`), and a retry does not change the attempt
   number before the next claim; so after `resolve_task(action='retry')` such a scan opens no
   incident and inserts no hold. Run `recovery_isolation`.
2. `queue.py:54` says that locks are taken in the order queue, task. The executor holds the lock
   of a task while its callable runs (`executor.py:42`); a callable that submits takes the queue
   lock. If the executing task is itself submitted again at that moment, the thread inside
   `enqueue` holds the queue lock and waits for the task, and both wait forever. Run
   `lock_order`; the run `local` therefore submits again only a task that submits nothing.
3. `docs/llm_workflows.md:218` says that built-in handlers keep their classification under
   another registration name, and that uncertain model calls are not replayed even when declared
   idempotent. The name is recognised, or else the `failure_scope` of the callable; a service
   that recovers with placeholder handlers (`deployment.py:37`) has neither for an alias, and
   `_recover_rows` schedules the retry. Run `model_replay`; `EffectsHappenOnce` therefore assumes
   `Protected`: the recovering process recognises the handler, or the task is not idempotent.

## Proofs

Checked for any sets of workers, sessions, engines, tasks and workflows, under the named
assumptions on the constants (`RegistryAssumption`, `TaskAssumption`, `RemoteAssumption`,
`CallsAssumption`, `EngineAssumption`, `AccessAssumption`, `WorkflowAssumption`,
`RecoveryAssumption`, `LocalAssumption`). They state types; that a session is not an engine, nor
a slot of a pool a consumer; that the pool of connections is not larger than the number of
handler slots; that the dependencies of a node are in its workflow and form no cycle, which
`topological_order` (`dag.py`) verifies whenever a `DAGWorkflow` is built; that only idempotent
tasks are replayed by recovery; and that a callable with a time limit submits nothing, because its
submissions come from a thread of its own and are those of a caller.

* `RegistryTyping`, `OneLiveSessionAlways`, `SessionsAlwaysWindDown`.
  `OneLiveSession` is not inductive by itself: a confirmation by session uuid alone clears
  the row of the worker id only if it points there, so the invariant carries that a current
  session belongs to the worker id that points to it.
* `WorkerTyping`, `OwnershipAlways`, `NoOverlapAlways`. Typing and `CallOwnsItsAttempt` are
  inductive only together: a committing worker writes the row of the task in its hands, and
  that there is one is part of ownership. The proof follows who may touch a row that
  is RUNNING for a live session: other claims take waiting rows, other results need to be its
  owner, recovery needs its session stopped, and stopping needs that it owns nothing or that
  its process is gone. The lemmas about the store (`TaskStoreProofs`) are one per transaction
  and concern its typing, its books and its executions.
* `RemoteOwnershipAlways`, `RemoteNoOverlapAlways`, `ConsumerKnowsAlways`,
  `LateResultsKeepBudgetAlways`: every property of `RemoteWorker`, for any number of requests
  under way. The invariant says who may still wait for a request (`WireOK`): late claims,
  results and their writes belong to sessions that have left their loop for good, late
  confirmations to ended processes, and a claimed row that waits for its answer is held by a
  session that waits in `claim`, which is built one answer at a time. So no late request can
  touch the row of a session that works (`NextKeepsHeld`, `ArrivalKeepsHeld`,
  `WriteKeepsHeld`). What a consumer knows adds that its hands are empty between calls
  (`KnowsInv`); the budget adds to the books that a retry decided for an attempt still fits
  as long as the row runs that attempt (`Fits`). Both follow from one fact about every
  transaction (`RowsMoveOn`): a row that runs either ran the same attempt before, or was just
  claimed with the next number.
* `QueueTyping`, `AccountingAlways`, `BudgetAlways`, `OneExecutorAlways`,
  `SuccessComesFromTheOwnerAlways`, `QueueImplementsLifecycle`: every property of `DurableQueue`.
  The books (`BooksOK`) are the inductive core: attempts equal the granted retries, retries stay
  within the limit, and rows of workflows are never inserted here - without the last part a
  generation node that is refused for its budget would end without an attempt, and the count
  would be off. A budget alone is not inductive: that a claim stays within it follows from the
  count. One executor per attempt needs that no outstanding call bears a number its row has not
  reached (`CallsInv` of that module). The refinement maps each transaction to a step of the
  abstract life; the books give the bound its retry step asks for.
* `CallsTyping`, `EffectsHappenOnceAlways`, `FailuresAreToldAlways`, `OneCallAtATimeAlways`:
  the properties of `ExternalCalls`, for every set of answer codes and every budget. None is
  inductive. `Shape` ties the stage of an attempt to what may be under way: nothing is on the
  wire for an attempt that has not sent, and at most the attempt that is current is running.
  `Once` says that as long as another execution is possible - the task is waiting, or its
  outcome would allow a retry - no effect has happened and none is under way. `Told` says the same
  of the verdicts a caller is given. That an answer is classified rightly (`VerdictOnAnswer`) is
  where the assumption about providers enters: `NotRun` lists the codes that say that a model was
  not run. Web services are not trusted with any code: a request that may change something is
  never repeated once it was sent.
* `OwnsWhatItRunsAlways`: an engine that executes a task owns its row and its attempt, for any
  number of engines. Only typing has to be added: a claim or a submission touches a row that
  does not run, a result the row of its reporter, and the recovery of a boot happens while
  nobody executes (`EngineInv`).
* `ResourcesAreSoundAlways`, `ShutdownIsCompleteAlways`, `AnswersAreTrueAlways`: the safety of
  `ManagementAccess`, for any number of requests, slots and connections. The pool is exact
  because every open connection has one place - it is kept, or one request holds it - and which
  requests hold one follows from where their threads are (`OnePlaceEach`, `HandlesFit`); a
  request opens at most one connection, so that a new one is nobody else's. Writers take
  turns because the line of tickets has no repetition and who gives up is not its first
  member (`GivingUp`). For shutdown, no handler begins once the accept loop has ended, so that
  `inFlight = 0` and the end of the coordinator, once seen, last (`StopInv`). For the answers, a
  request that is refused is at a place where its write was not committed yet (`Unwritten`), and
  a response can be too large only for what succeeded. Nothing is claimed of "unavailable",
  which may precede or follow the commit; `docs/management_api.md` warns that an error does not
  prove that nothing was written, and that is the error meant here along with the 413.
* `RecoveryTyping`, `HoldsAlwaysMatch`, `InvocationsNeverOverlap`, `DependenciesAlwaysFirst`,
  `TablesAlwaysAgree`, `CallCapHolds`, `OneCallAtATime`, `AttemptsAlwaysAccounted`,
  `DecisionsAlwaysStand`, `IncidentsPauseClaims`, `SystemImplementsLifecycle`: every safety
  property of the composed system and of `WorkflowStore` in it, for any graphs, coordinators,
  engines, operators. The inductive invariant `RecoveryInv` has four parts that need each other:
  * typing;
  * `WorkflowInv`, what node states say of tasks. A gated row was never executed, so a success
    is never behind a closed gate; a node that is skipped has a ruined dependency, and since
    the graph has no cycle some node failed, which is the verdict of the run. That is an
    induction over the graph, made here once for the set of failed and skipped nodes
    (`ReconcileVerdict`), with the assumption that every nonempty set of nodes has one without a
    dependency in it;
  * `HoldsMatchIncidents` itself: a transaction that writes incidents is either one of the
    few that open, close or resolve entries of current attempts (`EntriesOK`), or leaves the
    journal alone while attempts only grow;
  * `OwnInv`: a live invocation owns its attempt, an engine owns the row of its job, and a
    confirmed exit is of an attempt that was made. No overlap follows from it.

  Instead of one case per action and property, each transaction is shown once to be of one
  of two kinds: it serves (`Serves`: claims, reports, recoveries, of which at most one row is
  claimed, and that one was admitted), or it directs (`Directs`: reconciliations and decisions,
  in which nothing starts). The call cap, the single call in flight, the account of attempts
  and the refinement to `TaskLifecycle` are consequences of the kind. The account is
  the one of `DurableQueue` for the composed system, where operators grant retries too; it is
  a theorem only. Confirmations are given
  only for processes that have ended (`ExitEvidence`) and attempts an engine has given up, as
  the interface requires of who confirms; nothing is shown about an operator who confirms a
  process that still runs.
* `LocalTyping`, `NothingEverLost`, `ExecutedAsGrantedAlways`, `OutcomesAreLive`,
  `MemoryImplementsLifecycle`: every safety property of `LocalExecution`, for any number of loops,
  pools and slots. `LocalInv` adds to the properties that a thread between two steps has a task in
  its hands (`HandsOK`), that a thread which executes a task does so alone, and the task is
  RUNNING meanwhile (`ExecutesAlone`, the lock of the task), that a PENDING task was never
  retried, and that a pool evaluates calls that have ended. `NothingLost` is a
  statement about threads: each handover of a task, from the queue to a consumer, to a slot,
  back to the pool and to the queue, keeps somebody who answers for it. The refinement needs
  that nobody deals with a task before it was submitted (`SubmittedFirst`).

Only model-checked: all liveness, which is outside what the prover handles, and the
counterexamples of the three runs that expect a violation. `_advance` evaluates the graph in
topological order; the model states the result as a solution of equations, so that no theorem
needs an induction over a recursive definition.

## Plan

Done: registry, store, worker, remote worker, coordinator, workflows, LLM admission, engines,
in-memory execution, management service, calls to the outside; theorems on all of them. Every
safety and action property and every refinement of the runs is a theorem.
Next, in this order:

1. The positive counterpart of `lock_order`: threads that follow the order of locks never wait
   for each other, as an invariant of `LocalExecution` without resubmission.
2. Larger instances of `local` (two slots) and `remote` (two sessions of one worker id), for
   the liveness properties that no theorem covers.
3. A view of several pages over changing rows, which the documentation of the management
   interface leaves open.

## Not modelled

* Views: listing, paging and metrics read the tables in snapshots of their own and promise
  nothing across pages.
* `WorkflowOrchestrator.run`: a loop over `tick`, which is modelled, and local workers.
* The audit tables and event sequences: written with the transactions that are modelled, read by
  nobody who decides.
* Exhaustion of the interpreter: a definition nested so deeply that it can be stored but not
  decoded again (RecursionError, answered like a refusal) is not among the errors of a read that
  follows a commit, and neither is text that cannot be encoded, which SQLite refuses to store.
* Formatting and validation of definitions, requests and payloads; TLS and tokens; address
  pinning and byte limits of `http_tool.py`.
* The arithmetic of delays and schedules: a row is due or will be.
* Deployment, command lines, observability, and the scripts under `tools/`: they hold no state
  that the protocol reads.
* SQLite itself (atomic, serializable `BEGIN IMMEDIATE` transactions) and the Python runtime's
  locks and conditions are trusted.
