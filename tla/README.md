# Verification of workflow-service

TLA+ modules for `workflow-service`: the definitions, the instances and human
tasks in the database, the runtime that carries an instance from its start
event to its end on NATS JetStream and Temporal, the way of a request through
both transports with its idempotency record in Redis, the retention of the task
history, and the process itself from its configuration to its exit. TLC checks
the modules on small instances; TLAPS proves every safety property of the
passing runs, and that the runtime implements the abstract specification of an
instance, for every value of the constants.

## 1. The system

```
 HTTP / gRPC -> Service -> Repository -- one transaction: rows + outbox event
                                 |
                    dispatcher -> JetStream -> CommandHandler
                                                  | start, cancel, signal
                                               Temporal: Execute
                                                  | activities
                            Repository (task, node, terminal status + events)
                            upstream gRPC services (invoke, compensate)
```

| Component | State | Operations | What makes it correct |
|---|---|---|---|
| Definition lifecycle (`workflow/service.go`, `repository.go`) | definition row with status and version, immutable revisions | create, update, publish, disable; start reads the published revision | what is published is what the publisher looked at, and it is valid; instances run published revisions |
| Graph validation (`workflow/graph.go`) | none; counters of one call | `ValidateDefinition` | accepts exactly the acyclic graphs reachable from the start; accepted graphs terminate |
| Store (`workflow/repository.go`) | instance, task, history and outbox rows | create / cancel / advance / finish instance, create / claim / complete / delegate task | guarded updates; row and event commit together |
| Task API (`workflow/service.go`) | the row a request has read | claim, complete, delegate, preceded by `authorizedTask` | who changes a task is entitled to the row that is overwritten; unbroken audit trail; one decision, announced once |
| Command handler (`workflowruntime/commands.go`) | none | start, cancel, signal | repeated and reordered commands do no harm; none is lost while it matters |
| Runtime (`workflowruntime/workflow.go`, `activities.go`) | workflow history in Temporal | `Execute`, its deferred cleanup, four activities and the condition | an end is backed by decisions; services run behind their approvals; a failed instance is compensated; every instance ends |
| Event factory and bus (`workflowevent`, `eventbus`, `app/workflow_eventbus.go`) | outbox, consumer cursor | add in transaction, publish, consume | at-least-once delivery of every command |
| Retention (`workflow/cleanup.go`) | the goroutine and its batch | select the oldest expired rows, delete them, again until a batch is not full | only old history of ended instances is deleted, oldest first, and all of it in the end |
| Transport (`transport/http`, `transport/grpc`) | requests on their way | bind, call the service, answer | a field that is needed is checked by someone on either transport |
| Authentication and authorisation (`auth`, `transport/*/middleware`) | the principal in a context | JWT, pre-shared key or skipped route; permission of the operation | who is served had a credential and the permission |
| Idempotency and limits (`idempotency`, `ratelimit`, `transport/http/middleware.go`) | records and buckets in Redis | acquire, replay, complete, fail; limit by address, route and user | one effect per key, the stored answer is true and goes to its owner, a key does not stay in progress |
| Configuration (`config`) | merged settings | merge defaults, files, variables and flag; `Validate` | the strongest layer decides; production rules cannot be evaded; what is accepted is refused later only for a value or a file `Validate` does not look into |
| Lifecycle and wiring (`app`) | fx hooks, goroutines, connections | construct, start, roll back, stop | hooks and goroutines agree on the order, as far as timeouts allow; a stop ends; a failed start leaves nothing |
| Role resolver (`workflowauth`) | - | pages through `ListBindings` | every binding is seen |
| Outbound (`grpcclient`, `outbound`) | circuit breakers | call with retry and backoff | bounded retries, breaker recovers |
| Migrations, health, observability, logging, generated API description | - | - | - |

What is hard to test here: a task is authorised on a row that is read before
the transaction which writes it; publish validates a row it read earlier;
start reads the definition in two statements; commands arrive repeatedly and
out of order; an activity may take effect although its result is lost, also
long after the workflow has gone on; the approval timeout, the user's
cancellation and the user's decision race; the deferred cleanup can fail in the
middle; the lease of an idempotency key runs out, or its holder dies, while the
change it guards is made; replicas clean the same rows; a hook fails when half
of its goroutines run; a stop gives up on an activity that is still at work;
layers of configuration disagree on which rules apply.
`PROJECT.json` lists these hazards with their source lines and the
properties that would notice them going wrong.

## 2. The modules

| Module | Models | State and actions |
|---|---|---|
| `WorkflowStore` | `repository.go`, `workflowevent/factory.go` | `inst`, `tasks`, `history`, `outbox`; one operator per repository operation. The guard is the `WHERE` condition of its `UPDATE`, everything in the transaction is one step. |
| `TaskApi` | `service.go` (tasks) | extends the store by `reqs`, what every request has read, and `grants`, the answers of the authorization service. A request is two steps: `AuthorizedTask`, then `Claim`, `Complete`, `Delegate` or `ReturnWithoutWrite`. The runtime and the cancelling user are the other writers. |
| `Engine` | `commands.go`, `workflow.go`, `activities.go` | extends the store by the variables of `Execute` (`pc`, `cur`, `steps`, `done` = `completedServices`, `undo` = the part the cleanup has left), the signal channel and the Await (`signals`, `wake`, `timerFired`, `cancelReq`), the activity under way (`act`) and those nobody waits for any more (`orphans`), what reached the services (`effects`), and the consumer (`tries`, `acked`). |
| `InstancePromise` | - | what an instance promises its users: it ends at most once, and a completed or rejected end is backed by the recorded decisions. |
| `GraphValidation` | `graph.go`, the loop of `Execute` | one graph is validated and, when accepted, walked. |
| `Definitions` | `service.go`, `repository.go` (definitions, start) | the row, its revisions, two-step publish requests and three-step start requests. |
| `ApiSurface` | `workflow_handler.go`, `workflow_server.go`, the checks at the head of `service.go`'s methods | no state: tables of what each operation binds, hands over, insists on, requires as permission and answers, joined by `++`. |
| `RequestPipeline` | `transport/http`, `transport/grpc`, `idempotency`, `ratelimit`, `auth` | extends the tables by requests (`call`, `stage`, `left`, `subject`, `answer`), the records in Redis (`store`), `grants` and `outage`. A request stops at every stage that touches something shared; `applied`, `lapsed`, `doubted` and `entitled` record what happened, for the properties. |
| `Retention` | `cleanup.go`, `DeleteTaskHistoryBefore` | the rows (`created`, `removed`), the ends of instances, and per replica the goroutine (`pc`, `batch`, `ticked`, `cancelled`, `returned`). `Select` and `Delete` are two steps. |
| `ServiceLifecycle` | `app/*.go`, the servers' hooks | per replica `mode`, hooks constructed and started, open connections, goroutines, the time `left` in the context of the start or stop and the `patience` of `Worker.Stop`; per command its outbox status, deliveries and settlement. |
| `Configuration` | `config.go`, the refusals of constructors and hooks | the layers of one process, the profile, and the settings as merged so far; one step each for the base file, the profile file, the environment, `Validate`, construction and start. A value that `Validate` only asks to be given and a constructor parses has a setting of its own for its form (`form`, `dsn_form`, `log_level`, `proxies`), and so has every set of files that a constructor loads (`files`, `grpc_files`, `temporal_files`). |
| `MC*` | - | constants for TLC |
| `*Proofs` | - | theorems about the module named before `Proofs` |

`TaskApi` and `Engine` both extend `WorkflowStore`, so both use the same row
operations. `Engine` lets a user decide in one step on the current row; that a
two-step request cannot do anything else is `SnapshotSound` of `TaskApi`.
`Engine` implements `InstancePromise` (`KeepsPromise`), with the mandatory
approvals computed from the graph. `RequestPipeline` lets every mutation
succeed whenever it is asked for: the versions and statuses of rows, which would
stop many repetitions by themselves, belong to `TaskApi` and `Definitions`, so
that what `OneEffectPerKey` shows is due to the idempotency record alone.
`ServiceLifecycle` knows a command only as handled, redelivered or
dead-lettered; what handling it means is in `Engine`.

Names follow the source. Definitions whose comment begins with "Mutant" are
wrong variants of the definition below them; no specification uses them. They
record, for every property, a plausible mistake in the code that the property
notices (`mutants` in `PROJECT.json`).

### How external parts are modelled

- **JetStream and the outbox dispatcher.** An event in the outbox may be
  delivered at any time after its transaction, in any order, until it is
  acknowledged or was delivered `MaxDeliver` times; it is then in the
  dead-letter queue. Lost acknowledgements and an unreachable Temporal are
  faults.
- **Temporal.** The workflow survives crashes, so a crash of a worker shows only
  in the attempts of activities. An attempt may time out without a result; the
  call that was under way then becomes an orphan that takes effect later or
  never. A retry starts from the beginning of the activity. A cancelled context
  makes every blocking call of `Execute` return, while the attempt goes on; the
  deferred cleanup runs on a disconnected context.
- **Await.** `AwaitWithTimeout` evaluates its predicate on entry, and then once
  per workflow task. The predicate has a side effect: it takes one signal off
  the channel (`workflow.go:117-119`). `wake` counts the evaluations that are
  due: two after the entry (the call itself, and the task it belongs to), at
  least one after a signal, a timer or a cancellation. Several events that
  arrive together cause only one.
- **Upstream services and conditions.** A service may answer or fail, a
  condition may select any conditional edge or fail. Payloads, variables and
  CEL expressions are abstracted to these choices.
- **The authorization service.** `grants` changes at any time. In
  `RequestPipeline` permissions may be withdrawn and the service may be
  unreachable; in its run it always answers.
- **Redis.** An idempotency record is read and written atomically (the code uses
  a library's scripts), carries a time to live, and is unreachable during an
  outage. Whether a bucket of the rate limiter holds a token is a free choice.
- **Time in requests.** `left` counts down to the deadline that the HTTP
  `Timeout` middleware sets, or that a gRPC client brings along; calls with the
  request's context fail once it is over. The save of the result uses a context
  without that deadline.
- **fx.** Constructors run in the order in which the invocations of `app.New`
  need them, start hooks in that order, stop hooks in the reverse; a failing
  start stops the hooks that had started and not the one that failed. Start and
  stop each have a context of `app.shutdown_timeout` (`app.go:45-46`), and the
  rollback of a start goes on with what is left of it. fx looks at the context
  before each hook; when it is over, `Run` ends the process whatever the hooks
  are doing (`Expire`).
- **Temporal worker.** `Worker.Stop` waits for its activities for
  `temporal.worker_stop_timeout` (`temporal.go:41`) and not for the context of
  the stop; its hook then closes the client (`GivesUp`). The servers wait as
  long as the context of the stop, the event runtime and the cleaner until
  their goroutines have ended.
- **viper.** A layer turns settings on and off. An `APP_*` variable counts only
  for a key viper knows: one with a default, one that is bound, or one in a file
  that was read (`Known`).

## 3. The runs

| Run | Question | Distinct states |
|---|---|---|
| `task_api` | Do two racing requests of two users on a role task, with changing grants, a cancelling user and a retrying runtime, keep row, history and outbox consistent? | 36,524 |
| `engine_saga` | Service, two approvals in a row, service, both services with compensation, under up to three faults and a cancellation at any time: does the instance keep its promise, is it compensated in the right cases and order, can the answer to one approval be taken for the other, is nothing left running or called afterwards? | 1,481,896 |
| `engine_live` | Timer, approval and conditional branch: does every started instance end, and does the workflow of a cancelled one stop without the approval timeout, even if the cancel command overtakes the start command? | 4,959 |
| `engine_stranded`, `engine_service_once` | findings, see section 6 | - |
| `graph_validation` | Every graph over four nodes with parallel edges: is validation exact, and does every walk end below the step limit? | 789,942 |
| `definitions` | Editors, two publishers and two starters on one definition | 5,181 |
| `pipeline` | Two deliveries with one key, over HTTP and gRPC, by the same or another caller and with the same or another body, under deadlines, expiry, panics, crashes, lost commits, a withdrawn permission and outages of Redis; and one delivery of every operation of both transports with every field left out, every credential, origin, media type and key header | 364,402 |
| `retention` | Two replicas clean the rows of an instance with a configured retention of zero while rows are written, statements fail and replicas stop | 196,640 |
| `lifecycle` | A replica is built, started, half started, stopped, killed and restarted while its goroutines carry a command from the outbox to the handler | 138,606 |
| `lifecycle_consumer` | finding, see section 6 | - |
| `configuration` | Three base configurations with any one setting turned round in the profile file and any one in the environment, with and without `-env` | 1,063,693 |

Properties worth pointing out:

- `SnapshotSound`: `ClaimTask` compares neither claim nor assignee in its
  `UPDATE`, and `CompleteTask` writes `from_status` from the row it read. Both
  are right because a current version implies an identical row, and this needs
  every writer of a task, delegation included, to raise the version.
- `SuccessNotUndone`: `FinishInstance` may commit and lose its result. The
  retry must succeed, or the deferred cleanup would compensate a completed
  instance. With as many lost results as attempts it does: the property says
  `faults < MaxAttempts`, and the saga run, with `MaxFaults = 3`, includes the
  states where that fails.
- `SagaUndone`: completed services are compensated last first, exactly once if
  no result was lost, and at least once otherwise unless a compensation used up
  its attempts. A service that acted but never returned a result is not in
  `completedServices` and is not compensated.
- `ClosedMeansTerminal`: the result of the terminal write is ignored
  (`workflow.go:104`), so the instance stays running when all its attempts are
  lost; with fewer faults it never does.
- `QuietStaysQuiet`: nothing in the runtime looks at the cancellation when the
  cancel command came too early and was dropped. What stops a workflow that is
  started afterwards are the status checks of `UpdateInstanceNode` and
  `CreateTask`. The exception is an invocation that has passed its check.
- `DeadLetterOnlyLate`: a decision may end in the dead-letter queue once its
  workflow is closed; no other command does with fewer faults than deliveries.
- `ExclusiveCommit` and `OneEffectPerKey` are two sides of the processing lease.
  While no record of a key has run out, one request at most changes rows,
  whatever happens to the requests. Once one has, a second delivery may be given
  the key, and what keeps the two apart is that the first has passed its
  deadline by then: over HTTP that holds when `request_timeout` is not longer
  than `processing_ttl` (10 s and 30 s by default), which `Validate` does not
  check. The gRPC chain sets no deadline, so nothing of the kind is claimed.
- `RecordTellsTruth`: a stored failure means that nothing was changed, except
  that a commit which was applied and reported as an error is stored as a
  failure too (`doubted`).
- `OnlyEntitledServed` looks at the permission when the request arrived: one
  that is withdrawn between authorisation and handler does not stop a request
  that has passed, and a stored answer is replayed only behind authorisation.
- `OmissionHasNoEffect`: gRPC methods bind nothing, so each field that HTTP
  marks as required must be checked by the service as well.
- `TrailLosesOldestFirst`: rows are deleted by ids another statement selected,
  on several replicas at once, and rows are still written to tasks of an ended
  instance. What remains is nevertheless the latest part of the trail.
- `NothingLeftRunning`: when the event runtime gets no command handler, its
  start fails after two goroutines have begun; fx does not stop a hook that
  failed to start, so the start itself must cancel them and wait.
- `NoUseAfterClose` says what the two timeouts are worth. An activity that is at
  work when `Worker.Stop` gives up may lose the Temporal client if
  `worker_stop_timeout` equals `app.shutdown_timeout`, and every connection if
  it is shorter; if it is longer the process ends first. `Validate` asks only
  that `worker_stop_timeout` is positive and nothing of the other
  (`config.go:646`). By default both are 10 s, so that only the client is
  affected. Every other goroutine keeps its connections under all timeouts.
- `AcceptedEngineStarts` is restricted to production with Temporal: there,
  whatever `Validate` accepts and a constructor or hook refuses has a value that
  does not parse or a file that does not load. No required setting and no
  combination of settings is overlooked. Elsewhere `Validate` does overlook
  some; section 6 lists them.

### Bounds

- `MaxAttempts`, `CleanupAttempts` and `MaxDeliver` are 5, 3 and 10 in the code
  and 2 in the runs: first, retried and last attempt are told apart, and a
  third would only repeat the second. `MaxFaults = 3` in the saga run is more
  than the attempts of one activity, so a whole activity, a whole compensation
  or a whole delivery can be lost together with a further fault. The liveness
  run uses one fault, fewer than attempts and deliveries, because more of them
  do leave a running instance behind (`ClosedMeansTerminal`).
- The graphs of the engine runs are the shapes the properties tell apart:
  services on either side of two approvals in a row, and a timer with a
  conditional branch. Between them every node type and every action occurs.
- `TaskApi.MaxVersion = 4` allows claim, delegation, claim and completion of
  one task; two requests suffice for every race of one write against one stale
  read. The proofs do not depend on the bound.
- Graphs of four nodes contain cycles that the start reaches and cycles it does
  not reach, diamonds, and parallel edges. The theorems cover all sizes.
- `Definitions.MaxVersion = 3` allows two updates before the publication, so
  that a publish check can be two versions old.
- `pipeline` uses one key, two deliveries and `RequestTimeout = ClientDeadline
  = ProcessingTTL = 2`, `ResultTTL = FailureTTL = 1`: the tightest lease the
  theorem allows, so that the record of a slow request runs out while it is in
  the handler, and results run out while the other delivery is on its way. The
  rows are not modelled, so one operation (`ClaimTask`) stands for every
  mutation in the races; all operations occur one at a time.
- `retention` uses two rows of one instance, two replicas and a batch of one, so
  that a full batch can be taken away by the other replica; the clock, 3, is
  long enough for a row to be written, its instance to end and the retention
  of 1 to pass.
- `lifecycle` uses one replica that may be restarted once, one command, two
  faults and two deliveries: a handler that fails twice, a failing start after
  a crash, and a lost consumer after an error of the dispatcher all occur.
  `ShutdownTimeout = 2` and `WorkerStopTimeout = 1`: the worker's hook gives up
  and there is time to close what lies behind it. The theorem covers the other
  orders of the two.
- `configuration` turns round each of the settings in each of two layers, on
  top of a development engine, a production engine and an engine with an HTTP
  upstream: every pair of one mistake in a file and one in the environment,
  unparsable values and unloadable files included.

`CHECK_DEADLOCK FALSE` stands where the system may stop: a closed workflow whose
events are delivered, a finished walk, a process that was refused or has
started, replicas that were stopped for good, and requests that are all
answered. `task_api` and `definitions` are checked for deadlock.

### Fairness

`Engine!Fairness` is weak fairness of what Temporal and JetStream do on their
own: they keep scheduling workflow tasks, activity attempts and timers, and keep
delivering an event. Faults and orphans have none, and users owe nothing:
neither a decision nor a cancellation is assumed. `PromptSpec` leaves the
approval timeout (24 hours by default, `workflow.go:117`) out, so
`CancelStopsWorkflow` shows that a cancelled workflow needs no timeout.
`Terminates` adds it as an assumption of its own (`TimeoutFires`), because
nobody has to decide. Fair delivery presumes a consumer that goes on;
`ServiceLifecycle` shows where the code does not provide one.

- `GraphValidation!FairSpec`: sequential code runs to its end.
- `RequestPipeline!FairSpec`: the goroutine of a request runs on and time
  passes. Clients, permissions and outages are under no obligation, and Redis
  may stay unreachable for good.
- `Retention!FairSpec`: the goroutines run and their tickers fire. `End` has
  strong fairness: a Go `select` whose two channels are ready picks one at
  random, so that the cancelled context is taken at last.
- `ServiceLifecycle!FairSpec`: fx goes on with its hooks, goroutines run, an
  orchestrator restarts a replica within the bound. `Handle` has strong
  fairness: a command that every round of the consumer may take is taken by
  one. Failures have no fairness, and their number is bounded. Nor has time
  (`Tick`): `StopsEnd` holds because the hooks end, without the deadline.

## 4. The proofs

| Theorem | Property | Assumptions |
|---|---|---|
| `TypeCorrect`, `SnapshotsAreSound`, `HistoryIsChain`, `DecisionsAreFinal`, `ChangesAreEntitled`, `DecisionsAnnounced` (`TaskApiProofs`) | `TypeOK`, `SnapshotSound`, `HistoryChain`, `DecisionFinal`, `ChangedByEntitledUser`, `DecisionAnnouncedOnce` | `StoreConstants`, `ApiConstants` |
| `ValidationExact`, `StepLimitNeverReached` (`GraphValidationProofs`) | `SortDecidesAcyclicity`, `StepLimitUnreached` | `GraphConstants` |
| `ReviewedIsPublished`, `RowAgreesWithRevision`, `InstancesRunPublished` (`DefinitionsProofs`) | `PublishedAsReviewed`, `RowShowsRevision`, `InstanceRunsPublished` | `DefinitionConstants` |
| `RuntimeKeepsPromise`, `ServicesAreGuarded`, `SagaIsUndone`, `CompensationIsBacked`, `SuccessIsKept`, `ClosedIsTerminal`, `QuietIsFinal`, `DeadLettersAreLate`, `TypeCorrect` (`EngineProofs`) | `KeepsPromise`, `ApprovalGuardsService`, `SagaUndone`, `CompensationFollowsInvocation`, `SuccessNotUndone`, `ClosedMeansTerminal`, `QuietStaysQuiet`, `DeadLetterOnlyLate`, `TypeOK` | `StoreConstants`, `EngineConstants`, `AcyclicGraph` |
| `EndStaysJustified`, `EventsAreAnnouncedOnce`, `LoopIsBounded` (`EngineProofs`) | stated in `InstancePromise` and `EngineProofs`, in no run | the same |
| `PipelineInvAlways`, `PipelineTypeCorrect`, `CommitIsExclusive` (`RequestPipelineProofs`) | `PipelineInv`, `TypeOK`, `ExclusiveCommit` | `TrafficAssumption`, `NamesAssumption`, `TimesAssumption`, `LeaseAssumption` |
| `EffectIsSingle`, `RecordsAreTrue`, `ReplaysAreOwn`, `OmissionsAreHarmless`, `OnlyEntitledAreServed` (`RequestPipelineProofs`) | `OneEffectPerKey`, `RecordTellsTruth`, `ReplayIsOwn`, `OmissionHasNoEffect`, `OnlyEntitledServed` | the same and `ErrorsAssumption` |
| `OnlyExpiredAreRemoved`, `OldestGoFirst` (`RetentionProofs`) | `OnlyExpiredRemoved`, `TrailLosesOldestFirst` | `InstanceOfAssumption`, `EndsAssumption`, `RetentionAssumption` |
| `NothingUsedAfterClose`, `NothingIsLeftRunning` (`ServiceLifecycleProofs`) | `NoUseAfterClose`, `NothingLeftRunning` | `BoundsAssumption`, `TimeoutAssumption`, `FlagAssumption` |
| `ProductionIsGuarded`, `AcceptedEngineAlwaysStarts`, `StrongestLayerDecides` (`ConfigurationProofs`) | `ProductionGuarded`, `AcceptedEngineStarts`, `PrecedenceHolds` | none |

The assumptions are typing facts: the approvals are nodes, users and groups are
disjoint, the empty value is none of them, a definition has finitely many nodes
and edges, times are natural numbers. Two say more. `EngineConstants` and
`AcyclicGraph` describe what `ValidateDefinition` accepts: one start, ends
without outgoing edges, every other node with one, and nodes that can be
numbered along the edges; that the validation refuses everything with a cycle
is `ValidationExact`. `LeaseAssumption` is `RequestTimeout <= ProcessingTTL`: the
defaults satisfy it, `Validate` does not enforce it, and without it
`ExclusiveCommit` is false. Neither the number of users, requests, keys, tasks,
versions, rows, replicas, layers, attempts, deliveries and faults nor the size
of a graph is bounded.

- **TaskApi.** `TaskStep` describes every step on the task rows: none, a new
  task, or one claim, completion or delegation by a request whose version is
  current. `SnapshotSound` is inductive together with `TypeOK`: a step that
  changes a row raises its version above every version that was read, and a
  read takes the row itself. From it follow the chain (the status that is
  recorded is the status that is overwritten), the finality of decisions and the
  entitlement of the actor. The announcement needs the status of the row and
  the events side by side in one invariant (`OutboxStep`).
- **GraphValidation.** `GraphInv` ranks the nodes in the order they leave the
  queue. `Sorted` says that the counters count the edges from nodes without a
  rank, that the queue holds exactly the nodes whose edges are all struck out,
  that ranks rise along edges, that no node of a cycle is ranked, and that only
  nodes of every closed set are. An accepted graph has every node ranked, so it
  has no cycle and every node is reachable; a refused one leaves an unranked
  set in which every node has a predecessor, a cycle. The step limit follows
  from `steps < rank[cur] <= Cardinality(Nodes)`.
- **Definitions.** `VersionNamesContent` says that a version identifies a
  content which was validated when it was written; this is why the check of
  publish may look at an old row. `ReadsPublished` covers the starts between
  their statements: revisions are only ever appended.
- **Engine.** `Next` has many actions, and few of them touch the same things. The
  lemma `NextView` therefore proves once that every step is one of a few changes
  of the rows and of the route (`StepView`), and a second view, `WorkStep`, says
  what it does to the attempts and the effects; the invariants are shown to
  survive these views. They are five.
  `EngineTypes` holds the types and what an attempt is about.
  `RowsInv` says that events and signals repeat what the rows say: a buffered
  signal carries the decision that is recorded, which is why a late or repeated
  one does no harm.
  `PathInv` is about the way through the graph: the task of every approval other
  than the current node is approved or was never created, the approvals that
  guard the current node (`Guards`, the nodes without which it cannot be
  reached) are all approved, and an attempt to finish is backed by the current
  node and its task. A move along an edge preserves the second because what
  guards the target guards the source or is the source. The refinement of
  `InstancePromise`, `ApprovalGuardsService` and `EndJustified` follow.
  `SagaInv` relates the attempts, the effects and the cleanup: what is in
  `completedServices` was invoked, a finish that was written is retried and not
  undone while faults are fewer than attempts (`FinishSurvives`), each attempt
  but the first has cost a fault, and every place of `completedServices` is
  still in `undo`, or under way, or compensated, or abandoned.
  `BusInv` counts: an event that is not acknowledged was delivered at most as
  often as there were faults, and the number of steps stays below the rank of
  the current node.
  `OrderInv` gives the order of the compensation. By the same rank no service is
  twice in `completedServices` (`DoneClimbs`), so that a place of it can be told
  from the name, and without faults the compensations that happened are those of
  the places worked off, from the last to the first.
- **RequestPipeline.** `PipelineInv` adds to the types that an HTTP request never
  has more time left than the request timeout (`DeadlineNear`), that a request
  which can still commit under a key owns its record, which is in progress and
  runs out no earlier than the deadline (`LeaseOutlives`), and that only HTTP
  requests reach the limit by user (`UserOverHttp`). Two requests that can
  commit under one key would both own its record. `KeyInv` is about the whole
  life of a record: until a record of its key has run out, whoever got to the
  handler with the key owns the record, even after it crashed or was answered
  (`HoldersKnown`); the record carries its owner's fingerprint; and a settled
  record tells what its owner did (`Settled`), as does the answer about to be
  stored (`PersistTold`). `OneEffectPerKey`, `RecordTellsTruth` and
  `ReplayIsOwn` follow. `EntitledInv` follows the principal through the chain:
  permissions are only withdrawn, so that whoever has one at the authorisation
  had it on arrival. `OmissionHasNoEffect` and `OnlyEntitledServed` rest on
  lemmas about the tables of `ApiSurface`, one for each table: every field an
  operation needs is checked on either transport, and every operation has a
  requirement.
- **Retention.** `RetentionInv` says of a batch between its two statements that
  it holds only rows of instances that ended long enough ago (`BatchExpired`),
  and that no row which would stay is older than a selected one of its instance
  (`BatchOldest`). Both stay true while the batch waits, because ends and times
  of creation never change and a row written later is not older.
- **ServiceLifecycle.** `LifecycleInv` says that while hooks stop, what the hooks
  still up have opened is open (`Connected`), and that a living goroutine belongs
  to a hook that is up, or to a start that fails and waits for it, or was left
  by a hook that gave up (`Attended`). `UsesComeFirst` reads off the order of
  `app.New` that everything a goroutine uses is constructed before the hook that
  starts it, hence closed after it. For the one goroutine that may be left
  behind and find its connections closed, the worker, the invariant relates the
  two clocks: the patience of `Worker.Stop` runs only while the context runs, so
  that when it is over the context has at most the difference of the two
  timeouts left (`Patient`), and no hook stops without time left.
- **Configuration.** After each phase the settings are those of the strongest
  layer read so far, the environment is the profile, and a phase behind
  `Validate` means that none of its reasons to refuse holds; what a constructor
  refuses then follows, in production, from an unparsable value or an unloadable
  file.

Only model-checked, not proved: the liveness properties (`Terminates`,
`CancelStopsWorkflow`, `WalkEnds`, `KeySettles`, `ExpiredEventuallyRemoved`,
`CommandsSettle`, `StopsEnd`), since liveness under fairness is out of reach of
the prover. The three findings of section 6 are counterexamples of TLC.

## 5. What is not modelled

`PROJECT.json` lists every component with its status. Left out are

- the generated API description (`docs/docs.go`), a string without behaviour;
- the retry loop, backoff and circuit breaker of the outbound clients: a call
  with its retries is one attempt of an activity in `Engine`, and no part of
  the service calls an HTTP upstream;
- the paging of the role resolver: what a page holds while bindings change is
  decided by another service;
- migrations (a migration that fails is a failing constructor), health, cache,
  metrics, tracing, logging and request ids, which keep no workflow state;
- predicates on strings: token signatures and claims, route patterns, the field
  checks of single nodes (regular expressions, JSON, durations), the formats of
  settings that `Validate` itself judges, which are part of a setting being
  given;
- refusals that change nothing: a body that cannot be read and a record that
  cannot be decoded in `IdempotencyExecution` (`middleware.go:103-106`,
  `115-117`, `133-135`);
- `authorization.enabled = false`, with which both transports let every request
  pass (`middleware.go:339`, `grpc/server.go:74`); `Validate` refuses it in
  production, and `OnlyEntitledServed` is about the service with it on;
- the event `DefinitionPublished`, which publish writes in its transaction and
  the command handler ignores;
- the second call of an invocation that was left before its first had returned:
  `OrphanLands` drops it after its advance, because an invocation that was left
  between the two calls does the same to the service;
- two transactions that insert the same task at once: the unique index makes
  one of them fail as a whole, which is a failed attempt, and its retry finds the
  row;
- the values of fields and the conversion of results on the transports; list
  queries, which only read; health, metrics, pprof and swagger routes;
- tenants and applications, which partition all rows, so that one partition
  stands for each.

## 6. Findings

- `engine_stranded` (`NoStrandedDecision`). The Await predicate takes one signal
  per evaluation. If the signal of an earlier approval is delivered twice and
  the repetition is buffered in front of the signal of the current approval,
  one evaluation drops the repetition and the decision stays in the channel
  until something else wakes the workflow, possibly the approval timeout. The
  repository's README, line 28, requires repeated signals to be idempotent.
- `engine_service_once` (`ServiceCalledOnce`). An invocation whose result is
  lost is attempted again and reaches the service twice; the request carries
  nothing by which the service could recognise it, although the same line
  requires activity retries to be idempotent.
- `lifecycle_consumer` (`PublishedIsSettled`). When `Consume` returns an error,
  its goroutine logs it and ends (`app/workflow_eventbus.go:73`); the replica
  goes on as if nothing had happened, and published commands are neither
  acknowledged nor dead-lettered until it is restarted. The same line of the
  README promises explicit acknowledgement, bounded retries and a DLQ.

Observations without a run of their own:

- A deadline that passes in a handler is answered with 500 by the handler
  (`workflow_handler.go:708-727`), so that `Timeout`, which writes 504 only when
  nothing was written, stays silent; and the 500 is stored as the failure of
  the idempotency key and replayed until it runs out.
- The repository's README, line 69, says that a production configuration
  without database or Temporal fails fast; `Validate` accepts one.
- `Validate` accepts credentials without TLS when `allow_insecure` is set
  (`config.go:684`), for HTTP upstreams too; `NewHTTPClient` refuses them
  (`outbound/http.go:37`). Events without a database, and a database without the
  authorization upstream when authorisation is off, are accepted as well and
  break in the start hook and in a constructor.
- `Validate` takes several values as they are that a constructor refuses: an
  unknown `log.level` (`logging.go:22`), trusted proxies that are no addresses
  (`http/server.go:35`), a `base_url` without scheme or host (`http.go:41`), a
  DSN that does not parse (`database.go:24`), and the names of TLS files that
  cannot be loaded. These are all there are in production with Temporal
  (`AcceptedEngineStarts`).
- Nothing compares `temporal.worker_stop_timeout` with `app.shutdown_timeout`,
  and nothing checks the latter. With the shipped values, equal ones, an
  activity that outlasts both may find the Temporal client closed.
- The idempotent routes have no default and are not bound, so that an `APP_*`
  variable alone cannot set them.

## 7. What is left

Modelled: every component that changes workflow state; proved: every invariant
and action property of the passing runs. In the order of their use, these would
come next:

1. Outbound calls: retry loop, backoff with its shift at the width of a
   duration, circuit breaker states.
2. The role resolver: paging by offset against concurrent changes.
