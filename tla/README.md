# Fasit in TLA+

Fasit decides which helm releases ("features") should run in which environments,
ships them to an agent (naisd) in each cluster over Pub/Sub, and records what
happens in append-only tables in PostgreSQL. This directory holds TLA+ models of
Fasit and naisd, the TLC configurations that check them on small instances, and
TLAPS proofs of what holds for every instance. `PROJECT.json` lists, for every
definition, the source lines it stands for.

## The system

| Part | State it keeps | Operations | What is hard about it |
|---|---|---|---|
| Reconcile loop (`internal/reconciler`: `reconciler.go`, `fetch.go`, `compute.go`) | none between cycles; reads all tables | `Run`: snapshot, decide, write decisions, deploy; every minute or when triggered | the snapshot is nine queries and not one transaction; runs beside manual requests; wake-ups |
| Live view (`StreamDecisions`, `ui/pages/reconciler/stream.go`) | a lock, a channel | computes decisions with a worker pool and streams them | bounded channels, four goroutines that wait for each other |
| Pub/Sub deployer (`deployer.go`, `multideployer.go`) | one publisher per topic | publish each item, then append the `sent` rows of the batch | two systems, no transaction across them |
| Redeploy, Uninstall (`redeploy.go`) | none | operator commands from the web UI | check-then-act beside the loop; uninstall is not recorded |
| naisd (`internal/naisd`) | running handlers, their count, log buffers | acknowledge, report `installing`, helm, report `deployed`/`failed`; upgrade of itself through a job; health and release reports | acknowledged before it is done; crashes; lost messages; the upgrade kills its own pod |
| Receiver (`receiver.go`) | none | append the reported status to the log of its deploy; health, releases, log lines | reports late, twice, out of order, for unknown deploys; an inventory replaced row by row |
| Timeout worker (`reconciler.go`, `queries/reconciler.sql`) | none | fails rows that are in progress for an hour | races a late answer |
| `deploy_log` / `deploy_current` (migrations 0093, 0098) | append-only log, latest row per feature and environment | insert; AFTER INSERT trigger | transactions that commit out of order |
| fasitd lane (`internal/fasitd`) | sessions in memory, `fasitd_*` tables | connect, dispatch, agent reports | session teardown racing a dispatch; order of status rows |
| Assignments (`internal/featureassignment`) | `feature_assignments`, one active per feature and target | create, deactivate; the most specific wins | concurrent creates; matching exists in SQL and in Go |
| Decision log and derived status (`status.go`, `recentdeploys.go`) | `decision_log` | append on change; join with the deploy log for display | two logs that are never correlated, many queries over the same rows |
| Rendering (`internal/feature`) | none | merge configuration, run templates, hash | two ways to the same values; map order; nested keys |
| Configuration (`queries_configurations.go`, `queries_disabled_features.go`) | configuration, switches | set, update by id, delete, disable, enable; each with its audit row | read committed transactions of several operators |
| Environments, tenants, values (`internal/environmentmanagement`, gRPC) | tables | create, update, set, delete | no transaction; audit afterwards |
| Web UI and REST API | none | the commands above; pages | repeat the rules of the loop |

The parts meet in the database and in Pub/Sub. The loop and `Redeploy` read
`deploy_current`, publish to naisd and append `sent`; naisd reports through the
status subscription; the receiver and the timeout worker append further rows for
the same deploy instruction id (diid); the trigger keeps `deploy_current`.
Handlers that change a table wake the loop through a channel of one slot. In the
fasitd lane the registry and the channel of a session are shared inside the
process.

What makes each part correct:

- **Rollout**: the rows of a deploy describe the instruction that was sent;
  `deployed` is recorded only for what helm has installed; naisd is never given
  two instructions for one feature; a rollout does not stay in progress for
  ever; the cluster ends up with the last desired state.
- **Decisions**: nothing is sent before what it depends on is deployed; a
  feature that was switched off gets at most the deploy already decided on; the
  decision log is a log of transitions that ends with the truth; every page
  tells the same story about it.
- **Current tables**: a reader sees the latest committed row of every key,
  whatever the order of commits.
- **Assignments**: one active assignment per feature and target, none lost
  without a trace, one winner whoever computes it.
- **Configuration**: the activity lists name what is stored, and the pages show
  what will be rendered.
- **Process**: no change waits for a wake-up that was dropped, a stream is
  complete and ends, a signal ends the process.
- **naisd**: the count that postpones upgrades is exact, log lines are not
  stored twice, every instruction is dealt with; reports become right again.
- **fasitd lane**: one session per environment; a command that was called
  undeliverable is not delivered; nothing is replayed; a dispatch ends.

## The modules

| Module | Models | Run by | Proved in |
|---|---|---|---|
| `Rollout` | loop, Redeploy, Uninstall, deployer, Pub/Sub, naisd, receiver, timeout worker | `MCRollout` | `RolloutProofs` |
| `CurrentView` | abstract: the views of migration 0093 | through `CurrentTable` | |
| `CurrentTable` | the logs, current tables and triggers under overlapping transactions | `MCCurrentTable` | `CurrentTableProofs` |
| `FasitdSession` | registry, Connect, sender, dispatch, agent | `MCFasitdSession` | `FasitdSessionProofs` |
| `Store` | the tables as variables, statements shared by the parts | by those that extend it | |
| `Matching` | which assignment an environment gets: each copy of the rule in SQL and Go | by those that extend it | |
| `Render` | from configuration to helm values and hash | by those that extend it | |
| `HelmValues` | the two ways from the tables to `Render` | by those that extend it | |
| `Status` | `deriveState`, the joins of the two logs, the roll-ups | by those that extend it | |
| `History` | the queries over past deploys | by those that extend it | |
| `Pages` | what each page reads | by those that extend it | |
| `Decision` | the loop from tables to both logs while the tables change | `MCDecision` | `DecisionProofs` |
| `Assignments` | create and deactivate, statement by statement | `MCAssignments` | `AssignmentsProofs` |
| `Config` | configuration, switches, provisioning, audit | `MCConfig` | `ConfigProofs` |
| `Process` | goroutines of the process: loop, trigger, live view, shutdown | `MCProcess` | `ProcessProofs` |
| `Agent` | overlapping handlers of naisd, its upgrade job, log lines up to the table of Fasit | `MCAgent` | `AgentProofs` |
| `DeployLogs` | how the pages read that table | `MCAgent` | `AgentProofs` |
| `Reports` | release lists and heartbeats, their receiver | `MCReports` | |

`Store` is extended by `Matching`, that by `HelmValues` (with `Render`) and by
`Status` (and `History`), both by `Pages`, and that by the three state machines
over the tables: `Decision`, `Assignments` and `Config`. They take different
tables as fixed and check the same operators against different histories.

Operators whose comment begins with "Mutant" are variants of the definition
below them with a plausible error; each property has one that breaks it.

### Rollout

A key is a feature in an environment. `desired[k]` is the hash that rendering
would produce now, or `Blocked` when one of the gates before the comparison
(health, disabled, dependencies, missing configuration) stops the key; how the
hash comes about is the matter of `Decision`. `worker` holds the loop and each
running Redeploy request: what the snapshot has read so far (`want`, `seen`),
the items still to publish (`todo`) and the diids published but not yet recorded
(`sent`). `topic` and `inbox` are the instruction topic and the status
subscription, `agent[e]` the handler of naisd with its phase, `installed` the
releases in the cluster. `deployLog` has the rows of each diid in order and
`deployCurrent` the row per key. Handlers of naisd run one at a time here; how
they overlap is in `Agent`.

| Actions | Code |
|---|---|
| `FetchDesired`, `ListLatestDeploys`, `CycleFails` | `fetchSnapshot`: parallel queries, not one transaction |
| `Reconcile` | the decisions of a cycle, `computeAction` |
| `Publish`, `PublishFails`, `AppendDeploys`, `AppendDeploysFails` | `pubSubDeployer.Deploy`: item by item, then one COPY |
| `Redeploy`, `Uninstall` | `redeploy.go` |
| `Receive` ... `ReportTerminal`, `UninstallHandler`, `AgentRestarts` | `DeployManager.handler`: acknowledge, report, helm, report |
| `HandlerHelm` | `Receiver.handlerHelm`: dropped when the diid has no row, appended otherwise |
| `TimeoutPendingDeploys`, `TimeoutBeforeAnswer` | the timeout worker; the hour is abstracted to whether an answer is still under way |
| `FasitRestarts` | everything in memory is lost |

Faults are enumerated in the head of the module. A plan names the faults that
may happen, how many of them, the changes and the requests; TLC starts from
every plan of a run. The proofs hold for any plan and any number.

### CurrentTable and CurrentView

Migration 0098 replaced views over the logs by tables that a trigger maintains.
`CurrentView` states what the views showed: when rows become visible, the view
shows the greatest `(created, id)` of each key in the same instant.
`CurrentTable` has transactions that take their `created` when they begin, ids
when they insert, run the trigger per row at the end of the statement, wait for
the row lock of another transaction and commit or abort in any order.
`View == INSTANCE CurrentView` with the same `log` and `current`; the property
`ViewSpec` says that the tables implement the views. In `Rollout` a statement
is one atomic step: `CurrentTable` is why that is sound for the current row.
The backfill of the migration runs under a table lock and makes the initial
state of the tables the one the views show; the model starts with empty tables.

### FasitdSession

A session is one call of `Connect`, a command one call of `dispatch`. `conn` is
the handler with its channel `send` and its sender goroutine, `wire` the gRPC
stream, `agent` the client. `dispatch` is split where other goroutines can run:
`CreateCommand`, `Get` (registry lookup), the `select` (`SelectSend`,
`SelectDone`, `SelectBlocks`, `SelectTimeout`) and `Record`. The defers of
`Connect` are two steps, `Close` and `Remove`, in the order Go runs them. After
`Break` the reports that had arrived may still be read, but the insert may fail,
since it uses the context of the stream.

When `done` is closed and the channel has room, both cases of the select are
ready and Go picks one: `SelectSend` and `SelectDone` are then both enabled, and
a command put into the channel of a session that has ended keeps the status
`sent`.

### Store, Matching, Render, HelmValues, Status, History, Pages

These are operators over the tables. A table with a unique key is a function on
the keys present, an append-only table a sequence whose positions are its ids
and the order of `created`. An environment is the pair of the names of its
tenant and its own; a label set is a function.

The source states several rules more than once, and the copies are separate
operators here so that runs can compare them: the match of a target
(`jsonbContains` for `@>` in SQL, `matchAssignments`, `targetMatchesLabels` in
Go), the most specific assignment, the merge of configuration (`MergeConfigs`
for the pages, `mergeConfigRows` for the loop), the join of the two logs
(`ReconcileStatuses`, `AllReconcileStatuses`, `FeatureStatusesForEnvironment`),
the latest deploy (five queries and the grouping in Go).

Sorting and grouping are stated by rank: the n-th entry of an `ORDER BY` is the
row with n - 1 rows before it (`NewestFirst`, `NthNewest`, and `Ordered` in
`DeployLogs`), and a map written over another is `Over`. That is what a query
promises, whatever its plan, and it can be reasoned about without induction.

In `Render` a helm value map is the function from the paths of its leaves to
their values. A template prints one environment value; it may be guarded by
`{{with}}` or not, and an absent value then renders to null or to the text
`<no value>`. The order in which computed values are set is the order of a Go
map: `GenerateWith` takes it as a parameter, and the properties quantify over
all orders.

### Decision

`cycle` is where `Run` is: after `StartCycle` and the query for the environments
the other queries of the snapshot are read one by one in any order
(`Fetch`), with operators changing tables between them; then
`writeResultLogs` and `Deploy`, each a step, or `CycleFails` after a database
error. `decide` is `computeActionsStream` and `computeAction`: the gates for
health, switch, winner, dependencies, configuration and rendering, then the
comparison with the latest deploy. `Answer` is the agent (one step here).
`lateDeploys` is a history variable: the deploys sent since a feature was
switched off.

### Assignments

A request is a handler of the API or of a page. `createFeatureAssignment` is
`CreateFeatureData` (its own statement), then a transaction at read committed:
`StartUpdate` picks rows from the snapshot of the statement, `FinishUpdate`
waits for their locks and looks at the condition again, the insert waits for an
uncommitted row of the same key and then meets the unique index. Uncommitted
work is kept with the request. The audit row of a create is written after the
commit, that of a deactivation inside.

### Config

A form submitted from a page is a list of items (set, update by the id the page
was loaded with, delete, disable, enable) that one transaction works through:
what it reads is not locked, what it writes is. A row is addressed by its table
and its key there; the activity lists of the pages are the ids of their audit
rows. The provisioner's calls are one
statement and then `writeAudit`, whose error is only logged. `Fail` is an error
of a statement, `Crash` the end of the process.

### Process

The tables are the number of committed changes, `acted` the newest one a cycle
has written and deployed. A stream is the handler with its lock, the dispatcher,
`NumWorkers` workers, the channel and the forwarder. A signal makes the process
drain; it exits when its handlers have returned or `ShutdownTimeout` fires, and
starts again.

### Agent

A handler acknowledges (`Receive`), is counted (`Begin`), runs helm, closes its
log and is uncounted; uninstalls are not counted. An instruction for naisd
itself is postponed, or handed to a job (`CreateJob`, `CreateSecret`, `Stop`):
`job` is that second process, which upgrades the release and so replaces the
pod, and is retried once. `log[i]` says where each line of a deployment is: in
the buffer, taken by the ticker, in a message under way, in the table `logs`, or
lost. Messages are delivered in any order; `handleStatusLog` acknowledges also
when its inserts fail, and `LogDeliveredAgain` is a message whose rows are
committed and whose acknowledgement is lost. Lines are numbered in the order in
which they are written, and `Tick` is the time each is stamped with: the queries
of `DeployLogs` order by it and by the id of the instruction (`Uuid`), and by
nothing else. `Place` is the order in which rows with the same time come out, which
SQL leaves open: it may be any, but is taken to be the same for both queries.

### Reports

A list of releases is published by the scheduler and after each helm command,
delivered in any order and to handlers that overlap, and stored by one DELETE
and an INSERT per release that are not in one transaction (the calls go to the
pool, `receiver.go:192`). A heartbeat carries the time it was made; whether it is
fresh or stale is judged later.

## The runs

| Run | Question | Bounds | Distinct states |
|---|---|---|---|
| `Rollout` | are the logs those of the instructions, does naisd face one instruction per key, is "in sync" true, does a rollout settle, does the cluster follow? | 1 key; four plans: any 1 fault of 14 with a Redeploy, any 1 with a change, 2 faults and 2 changes of the two milder sets | 231,603 |
| `CurrentTable` | do the tables show what the views showed? | 2 keys, 3 transactions, 2 clock values | 551,258 |
| `Fasitd` | one session per environment, nothing replayed or delivered late; does a dispatch end, does a broken session go? | 1 environment, 2 sessions, 2 commands, channel of 1, failing inserts, restarts | 408,404 |
| `Decision` | what is shipped, logged and shown while tables change under a cycle? | 2 environments (the management one is not reconciled), 2 features with a dependency, 2 changes or errors | 154,489 |
| `Assignments` | is there one active assignment and one winner, and is every loss explained? | 3 requests out of 4 operations, 2 targets one inside the other, 1 fault | 240,469 |
| `Config` | do the activity lists and pages say what is stored and rendered? | 3 requests out of 8 forms and 6 calls, a plain and a secret key, 1 fault | 626,693 |
| `Process` | are wake-ups lost, are streams complete, does everything end? | 3 writers, or 2 streams, or one of each; 3 decisions, 2 workers, channels of 1; 1 fault, 1 signal | 89,054 |
| `Agent` | is the count exact, is every instruction dealt with, is a line sent once, do the pages show a log as it was written? | an install, an uninstall and naisd itself; three lines in the log of the uninstall, the last two stamped alike, one in the others; 1 fault of 7 | 211,121 |
| `Reports` | do inventory and health become right again? | 2 releases, 2 lists and 2 heartbeats under way, 2 changes, 1 fault | 364,476 |

Violation runs show where the code does not do what its documentation says:

| Run | The statement | What TLC finds |
|---|---|---|
| `RolloutLostPublish` | `deployer.go:90-94`: a row is written only after a successful publish, a failure is retried | the publisher does not wait: a publish that fails later is recorded as `sent`, times out as `failed` and is not retried |
| `StreamBusy` | `reconciler.go:208-211`: the channel is closed when done, a second stream gets an error | the channel is not closed on that path, so the handler waits for its forwarder for ever and the error event is never sent |
| `UpgradeRace` | `deploy_manager.go:111-112`: the upgrade of naisd waits for all other deployments | a handler that has acknowledged but is not counted yet, or an uninstall, loses its pod |

Other disagreements that were seen while modelling, without a run of their own:

- `redeploy.go:54-56` says Redeploy proceeds only in a settled state; the state
  is checked on a snapshot, and the loop may ship the key before the publish.
- `CONTEXT.md:43` calls `deployed` and `failed` terminal; an `installing` that is
  delivered late is appended after them, and the key is then in progress until
  the timeout.
- `reconciler.go:135-137` says the timeout marks deploys stuck in a non-terminal
  status; its statement reads an earlier snapshot, so a `deployed` that commits
  meanwhile is followed by `failed`.
- `docs/fasitd.md:89-90` gives the order `sent → installing → deployed`; `sent`
  is appended after the hand-over and may be the latest row for ever.
- `errPostpone` asks for a negative acknowledgement of a message that
  `ForceAck` has acknowledged: a postponed upgrade of naisd is lost, not delayed.
- `handleStatusLog` has no key to tell a repeated message by: the lines of one
  that Pub/Sub delivers again are shown twice.
- The receiver opens a transaction for the inventory and sends the statements to
  the pool; a failure leaves part of a list until the next one.
- `queries_disabled_features.go:50-51` calls `EnableFeature` a no-op for a feature
  that is not disabled; it writes an audit row all the same.

**Why the bounds are enough.** One key is enough for Rollout: keys meet only in
a batch, in the handlers of an environment and in the current table, which
`Decision`, `Agent` and `CurrentTable` cover with more than one. Two hashes give
a change, a revert and a stale value. Each fault is found in combination with
every interleaving, and the diids are enough that a run is never cut short
before the last answer has been recorded. In `CurrentTable` two statements show
every order of begin, insert, trigger and commit, and a third one lets a
transaction meet a row that was replaced while it waited. In `FasitdSession`
two sessions are an old and a new connection, two commands and a channel of one
make a dispatch block. In `Decision` two changes are a change and its reversal,
or two that meet in one snapshot; in `Assignments` and `Config` three requests
are two that race for a row and one that takes it away from both. In `Process`
three writers find the slot of the trigger empty, full and emptied, and three
decisions overfill workers and channel together. In `Agent` the three
instructions are the three ways through the handler, and the three lines of
the uninstall are a message of the ticker, one under way and the rest that
`Close` sends; in `Reports` two lists under way are enough to mix their rows.

What holds under which fault was found by running each fault of `Rollout` by
itself: `SingleFlight` and `InSyncIsInstalled` hold under lost or failed
publishes, failed queries, a crash of the agent, failed preparation, failed
helm, lost and reordered statuses; they do not under a failed append, a restart
of Fasit, duplicate delivery, answers slower than an hour, or an uninstall:
after a failed append naisd installs a release that has no row, and once the
desired state is reverted the loop calls the key in sync while the other release
runs. Both are therefore stated for the plans with `SerialFaults`, and
`Converges` for those with `RetriedFaults` (failed publishes, failed queries,
lost statuses). After a failed helm run the cluster does not follow, by design:
`reconcile_integration_test.go:150-151` asks for no redeploy when the previous
one failed and the hash is the same. `InProgressSettles` and `ChangeIsShipped`
hold under every fault.

**Fairness.** In `Rollout`: the loop and the timeout worker are goroutines that
run for the life of the process (`run.go`), Pub/Sub delivers what it has
accepted, naisd finishes what it has started unless it crashes; a Redeploy
request that began goes on, none has to begin. In `Decision`: cycles start again
and again (some step of the loop is always enabled and a cycle is finite, so
this is weak fairness of the loop) and agents answer. In `Assignments`: a
handler goes on. In `Process`: each goroutine goes on while it can, the timer of
the shutdown fires, and Kubernetes starts the process again; nobody has to make
a request. In `Agent` and `Reports`: Pub/Sub delivers, handlers go on, tickers
tick, Kubernetes starts a pod that is down and gives a job up after its retries;
a pod may also be gone for good. In `FasitdSession`: a dispatch goes on (its
inserts return, its timer fires) and a handler whose stream is broken returns
and runs its defers; nothing is assumed of the agent or of the sender goroutine,
which a slow agent may block. Faults, changes and requests are never fair.
`Config` claims no liveness.

Deadlock is not checked in `CurrentTable`, `FasitdSession`, `Agent` and
`Reports`, where each transaction, session, command, instruction or change
happens a bounded number of times and the model then stops.

## The proofs

All theorems hold for every value of the constants that satisfies the named
assumptions of the modules.

- `RolloutProofs`: `RolloutInvariant`, and from it `TypeCorrect`,
  `LogStartsWithSent`, `LogMatchesInstruction`, `LogDeployedIsEarned`. The
  three safety properties are not inductive. `IssuedInv` adds that only issued
  diids are in the topic, in the agent or in the inbox, each with an
  instruction, and that unissued ones have no rows, so that a fresh diid cannot
  meet an old row; `UnrecordedInv` that a diid which a worker has published but
  not recorded has no row yet and belongs to one worker, so that `sent` is
  written once and first; `EarnedInv` that a `deployed` on its way, in the agent
  or in the inbox, has been earned. The step proof has one lemma per action over
  a few lemmas about appending rows and about steps that touch one part only.
- also in `RolloutProofs`: `SerialInvariant`, and from it `OneInstructionPerKey` and
  `InSyncMeansInstalled`, both for plans with `SerialFaults` and without
  Redeploy, as the properties are. `TrackedInv` says that an instruction in the
  topic, in naisd or with an answer under way is one the loop has just published
  or the one the current row of its key calls in progress; `BatchInv` that a key
  in the batch of the loop is settled and stays so until it is sent, although the
  snapshot is older; `AnswerInv` that naisd has an instruction once and answers
  for it last; `InstalledInv` that no other release is installed between helm and
  the row that says `deployed`. The proof uses `RolloutInv` in both states.
- `CurrentTableProofs`: `CurrentInvariant`, `TableIsLatest`,
  `TableImplementsView`. `CurrentInv` adds unique ids (also of uncommitted
  rows), at most one row per key in a statement, and that whoever holds the lock
  of a key has computed its result from the row that is still committed. The
  refinement needs the invariant in both states of a step.
- `FasitdSessionProofs`: `RegistryIsExact`, where `OneSession` is inductive with
  the types of the registry and the handlers; `FasitdInvariant`, and from it
  `UndeliverableStaysSo`, `NothingIsReplayed`, `ReportsKeepTheirOrder` and
  `FasitdTypes`. `HeldInv` says that only what a dispatch has put into a channel
  is on a session, and on that one only; `DispatchInv` that a dispatch looks its
  session up once and records its outcome last; `LaneInv` that a command is in
  one place of its session (channel, wire, agent, reports on the way back) and
  that what its rows say is consistent with that place.
- `AssignmentsProofs`: `AssignmentsInvariant`, `AtMostOneActive`, `NoSilentLoss`.
  `RequestInv` says which rows a request may hold at each of its statements;
  `AloneInv` that a request which has inserted its row, and not committed yet, has
  deactivated every active row of its feature and target and is the only one that
  has inserted there. It is the unique index, the row locks and the second look
  at the condition after waiting that keep it. `IndexAssumption` is that the
  table the system starts with satisfies the index.
- also in `AssignmentsProofs`: `EveryCopyNamesTheWinner`, that every copy of the
  matching rule names the same assignment. `ChartsInv` says that every assignment,
  and every open request for one, has its chart stored; `TimesInv` that rows and
  open transactions have start times of their own, so that no tie is left between
  two assignments that are equally specific.
- `DecisionProofs`: `DecisionInvariant`, and from it `DependenciesComeFirst`,
  `DecisionLogHasTransitions` and `AtMostOneLateDeploy`. `SnapshotOK` says what
  stays true of a query's answer while the tables go on changing: a feature that
  was deployed has been deployed, and the chart of a version is the stored one,
  since `Assign` keeps a chart that is there; for the decisions it follows that
  their dependencies are met when they are sent, a step later. `LateOK` says that
  after a late deploy every answer about disabled features, and every decision,
  knows of the feature. The operators of `compute.go` enter through lemmas:
  `checkDependencies` reports nothing only when all dependencies are met,
  `decide` names the key it was asked about and deploys only behind the gates,
  `Results` is finite with one decision per key. `TablesAssumption` asks for
  finitely many environments and for tables that refer to charts of the registry.
- also in `DecisionProofs`, what the pages show. `PreviewIsDeployed`: the values of
  the preview are the ones the loop renders from the same tables; `StoredInv` says
  that a chart is stored under its own name. `RecentDeploysAreCounted`: wherever
  the limit of the scan cuts the log, each instruction is counted once, with its
  latest status. `PagesTellOneStory`: the queries behind the pages of a feature, of
  an environment and of a deploy agree. `InstructionsInv` says that the rows of an
  instruction are about one thing, that only the last of them has ended, and that
  they follow those of earlier instructions for the key; `AssignedInv` that there is
  one active assignment per feature and target, that ids are positions, and that
  what was read, decided or sent names an assignment of its feature.
  `AssignedAssumption` asks for targets with finitely many labels and for distinct
  assignments to start with.
- `ConfigProofs`: `ConfigInvariant`, and from it `AuditsNameTheValues` and
  `DisabledIsExplained`. `ReqOK` says that the audit rows of a request end, for
  every row it will write, with one that names the value (or the deletion), and
  that a row which says "set" is about something the request writes, also where
  a statement finds nothing and is audited all the same; `Told` and `Explained`
  say the same of the committed log and tables. It follows at a commit whatever
  the other requests have read or hold, so the argument does not use the row
  locks: a lost update is overwritten in the table and in the log alike.
  `ConfigAssumption` asks for forms whose items address the tables they belong
  to, for finitely many values at the start, and that `NoRow` is not a row.
  `PagesAreFaithful` is that the pages show the values that are rendered, and the
  REST API the project that the page of the environment shows while secrets are
  masked; `ProvisionedInv` says that an environment has its tenant and a value its
  environment and key.
- `ProcessProofs`: `ProcessInvariant`, `WakeupsAreNotLost`, `StreamsAreExact`.
  `WakeInv` says where a pulled trigger is: acted on, in the channel, or with a
  cycle that will still read or has read late enough; `LoopInv` that no cycle
  acts on an older state than the one before. `HandlerInv` says that while the
  pool runs every decision is between dispatcher and client, and that a
  forwarder which has ended left nothing behind; `LockInv` that the lock is held
  by exactly the stream that computes.
- `AgentProofs`: `AgentInvariant`, `CountIsExact`, `LogLinesStoredOnce`.
  `LogInv` says that a line is in one place or message, that a message which is
  stored and still under way has been delivered again, and that helm ends only
  after its lines were written; the count needs that the set of instructions is
  finite and facts about the cardinality of a set with one element more or less.
  `PagesShowLogsAsWritten` is that both pages list the stored lines of a deploy in
  the order in which naisd wrote them, as far as their times tell, however messages
  were delivered, and miss none that was not lost; `WrittenInv` says that only lines
  of naisd are stored. `TickAssumption` asks for finitely many lines and for times
  that do not run backwards.

Two hypotheses of these theorems are not enforced by the code:

- `TargetsHaveValues` (`EveryCopyNamesTheWinner`, `PagesTellOneStory`,
  `PagesAreFaithful`): no target asks for the empty value of a label. The copies
  in Go read a missing label as the empty string and match it, `@>` in SQL does
  not, so with such a target the copies disagree.
- `NoReservedValues` (`PreviewIsDeployed`): no environment has a value of its own
  called `name` or `kind`. The preview writes the identity of the environment over
  such a value, the loop the value over the identity.

Both hold in the runs.

The proof of `PagesTellOneStory` corrected the statement: a page that takes the
last successful deploy from the history does not find one that is further back
than the `HistoryLimit` deploys it reads, while the other queries do. That no
deploy succeeded is concluded only from a history that is not full.

Only model-checked: the liveness properties (`InProgressSettles`,
`ChangeIsShipped`, `Converges`, `DecisionsBecomeTrue` and those of
`FasitdSession`, `Process`, `Agent`, `Reports` and `Assignments`), since the
prover has no rule for fairness. Every safety invariant of a run is stated by a
theorem.

## Not modelled

- The functions that templates may call and the parser that lists the values a
  template refers to (`template_funcs.go`, `template_parser.go`): pure functions
  over arbitrary text. The parser does not look at the pipe of `{{with}}`, so the
  page of the values may miss a reference.
- The detection of secret values in rendered output that ADR 0001 and
  `CONTEXT.md` describe has no code at this commit.
- Layout, wording and times of the pages, the template tester, and which deploy
  the log page of an assignment chooses.
- Authentication, the helm registry client, Slack messages, metrics, generated
  protobuf code, and the tools for local development.
- The release inventory of fasitd: no agent sends it at this commit
  (`cmd/fasitd/main.go`), and its storing has the shape of `Reports`.
- More than one Fasit process: the deployment has one replica, and the moment in
  which two overlap while it is rolled is not modelled.

## Plan

1. `Reports`: its inventory under overlapping handlers, as an invariant that
   says which lists the rows may come from.
2. In the models: the fasitd lane composed with the deployer that chooses between
   the lanes, and an abstract rollout that both `Rollout` and the agent side of
   `Decision` implement.
