# A TLA+ verification of next-infra

next-infra is a single-node desktop inventory of infrastructure: a Tauri host
synchronises resources and relations from providers (GitHub, SSH hosts, Dokploy,
Cloudflare, Supabase, Aliyun, Tencent) into one SQLite database, keeps their history,
and answers read-only queries of its own window and, through a local socket and a
bridge process, of MCP agents.  This directory holds TLA+ modules that model the
concurrent and stateful core of it, TLC instances that check them, and TLAPS proofs.

`PROJECT.json` records for every definition the source lines it models, the runs, the
mutants (a plausible wrong version of a definition, `... Mutant: ...` in the modules,
under which the property named must fail), the hazards and the findings.

    tlc -workers 2 -config MCSyncEvidence.cfg MCSyncEngine     # one run
    tlapm SyncEngineProofs.tla                                 # one proof module

`SyncHistoryProofs` extends `SyncEngineProofs`; every other proof module extends the
module it is about.

## 1. Inventory

| component | state | operations | what is hard | what makes it correct |
|---|---|---|---|---|
| store (`next-infra-store`) | SQLite tables: connections, sync_runs, resources and relations with versions, changes, connector_state (cursor, absence evidence), bindings, inference outputs | one transaction per operation under the `SharedStore` mutex | multi-table invariants without foreign keys; purge | no orphan, history equals present |
| sync engine (`next-infra-sync`) | per task: `SyncRunHandle`, `WriterQueue` | start, commit, fail, recover | read in one lock, write in another; absence evidence over many runs; crash between start and commit | commits are fresh, tombstones exactly after two authoritative absences, cursor of the last commit |
| normalizer, core, connector-api | none | observation batch to validated batch, fingerprints | what a fingerprint contains | stable keys and fingerprints |
| runtime and scheduler (`next-infra-runtime`) | `RuntimeState`, due time per connection | start, plan_due, sleep, wake, stop | order of sleep, wake, tick, stop | one plan per due time, nothing after stop |
| scheduled driver (`scheduled_sync.rs`) | driver thread, pending catch-up plans, one running flag per connector type | tick (drain, plan, resolve, enqueue), spawn | flag against mutex, panics, starvation | single flight, no leaked flag, progress |
| desktop composition (`composition/mod.rs`) | everything above, query context, settings | create, manual sync, purge, sleep, wake, quit, query commands | time of check to time of use, partial failure of create | purge is final, commands end |
| query context (`query_source.rs`, `composition/mod.rs`) | a revision, an instant and the schedules of the connections | refresh by the driver, by a create, by a purge; read | refreshers that read, compute and install with nothing locked in between | what a command reported is what the context shows |
| query source, service and projection | none; one snapshot per query | search, detail, relations, changes, timeline, sync status, connections, topology | paging while the store moves; limits that hide an edge | nothing twice, nothing lost, a topology that is not marked is complete |
| binding, inference | bindings, inference outputs and the relations made from them | create, update, disable; run a rule | relation life tied to another table | configured relations follow bindings |
| local RPC (`next-infra-local-rpc`, `host/local_rpc.rs`) | streams, in-flight counter, workers | handshake, query, stop | time-out against late reply, stop against accept | replies match requests, stop closes all |
| host lifecycle, host integration, MCP bridge | quit marker, launch lock, single instance | launch, quit, authorise, ensure_host | crash between marker and stop, quit against launch | a quit host is not launched by an agent |
| connectors (nine crates) | GitHub: pages by ETag and routes between syncs; else none | descriptor, validate, sync (paging, retries, limits, walks, merges) | one failure of many must survive to the outcome; limits that multiply; lists kept by hand in three places | coverage claimed is coverage read, requests are bounded, what is declared works |
| connect commands (`composition/mod.rs`) | none | test what was typed in, then create | the test builds a connection of its own | a right entry passes |
| desktop user interface | React state | views over commands | | not modelled |

Interactions: the driver thread and the Tauri commands share the runtime mutex, the
flags and the store; a spawned task owns a flag and an engine; the query side reads the
store and the query context; the bridge reaches the host through the socket only and
learns of a quit through a file.

## 2. Plan

1. (done) `SyncStore`, `SyncSpec`, `SyncEngine`: tables, commit, absence evidence,
   refinement of an atomic specification; `SyncEngineProofs`.
2. (done) `ScheduledSync`: scheduler, driver, flags, commands; `ScheduledSyncProofs`.
3. (done) `HostLaunch`: quit marker, launch authorisation, single instance, bridge;
   `HostLaunchProofs`.
4. (done) `LocalRpc`: listener, sessions, in-flight limit, time-outs, stop;
   `LocalRpcProofs`.
5. (done) `ConnectionStatus`: creation, health, last success and last attempt of a
   connection, for each of the seven connectors; `ConnectionStatusProofs`.
6. (done) `QueryContext`: the query context and its refreshers; `QueryProofs`.
7. (done) `QueryService` (filters, limits, cursors, freshness) and `Topology`
   (`build_topology` against a reference), `Queries` as the four together.
8. (done) `LocalRelations`: bindings and inferred relations with their versions.
9. (done) `ConnectorSchemas`, `ConnectorSync`, `CloudConnectors`, `GitHubConnector`,
   `SshConnector`, `PlatformConnectors`, `Connectors`: a sync of each connector;
   `ConnectCommands`: the tests of the connect dialog.
10. (done) the other safety properties of the runs and the refinement
   `SyncEngine!Spec => SyncSpec!Spec`: `SyncHistoryProofs`, `ConnectorProofs`, and more in
   the proof modules above.
11. (done) `RequestsBounded`, whose requests are measured by a potential that every step
   of a connector keeps: `ConnectorProofs`.

## 3. Modules

`SyncStore` holds the tables as variables, the records as sets, and `build_commit` with
its parts as pure operators over a batch and the stored rows.  Each store transaction is
an operator on the primed tables; nothing finer is visible, because `SharedStore` locks
around it and SQLite makes it atomic.  A resource or relation id stands for its stable
key, so its owner and its endpoints are constants.  Provider data is a content and a
scope.  Times are run numbers: runs of one connection do not overlap, so their order is
that of the timestamps.  `scans` is a history variable, the authoritative commits of
each scope; no guard reads it.

`SyncSpec` is the abstract specification: a run is opened, and closed by one atomic step
that reads and writes, by a failure, or by nobody.

`SyncEngine` has the steps of the code: `Start`, then the connector's answer, then
`Build` (`SyncEngine::commit` up to the queue) and `Submit` as two steps, `Reject` (the
batch fails validation), `Fail`, `Abandon` (store error, clock error, panic), `Purge`,
`Crash`, `Recover`.  A connector is any batch of the right connection: complete, partial
with or without its scope, with an unknown endpoint, of another mode.  The per-type flag
is the guard `phase = "idle"`; that it is one is what `ScheduledSync` shows.

`ScheduledSync` models who may synchronise when.  `driver` is the driver thread inside
one turn: `RecvTimeout` leaves the channel without a stop message, and the rest is
spent under the runtime mutex: `Tick` drains and plans, `Resolve` one connection, `Enqueue` takes the flag and spawns or skips, `TickEnd`.  Everyone else
needs `RuntimeFree`.  `running` are the flags, `tasks` the spawned tasks, `creator`,
`manual`, `purger` and `quit` the program counters of the commands.  `due[c]` is the time
left until `next_due_at`, so time needs no bound.  `rows` is the connections table,
`purged` a history variable.  Which commands and faults occur is a constant, so that a
run can name the environment it speaks about.  The steps of the seven create commands,
sync tasks and spawners differ only in whether the connector is scheduled
(`has_live_sync_path`) and in whether its flag is released by a drop guard
(`SyncRunGuarded`).

`HostLaunch` models which process is the Desktop Host and when an agent may start one.
`phase[p]` is how far the main thread of process `p` is, from `launched` over the
single-instance election (`holder`), `open` (`runtime`) and `bound` (`rpc`) to `ready`,
and through a quit: `marking`, `writing`, `syncing` (`persist_user_quit`: create the
temporary file, rename it, synchronise the directory), `closing`, `draining`, `exiting`.
`explicit_quit`, `system_shutdown` and `leaving` are the flags of `AppState` and the end
of the event loop.  `marker` is the file: absent, renamed but with its directory not
synchronised, or durable.  `temps` are the temporary files, named after pids, which
outlive a crash and are met again when a pid is.  `bridge[b]` is how far a bridge is in
`ensure_host`, `launch_lock` the file lock between bridges, `expired` the bridges past
their deadline.  The marker is read five times on the
way to a host launched by an agent: by the bridge twice, by the process before the
election, after it, and before the socket is bound.  The first three are early refusals
that a quit may overtake; the fourth one carries the safety, because whoever quits
holds the election until after its marker is durable.  The `HostLifecycle` state machine
of `next-infra-runtime` is exercised by its own tests only and is not a module.

`LocalRpc` models the socket between host and bridges.  `accept` and `hand` are the
accept thread and the stream it holds; `stop`, `stopper` and `active` are
`LocalRpcHost`, whose `stop` consumes it, so that a `Drop` follows (`SetStop`, `Drain`,
`Join`, `DropHost`).  `session[c]` is the thread of a stream in `serve_stream`,
`handling` and `replied` its workers before and after their reply, `in_flight` the
counter, which is changed on its own.  `up` and `down` are the two directions of the
stream.  A frame is written in one step, because requests and replies fit the socket's
buffer or are read at once, but a deadline may fall in the middle of reading one
(`torn`); until the reader happens on a frame boundary again it gets errors.  `client`,
`call` and `result` are a bridge, with one connection for its life and one query at a
time, as the mutex of `LocalRpcMcpClient` has it.  `sent` is a history variable.

`ConnectionStatus` models what the row of one connection says of it.  `held` is a row
read by whoever will start a task, `task` the running task with its own copy, and every
write replaces `row` by the copy as a whole.  `create_*_connection` and `sync_*` are
records of how the seven copies of the code differ: who asks the provider before saving,
who needs a credential, who builds a transport of its own, who writes errors of the host
to the row, and how each maps error codes to health.  `secret` is the row of
`connection_secrets`, `legacy` a token file of an earlier release, `scheduled` the entry
of the scheduler.  Times are numbers of attempts, `runs` the status of the run of each.
A run opened by a task that aborts stays "running" until a crash and its recovery.

`QueryContext` models who replaces the context that queries are answered from.  `op[a]` is
a refresher in the middle of `refresh_query_context`: the driver after a tick, or the
create or purge of a connection.  It reads the revision, the scheduler's entries and the
rows in that order, with nothing locked in between, and `refresh` installs what it has
only over an older revision; of two that read the same revision the later is refused.
`settled` is a history variable, what the last command on a connection has reported.

`QueryService` models a client that asks one of the queries and follows its cursor, while
syncs commit, connections are purged and the context is refreshed between two pages.
`reader.got` and `reader.stable` are the items it has been given and the items that were
there at every page.  Freshness is modelled in the two ways the code has it, the cutoffs
that the SQL filters by and the classification of one resource.  `Topology` is
`build_topology` statement by statement over an arbitrary graph, and `Ball` its reference.

`LocalRelations` has the relations that no provider reports.  A binding makes one
(`Configured`) and takes it along when it is moved, disabled or reconciled; a run of a
rule replaces all that the rule had inferred.  Versions have the id of their millisecond
and are inserted with OR IGNORE, so the newest version can disagree with the row.

`Queries` runs the four side by side in one specification: they share the store through
what each abstracts of it and no variable, so a behaviour chooses one (`part`) and the
fairness of the context is that of `QueryContext`.

`ConnectorSync` is one sync of one connector.  `todo` are the listings left to read (all
pages of a module, or of a module for one parent), `cur` how far the first of them is,
`acc` what was collected, `unread` a history variable: the listings that were left with
items unread, and why.  A page has one item, so the limits of the code become small
constants.  A reply is the page or one of the faults that the transport and the parser of
that connector tell apart; an error code is kept as far as the code branches on it.
`CloudConnectors` has Aliyun and Tencent, whose crates are copies of each other that
differ in a few places; what they share is stated once, and each has its own operations
on top.  `GitHubConnector` has the request budget of a batch, the pages cached under the
ETag of the first, and the routes; it is the one connector that is run twice.
`SshConnector` has the identity probe and the batch of probes.  `PlatformConnectors` has
Dokploy, Cloudflare, the two of Supabase and the fixture.  `ConnectorSchemas` holds what
each descriptor declares and what each normalizer of the application has registered, and
`Connectors` composes them all.

`ConnectCommands` has the commands with which the connect dialog tests an entry: the
connection that each makes up, `validate`, then a full sync of `Connectors`.

## 4. Runs

| run | instance | checks |
|---|---|---|
| `sync_evidence` | 1 connection, 1 resource, 2 contents, 2 scopes, 2 modes, 4 runs | counts never exceed what was seen; a tombstone only after two misses; a tombstone by the second miss; newest version is the row; every last change has its change row |
| `sync_isolation` | 2 connections, a resource each, 1 relation, 1 cursor, 3 runs | no orphan rows; the cursor is that of the last commit; what was built is still right when written; closed runs are settled; the engine implements `SyncSpec` |
| `sched_guards` | 2 GitHub connections, all commands, all faults | the flag is a lock; no flag is leaked; scheduled means stored; nothing is started once the runtime has stopped |
| `sched_live` | 2 connections with a flag each, all commands but the manual sync, no fault, fairness | a purged connection stays purged; a purge and a quit end; each connection is synchronised for ever |
| `conn_status` | each of the 7 connectors, tasks of create and driver, all faults, 3 attempts | a row that says healthy has a run committed in full at its last success; the last attempt never goes back |
| `host_safety` | 2 processes, 2 bridges, all commands, all faults | type, and only the winner of the election has a Runtime or a listener; no agent revives a host that was quit; a quit that is called off leaves no temporary file to block the next |
| `host_live` | 2 processes, 2 bridges, no fault, fairness | a quit whose marker is written ends the process; every bridge gets an answer |
| `rpc_sessions` | 2 bridges, one of a compatible release, 2 queries each, limit 1, all faults, fairness | a stop closes every stream; permits are exact; a bridge reports of a query only what was written for it; a waiting bridge has a reply coming; a stop returns; the thread of a closed stream ends |
| `connectors` | 9 connectors, 3 modes, every state of the configuration, 3 items, 2 faults anywhere, 2 syncs of GitHub, fairness | an outcome that says complete has left nothing unread for a reason the code knows (`GapsKnown`); requests are bounded; a valid connection is not refused in a declared mode and its batch has declared and registered kinds (`DescriptorKept`); every sync returns |
| `queries` | context: 2 connections; pages: 3 resources, 3 relations, pages of 1, 2 writes; topology: every graph of 4 resources and 3 relations, 8 plans; relations: 2 bindings, 1 rule, 2 milliseconds; fairness of the context | what a command reported is in the context; due times are shown in the end; a listing is neither doubled nor short; a topology keeps its limits and is complete if it says so; relations follow bindings and rules; the newest version is the row |

Violations, each a disagreement between the code and a sentence of the repository that
`findings` quotes:

| run | shows |
|---|---|
| `sched_manual` | a manual sync read its connection before the flag, lets a purge pass and writes the row back |
| `connect_test` | `aliyun_validate` and `tencent_validate` make up a connection with an empty configuration, which the connector's sync refuses: no entry passes the test, and the dialog creates no such connection. With the configuration filled in the same run passes |

Other behaviour met while modelling that a reader of the code may not expect.  The models
have it; no run is spent on it.

Synchronisation, scheduling and the host:

- The fingerprint of a relation contains the id of the observing run, so an unchanged
  relation gets a version and a change at every run (`normalizer/src/lib.rs:286`;
  `docs/design/connector-and-sync-contract.md:234` says
  "相同关系重复同步不产生重复 Relation 或 RelationVersion。").
- Two connections of one connector type share a flag and are dispatched in the order of
  their ids, so the second can lose at every interval (`composition/mod.rs:395`;
  `scheduled_sync.rs:139` says "next interval naturally retries").
- A second instance started by the user clears the quit marker before it loses the
  election; if the first one is quitting, the quit is forgotten (`lib.rs:29`;
  `DEC-G1-02-desktop-lifecycle.md:18` says that a second instance never clears it).
- Five of the seven spawners release the flag by a plain store after the await, which a
  panic skips; GitHub and SSH use a drop guard (`scheduled_sync.rs:251`).
- A tick dispatches the catch-up plans of an earlier wake-up before it asks whether the
  runtime sleeps (`scheduled_sync.rs:110`).
- A quit stops and checkpoints the runtime while a spawned task, which has an engine of
  its own, may still write (`composition/mod.rs:801`).
- A task writes back the copy of the row it was started with.  A driver that reads the row
  while a task runs and takes the flag when it has ended brings back the health and the
  `last_success_at` from before that task, until its own task ends
  (`scheduled_sync.rs:122`).
- GitHub and SSH set `last_success_at` before the answer is committed and store it even if
  that fails, with a failed health (`composition/mod.rs:2235`); the other five do not
  touch the row then, so that it stays healthy if it was (`composition/mod.rs:2561`).
- A create that fails after the row is saved, or a crash there, leaves a connection
  without a credential or without a schedule (`composition/mod.rs:923`).
- With manual syncs (`Origins` with "manual"), `HealthyIsBacked` fails as `sched_manual`
  does: the copy outlives a purge.
- A launch by the user clears the marker before the election; a quit that writes it in
  between leaves it set while the user's new host runs (`lib.rs:29`).
- A quit called off because the directory could not be synchronised leaves the renamed
  marker behind (`host-integration/src/lib.rs:152`).
- After a log-out that was called off the Runtime is stopped, so the next quit reports an
  error once and the process stays (`composition/mod.rs:802`).
- After one time-out a session stays one reply behind: every later query reads the reply
  of the one before and is refused, never answered wrongly (`session.rs:231`).
- A session that ends leaves its stream in `active_streams`, so the bridge sees no end of
  the stream until the host stops (`local_rpc.rs:74`).

Queries:

- A create whose refresh is refused leaves its row, unregistered and outside the context;
  if the scheduler is empty and a manual sync then commits for it, searches fail until
  the next refresh.
- The driver refreshes only while the scheduler has entries: with SSH connections alone
  `evaluated_at` stays that of the last command (`composition/mod.rs:642`;
  `docs/tasks/TECH-DEBT-2026-08-07.md:8` speaks of a refresh after every tick).  It can
  also go back, since each refresher takes its time before it reads.
- After a create the context shows no next sync until the next tick.
- A search with a freshness filter in a context without connections is built as `AND ()`,
  which SQLite refuses (`query_projection.rs`, `push_freshness_filter`).
- Connections above 200, or a resource with more than 400 relations or 100 changes, fail
  the query instead of truncating it.
- A topology can be marked as truncated with nothing in its frontier, and also when
  nothing is missing, because edges it has already take places on the page of the next
  level (`query_source.rs:807`; `agent-interface-and-security.md:152`).

Bindings and inference, which no command of the application calls yet:

- A binding (z, y) that is moved to (x, y) leaves the tombstoned relation (z, y).  If the
  connection of x is purged the binding goes and that relation stays; from then on every
  detail, relation or topology query that meets it fails, because its binding is not
  found (`query_source.rs:1058`, `projection.rs:155`;
  `resource-and-storage-model.md:8` says that every relation can be traced to its
  source).
- Two runs of a rule in one millisecond: the versions of the second are ignored.
- `reconcile` is called by nobody, so a binding whose resource disappears stays active
  (`resource-and-storage-model.md:152`).

Connectors.  `SilentReasons` in `Connectors` lists where a connector leaves items unread
and still reports a full coverage:

- Aliyun and Tencent stop silently at 20 domains and at 100 pages of domains, compare the
  total of one domain with the records of all of them, take a missing total for the end,
  and Tencent takes an error object in a reply with status 200 for an empty module.
- Cloudflare clamps the number of pages to its limit (`cloudflare/src/client.rs:178`),
  so that the check for it is never reached, and drops a refused child.
- Dokploy walks 50 applications and says nothing of the others.
- GitHub reuses all cached pages when the first is not modified, and replays a cached
  page that cannot be parsed.

Others: a DNS record of a type that Cloudflare's mapper does not list fails the whole
sync; four connectors declare the targeted mode and refuse it, or report it as partial;
the cloud connectors' `validate` accepts a configuration that `sync` refuses; a run of a
GitHub workflow may name a workflow that is not in the batch, which the engine then
refuses as a whole; the transports of the application never report a rate limit for
Aliyun, Tencent and Supabase, so that `retry_list` never retries; `ssh_validate` reports
success, with no services, for a host that cannot be reached; `dokploy_validate` and
`dokploy_connect` are not registered with the command handler although the dialog calls
them.

Bounds.  `MaxRuns` is the only bound of the sync modules: two absences, a reappearance
in another scope and a failure in between need four runs; two overlapping tasks and a purge three.  In `ScheduledSync` the
interval is one clock step (longer intervals only add idle ticks) and `MaxPending` = 1
bounds the wake-ups between two ticks.  `HostLaunch` needs no counter: pids are used
again, and two of each kind are what a race between them takes; processes and bridges
are symmetric in its safety runs.  `LocalRpc` needs none either: a bridge asks each query
once, two queries are enough for a late reply to meet the next one, and a limit of one
is reached by a query that outlives its caller.  `ConnectionStatus` has
`MaxAttempts` = 3: a success, a task that changes the row, and one that writes back a copy
read before it.  In `connectors` a listing has up to three items where a module may have
two pages, three records, two domains and two walked parents, so that every limit is
passed and also just met, and four requests of GitHub are fewer than its listings ask
for; two faults let a second failure meet what the first has left behind.  Modules with
the same code stand for one another (`SomeModules`).  In `queries`, `MaxClock` = 1 gives
a refresher that read before and one that read after; three items on pages of one take a
cursor over two writes (`MaxWrites`), `MaxNow` = 2 lets a resource go from fresh to stale
to expired; depth 3 on 4 nodes with node limits 2 and 4 and edge limits 2 and 3 meets
every cut; two milliseconds (`MaxMoment`) hold a create and two changes, in the
same or the next one.  `CHECK_DEADLOCK FALSE` is
set where quit is among the commands and in `rpc_sessions`, because there the system
does stop, and in `conn_status`, where a create that failed or a purge ends the story of
the one connection, and in `connectors`, `connect_test` and `queries`, where a sync, a
topology and the bounded clocks end.

Fairness (`ScheduledSync!Fairness`).  Weak fairness of the clock, of the driver (its
`recv_timeout` returns), of the stop and of each task (every connector request has a
time-out); strong fairness of create and purge, because they wait for the runtime mutex,
which the driver leaves free for the ten seconds between two ticks.  Nothing is assumed
about users, sleep, wake or faults.

`HostLaunch!Fairness`: weak fairness of the steps of each host process and of each
bridge, whose deadline is the clock's.  None of these steps waits for another process:
the lock files are tried and not waited for, and the election answers at once.

`LocalRpc!Fairness`: weak fairness of the threads of the host only.  `accept` is polled
every 20 ms, a read of a stream that was shut returns, and a handler reads the store and
ends.  The bridges, whoever stops the host, and faults owe nothing.

`QueryContext!ContextFairness`: weak fairness of the driver's turns and of whoever is in
the middle of a refresh; the driver loops until the host quits and a command that has
begun runs to its end.  `Connectors!FairSpec`: weak fairness of the steps of a sync, which
is one task that is polled until it returns and whose requests have a time-out; that
another sync follows is not assumed.

## 5. Proofs

For all values of the constants that satisfy the named assumptions.

`SyncEngineProofs` (assumptions `KeyAssumption`, `BoundAssumption`, `ModeAssumption`,
`DisjointAssumption`):

- `TypeCorrect`: `Spec => []TypeOK`, one lemma per store operator and one step per action.
- `EvidenceSoundAlways`, `TombstoneSoundAlways`: `Spec => []EvidenceSound` and
  `Spec => []TombstoneSound`.  Neither is inductive alone: a commit waits between `Build`
  and `Submit`, so the invariant adds that what is built is fresh, and that a tombstoned
  row already has the count two.
- `CommitFreshAlways`: `Spec => []CommitFresh`, by the observation that `build_commit`
  depends only on rows of its own connection, and that no other step writes those while
  the task exists.

`SyncHistoryProofs` (the same assumptions), on the inductive invariant `BaseInv`: types,
`CommitFresh`, `RunsInv` (fresh run ids are free, every run has its connection, no task
without the process) and `TasksInv` (the run of a task is open and the newest of its
connection, the cursor is still the one it has read, what it built is valid):

- `ClosedRunsAlways`: `Spec => ClosedRunsSettled`.  `complete_sync_run` does not look at
  the status it overwrites; that it only meets a run that is open is `TasksInv`.
- `CursorAlways`: `Spec => []CursorIsLastCommitted`, since the run of a task is newer than
  all others of its connection.
- `NoOrphansAlways`, `HistoryMatchesAlways`, `ChangeRecordedAlways`, together inductive
  (`HistoryInv`): a version of a new observation has the id of the open run, which is
  later than those of all stored ones.
- `AbsenceDetectedAlways`: `Spec => []AbsenceDetected`.  `AbsenceInv` relates the count to
  the scans since the resource was last seen: one scan, count at least one; two, and the
  row is tombstoned.  It is the converse of the invariant behind `EvidenceSound`, and both
  together say that tombstones come exactly with the second absence.
- `AtomicImplemented`: `Spec => ImplementsAtomic`, the refinement of `SyncSpec` with the
  handles of the tasks for `active`.  `Build` is a stutter and `Submit` the atomic close,
  because by `CommitFresh` what is submitted is what `SyncSpec` computes then.  `SyncSpec`
  has no fairness, so the refinement is one of safety, step by step.

`ScheduledSyncProofs` (assumptions `ConnectionAssumption`, `IntervalAssumption`,
`EnvironmentAssumption`):

- `SchedTypeCorrect`: `Spec => []TypeOK`.
- `SingleFlightAlways`: `Spec => []SingleFlight`.
- `PurgeFinal`: without the command "manual", `Spec => []NoResurrection`.  The inductive
  invariant says that an id not drawn yet has no row and nobody at work on it; that an id
  being created was never purged; and that a purged one has no row, no create, no task,
  and is with the driver only while its purge still holds the flag, so that `Enqueue`
  skips it.
- `ReleasedHeldAlways`: for every connector type whose tasks release the flag on each way
  out (`Releases`: no panic, or a `SyncRunGuard`, or no connection of the type), a flag
  that is set has a holder.  `FlagHeldAlways` is `Spec => []FlagHeld` where that is so of
  all types.  Without the hypothesis the formula is false: a panic in one of the five
  spawners without a guard leaks its flag, see section 4.
- `ScheduledHasRowAlways`: `Spec => []ScheduledHasRow`.  `RowInv` adds that an id not drawn
  yet is unknown to everybody and that a create has nothing scheduled and, once saved, has
  its row: the row of a connection that is being registered cannot be purged in between.
- `StopStartsNothingAlways`: `Spec => StopStartsNothing`, because once the runtime is
  stopped the driver thread is gone (`StoppedInv`).

`ConnectionStatusProofs` (assumption `StatusAssumption`, and `Origins` without "manual"):

- `StatusTypeCorrect`: `Spec => []TypeOK`.
- `HealthyIsBackedAlways`: `Spec => []HealthyIsBacked`.  The inductive invariant carries
  the property from the row to the copies of the task and of the driver (`CopiesBacked`),
  with the exception of a driver's copy while a purge holds the flag, and adds that the
  flag has one holder (`OneHolder`) and that an attempt before its answer has no committed
  run (`AttemptOpen`), so that opening or failing a run never takes the backing away.
- `AttemptsAdvanceAlways`: `Spec => AttemptsAdvance`, by `Stamped`: no row is newer than
  the number of attempts, and the copy of a task past its first write is as new.

`HostLaunchProofs` (assumptions `ProcAssumption`, `EnvAssumption`):

- `HostTypeCorrect`: `Spec => []TypeOK`, with the exclusion of two Runtimes or listeners.
- `NoRevivalAlways`: `Spec => []NoRevival`.  The inductive invariant adds `HolderInv`
  (past the election, a process is the holder), `QuitInv` (whoever is in the middle of a
  quit has `explicit_quit` set) and `RevivalInv` (while the marker is durable, no process
  of a bridge is past the check after the election and still able to be ready without a
  quit of its own: starting, ready with the flag clear, or in the part of a quit that can
  be called off).  The last part is what `NoRevival` lacks: a quit called off clears the
  flag, so the marker must not be durable before the directory is synchronised, and only
  the holder, which excludes every other process past the election, can make it durable.
- `CalledOffCleanAlways`: `Spec => CalledOffClean`, by `TempInv`: from the rename on the
  temporary file of a process is gone and nobody else creates one of that name.

`LocalRpcProofs` (assumption `RpcAssumption`):

- `RpcTypeCorrect`: `Spec => []TypeOK`.  That a counter stays a natural number needs the
  invariant of the permits.
- `StopClosesAllAlways`: `Spec => []StopClosesAll`.  The inductive invariant adds
  `HandInv` (the accept thread holds a stream exactly while it is at work on one, and is
  gone once it is joined) and `StreamInv` (an open stream is registered or in its hand; an
  unaccepted one needs the listener).  So after the join every open stream is registered,
  and the `Drop` finds it.
- `PermitsExactAlways`: `Spec => []PermitsExact`.  The invariant adds `IdInv`: a request
  id travels once, so a worker that starts adds one to the number of workers and one that
  ends takes one away.
- `AnswersAreOwnAlways`: `Spec => []AnswersAreOwn`, with `WrittenInv`: every frame on its
  way to a bridge is one the host has written to it.
- `ReplyComingAlways`: `Spec => []ReplyComing`.  `StageInv` orders the stages of a
  connection (a session is served after the hello was accepted, a query is sent after the
  answer to it); the rest is that each step of a worker hands its query on, and that a
  bridge whose query ends otherwise has given the session up.

`QueryProofs` (assumptions `ContextAssumption`, `QueryAssumption`, `TopologyAssumption`,
`RelationsAssumption`):

- `ContextTypeCorrect`: `ContextSpec => []ContextTypeOK`.
- `ContextCurrentAlways`: `ContextSpec => []ContextCurrent`, for any number of connections.
  The property is not inductive: a refresher that read the rows before a create would take
  the new connection out of the context again.  `InstallInv` says that whoever still holds
  a revision that will be accepted has rows that agree with what is settled, or has not
  read them yet; `RevisionInv` bounds what has been read of revisions, and `CommandInv`
  and `SettledInv` tie a command in progress to the row of its connection.
- `FreshnessAgree`: the cutoffs that the store filters by and the classification of one
  resource agree for every instant and interval.
- `RelationsFollowAlways`, `VersionsMatchAlways`: `RelationsSpec => []RelationsFollow` and
  `RelationsSpec => []VersionsMatch`, together inductive with `OriginInv` (a relation of a
  binding is of a binding there was: ids are not used twice, so a new binding meets no old
  relation) and `VersionAgeInv` (no version of a binding's relation is newer than the
  binding, so `ensure_later` puts the next one into a later millisecond).
- `TopologyExactAlways`: `TopologySpec => []TopologyExact`, for every finite graph, every
  depth and all limits.  `ExactInv` says that as long as nothing was left out a level
  starts with the ball of its number, of which the frontier is the outermost part
  (`LevelInv`), and that what has been looked at in the middle of a level is added
  (`RelationInv`); `LimitInv`, that what is offered for a next query was left out for a
  limit that is reached.  `Ball` is a recursive function; its unfolding (`BallUnfolds`)
  rests on `RecursionOnNat`, below.
- `PagingAlways`: `QuerySpec => []Paging`.  `CursorInv` says that what the client has ends
  at the cursor and that whatever was there at every page is either had or comes after it;
  `VersionInv`, that as long as the version of the answers is the newest one the client
  has the store's relations up to the cursor.  The pages rest on lemmas about the order of
  keys (`BeforeOrder`) and what the first elements of a finite set under it are
  (`FirstAll`, `PageIs`).

Induction.  The library's induction theorems take an operator and cannot be used.  Where
an induction was needed it is over a set instead: `LeastNat` gets the least element of a
set of numbers from the well-foundedness of the order (`WFMin`), `InductionOnNat` states
induction for a set of numbers and `RecursionOnNat` that a function defined by iterating a
given function satisfies its equations.

`ConnectorProofs` (assumption `ConnectorAssumption`), about all connectors at once, for
any number of items, parents, pages and faults and all limits; on `TypeInv`, the types of
what has been read and collected:

- `GapsKnownAlways`: `Spec => []GapsKnown`.  `GapsInv` carries the property through the
  sync: as long as `acc.failure` is "none", what was left unread was left for a silent
  reason; and the three connectors that note no failure leave nothing unread as long as they
  go on.
  The proof has a lemma for each way a listing can end (`Noted`) and one per action.
- `DescriptorKeptAlways`: `Spec => []DescriptorKept`.  `KindsInv` says that what is left to
  read and what was found are of the modules the connector reads (`ReadModules`), that the
  pages GitHub has cached are sound, and that a cloud connector is declined in the middle
  of a sync for its region only; the rest is that the kinds and the relations of those
  modules are in the descriptor and the normalizer of that connector.
- `RequestsBoundedAlways`: `Spec => []RequestsBounded`.  `RequestsInv` says for each connector
  what it may have asked for so far: the requests made, and what the listings still to be
  read can take, are together within the limit.  For the clouds (`CloudRequests`) a listing
  weighs three times its pages, the pages and retries of the current one are `Turns`, and the
  records of Tencent, which have no limit of pages, are paid from the records read and the
  replies that could not be mapped (`Paid`); that needs the order in which the listings are
  open (`Shape`).  Cloudflare, Dokploy and SSH count what is left of the walk, GitHub its
  budget.  `CloudStay`, `CloudTail` and `CloudOpens` are the three ways in which a page can
  leave the listings: as they are, one less, or opened to the records of the domains.

What the proofs have changed in the model.  Trying to bound the requests for all
constants showed that the model let a cloud connector repeat a request after the limits of
its listing were spent, where the code looks at the limits before every request (now
`Spent`), and that the bound of Tencent's DNS was too small in general: its loop has a
limit of records but none of pages, and a page whose record cannot be mapped counts
nothing, so the number of requests grows with such replies (`tencent/src/lib.rs:758`,
`RequestLimit`).  Neither showed on the small instance.  Domains that are skipped when the
records are spent are dropped one after another, as in the loop.  `LocalRelations` writes
its tables with `Row` and `Upserted`, and its assumption says that bindings and rules are
not the same things; listings assume finitely many resources.

Only model-checked: liveness (`CommandsFinish`, `EveryConnectionSynced`, `QuitEnds`,
`BridgeAnswered`, `StopReturns`, `SessionsEnd`, `DueShown`, `Terminates`), which needs
fairness and ENABLED and is outside the prover's reach.

## 6. Not modelled

The test commands of the SSH and the GitHub dialog, settings, local RPC's negotiation of
the hello (a constant), the installation of the bridge and the MCP server's translation of
tools into queries.  Of the connectors, what the fields of a resource are mapped to and
which attributes the normalizer lets pass: no decision of the modelled code depends on
them.  How SQLite matches a search text.  Left out for good: the user interface,
formatting and error texts, file permissions and code signatures, HTTP transports and
signatures, the wall clock as a number, counts and diffs inside a run or a change.
