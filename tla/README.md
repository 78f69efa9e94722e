# Verification of Spaniel's core

Spaniel is a local OpenTelemetry viewer: one Go process that accepts OTLP over
gRPC and HTTP, stores it in DuckDB, forwards a copy upstream, runs detectors and
alerts over it and streams live updates to a browser, a TUI and MCP clients.
This directory holds TLA+ models of the parts of that process whose correctness
depends on the order in which things happen, TLC runs of them, and TLAPS proofs.

## Inventory

Each component: its state; its operations; how it meets the others; what is hard
about it; what makes it correct.

| component (source) | state | operations | hard behaviour | correct when |
|---|---|---|---|---|
| **Shared ingestion coordinator** `internal/ingestion/batch.go`, `policy.go` | queue, admitted requests and bytes, limits, closed, wake token, the loop's group | submit, cancel, loop (collect, sleep, take, execute, flush, release), Configure, Close | cancellation against selection and start; one flush for many exports; token-based wakeups; shutdown | success only for durable rows; every admitted export answered once; capacity accounted; a drained Close leaves nothing behind |
| **Storage appenders** `internal/storage/batch.go`, `db.go` | five appenders, buffered rows, per-table failure, failure version, closed | append, interval flush, explicit flush, flush since a version, maintenance, close | background failures must reach the export that lost rows, whoever flushes first | no export acknowledged whose rows were dropped; failures reported to the operation they belong to |
| **Pipeline** `internal/ingestion/pipeline.go` | tail buffer, debounce timers, pool and lint queues, source limiter | ingest traces, logs, metrics; buffer, keep or drop traces; schedule detectors and lint | timers re-armed while firing; tail-buffered spans outlive the acknowledgement; explicit flushes from callbacks | every buffered trace is decided once; a kept trace is stored or its loss is reported |
| **Forwarder and spool** `internal/forwarder` | segment file, read and write offsets, dropped bytes, retry backoff | enqueue, read, deliver, commit, enforce the cap, reopen | crash between write and offset; cap moving the read position under a delivery; retries | at-least-once, in order; what is pending is what a restart will send |
| **Storage guard** `cmd/spaniel/retention.go`, `internal/storage/full.go` | retention policy, prune and recovery latches, backoff, full flag | check, checkpoint, prune, update the policy, prune by hand | policy updates, manual prunes and WAL checkpoints during a pass; hysteresis | ingestion pauses only for a reason and resumes; pruning happens in cycles and is not starved |
| **Physical reclamation and retention** `internal/storage/physical.go`, `reclaim_indexes.go`, `maintenance.go`, `retention.go` | the database file, its rewritten candidate and the displaced original, the index journal, the eviction's progress | rewrite, swap, recover; suspend, vacuum, restore indexes; expire, evict | a crash at any rename or DDL; one step of several failing | the file that is opened has the committed rows; indexes come back; nothing is evicted while reclaiming would do |
| **Alert evaluator and notifications** `internal/api/alert_evaluator.go`, `alert_notifier.go`, `internal/storage/alerts.go` | rules, instances, pending and firing times, write buffer of a pass, history, notification policies | evaluate a pass, flush it, acknowledge, edit, delete, silence, notify | a pass works on a snapshot while users write; batches fail one by one | notices and board agree; user edits survive a pass; an event fires once |
| **Metric series and pool metrics** `internal/ingestion/metric_series.go`, `metrics.go`, `internal/storage/metric_series.go`, `pool_metrics.go`, `cardinality_growth.go` | the catalogue of admitted series, its copy in memory, the epochs of deletions | admit, record, forget, reload, delete sessions, restart | deletions commit while points are stored; an insert's answer is lost | copies agree; a stream keeps to its budget |
| **Detectors** `internal/ingestion/detector_queue.go`, `detector.go`, `detectors` | bounded queue, stripe locks | enqueue, coalesce, run | bounded queues under load, a second run of the same trace | findings do not regress; what was stored is analysed |
| **Live publisher** `internal/live/publisher.go` | trailing timer, the publication at work | notify, publish | a notification during a publication; a failing query | publications never overlap; the last update before quiet is shown |
| **Live stream** `internal/ws/hub.go`, `internal/watch/client/client.go` | client queues, connection, the watcher's buffer | register, broadcast, drop a slow client, read, reconnect | a full client queue; frames lost between two connections | no gap stays silent; a slow client never blocks ingestion |
| **Watch refreshes** `internal/watch/client/refresh.go`, `internal/watch/shell/model.go` | entries with sequence, dirty bit, replay; running snapshots | register, observe, resync, switch session, complete | a snapshot behind the frames streamed since; a session switched under it | a snapshot takes nothing back; the list comes to be current |
| **Source limiting and sampling** `internal/ingestion/limiter.go`, `sampler.go`, `policy.go`, `throughput.go` | token buckets, ring of counts, sampling rates | allow, sample, configure, snapshot | rollover of rings, reconfiguration under load | no more than the configured rate is admitted; drops are counted |
| **Sessions** `internal/storage/sessions.go`, `internal/api` | active session id and label, session rows | start, end, reset, delete | id and label published separately; deletion of a session with exports in flight | rows belong to the session active at admission |
| **Receivers** `internal/receiver` | listeners, message limits | OTLP gRPC and HTTP decode, status mapping | | decode and status mapping only |
| **HTTP API and settings** `internal/api` | settings rows, configuration | CRUD, queries | mostly queries over DuckDB | |
| **Schema, migrations, importer** `internal/storage/migrate.go`, `internal/importer` | schema version | migrate, import | crash in a migration | a migration applies once |
| **Watch client, TUI, CLI** `internal/watch`, `internal/tui`, `cmd/spaniel` | reconnecting streams | render | reconnects | |
| **MCP server** `internal/mcp` | none of its own | tools over the API | | |
| **Frontend** `frontend/src` | browser state | queries, live cache | reconnects, stale responses | |
| **Analysis** `internal/coverage`, `diff`, `querydiagnostics`, `sqlformat`, `security`, `ci` and `traceassert` | none (pure functions) | compute reports | | |

Interaction: receivers call `Pipeline.submit`, which admits to the coordinator;
the coordinator's loop calls the pipeline's per-signal callbacks, which append
to the storage appenders and put rows in the tail buffer, and then one flush
barrier; after the barrier the deferred effects notify the live publisher, the
hub, lint and detectors; the forwarder gets its own copy before admission. The
storage guard and maintenance take the appenders' locks. The alert evaluator
reads what was stored. Shutdown in `cmd/spaniel/main.go` stops the servers, then
drains the pipeline, then closes the forwarder and the store.

## Plan

Modules, the most important behaviour first.

| order | module | composes | state |
|---|---|---|---|
| 1 | `ExportContract`, `IngestBatcher`: admission, grouping, barrier, answers, shutdown | the second implements the first | checked, safety proved |
| 2 | `AppendBatcher`: DuckDB appenders, failures, maintenance, close | | checked, safety proved |
| 3 | `IngestStorage`: the group executor and tail callbacks over the appenders | extends `AppendBatcher`, implements `ExportContract` | checked, safety and refinement proved |
| 4 | `TraceDebounce`: tail buffer, timers, detector queue | | checked, safety proved |
| 5 | `Spool`: the forwarder's disk buffer with restarts | | checked, safety proved |
| 6 | `LivePublisher`: footer snapshots | | checked, safety proved |
| 7 | `StorageGuard`: policy passes, latches, full flag | | checked, safety proved |
| 8 | `PhysicalRewrite`, `ReclaimIndexes`, `PhysicalRetention`: renames, index journal, eviction, crashes at every step | each extends the one before | checked, safety proved |
| 9 | `AlertEvaluator`: a pass against edits, acknowledgements, deletions, failures | | checked, safety proved |
| 10 | `LiveStream`: hub, watch client and its snapshots | | checked, safety proved |
| 11 | `MetricSeries`: admitted series in memory and in the table | | checked, proved |

Left, in this order: the delivery side of alerts (channels, cooldown, quiet
hours) over `AlertEvaluator`'s notices; the eviction that `StorageGuard` takes
as outcomes, as a refinement by `PhysicalRetention`, which needs a common notion
of size; an abstract bounded FIFO that `Spool` implements.

## The modules and the code

`PROJECT.json` ("map") names the lines every definition stands for. `MC...`
modules only give constants their values; the `.cfg` files beside them are the
runs.

**`IngestBatcher`** (`internal/ingestion/batch.go`, `policy.go`). `pending`,
`requests`, `bytes`, `limitRequests`, `limitBytes`, `closed` and `wake` are the
fields of `ingestBatcher`; `phase`, `timer`, `group`, `index`, `writeErr`,
`flushErr` the loop's locals; `started`, `finished`, `err` the fields of
`batchWork`. One action is one critical section of the mutex, or one stretch of
the loop between two of them, so a cancellation or Close may come at every point
where the code can be preempted. An export is its number of records and bytes.
The storage is reduced to "a successful flush makes what the group appended
durable".

**`ExportContract`** is the promise to an exporter without the grouping: admitted
or refused once, answered once, success only for durable rows, effects shown only
for exports that are answered with success. `IngestBatcher` implements it under
the mapping `verdict` (`ImplementsContract`), `IngestStorage` too
(`KeepsContract`).

**`AppendBatcher`** (`internal/storage/batch.go`, `db.go`). A table's appender is
open, broken or closed; a row is unsent, pending in an appender, stored or lost;
`flushErr` and `failureVersion` are the fields of `Batcher`. DuckDB may fail any
append, flush or close, up to `MaxFailures` times. Actions: append with its
threshold flush, the ticker, the explicit flush, maintenance with its leases and
its restoration of the appenders, Close.

**`IngestStorage`** puts `AppendBatcher` behind the executor's barrier: one group
after another appends row by row, flushes, compares versions and answers, while
a tail-sampling callback, the ticker, maintenance and shutdown use the same
appenders. An export that is cancelled before its turn is either withdrawn and
answered at once, or found cancelled by the executor and answered with its group
(`expired`). Here the two forms of the barrier (`FlushBatch` for ordinary exports,
`FlushBatchSince` for Spaniel's own telemetry) make a difference, and the model
keeps in `taken` what a callback took from a group.

**`TraceDebounce`** (`pipeline.go` `bufferSpan`, `scheduleDetectors`,
`flushBuffer`; `detector_queue.go`; `detector.go`). A timer is named by the span
that armed it and goes through ticking, fired (the callback has begun, before it
takes the lock) and passed (the identity check succeeded). Buffers, the debounce
map, the queue and the stripe locks are the code's.

**`Spool`** (`forwarder/spool.go`, `forwarder.go`). The file is a sequence of
cells, the first of a record standing for its length header, so a torn write and
a reader at a wrong offset are states of the model. One step is one system call
or one critical section; `Crash` may come between any two of them and `Open` is
`openSpool` on what is left.

**`LivePublisher`** (`live/publisher.go`, with the ring of `throughput.go`
reduced to "the rates are above zero"). `publish` is split at its queries; a
snapshot is the number of exports its totals see and whether its rates are zero.
What is published, or shown, never has totals ahead of the store
(`TotalsStored`).

**`StorageGuard`** (`cmd/spaniel/retention.go`). The policy's atomics, the full
flag and the file size; a pass is split where it waits and after it has read the
cap; `Update` is split between its values and its latches and may come at any
step of a pass, which the history `raced` remembers until a pass that began under
the new policy measures low water. `PrunePhysical` is its outcomes (low water
reached, a phase short of it, a safety stop with backoff, a failure); a
checkpoint empties the WAL, runs out of time or fails, and the last two leave
the WAL as it was; the operator's prune may fail and leave the pause. Thresholds
are the code's integer arithmetic.

**`PhysicalRewrite`, `ReclaimIndexes`, `PhysicalRetention`**
(`storage/physical.go`, `reclaim_indexes.go`, `maintenance.go`, `retention.go`).
A file is the rows it holds, the dead rows that still take space, whether its
indexes exist, the copy of a table that is being rebuilt and the plan in its
journal; or it is `NoFile`. `main`, `old` and `candidate` are the three paths.
`PhysicalRewrite` has transactions, appenders, the pool, the copy, the two
renames with their compensation, and `Open` after a stop (`Recover`). The second
module adds index reclamation, which runs for the operator's compaction, and the
replay of the journal; the third the choice between rewriting and evicting
(`PrunePhysical`), backoff, age and count retention. `pc` is where the goroutine
that has the write lock is. Every step may be followed by a stop of the process.

**`AlertEvaluator`** (`api/alert_evaluator.go`, `storage/alerts.go`). `seenRule`
and `seen` are the rules and instances a pass read and advances in memory,
`writes` and `ruled` the write buffer; one rule is evaluated in one step, and
the three batches of `flush` are steps of their own. An instance is its state
and whether it is acknowledged. Histories: `heard` is what was announced of a
group last, `touched` the rules an operator changed during the pass, `unsaved`
the groups whose announced transition was not written.

**`LiveStream`** (`ws/hub.go`, `watch/client/client.go`, `refresh.go`,
`watch/shell/model.go`). From a stored row to the list that shows it: the hub's
broadcast in any order, the client's bounded buffer, the watcher's bounded queue
with its connection events, and the registry of snapshots with its epochs,
sequence numbers, dirty bits and bounded replay, for two subscriptions (the list
of a tab and the shell's session). A snapshot is read from the store at one step
and accepted or rejected at a later one. An event on the wire when the connection
ends is announced all the same. The history `dropped` has the rows that a full
replay has pushed out: `SnapshotKeepsStreamed` exempts these and no others.

**`MetricSeries`** (`ingestion/metric_series.go`, `metrics.go`, `pipeline.go`,
`storage/metric_series.go`). `catalog` is the table, `series` its copy in
memory; `epoch` and `seriesEpoch` are the store's and the pipeline's epochs.
`call` is the metric that is being stored, at each of the points where the code
has let go of a lock or waits for the table; a deletion of a session has a
snapshot, a commit and an increase of the epoch.

## The runs

Every bound is named in its module and set in the `.cfg`. Deadlock is checked in
`storage_guard`, `alerts`, `stream` and `metric_series`, which go on for ever.
It is not checked where a system that has used up its workload rightly stops:
the ingestion, spool, publisher and physical models have a fixed number of
exports, records or rows, and no operation is due after the last.

| run | bounds | what it shows |
|---|---|---|
| `ingest_group` | 3 exports (one larger than a group's target), limits on requests and bytes, 1 Close | accounting, ownership, order, wake-ups, the contract |
| `ingest_live` | 2 exports, 2 Closes, request limit changing between 1 and 2 | every export answered, Close ends |
| `storage` | an ordinary and a self export, 1 tail-sampled trace, 2 tables, 4 rows, threshold 2, 2 failures | what is acknowledged is stored unless a callback took its failure, no loss unreported, no row twice, rows settle |
| `storage_stolen` (violation) | both exports ordinary, 1 failure | see findings |
| `trace_debounce` | with and without tail sampling; 2 exports, 3 spans of 2 traces, buffer cap 1, 2 workers, 1 failed read | one timer per trace, a span decided once and at last, findings that do not regress, nothing left unanalysed |
| `spool` | 4 records of 2 sizes, cap 3, either 1 stop or up to 2 disk errors | nothing lost or garbled, drops only over the cap, records settle |
| `live_publisher` | 3 exports, 1 failed query, 1 absence of the viewers | one publication at a time, armed notifications shown, rest after traffic |
| `storage_guard` | caps 0, 1, 20; 5 sizes; 1 update at any moment, 1 growth, 1 failure, 1 manual prune or deletion | cycles, reasons, recovery; ingestion resumes, reclamation starts |
| `physical` | 4 rows in blocks of two, 1 transaction at a time, cap of 1 block, 3 failures or stops | the database survives, indexes come back, no needless eviction, the cap is regained |
| `alerts` | a delayed condition, an event rule, a composite over the condition; 1 group each, 2 turns, 1 operation (and its undoing), 1 failure | board and notices agree, events fire once, operators' work survives a pass, the board follows |
| `stream` | 2 rows (one that arrives as a patch), 2 sessions, buffers and replay of 1, 1 snapshot at a time, 1 switch, filter change or fault | no silent gap, snapshots take nothing back but what a full replay pushed out, the watcher becomes current |
| `metric_series` | 2 sessions, 4 series, budget 2, 2 deleters, 2 deletions, 1 failure, 1 restart (symmetric) | copies agree, budgets hold |

Why these bounds are enough to be interesting. Two exports and a group target
that three do not fit give a group of one, a group of several, a queue behind a
group and an oversized export; the accounting is about sets, which is why the
proofs extend it to any number. An appender threshold of 2 with 4 rows reaches a
threshold flush, a ticker flush and an explicit one in one run; two failures are
what it takes to lose a row and then its replacement. In the tail runs two spans
of one trace are enough for a re-armed timer whose callback has begun, and the
third makes a second trace on the same lock. The spool's cap of three cells with
records of one and two makes a write drop none, one or several records, also the
one in flight. The guard's cap of 20 has sizes below low water, between the
waters, at high water and at the cap; a cap of 1 has no room between its waters
and its cap. In `physical` three failures are a failed swap, a failed
compensation and a stop on top; four rows in blocks of two make an eviction of
half of them leave a block. In `stream` buffers of one overflow with the second
frame, and a single disturbance at any step is followed by every recovery; with
two disturbances (`MaxDisturbed = 2`) the safety properties hold too, and with
both rows patched (`Patched = {r1, r2}`) or a replay of two (`ReplayLimit = 2`)
all do. In `alerts` a fault may hit any query, batch or step, and one operator's change falls at any point of a pass. In `metric_series`
a budget of 2 out of four series makes a stream overflow before and after a
deletion.

An update that meets a pass leaves latches of that pass behind (first departure
below). `RecoveryStaysPaused`, `PausedForAReason` and `PrunesInACycle` therefore
say nothing from such an update until the next low water (`raced`);
`IngestionResumes` and `ReclamationStarts` have no such exemption.

Each property of a passing run has a mutant in `PROJECT.json`: the definition of
the code changed as a plausible bug would change it, under which the run reports
the property violated.

## Fairness

Only liveness properties use it, and only for what the code's scheduling gives.

- `IngestBatcher`: weak fairness of the loop, of elapsing windows and of waiting
  exporters and Closes. Go runs a runnable goroutine; callbacks and flushes
  return. Nobody is obliged to submit, cancel, reconfigure or shut down.
- `IngestStorage`: the ticker, maintenance, the executor and the callbacks go on
  (`StorageFair`).
- `TraceDebounce`: timers fire and workers run. The stripe lock is a Go mutex,
  which starves no waiter, hence strong fairness of the step that takes it.
- `Spool`: the loop runs and a stopped process is started again; strong fairness
  of `Deliver` says that the upstream does not refuse one record for ever.
- `LivePublisher`: stores, notifications and publications complete and a window
  without exports passes. Exports and viewers owe nothing.
- `StorageGuard`: passes, updates and deadlines complete. Two strong fairness
  conditions are about storage: a checkpoint tried again and again empties the WAL
  at some time (`CheckpointDone`), and a prune tried again and again leaves the
  file below high water at some time (`GetsBelowHigh`). The second allows a floor
  between the waters, which prunes never get below and `retention.go:246-252` is
  about; on a floor at or above high water the code keeps ingestion paused by
  design. Without the first `IngestionResumes` is false (second departure below).
- `PhysicalRetention`: maintenance and the restart after a stop go on, the guard
  comes round, backoffs end and every transaction ends.
- `AlertEvaluator`: the evaluator's ticker goes on, one condition for all steps
  of a pass; failures, operators and telemetry owe nothing.
- `LiveStream`: the hub's goroutines, the reader, its reconnection, the shell's
  event loop and tick, and each snapshot's request go on.
- `MetricSeries` has no liveness property: a point that finds the budget used
  collapses, and nothing waits.

## Proofs

The eight `...Proofs` modules are checked by TLAPS for every value of the
constants allowed by the modules' assumptions: every invariant and every safety
property that a passing run checks is a theorem, as are both refinements of
`ExportContract`. Each strengthens what the runs check to an inductive
invariant; the steps are proved action by action, with lemmas for what several
actions share. The modules, and what else each theorem assumes:

| module | about | assumed beyond the constants' types |
|---|---|---|
| `IngestBatcherProofs` | `IngestBatcher` | finitely many exports; a fixed request limit for `NoLostWakeup` |
| `StorageProofs` | `AppendBatcher`, `IngestStorage`, `StorageGuard` | exports have disjoint rows |
| `TraceDebounceProofs` | `TraceDebounce` | no two exports share a span |
| `RestartProofs` | `MetricSeries`, `Spool` | failed writes or one stop, not both, for the spool |
| `PhysicalProofs` | `PhysicalRewrite`, `ReclaimIndexes`, `PhysicalRetention` | |
| `AlertEvaluatorProofs` | `AlertEvaluator` | |
| `LivePublisherProofs` | `LivePublisher` | |
| `LiveStreamProofs` | `LiveStream` | there is a session |

**Coordinator** (`IngestBatcherProofs`; finitely many exports, positive targets
and limits). The inductive invariant is `IInv /\ CapacityAccounted`. `TypeOK`
alone is not inductive: that `requests` stays a natural number needs
`CapacityAccounted`, which needs that a release touches only unreleased exports,
which is where they are held (`PlaceInv`: the queue and the group hold distinct
exports, everything unreleased is held), how far the executor has come
(`LoopInv`) and what it has written and told (`StoreInv`). From it follow the
safety properties of a group's life (`ExecutionSafe` and those it consists of,
`LivePlaced`, `GroupWithinTarget`), the action property `AdmissionWithinLimits`,
`NoLostWakeup` under the additional assumption that the request limit is not
changed (without it the property is false, see below), and the refinement of
`ExportContract` (`ContractStep`: every step maps to a step of the contract or
to a stutter). `FirstCome` is the order of exports: the queue and the group hold
them in the order of admission, nothing in the queue was admitted before an
export of the group, and every export admitted before one that started has
started or finished (`OrderInv`). The payload of a set of exports is defined as a cardinality so
that additivity is a library fact about finite sets.

**Appenders** (`StorageProofs`). `AppendersHold`: no row in two places, no
appender alive during maintenance, no forgotten loss, for any tables, rows and
threshold.

**Executor over the appenders** (`StorageProofs`; disjoint rows).
`LossOnlyTaken`: a row of an acknowledged export is stored, unless a
tail-sampling callback took the failure of its group and the group does not
compare versions. `AcknowledgedStored`: if every group compares failure versions
or no callback flushes, every acknowledged export has all its rows in their
tables; this is the documented promise, with the premise the code needs for it,
and `storage_stolen` shows it false without. `StorageInv` adds to the types
where the rows of a group's exports are: unsent, pending, stored, or lost with
the failure still visible to the group's barrier, in `flushErr` or in the
version (`GroupRows`). `StorageRefinesBatcher`: composed, the appenders do only
what `AppendBatcher` says, so its theorem carries over
(`AppendersInStorage`, `LossKeptInStorage`). `AnswersSettle`: no row of an
answered export is still pending in an appender. `StorageKeepsContract`: every step
of executor, callbacks, ticker, maintenance and shutdown is a step of
`ExportContract` for one export or none of its steps, with `Durable` for the
rows a contract speaks of.

**Tail sampling and detectors** (`TraceDebounceProofs`). `DebounceSafe`: that a
span is decided once needs to know that a span the executor has not reached is
nowhere yet (`NotYetPlaced`), and which places are used with and without a
buffer (`OnePlace`). `FindingsGrow`: a run that has read a trace has
read all that its recorded findings are about, until it writes, because no other
run holds a lock of the same stripe.

**Physical storage** (`PhysicalProofs`). The authoritative file changes with the
renames, so nothing can be said of one path: `FilesInv` says which of the three
files has the committed rows at each step, `ServingInv` who may write to it,
`JournalInv` what its journal must hold for a replay, `EvictionInv` when an
evicted row may still take space. From it `DatabaseSurvives`, `IndexesComeBack`
and the action property `EvictionsAreNeeded`.

**Storage guard** (`StorageProofs`). `PausesHaveReasons` and `EmergencyLasts`.
The first speaks of the moments between passes and becomes inductive with the
order of the latches: a recovery is part of a pruning cycle, and that began at
high water. From an update that meets a pass until the next low water this order
does not hold, and the invariant asks nothing of the latches (`LatchInv`, `ReasonInv`);
a pass that no update has met read the current policy (`PassInv`).

**Alert evaluator** (`AlertEvaluatorProofs`). The invariant follows a group
through a pass: until its rule is evaluated the copy in memory agrees with what
was announced and with its row, afterwards the buffered row does
(`TodoInv`, `WritesInv`). From it `BoardIsAnnounced`, `EventsFireOnce` and
`OperatorsWorkKept`.

**Metric series** (`RestartProofs`). `SeriesInvariant`. Memory and table
agree only between deletions; during them the invariant says what the metric
being stored may still count on (`HoldsInv`), what a reading of the table is
worth when it is installed (`LoadedInv`) and what the budget was exceeded by
(`BudgetInv`).

**Live publisher** (`LivePublisherProofs`). `OnePublisher`: `TypeOK`,
`OnePublication` and `TotalsStored` (the totals being published, and those
shown, are of exports the store has) are inductive together.

**Spool** (`RestartProofs`, assuming `OneKindOnly`: any number of writes and
truncations fail, or the process stops once; more breaks the promise, see
below). `SpoolSafe` and `CapDropsNoMore`. The invariant says that the cells up to
the write offset are whole records (`Whole`), that the read offset, the loop's
start and what will be saved are first cells of a record or the end (`Boundary`),
that every accepted record which is neither delivered nor dropped has a cell
after the read offset (`Covered`), and that the offset on disk is not past the
one in memory as long as a stop may come (`FilesInv`). The cap and the reader walk
the file by recursive functions. That these functions exist, and what they
return at every boundary, is proved from a counterexample nearest the end of the
file (`RecursionDefined`, `CapStops`, `PendingHasAll`, all from `Least`: a
nonempty set of naturals has a least element).

**Live stream** (`LiveStreamProofs`). `QuietCurrent` is about quiet moments and
says nothing of the others; the invariant says of each stored row in every
state where it is if the viewer does not see it: in a frame on its way or lost
with a resynchronization requested, owed to a refresh that is due, or about to
come with a snapshot under way that was read late enough, whose replay will not
take it away. `SessionInv` is the same for the collector's session, `ViewInv`
keeps rows outside the scope off the list, and the slots taken are counted by
the snapshots under way. `StreamSafe`, `QuietCurrent` and `StreamedStays`
follow.

Model-checked only: everything under fairness (`EveryExportAnswered`, `AcceptedSettles`
and the other liveness properties), since liveness and ENABLED are out of reach
of the installed provers, and the run `storage_stolen`. Induction goes through
least counterexamples, as the library's induction theorems take an operator as
parameter, which no prover here instantiates; no module that is proved about
declares a RECURSIVE operator.

## Findings

`storage_stolen` (violation): a tail-sampling callback's flush takes the failure
that lost rows of an ordinary group, which is then acknowledged. `PROJECT.json`
quotes the statement the code departs from.

Departures met while modelling, without a run of their own. The first four can
be reproduced by changing one definition or constant, or reading one operator:

- A policy update during a pass can be undone by that pass. It keeps the cap it
  read (`retention.go:177`) through a prune and sets the recovery latch (239),
  although `Update` has just reset it; ingestion is then paused below the new
  cap, contrary to `docs/storage-retention.md:77-78` and
  `docs/autoprune-hysteresis-2026-10-23.md:23-24`. Without `~raced` in it,
  `PausedForAReason` is violated.
- While checkpoints keep failing or running out of time on a large WAL, every
  pass ends in `checkStorageWAL` (`retention.go:298-318`), whose last statement
  keeps the pause of a recovery, and never comes to `checkStorageGuard`, which
  alone ends the recovery. A file that a manual prune has brought to low water
  then stays paused by the guard. Without `SF_vars(CheckpointDone)` in `FairSpec`,
  `IngestionResumes` is violated.
- Two stops around a truncation make the spool skip records it never sent:
  `compact` truncates the file (`spool.go:223`) before it resets the offset file
  (227), contrary to the comment `spool.go:45-47`. With `Faults <- TwoStops` in
  `MCSpool.cfg`, `NothingLost` is violated.
- Repeats of a firing alert are announced under a silence:
  `advanceAlertInstance` asks `IsAlertSilenced` only when a firing starts
  (`alert_evaluator.go:639-655`; `Notice`). The test
  `TestAdvanceAlertInstance_SilenceSuppressesRepeat` says otherwise, but its
  rule has no channel enabled.

Coordinator, storage and forwarding:

- `Configure` stores a lowered request limit without signalling the loop
  (`policy.go:32-35`), so a queue that has thereby become full waits out its
  collection window. `NoLostWakeup` is checked and proved for a fixed limit.
- The converse of the finding: a group's barrier may take the failure that lost
  tail-sampled rows, and `flushBuffer` (`pipeline.go:784`) then broadcasts and
  analyses rows that are in no table.
- A record whose write was cut short becomes part of the spool after a restart
  (`spool.go:65` takes the file's size as write offset) and swallows the header
  of the next one. This is why run `spool` has stops or disk errors, not both.
- Drops of the spool's cap are not persisted (`spool.go:249`): after a restart
  the dropped records are pending and delivered again, beyond the cap. `SpoolTypeOK`
  and `NothingLost` allow it; the cap is enforced by the next write.
- `POST /api/settings/prune` lifts the pause for any file below the cap
  (`router.go:917-918`), also during a recovery, although low water has not been
  reached. `RecoveryStaysPaused` exempts the operator's own steps.

Physical storage:

- If the second rename of a swap and its compensation fail both, the reopened
  pool creates an empty database, the data stays in `.repack-old`, and the next
  rewrite deletes it. `DatabaseIntact` exempts it (`broken`).
- If the deferred reopening of the pool fails, the process goes on without a
  pool, contrary to the comment `physical.go:154-155`. `CapRegained` exempts it.
- Read-only queries (`query.go:46`, `catalog.go:125`, `150`) use the raw handle
  outside the gate of maintenance; they read only and are not modelled.

Alerts:

- A pass saves whole rows (`storage/alerts.go:180-182`), so what an operator
  changes while it runs is overwritten, a deleted rule even inserted again. The
  properties exempt rules `touched` during the pass.
- A pending alert whose condition ends announces "resolved" although it never
  announced "firing".

Live updates:

- A `Notify` that finds `p.timer` set is ignored (`publisher.go:51`), also when
  the publication at work has read its totals already. If the rates it read are
  zero there is no further publication, and the export is shown with the next
  one only. `AcceptedIsShown` therefore speaks of the notifications that start a
  timer. A query that fails ends the chain with the indicator lit.
- The comment `refresh.go:87-89` says that a row dropped from a full replay is
  repaired by the dirty bit; for frames that only patch the list no resync is
  requested, and the row is missing until the next one. `QuietIsCurrent` exempts
  those rows (`missed`).

Metric series:

- A start whose read of the table fails leaves the memory empty
  (`pipeline.go:156` drops the error), and every stream has its whole budget
  once more, which the comment `metric_series.go:22-23` means to rule out.
  `BudgetKept` counts such starts.
- An insert whose answer is lost (a cancelled exporter's context) leaves a row
  the memory has forgotten, one beyond the budget each (`lost`).
- A session deleted while one of its metrics is stored leaves points whose
  series has no row (`overtaken`).

## What is not modelled

Components without a module, with the reason of each in `PROJECT.json`: those
that hold no state of their own or only render or decode (receivers, MCP,
analysis, TUI and CLI, frontend), those that are single statements or
transactions of DuckDB (sessions, settings, migrations), and the limiter and the
sampler, which one goroutine uses: sequential arithmetic on wall-clock time.
Most of the repository's lines are of these kinds, generated code among them
(`openapi.gen.go`, `spans.gen.go`, `query_methods.go`): they have no control a
state machine would add to.

Within modelled parts: the contents of spans, logs and metrics; SQL; the lint
queue and the decisions of limiter and sampler, which change which rows an
export has and nothing else the modules talk about; the queue of pool metrics,
which coalesces as the detectors' does; real time, of which only the order of
deadlines matters; panics, which `goroutine.Go` recovers. In the physical
modules: the early return of a rewrite that finds the batcher closed
(`physical.go:106`), which touches no file and comes when the process ends;
constrained tables, whose rebuilding is one transaction; the WAL;
`deleteBySize`, which no caller of `PrunePhysical` reaches; the removal of
temporary directories. In `AlertEvaluator`: `all_of` composites, baselines,
discovery, the legacy acknowledgement of whole rules, channels, cooldown and
quiet hours. In `LiveStream`: hidden clients, panes, periodic refreshes, paging
and a pinned session; that the transport and the hub's buffer are two queues.
In `MetricSeries`: more than one stream in a session, and the loss of rows by
the appender, which is `AppendBatcher`'s subject.
