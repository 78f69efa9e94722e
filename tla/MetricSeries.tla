---------------------------- MODULE MetricSeries ----------------------------
(***************************************************************************)
(* The budget of metric series, internal/ingestion/metric_series.go.       *)
(*                                                                         *)
(* The attributes of a point become an indexed series while its stream     *)
(* (metric of a service in a session) has fewer than Limit of them;        *)
(* beyond, the point keeps its attributes but its series collapses.  The   *)
(* admitted series are kept twice: in a table that survives restarts, and  *)
(* in memory, where the budget is checked.  Sessions are deleted meanwhile *)
(* and each deletion, once it is durable, changes an epoch; the memory is  *)
(* read again from the table when a metric finds the epoch changed.        *)
(*                                                                         *)
(* Groups are executed by one goroutine, so one metric is stored at a      *)
(* time.  There is one stream per session.                                 *)
(***************************************************************************)
EXTENDS Integers, FiniteSets

CONSTANTS
    Sessions, Keys,  \* sessions, and the identities of the series of a stream
    Deleters,        \* requests and passes that may delete at the same time
    Limit,           \* MetricSeriesLimit
    MaxDeletions,    \* bound: deletions
    MaxFailures,     \* bound: failed reads and writes of the table
    MaxStops         \* bound: restarts of the process

ASSUME SeriesAssumption ==
    /\ IsFiniteSet(Keys)
    /\ Limit \in Nat \ {0}
    /\ MaxDeletions \in Nat /\ MaxFailures \in Nat /\ MaxStops \in Nat

VARIABLES
    catalog,      \* catalog[s]: the rows of metric_series_catalog
    epoch,        \* DB.metricCatalogEpoch
    series,       \* series[s]: Pipeline.metricSeries, the series in memory
    seriesEpoch,  \* Pipeline.metricSeriesEpoch, the epoch they were read in
    call,         \* the call of storeMetric and the point it has come to
    deletion,     \* deletion[d]: what deleter d is at
    overtaken,    \* a deletion took rows away that the call still counts on
    gap,          \* the memory may have missed rows of the table
    blindStarts,  \* starts that could not read the table
    lost,         \* rows that were written although an error was answered
    deletions, failures, stops

memory == <<epoch, series, seriesEpoch, call, deletion, overtaken, gap>>
bounds == <<deletions, failures, stops>>
vars == <<catalog, memory, blindStarts, lost, bounds>>

Steps == {"idle", "load", "install", "admit", "record", "append"}
At(step) == call.at = step

\* Every deletion of d is of a set of sessions, one or all.
Committed(s) == \E d \in Deleters : deletion[d].at = "committed" /\ s \in deletion[d].sessions

Fail == failures < MaxFailures /\ failures' = failures + 1 /\ UNCHANGED <<deletions, stops>>

NotDeleting == [at |-> "none", sessions |-> {}, rows |-> {}]

NoRows == [s \in Sessions |-> {}]
Idle == [at |-> "idle", session |-> "none", key |-> "none", indexed |-> FALSE,
         seen |-> 0, rows |-> NoRows]

Init ==
    /\ catalog = NoRows /\ series = catalog
    /\ epoch = 0 /\ seriesEpoch = 0
    /\ call = Idle /\ deletion = [d \in Deleters |-> NotDeleting]
    /\ overtaken = FALSE /\ gap = FALSE
    /\ blindStarts = 0 /\ lost = 0
    /\ deletions = 0 /\ failures = 0 /\ stops = 0

-----------------------------------------------------------------------------
(***************************************************************************)
(* storeMetric of a metric with any number of points.                      *)
(***************************************************************************)
\* currentMetricSeriesLimiter: the epoch is read before the table.
Fetch(s) ==
    /\ At("idle")
    /\ call' = IF epoch # seriesEpoch
               THEN [Idle EXCEPT !.at = "load", !.session = s, !.seen = epoch]
               ELSE [Idle EXCEPT !.at = "admit", !.session = s]
    /\ overtaken' = Committed(s)
    /\ UNCHANGED <<catalog, epoch, series, seriesEpoch, deletion, gap, blindStarts, lost, bounds>>

Load ==
    /\ At("load") /\ call' = [call EXCEPT !.at = "install", !.rows = catalog]
    /\ overtaken' = FALSE
    /\ UNCHANGED <<catalog, epoch, series, seriesEpoch, deletion, gap, blindStarts, lost, bounds>>

Installed(e) ==
    /\ At("install") /\ call' = [call EXCEPT !.at = "admit", !.seen = 0, !.rows = NoRows]
    /\ series' = call.rows /\ seriesEpoch' = e
    /\ gap' = FALSE
    /\ UNCHANGED <<catalog, epoch, deletion, overtaken, blindStarts, lost, bounds>>

InstallLatest == Installed(epoch)
Install == Installed(call.seen)

\* A failed read of the table fails the metric and its group.
LoadFails ==
    /\ At("load") /\ call' = Idle
    /\ Fail
    /\ UNCHANGED <<catalog, epoch, series, seriesEpoch, deletion, overtaken, gap, blindStarts, lost>>

AdmitKnown(k) ==
    /\ At("admit") /\ k \in series[call.session]
    /\ call' = [call EXCEPT !.at = "append", !.key = k, !.indexed = TRUE]
    /\ UNCHANGED <<catalog, epoch, series, seriesEpoch, deletion, overtaken, gap, blindStarts, lost,
                   bounds>>

AdmitFresh(k) ==
    /\ At("admit") /\ k \notin series[call.session]
    /\ Cardinality(series[call.session]) < Limit
    /\ series' = [series EXCEPT ![call.session] = @ \cup {k}]
    /\ call' = [call EXCEPT !.at = "record", !.key = k, !.indexed = TRUE]
    /\ UNCHANGED <<catalog, epoch, seriesEpoch, deletion, overtaken, gap, blindStarts, lost, bounds>>

Collapse(k) ==
    /\ At("admit") /\ k \notin series[call.session]
    /\ Cardinality(series[call.session]) >= Limit
    /\ call' = [call EXCEPT !.at = "append", !.key = k, !.indexed = FALSE]
    /\ UNCHANGED <<catalog, epoch, series, seriesEpoch, deletion, overtaken, gap, blindStarts, lost,
                   bounds>>

\* RecordMetricSeries: INSERT ... ON CONFLICT DO NOTHING.
Inserted == [catalog EXCEPT ![call.session] = @ \cup {call.key}]

Record ==
    /\ At("record") /\ call' = [call EXCEPT !.at = "append"]
    /\ catalog' = Inserted
    /\ UNCHANGED <<epoch, series, seriesEpoch, deletion, overtaken, gap, blindStarts, lost, bounds>>

\* A failed insert is forgotten, and fails the metric.
Forget ==
    /\ At("record") /\ call' = Idle
    /\ series' = [series EXCEPT ![call.session] = @ \ {call.key}]
    /\ Fail

RecordFails ==
    /\ Forget
    /\ UNCHANGED <<catalog, epoch, seriesEpoch, deletion, overtaken, gap, blindStarts, lost>>

\* The insert runs in the context of the exporter, which may be cancelled after
\* the row was written.
RecordUnanswered ==
    /\ Forget
    /\ catalog' = Inserted /\ lost' = lost + 1 /\ gap' = TRUE
    /\ UNCHANGED <<epoch, seriesEpoch, deletion, overtaken, blindStarts>>

\* AppendMetric, and the next point; or the last one, or a failed append.
AppendPoint ==
    /\ At("append")
    /\ call' \in {[call EXCEPT !.at = "admit", !.key = "none", !.indexed = FALSE], Idle}
    /\ UNCHANGED <<catalog, epoch, series, seriesEpoch, deletion, overtaken, gap, blindStarts, lost,
                   bounds>>

-----------------------------------------------------------------------------
(***************************************************************************)
(* Deletions: a transaction, then DB.changed, which moves the epoch.       *)
(***************************************************************************)
CountDeletion == deletions < MaxDeletions /\ deletions' = deletions + 1 /\ UNCHANGED <<failures, stops>>
Overtakes(gone) == overtaken' = (overtaken \/ (call.at # "load" /\ call.session \in gone))

\* DeleteSession: the rows it takes are those of the snapshot of its transaction.
DeleteSession(d, s) ==
    /\ deletion[d].at = "none" /\ CountDeletion
    /\ deletion' = [deletion EXCEPT ![d] = [at |-> "open", sessions |-> {s}, rows |-> catalog[s]]]
    /\ UNCHANGED <<catalog, epoch, series, seriesEpoch, call, overtaken, gap, blindStarts, lost>>

Commit(d) ==
    /\ deletion[d].at = "open" /\ deletion' = [deletion EXCEPT ![d].at = "committed"]
    /\ catalog' = [s \in Sessions |-> IF s \in deletion[d].sessions THEN catalog[s] \ deletion[d].rows
                                      ELSE catalog[s]]
    /\ Overtakes(deletion[d].sessions)
    /\ UNCHANGED <<epoch, series, seriesEpoch, call, gap, blindStarts, lost, bounds>>

Rollback(d) ==
    /\ deletion[d].at = "open" /\ deletion' = [deletion EXCEPT ![d] = NotDeleting]
    /\ UNCHANGED <<catalog, epoch, series, seriesEpoch, call, overtaken, gap, blindStarts, lost, bounds>>

\* A reset, or the deletion of all sessions, in maintenance: nothing else has a
\* transaction meanwhile.
Clear(d) ==
    /\ \A e \in Deleters : deletion[e].at # "open"
    /\ deletion[d].at = "none" /\ CountDeletion
    /\ deletion' = [deletion EXCEPT ![d] = [at |-> "committed", sessions |-> Sessions, rows |-> {}]]
    /\ catalog' = NoRows /\ Overtakes(Sessions)
    /\ UNCHANGED <<epoch, series, seriesEpoch, call, gap, blindStarts, lost>>

Changed(d) ==
    /\ deletion[d].at = "committed" /\ deletion' = [deletion EXCEPT ![d] = NotDeleting]
    /\ epoch' = epoch + 1
    /\ UNCHANGED <<catalog, series, seriesEpoch, call, overtaken, gap, blindStarts, lost, bounds>>

(***************************************************************************)
(* A stop, and NewPipelineFull of the next process, which leaves the       *)
(* memory empty when the table cannot be read.                             *)
(***************************************************************************)
Restart ==
    /\ stops < MaxStops /\ stops' = stops + 1
    /\ epoch' = 0 /\ seriesEpoch' = 0
    /\ call' = Idle /\ deletion' = [d \in Deleters |-> NotDeleting] /\ overtaken' = FALSE
    /\ \/ series' = catalog /\ gap' = FALSE /\ UNCHANGED <<blindStarts, failures>>
       \/ /\ failures < MaxFailures /\ failures' = failures + 1
          /\ series' = NoRows /\ gap' = TRUE /\ blindStarts' = blindStarts + 1
    /\ UNCHANGED <<catalog, lost, deletions>>

StoreMetric ==
    \/ \E s \in Sessions : Fetch(s)
    \/ Load \/ LoadFails \/ Install
    \/ \E k \in Keys : AdmitKnown(k) \/ AdmitFresh(k) \/ Collapse(k)
    \/ Record \/ RecordFails \/ RecordUnanswered \/ AppendPoint

Delete(d) ==
    \/ \E s \in Sessions : DeleteSession(d, s)
    \/ Commit(d) \/ Rollback(d) \/ Clear(d) \/ Changed(d)

Next ==
    \/ StoreMetric
    \/ \E d \in Deleters : Delete(d)
    \/ Restart

Spec == Init /\ [][Next]_vars

-----------------------------------------------------------------------------
TypeOK ==
    /\ catalog \in [Sessions -> SUBSET Keys] /\ series \in [Sessions -> SUBSET Keys]
    /\ epoch \in Nat /\ seriesEpoch \in 0..epoch
    /\ call \in [at : Steps, session : Sessions \cup {"none"}, key : Keys \cup {"none"},
                indexed : BOOLEAN, seen : 0..epoch, rows : [Sessions -> SUBSET Keys]]
    /\ deletion \in [Deleters -> [at : {"none", "open", "committed"}, sessions : SUBSET Sessions,
                                  rows : SUBSET Keys]]
    /\ overtaken \in BOOLEAN /\ gap \in BOOLEAN
    /\ blindStarts \in 0..stops /\ lost \in 0..failures
    /\ deletions \in 0..MaxDeletions /\ failures \in 0..MaxFailures /\ stops \in 0..MaxStops

\* The series in memory, without the one whose row is being written.
Settled(s) == series[s] \ (IF At("record") /\ call.session = s THEN {call.key} ELSE {})

(* Memory and table agree whenever no deletion is between its commit and   *)
(* the change of the epoch and the memory is of the current epoch: a       *)
(* series in memory that had no row would never be recorded again.         *)
CatalogAgrees ==
    \A s \in Sessions :
        seriesEpoch = epoch /\ ~Committed(s) =>
            /\ Settled(s) \subseteq catalog[s]
            /\ ~gap => Settled(s) = catalog[s]

(* A stream has Limit rows at most, over restarts and deletions; a start   *)
(* that could not read the table grants the budget once more, and an       *)
(* insert whose answer was lost one row.                                   *)
BudgetKept ==
    \A s \in Sessions : Cardinality(catalog[s]) <= Limit * (1 + blindStarts) + lost

(* A point is appended with a series that has a row, and collapses only    *)
(* when the stream has used its budget, unless its session was deleted     *)
(* while its metric was being stored.                                      *)
PointsFollowCatalog ==
    At("append") /\ ~overtaken =>
        IF call.indexed THEN call.key \in catalog[call.session]
                        ELSE Cardinality(catalog[call.session]) >= Limit

(* The two copies of the admitted series and the points stored by them.    *)
SeriesInv == TypeOK /\ CatalogAgrees /\ BudgetKept /\ PointsFollowCatalog
=============================================================================
