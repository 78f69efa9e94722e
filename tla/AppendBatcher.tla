--------------------------- MODULE AppendBatcher ---------------------------
(***************************************************************************)
(* The DuckDB appenders behind every hot-path write                        *)
(* (internal/storage/batch.go): one appender per table, each pinned to its *)
(* own connection, all behind one mutex.  Rows wait in an appender until a *)
(* row threshold, the 200 ms interval or an explicit flush writes them.    *)
(* An appender that fails is closed and replaced: some of the rows it held *)
(* may reach the table, the others are lost, and the failure is kept for   *)
(* the next explicit flush.                                                *)
(*                                                                         *)
(* One action is one critical section of Batcher.mu.  Maintenance keeps    *)
(* the mutex while it runs, so it is a pair of actions with every other    *)
(* operation shut out in between.                                          *)
(***************************************************************************)
EXTENDS Integers, FiniteSets

CONSTANTS
  Tables,        \* batchTables
  Rows,          \* the rows that may be appended, each once
  TableOf,       \* the table of a row
  BatchMaxRows,  \* batchMaxRows
  MaxFailures    \* bound on the DuckDB failures of a behaviour

ASSUME BatcherConstants ==
  /\ IsFiniteSet(Tables)
  /\ IsFiniteSet(Rows)
  /\ TableOf \in [Rows -> Tables]
  /\ BatchMaxRows \in Nat \ {0}
  /\ MaxFailures \in Nat

VARIABLES
  slot,            \* apps[t]: "open", "leased" without a native appender, or "none"
  buffer,          \* the rows the appender of each table holds
  flushErr,        \* a failure waits for an explicit flush
  failureVersion,
  closing,         \* "no"; "stopping" once closed is set; "done" after closeAllLocked
  maintaining,     \* Maintenance holds the mutex
  stored,          \* rows written to their table
  lost,            \* rows an appender took or refused and no table has
  unreported       \* history: lost rows no explicit flush has been told of

lossVars == <<flushErr, failureVersion, unreported>>
lifeVars == <<closing, maintaining>>
batchVars == <<slot, buffer, lossVars, lifeVars, stored, lost>>

Held == UNION {buffer[t] : t \in Tables}

BatcherTypeOK ==
  /\ slot \in [Tables -> {"open", "leased", "none"}]
  /\ buffer \in [Tables -> SUBSET Rows]
  /\ flushErr \in BOOLEAN
  /\ failureVersion \in 0..MaxFailures
  /\ closing \in {"no", "stopping", "done"}
  /\ maintaining \in BOOLEAN
  /\ stored \subseteq Rows
  /\ lost \subseteq Rows
  /\ unreported \subseteq lost

BatcherInit ==
  /\ slot = [t \in Tables |-> "open"]
  /\ buffer = [t \in Tables |-> {}]
  /\ flushErr = FALSE
  /\ failureVersion = 0
  /\ closing = "no"
  /\ maintaining = FALSE
  /\ stored = {}
  /\ lost = {}
  /\ unreported = {}

-----------------------------------------------------------------------------
(* Building blocks.                                                        *)

Free == ~maintaining

Running == Free /\ closing = "no"

\* The appenders of T write what they hold; those of F fail, and of their
\* rows only S reach the tables.
Write(T, F, S) ==
  /\ F \subseteq T
  /\ S \subseteq UNION {buffer[t] : t \in F}
  /\ stored' = stored \cup (UNION {buffer[t] : t \in T \ F}) \cup S
  /\ lost' = lost \cup ((UNION {buffer[t] : t \in F}) \ S)
  /\ buffer' = [t \in Tables |-> IF t \in T THEN {} ELSE buffer[t]]

\* failLocked, once for each failing table.
Fail(F) ==
  /\ failureVersion + Cardinality(F) <= MaxFailures
  /\ failureVersion' = failureVersion + Cardinality(F)
  /\ flushErr' = (flushErr \/ F # {})
  /\ unreported' = unreported \cup (lost' \ lost)

\* recreateLocked: the appenders of F are replaced, or their slots left empty
\* when no new connection can be had.
Recreate(F) ==
  \E N \in SUBSET F :
    slot' = [t \in Tables |-> IF t \in N THEN "none" ELSE IF t \in F THEN "open" ELSE slot[t]]

Fresh(r) == r \notin Held \cup stored \cup lost

-----------------------------------------------------------------------------
(* append: one row, seen from its caller as nil or an error.               *)

\* One more row reaches the threshold.
Fills(t) == Cardinality(buffer[t]) + 1 >= BatchMaxRows

\* The appender of t takes the row and keeps it.
Keep(r, t) ==
  /\ ~Fills(t)
  /\ buffer' = [buffer EXCEPT ![t] = @ \cup {r}]
  /\ UNCHANGED <<lossVars, stored, lost>>

\* The row fills the appender, which flushes at once.
KeepAndFlush(r, t) ==
  /\ Fills(t)
  /\ stored' = stored \cup buffer[t] \cup {r}
  /\ buffer' = [buffer EXCEPT ![t] = {}]
  /\ UNCHANGED <<lossVars, lost>>

\* append returns nil.  An appender that is missing is recreated first.
AppendAccepts(r) == LET t == TableOf[r] IN
  /\ Running
  /\ Fresh(r)
  /\ slot' = [slot EXCEPT ![t] = "open"]
  /\ Keep(r, t) \/ KeepAndFlush(r, t)
  /\ UNCHANGED lifeVars

\* append returns an error: AppendRow or the threshold flush failed, and the
\* rows the appender held go with it.  Closing it may still save some, and
\* the new row too if it was the flush that failed.
AppendBreaks(r) == LET t == TableOf[r] IN
  /\ Running
  /\ Fresh(r)
  /\ \E S \in SUBSET (buffer[t] \cup {r}) :
       /\ r \in S => Fills(t)
       /\ stored' = stored \cup S
       /\ lost' = lost \cup ((buffer[t] \cup {r}) \ S)
  /\ buffer' = [buffer EXCEPT ![t] = {}]
  /\ Recreate({t})
  /\ Fail({t})
  /\ UNCHANGED lifeVars

\* append returns an error without touching an appender: there is none and
\* none can be opened, or the batcher is closed.
AppendRefused(r) ==
  /\ Free
  /\ Fresh(r)
  /\ \/ closing # "no" /\ UNCHANGED slot
     \/ closing = "no" /\ slot[TableOf[r]] # "open" /\ slot' = [slot EXCEPT ![TableOf[r]] = "none"]
  /\ lost' = lost \cup {r}
  /\ UNCHANGED <<buffer, lossVars, lifeVars, stored>>

AppendFails(r) == AppendBreaks(r) \/ AppendRefused(r)

-----------------------------------------------------------------------------
(* flush.                                                                  *)

Loaded == {t \in Tables : buffer[t] # {}}

FlushTables(F) ==
  /\ Running
  /\ \E S \in SUBSET UNION {buffer[t] : t \in F} : Write(Loaded, F, S)
  /\ Recreate(F)
  /\ UNCHANGED lifeVars

IntervalFlushReports ==   \* mutant: the ticker acknowledges what it sees
  \E F \in SUBSET Loaded :
    /\ FlushTables(F)
    /\ failureVersion + Cardinality(F) <= MaxFailures
    /\ failureVersion' = failureVersion + Cardinality(F)
    /\ flushErr' = FALSE
    /\ unreported' = unreported \cup (lost' \ lost)

IntervalFlushOnce ==   \* mutant: the ticker gives up while a failure is kept
  /\ Loaded # {}
  /\ ~flushErr
  /\ \E F \in SUBSET Loaded : FlushTables(F) /\ Fail(F)

\* flush(false), from the ticker.
IntervalFlush ==
  /\ Loaded # {}
  /\ \E F \in SUBSET Loaded : FlushTables(F) /\ Fail(F)

\* flush(true) of an open batcher: failed says what it returns.
ExplicitFlush(failed) ==
  \E F \in SUBSET Loaded :
    /\ FlushTables(F)
    /\ failureVersion + Cardinality(F) <= MaxFailures
    /\ failureVersion' = failureVersion + Cardinality(F)
    /\ failed = (flushErr \/ F # {})
    /\ flushErr' = FALSE
    /\ unreported' = {}

-----------------------------------------------------------------------------
(* Maintenance and Close.                                                  *)

\* reopen: of the slots with a connection, those of F stay without appender.
Reopen(L, F) ==
  /\ F \subseteq L
  /\ slot' = [t \in Tables |-> IF t \in F THEN "leased" ELSE IF t \in L THEN "open" ELSE slot[t]]
  /\ lost' = lost
  /\ Fail(F)

Opened == {t \in Tables : slot[t] = "open"}

Leased == {t \in Tables : slot[t] = "leased"}

\* A missing connection cannot be leased in time: nothing is suspended, and
\* what has a connection by then is reopened.
MaintenanceRefused ==
  /\ Running
  /\ \E t \in Tables : slot[t] = "none" /\ \E L \in SUBSET {u \in Tables : slot[u] = "none" /\ u # t} :
       \E F \in SUBSET (L \cup Leased) : Reopen(L \cup Leased, F)
  /\ UNCHANGED <<buffer, lifeVars, stored>>

BeginWithOpenAppenders ==   \* mutant: flushes the appenders and leaves them open
  /\ Running
  /\ \E F \in SUBSET Opened, S \in SUBSET Held : Write(Tables, F, S) /\ Fail(F)
  /\ slot' = [t \in Tables |-> "open"]
  /\ maintaining' = TRUE
  /\ UNCHANGED closing

\* Every appender is closed, its connection stays leased, and fn starts.
BeginMaintenance ==
  /\ Running
  /\ \E F \in SUBSET Opened, S \in SUBSET Held : Write(Tables, F, S) /\ Fail(F)
  /\ slot' = [t \in Tables |-> "leased"]
  /\ maintaining' = TRUE
  /\ UNCHANGED closing

\* fn has returned; appenders are reopened on the leases they kept.
EndMaintenance ==
  /\ maintaining
  /\ \E F \in SUBSET Leased : Reopen(Leased, F)
  /\ maintaining' = FALSE
  /\ UNCHANGED <<buffer, closing, stored>>

\* Close, first section: appends and flushes are refused from here on.
Close ==
  /\ Running
  /\ closing' = "stopping"
  /\ UNCHANGED <<slot, buffer, lossVars, maintaining, stored, lost>>

\* closeAllLocked: what the appenders still hold is written or lost.  Errors
\* go to the caller of Close, not to flushErr.
ReleaseAll ==
  /\ \E F \in SUBSET Loaded, S \in SUBSET Held : Write(Tables, F, S)
  /\ slot' = [t \in Tables |-> "none"]
  /\ UNCHANGED lossVars

\* Close, second section, after the interval loop has ended.
FinishClose ==
  /\ Free
  /\ closing = "stopping"
  /\ ReleaseAll
  /\ closing' = "done"
  /\ UNCHANGED maintaining

\* Maintenance of a closed batcher releases the appenders before fn runs.
BeginClosedMaintenance ==
  /\ Free
  /\ closing # "no"
  /\ ReleaseAll
  /\ maintaining' = TRUE
  /\ UNCHANGED closing

-----------------------------------------------------------------------------

Background ==
  \/ IntervalFlush
  \/ MaintenanceRefused \/ BeginMaintenance \/ EndMaintenance
  \/ Close \/ FinishClose \/ BeginClosedMaintenance

BatcherNext ==
  \/ Background
  \/ \E r \in Rows : AppendAccepts(r) \/ AppendFails(r)
  \/ \E failed \in BOOLEAN : ExplicitFlush(failed)

BatcherSpec == BatcherInit /\ [][BatcherNext]_batchVars

-----------------------------------------------------------------------------
(* Correctness.                                                            *)

\* A row is in one place: in its table's appender, in its table, or lost.
EachRowOnce ==
  /\ \A t \in Tables : \A r \in buffer[t] : TableOf[r] = t /\ slot[t] = "open"
  /\ Held \cap stored = {} /\ Held \cap lost = {} /\ stored \cap lost = {}

\* A lost row is not forgotten by a later successful flush: until an explicit
\* flush has returned an error, the failure is kept for one (flushErr: "A
\* later successful flush cannot hide lost rows").
LossIsKept == unreported # {} => flushErr

\* No native appender is alive while maintenance runs ("DuckDB must not run
\* those operations while an Appender is alive"), so no row waits in one.
MaintenanceExclusive == maintaining => \A t \in Tables : slot[t] # "open" /\ buffer[t] = {}

\* The appenders through failures, replacements and maintenance: rows in one
\* place, and none in an appender that maintenance could break.
AppendersInv == EachRowOnce /\ MaintenanceExclusive

\* A buffered row does not wait for another export to be written or given up
\* (batchInterval, "a liveness backstop").
RowsSettle == \A r \in Rows : r \in Held ~> r \in stored \cup lost

=============================================================================
