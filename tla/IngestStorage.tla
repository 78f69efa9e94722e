--------------------------- MODULE IngestStorage ---------------------------
(***************************************************************************)
(* The group executor of the coordinator (ingestion/batch.go, execute) and *)
(* the debounce callbacks that store tail-sampled traces                   *)
(* (ingestion/pipeline.go, flushBuffer), over the appenders they share     *)
(* (AppendBatcher).  IngestBatcher says what the executor does with the    *)
(* outcome of its barrier; this module says what that outcome is worth:    *)
(* rows are lost by the ticker, a threshold or maintenance, and whichever  *)
(* explicit flush comes first is told.                                     *)
(*                                                                         *)
(* The barrier has two forms.  If an ordinary export of the group ran to   *)
(* its end the group is instrumented, and its barrier is one FlushBatch    *)
(* inside a db.flush span (Pipeline.flush); a group of self telemetry      *)
(* calls FlushBatchSince, which also compares the failure version it       *)
(* started with.                                                           *)
(***************************************************************************)
EXTENDS AppendBatcher

CONSTANTS
  Exports,       \* OTLP exports
  Instrumented,  \* the exports that are not Spaniel's own telemetry
  Traces,        \* traces held in the tail buffer
  RowsOf,        \* the rows of an export or of a trace, no two sharing one
  None           \* no export is running

ASSUME StorageConstants ==
  /\ Instrumented \subseteq Exports
  /\ Exports \cap Traces = {}
  /\ None \notin Exports
  /\ RowsOf \in [Exports \cup Traces -> SUBSET Rows]
  /\ \A e \in Exports : RowsOf[e] # {}
  /\ \A a, b \in Exports \cup Traces : a # b => RowsOf[a] \cap RowsOf[b] = {}

VARIABLES
  verdict,     \* what the exporter is told
  step,        \* where execute is
  group,       \* the exports it executes
  left,        \* those whose callback has not run
  expired,     \* those that had been cancelled when their turn came
  current,     \* the one whose callback runs
  todo,        \* the rows that callback has yet to append
  since,       \* version: failureVersion when the group started
  instrument,  \* a callback staged an instrumented barrier
  failed,      \* writeErr or the barrier's error
  tail,        \* a trace: "buffered", "appending", "done"
  tailTodo,    \* the rows its callback has yet to append
  accepted,    \* rows flushBuffer appended without an error
  shown,       \* tail-sampled rows broadcast, linted and analysed
  taken        \* history: exports whose barrier missed a failure a callback took

execVars == <<step, group, left, expired, current, todo, since, instrument, failed>>
bufferVars == <<tail, tailTodo, accepted, shown>>
tailVars == <<bufferVars, taken>>
storageVars == <<batchVars, verdict, execVars, tailVars>>

StorageTypeOK ==
  /\ BatcherTypeOK
  /\ verdict \in [Exports -> {"none", "pending", "ok", "error"}]
  /\ step \in {"idle", "run", "compare", "answer"}
  /\ group \subseteq Exports
  /\ left \subseteq group
  /\ expired \subseteq group \ left
  /\ current \in group \cup {None}
  /\ todo \subseteq Rows
  /\ since \in 0..failureVersion
  /\ instrument \in BOOLEAN
  /\ failed \in BOOLEAN
  /\ tail \in [Traces -> {"buffered", "appending", "done"}]
  /\ tailTodo \in [Traces -> SUBSET Rows]
  /\ accepted \subseteq Rows
  /\ shown \subseteq accepted
  /\ taken \subseteq Exports

StorageInit ==
  /\ BatcherInit
  /\ verdict = [e \in Exports |-> "none"]
  /\ step = "idle"
  /\ group = {}
  /\ left = {}
  /\ expired = {}
  /\ current = None
  /\ todo = {}
  /\ since = 0
  /\ instrument = FALSE
  /\ failed = FALSE
  /\ tail = [t \in Traces |-> "buffered"]
  /\ tailTodo = [t \in Traces |-> {}]
  /\ accepted = {}
  /\ shown = {}
  /\ taken = {}

-----------------------------------------------------------------------------
(* The executor.                                                           *)

\* An export enters the queue.
Admit(e) ==
  /\ closing = "no"
  /\ verdict[e] = "none"
  /\ verdict' = [verdict EXCEPT ![e] = "pending"]
  /\ UNCHANGED <<batchVars, execVars, tailVars>>

\* A group starts: its failure version is read under the appenders' mutex.
TakeGroup(G) ==
  /\ Free
  /\ step = "idle"
  /\ G # {}
  /\ \A e \in G : verdict[e] = "pending"
  /\ step' = "run"
  /\ group' = G
  /\ left' = G
  /\ expired' = {}
  /\ since' = failureVersion
  /\ instrument' = FALSE
  /\ failed' = FALSE
  /\ UNCHANGED <<batchVars, verdict, current, todo, tailVars>>

Between == step = "run" /\ current = None

\* The exporter gives up before its turn, in the queue or in the group: it is
\* answered at once.
Withdraw(e) ==
  /\ verdict[e] = "pending"
  /\ e \in group => e \in left
  /\ left' = left \ {e}
  /\ group' = group \ {e}
  /\ verdict' = [verdict EXCEPT ![e] = "error"]
  /\ taken' = taken \ {e}
  /\ UNCHANGED <<batchVars, step, expired, current, todo, since, instrument, failed, bufferVars>>

\* Its turn comes and its context is done: only its own error, not the group's.
Expire(e) ==
  /\ Between
  /\ e \in left
  /\ left' = left \ {e}
  /\ expired' = expired \cup {e}
  /\ UNCHANGED <<batchVars, verdict, step, group, current, todo, since, instrument, failed, tailVars>>

\* The callback refuses an ordinary export while the storage is full.
RefuseFull(e) ==
  /\ Between
  /\ e \in left \cap Instrumented
  /\ left' = left \ {e}
  /\ failed' = TRUE
  /\ UNCHANGED <<batchVars, verdict, step, group, expired, current, todo, since, instrument, tailVars>>

StartRun(e) ==
  /\ Between
  /\ e \in left
  /\ left' = left \ {e}
  /\ current' = e
  /\ todo' = RowsOf[e]
  /\ UNCHANGED <<batchVars, verdict, step, group, expired, since, instrument, failed, tailVars>>

AppendRow(r) ==
  /\ r \in todo
  /\ AppendAccepts(r)
  /\ todo' = todo \ {r}
  /\ UNCHANGED <<verdict, step, group, expired, left, current, since, instrument, failed, tailVars>>

\* The callback returns at the first failed append; its siblings still run.
AppendRowFails(r) ==
  /\ r \in todo
  /\ AppendFails(r)
  /\ current' = None
  /\ todo' = {}
  /\ failed' = TRUE
  /\ UNCHANGED <<verdict, step, group, expired, left, since, instrument, tailVars>>

\* The callback has appended every row: it stages its barrier and returns.
EndRun ==
  /\ current # None
  /\ todo = {}
  /\ instrument' = (instrument \/ current \in Instrumented)
  /\ current' = None
  /\ UNCHANGED <<batchVars, verdict, step, group, expired, left, todo, since, failed, tailVars>>

BarrierIfFine ==   \* mutant: no flush after an append error
  /\ Between
  /\ left = {}
  /\ \/ failed /\ Free /\ UNCHANGED <<batchVars, failed>>
     \/ ~failed /\ \E bad \in BOOLEAN : ExplicitFlush(bad) /\ failed' = bad
  /\ step' = IF instrument THEN "answer" ELSE "compare"
  /\ taken' = IF instrument THEN taken ELSE taken \ group
  /\ UNCHANGED <<verdict, group, expired, left, current, todo, since, instrument, bufferVars>>

\* The barrier, after the last callback, even if one failed.
Barrier ==
  /\ Between
  /\ left = {}
  /\ \E bad \in BOOLEAN : ExplicitFlush(bad) /\ failed' = (failed \/ bad)
  /\ step' = IF instrument THEN "answer" ELSE "compare"
  /\ taken' = IF instrument THEN taken ELSE taken \ group
  /\ UNCHANGED <<verdict, group, expired, left, current, todo, since, instrument, bufferVars>>

CompareNothing ==   \* mutant: FlushBatchSince returns FlushBatch's error alone
  /\ Free
  /\ step = "compare"
  /\ step' = "answer"
  /\ UNCHANGED <<batchVars, verdict, group, expired, left, current, todo, since, instrument, failed, tailVars>>

\* FlushBatchSince takes the mutex again.
Compare ==
  /\ Free
  /\ step = "compare"
  /\ failed' = (failed \/ failureVersion # since)
  /\ step' = "answer"
  /\ UNCHANGED <<batchVars, verdict, group, expired, left, current, todo, since, instrument, tailVars>>

AnswerApart ==   \* mutant: an export whose own rows were appended is accepted
  /\ step = "answer"
  /\ verdict' = [e \in Exports |->
       IF e \notin group THEN verdict[e]
       ELSE IF e \in expired \/ (failed /\ RowsOf[e] \cap lost # {}) THEN "error" ELSE "ok"]
  /\ step' = "idle"
  /\ group' = {}
  /\ expired' = {}
  /\ UNCHANGED <<batchVars, left, current, todo, since, instrument, failed, tailVars>>

\* Every member is told the group's error and its own, and the executor takes the next group.
Answer ==
  /\ step = "answer"
  /\ verdict' = [e \in Exports |->
       IF e \notin group THEN verdict[e] ELSE IF failed \/ e \in expired THEN "error" ELSE "ok"]
  /\ step' = "idle"
  /\ group' = {}
  /\ expired' = {}
  /\ UNCHANGED <<batchVars, left, current, todo, since, instrument, failed, tailVars>>

-----------------------------------------------------------------------------
(* Debounce callbacks of tail-sampled traces.                              *)

\* The trace leaves the buffer: kept, or dropped by the sampler.
TailDecide(t) ==
  /\ tail[t] = "buffered"
  /\ \/ /\ tail' = [tail EXCEPT ![t] = "appending"]
        /\ tailTodo' = [tailTodo EXCEPT ![t] = RowsOf[t]]
     \/ /\ tail' = [tail EXCEPT ![t] = "done"]
        /\ UNCHANGED tailTodo
  /\ UNCHANGED <<batchVars, verdict, execVars, accepted, shown, taken>>

\* A failed append is skipped, a successful one remembered.
TailAppend(t, r) ==
  /\ r \in tailTodo[t]
  /\ tailTodo' = [tailTodo EXCEPT ![t] = @ \ {r}]
  /\ \/ AppendAccepts(r) /\ accepted' = accepted \cup {r}
     \/ AppendFails(r) /\ UNCHANGED accepted
  /\ UNCHANGED <<verdict, execVars, tail, shown, taken>>

\* The callback's own FlushBatch, a success if the batcher is closed; only
\* then are the rows it appended shown.
TailFlush(t) ==
  /\ tail[t] = "appending"
  /\ tailTodo[t] = {}
  /\ tail' = [tail EXCEPT ![t] = "done"]
  /\ \/ /\ ExplicitFlush(FALSE)
        /\ shown' = shown \cup (accepted \cap RowsOf[t])
        /\ UNCHANGED taken
     \/ /\ ExplicitFlush(TRUE)
        /\ taken' = IF step = "run" /\ failureVersion' # since THEN taken \cup group ELSE taken
        /\ UNCHANGED shown
     \/ /\ Free /\ closing # "no"
        /\ shown' = shown \cup (accepted \cap RowsOf[t])
        /\ UNCHANGED <<batchVars, taken>>
  /\ UNCHANGED <<verdict, execVars, tailTodo, accepted>>

\* The ticker and maintenance; the store closes once the pipeline is drained.
BackgroundStep ==
  /\ Background
  /\ closing # closing' => step = "idle" /\ \A e \in Exports : verdict[e] # "pending"
  /\ UNCHANGED <<verdict, execVars, tailVars>>

Execute ==
  \/ \E e \in Exports : Withdraw(e) \/ Expire(e) \/ RefuseFull(e) \/ StartRun(e)
  \/ \E r \in Rows : AppendRow(r) \/ AppendRowFails(r)
  \/ EndRun \/ Barrier \/ Compare \/ Answer

StorageNext ==
  \/ \E e \in Exports : Admit(e)
  \/ \E G \in SUBSET Exports : TakeGroup(G)
  \/ Execute
  \/ \E t \in Traces : TailDecide(t) \/ TailFlush(t) \/ \E r \in Rows : TailAppend(t, r)
  \/ BackgroundStep

StorageSpec == StorageInit /\ [][StorageNext]_storageVars

\* The ticker, fn and Close go on; no export has to come.  Maintenance can take
\* the mutex again and again, but a Go mutex that a goroutine waits for is handed
\* to it after a millisecond, so the ticker is not overtaken for ever.
StorageFair ==
  /\ StorageSpec
  /\ SF_batchVars(IntervalFlush)
  /\ WF_batchVars(EndMaintenance)
  /\ SF_batchVars(FinishClose)

-----------------------------------------------------------------------------
(* Correctness.                                                            *)

\* An exporter that was told of success has all its rows in their tables
\* ("An export receives success only after its shared flush succeeds", also
\* when another explicit flush has already seen the error).
AcknowledgedIsStored ==
  \A e \in Exports : verdict[e] = "ok" => RowsOf[e] \subseteq stored

\* The one way an acknowledged row is lost: before the barrier of a group with
\* an ordinary export, which compares no failure versions, a callback's flush
\* has taken the failure (what MCStorageStolen exhibits).
OnlyTakenIsLost ==
  \A e \in Exports : verdict[e] = "ok" => RowsOf[e] \subseteq stored \/ e \in taken

\* Once a group has been answered nothing of it waits in an appender: what an
\* exporter retries cannot be joined later by a row it was told had failed.
AnsweredIsSettled ==
  \A e \in Exports : verdict[e] \in {"ok", "error"} => RowsOf[e] \cap Held = {}

\* The exports whose rows are in their tables, and those of OnlyTakenIsLost once
\* their group's barrier has been crossed.
Durable ==
  {e \in Exports : RowsOf[e] \subseteq stored \/ (e \in taken /\ (e \in group => step = "answer"))}

Promise == INSTANCE ExportContract WITH answer <- verdict, durable <- Durable, published <- {}

\* The executor and the appenders keep the contract the coordinator states,
\* but for the exports of OnlyTakenIsLost.
KeepsContract == Promise!Spec

-----------------------------------------------------------------------------
(* The inductive invariant behind AcknowledgedIsStored.                    *)

\* The rows the group's callbacks have taken on so far.
Taken == (UNION {RowsOf[e] : e \in group \ (left \cup expired)}) \ todo

\* No failure has happened, or none that the barrier would miss.
Unharmed == failureVersion = since \/ (group \cap taken = {} /\ ~flushErr)

\* A group no callback of which failed, and nothing else unnoticed, has its
\* rows in the appenders or the tables; after the barrier, in the tables.
GroupRows ==
  ~failed =>
    /\ step = "run" /\ Unharmed => Taken \subseteq Held \cup stored
    /\ step = "compare" /\ failureVersion = since => Taken \subseteq stored
    /\ step = "answer" /\ group \cap taken = {} => Taken \subseteq stored

\* Where the executor is, and what it works on.
Executor ==
  /\ step # "run" => left = {} /\ current = None
  /\ step = "idle" => group = {}
  /\ step # "idle" => closing = "no"
  /\ current = None => todo = {}
  /\ current # None => current \notin left /\ todo \subseteq RowsOf[current]
  /\ instrument => Instrumented # {}
  /\ \A e \in group : verdict[e] = "pending"
  /\ group \subseteq taken \/ group \cap taken = {}
  /\ group \cap taken # {} =>
       \/ step = "run" /\ failureVersion # since
       \/ step = "answer" /\ instrument
  /\ \A e \in taken : verdict[e] \in {"ok", "error"} \/ e \in group
  /\ taken \subseteq group \/ Instrumented # {}
  /\ Traces = {} => taken = {}
  /\ closing # "no" => \A e \in Exports : verdict[e] # "pending"

StorageInv == StorageTypeOK /\ Executor /\ GroupRows /\ OnlyTakenIsLost

=============================================================================
