--------------------------- MODULE PhysicalRewrite ---------------------------
(***************************************************************************)
(* The physical rewrite of the database file (internal/storage/physical.go,*)
(* physical_copy.go) and the opening of it (db.go): the serving pool is    *)
(* drained and closed, the live contents are copied to a candidate, two    *)
(* renames put it in the place of the file, and the pool is opened again.  *)
(* A step of the file system may fail and the process may stop at any one. *)
(*                                                                         *)
(* A file is the rows of its tables and what index reclamation keeps in it *)
(* (ReclaimIndexes.tla).  The native appenders are those of AppendBatcher: *)
(* here they write a row, or are closed.  A transaction holds one lease of *)
(* the pool, and there are fewer of them than leases.                      *)
(***************************************************************************)
EXTENDS Naturals, FiniteSets

CONSTANTS
    MaxRows,    \* bound: rows ever written, numbered by age
    Clients,    \* those who run transactions
    MaxFaults,  \* bound: failures and crashes
    NoFile

ASSUME RewriteAssumption == MaxRows \in Nat /\ MaxFaults \in Nat

VARIABLES
    main,       \* the file at DB.path
    old,        \* ".repack-old"
    candidate,  \* the file in the temporary directory
    process,    \* "down", "recovered" (the swap), "opened" (the pool) or "up"
    pool,       \* whether the serving pool is open
    appenders,  \* whether they are, on this pool
    leased,     \* the clients in a transaction
    pc,         \* where the holder of maintenanceMu is
    failed,     \* the err of the rewrite under way
    written,    \* the rows written so far
    stored,     \* history: the rows committed and not deleted since
    broken,     \* history: a rename failed, and its undoing too
    faults

files == <<main, old, candidate>>
serving == <<process, pool, appenders>>
rewriteVars == <<files, serving, leased, pc, failed, written, stored, broken, faults>>

Rows == 1..MaxRows
NoTable == {0}

\* A database: its rows, the deleted ones that still take space, whether the
\* nonunique indexes are there, whether the journal holds an active plan to
\* restore them, and the staging copy of the table.
File == [rows : SUBSET Rows, dead : SUBSET Rows,
         indexed : BOOLEAN, planned : BOOLEAN, staged : (SUBSET Rows) \cup {NoTable}]
NewFile == [rows |-> {}, dead |-> {}, indexed |-> TRUE, planned |-> FALSE, staged |-> NoTable]

ASSUME NoFileAssumption == NoFile \notin File

RewriteInit ==
    /\ main = NewFile /\ old = NoFile /\ candidate = NoFile
    /\ process = "up" /\ pool = TRUE /\ appenders = TRUE
    /\ leased = {} /\ pc = "idle" /\ failed = FALSE
    /\ written = 0 /\ stored = {} /\ broken = FALSE /\ faults = 0

Fault == faults < MaxFaults /\ faults' = faults + 1

(***************************************************************************)
(* Writers.  The batcher's mutex keeps the appenders out of maintenance    *)
(* and of a rewrite.  Transactions are kept out of a rewrite by the gate of *)
(* the pool, and out of maintenance once it has taken the free leases.     *)
(***************************************************************************)
Unlocked == {"idle", "measure", "evicted", "rewritten", "failed"}

Write ==
    /\ written < MaxRows /\ written' = written + 1
    /\ main' = [main EXCEPT !.rows = @ \cup {written + 1}]
    /\ stored' = stored \cup {written + 1}

Append ==
    /\ process = "up" /\ appenders /\ pc \in Unlocked
    /\ Write
    /\ UNCHANGED <<old, candidate, serving, leased, pc, failed, broken, faults>>

Begin(c) ==
    /\ process = "up" /\ pool /\ pc \in Unlocked \cup {"rewrite"}
    /\ c \notin leased /\ leased' = leased \cup {c}
    /\ UNCHANGED <<files, serving, pc, failed, written, stored, broken, faults>>

\* A transaction ends, with a row or without one.
End(c) ==
    /\ c \in leased /\ leased' = leased \ {c}
    /\ \/ main # NoFile /\ Write
       \/ UNCHANGED <<main, written, stored>>
    /\ UNCHANGED <<old, candidate, serving, pc, failed, broken, faults>>

(***************************************************************************)
(* rewritePhysicalLocked, from its caller's "rewrite" to "rewritten" or    *)
(* "failed".                                                               *)
(***************************************************************************)
Step(from, to) == process = "up" /\ pc = from /\ pc' = to

CloseAppenders ==
    /\ Step("rewrite", "drain") /\ appenders' = FALSE
    /\ UNCHANGED <<files, process, pool, leased, failed, written, stored, broken, faults>>

\* They are opened again on the pool as it is, if that is open.
CloseAppendersFails ==
    /\ Step("rewrite", "failed") /\ Fault /\ appenders' = pool
    /\ UNCHANGED <<files, process, pool, leased, failed, written, stored, broken>>

\* Every lease was taken within thirty seconds, released, and the pool closed.
Drained == leased = {}

ClosePool ==
    /\ Step("drain", "copy") /\ pool /\ Drained
    /\ pool' = FALSE /\ failed' = FALSE
    /\ UNCHANGED <<files, process, appenders, leased, written, stored, broken, faults>>

ClosePoolFails ==
    /\ Step("drain", "reopen") /\ pool /\ Drained /\ Fault
    /\ pool' = FALSE /\ failed' = TRUE
    /\ UNCHANGED <<files, process, appenders, leased, written, stored, broken>>

\* A transaction outlasts the thirty seconds, or the pool was closed before.
DrainFails ==
    /\ Step("drain", "failed") /\ appenders' = pool
    /\ IF pool THEN ~Drained /\ Fault ELSE UNCHANGED faults
    /\ UNCHANGED <<files, process, pool, leased, failed, written, stored, broken>>

\* The copy has the tables, the journal with them, and none of the holes.  It
\* is opened, closed and synchronised before the file is touched.
Copy ==
    /\ Step("copy", "discard")
    /\ candidate' = [main EXCEPT !.dead = {}]
    /\ UNCHANGED <<main, old, serving, leased, failed, written, stored, broken, faults>>

DiscardOld ==
    /\ Step("discard", "away")
    /\ old' = NoFile
    /\ UNCHANGED <<main, candidate, serving, leased, failed, written, stored, broken, faults>>

RenameAway ==
    /\ Step("away", "in")
    /\ old' = main /\ main' = NoFile
    /\ UNCHANGED <<candidate, serving, leased, failed, written, stored, broken, faults>>

RenameIn ==
    /\ Step("in", "reopen")
    /\ main' = candidate /\ candidate' = NoFile
    /\ UNCHANGED <<old, serving, leased, failed, written, stored, broken, faults>>

\* One of them fails; the temporary directory is removed.
RewriteStepFails ==
    /\ pc \in {"copy", "discard", "away"} /\ Step(pc, "reopen") /\ Fault
    /\ candidate' = NoFile /\ failed' = TRUE
    /\ UNCHANGED <<main, old, serving, leased, written, stored, broken>>

\* So does the second rename, whose undoing is one more operation that may.
RenameInFails ==
    /\ Step("in", "reopen") /\ Fault
    /\ candidate' = NoFile /\ failed' = TRUE
    /\ main' = old /\ old' = NoFile
    /\ UNCHANGED <<serving, leased, written, stored, broken>>

RenameBackFails ==
    /\ Step("in", "reopen") /\ faults + 2 <= MaxFaults /\ faults' = faults + 2
    /\ candidate' = NoFile /\ failed' = TRUE /\ broken' = TRUE
    /\ UNCHANGED <<main, old, serving, leased, written, stored>>

\* Opening creates a file that is not there; it has no tables for the appenders
\* to bind to.
PoolReopened ==
    /\ process = "up" /\ pc = "reopen"
    /\ pool' = TRUE /\ appenders' = (main # NoFile)
    /\ main' = IF main = NoFile THEN NewFile ELSE main
    /\ UNCHANGED <<candidate, process, leased, failed, written, stored, broken>>

\* Removing the old file may fail, which nobody minds.
Reopen ==
    /\ PoolReopened
    /\ pc' = IF failed THEN "failed" ELSE "rewritten"
    /\ IF failed THEN UNCHANGED <<old, faults>>
       ELSE \/ old' = NoFile /\ UNCHANGED faults
            \/ UNCHANGED old /\ Fault

\* An appender is not: that fails the rewrite, although the renames were made.
\* The next append of its rows opens it.
ReopenAppenderFails ==
    /\ PoolReopened
    /\ pc' = "failed" /\ Fault /\ UNCHANGED old

\* Nothing opens this pool again until the process is restarted.
ReopenFails ==
    /\ Step("reopen", "failed") /\ Fault
    /\ UNCHANGED <<files, serving, leased, failed, written, stored, broken>>

(***************************************************************************)
(* The process stops, losing what it has in memory, and Open starts again. *)
(***************************************************************************)
Stop ==
    /\ process # "down" /\ Fault
    /\ process' = "down" /\ pool' = FALSE /\ appenders' = FALSE
    /\ leased' = {} /\ pc' = "idle" /\ failed' = FALSE /\ candidate' = NoFile
    /\ UNCHANGED <<main, old, written, stored, broken>>

\* recoverPhysicalSwap.
SwapIgnored == <<main, old>>  \* mutant: Open does without it
SwapRecovered == IF main = NoFile /\ old # NoFile THEN <<old, NoFile>> ELSE <<main, old>>

RecoverSwap ==
    /\ process = "down" /\ process' = "recovered"
    /\ main' = SwapRecovered[1] /\ old' = SwapRecovered[2]
    /\ UNCHANGED <<candidate, pool, appenders, leased, pc, failed, written, stored, broken, faults>>

OpenPool ==
    /\ process = "recovered" /\ process' = "opened" /\ pool' = TRUE
    /\ main' = IF main = NoFile THEN NewFile ELSE main
    /\ UNCHANGED <<old, candidate, appenders, leased, pc, failed, written, stored, broken, faults>>

Rewriting ==
    \/ CloseAppenders \/ ClosePool \/ Copy \/ DiscardOld \/ RenameAway \/ RenameIn \/ Reopen

RewriteFailure ==
    \/ CloseAppendersFails \/ ClosePoolFails \/ DrainFails
    \/ RewriteStepFails \/ RenameInFails \/ RenameBackFails \/ ReopenAppenderFails \/ ReopenFails

Writing == Append \/ \E c \in Clients : Begin(c) \/ End(c)

-----------------------------------------------------------------------------
RewriteTypeOK ==
    /\ main \in File \cup {NoFile} /\ old \in File \cup {NoFile} /\ candidate \in File \cup {NoFile}
    /\ process \in {"down", "recovered", "opened", "up"}
    /\ pool \in BOOLEAN /\ appenders \in BOOLEAN /\ leased \subseteq Clients
    /\ failed \in BOOLEAN /\ broken \in BOOLEAN
    /\ written \in 0..MaxRows /\ stored \subseteq Rows /\ faults \in 0..MaxFaults

(* "The old file remains authoritative until the complete candidate is     *)
(* synced": whenever the process stops, the file that the next Open takes  *)
(* has exactly the rows that were committed and not deleted, unless both a *)
(* rename and its undoing failed.                                          *)
Authoritative == IF main # NoFile THEN main ELSE old
DatabaseIntact ==
    ~broken => Authoritative # NoFile /\ Authoritative.rows = stored

=============================================================================
