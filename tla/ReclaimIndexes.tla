--------------------------- MODULE ReclaimIndexes ---------------------------
(***************************************************************************)
(* Exclusive maintenance (internal/storage/maintenance.go) and the         *)
(* reclamation of deleted rows in place (reclaim.go, reclaim_indexes.go).  *)
(* The nonunique indexes of a table are dropped in the transaction that    *)
(* journals how to restore them; the table is vacuumed or copied; and the  *)
(* transaction that restores them, or swaps the copy in, ends the plan.    *)
(* A plan that was left is carried out by the next maintenance or Open.    *)
(*                                                                         *)
(* There is one table, without constraints.                                *)
(***************************************************************************)
EXTENDS PhysicalRewrite

VARIABLES
    job,        \* what the maintenance is for: "none", "evict", "expire" or "compact"
    unrestored  \* history: carrying out the plan failed

reclaimVars == <<rewriteVars, job, unrestored>>
other == <<old, candidate, serving, leased, failed, written, stored, broken>>

ReclaimInit == RewriteInit /\ job = "none" /\ unrestored = FALSE

(***************************************************************************)
(* withMaintenance: the appenders are suspended, the leases are taken, and *)
(* a plan that is pending is carried out first.  Then comes the job.       *)
(***************************************************************************)
DrainForJob ==
    /\ Step("pause", "recover") /\ Drained
    /\ UNCHANGED <<main, other, job, unrestored, faults>>

DrainForJobFails ==
    /\ Step("pause", "failed") /\ ~Drained /\ Fault
    /\ UNCHANGED <<main, other, job, unrestored>>

\* restoreReclaimIndexPlan, of a database; its journal is the last to know.
Restored(db) == [db EXCEPT !.indexed = TRUE, !.planned = FALSE, !.staged = NoTable]

\* recoverReclaimIndexes.
Recovered(db) == IF db.planned THEN Restored(db) ELSE db

RecoverPlan ==
    /\ Step("recover", job)
    /\ main' = Recovered(main) /\ unrestored' = FALSE
    /\ UNCHANGED <<other, job, faults>>

\* The restoration fails, or the checkpoint after it.
RecoverPlanFails ==
    /\ Step("recover", "failed") /\ main.planned /\ Fault
    /\ \/ unrestored' = TRUE /\ UNCHANGED main
       \/ unrestored' = FALSE /\ main' = Restored(main)
    /\ UNCHANGED <<other, job>>

(***************************************************************************)
(* Compact: the table is rebuilt if it has deleted rows.                   *)
(***************************************************************************)
Compact ==
    /\ Step("idle", "pause") /\ pool
    /\ main.dead # {} \/ main.planned
    /\ job' = "compact"
    /\ UNCHANGED <<main, other, unrestored, faults>>

NothingToReclaim ==
    /\ Step("compact", "done") /\ main.dead = {}
    /\ UNCHANGED <<main, other, job, unrestored, faults>>

\* saveAndDropReclaimIndexes, which refuses while a plan is pending.
SuspendedUnjournalled == [main EXCEPT !.indexed = FALSE]  \* mutant: nothing is journalled
Suspended == [main EXCEPT !.planned = TRUE, !.indexed = FALSE]

Suspend ==
    /\ Step("compact", "vacuum") /\ main.dead # {} /\ ~main.planned
    /\ main' = Suspended
    /\ UNCHANGED <<other, job, unrestored, faults>>

\* A checkpoint.  Whether it gives up the deleted rows depends on where they are.
Vacuum ==
    /\ \/ Step("vacuum", "restore") /\ main' = [main EXCEPT !.dead = {}]
       \/ Step("vacuum", "stage") /\ UNCHANGED main
    /\ UNCHANGED <<other, job, unrestored, faults>>

Stage ==
    /\ Step("stage", "swap")
    /\ main' = [main EXCEPT !.staged = main.rows]
    /\ UNCHANGED <<other, job, unrestored, faults>>

Swap ==
    /\ Step("swap", "checkpoint")
    /\ main' = Restored([main EXCEPT !.rows = main.staged, !.dead = {}])
    /\ UNCHANGED <<other, job, unrestored, faults>>

RestoreIndexes ==
    /\ Step("restore", "checkpoint") /\ main' = Restored(main)
    /\ UNCHANGED <<other, job, unrestored, faults>>

FinalCheckpoint ==
    /\ Step("checkpoint", "done")
    /\ UNCHANGED <<main, other, job, unrestored, faults>>

\* Any of these fails and its transaction is undone.  Before the suspension
\* that is all; after it, the plan is carried out with eight more seconds.
SuspendFails ==
    /\ Step("compact", "failed") /\ main.dead # {} /\ Fault
    /\ UNCHANGED <<main, other, job, unrestored>>

ReclaimFails ==
    /\ pc \in {"vacuum", "stage", "swap", "restore", "checkpoint"} /\ Step(pc, "cleanup") /\ Fault
    /\ UNCHANGED <<main, other, job, unrestored>>

Cleanup ==
    /\ Step("cleanup", "failed") /\ main' = Recovered(main)
    /\ UNCHANGED <<other, job, unrestored, faults>>

CleanupFails ==
    /\ Step("cleanup", "failed") /\ main.planned /\ Fault
    /\ unrestored' = TRUE
    /\ UNCHANGED <<main, other, job>>

\* The appenders are resumed and the operator has an answer.
CompactReturns ==
    /\ job = "compact" /\ pc \in {"done", "failed"} /\ Step(pc, "idle")
    /\ job' = "none"
    /\ UNCHANGED <<main, other, unrestored, faults>>

(***************************************************************************)
(* Open, after the swap: the plans, then the migrations and the appenders. *)
(***************************************************************************)
Open ==
    /\ process = "opened" /\ process' = "up" /\ appenders' = TRUE
    /\ main' = Recovered(main) /\ unrestored' = FALSE
    /\ UNCHANGED <<old, candidate, pool, leased, pc, failed, written, stored, broken, faults, job>>

Reclaiming ==
    \/ DrainForJob \/ RecoverPlan \/ NothingToReclaim \/ Suspend \/ Vacuum \/ Stage \/ Swap
    \/ RestoreIndexes \/ FinalCheckpoint \/ Cleanup \/ CompactReturns

ReclaimFailure ==
    \/ DrainForJobFails \/ RecoverPlanFails \/ SuspendFails \/ ReclaimFails \/ CleanupFails

-----------------------------------------------------------------------------
(* Whenever ingestion goes on, after any compaction, rewrite or restart,   *)
(* the indexes are all there and no copy is left over, unless restoring    *)
(* them failed: then the journal still has the plan that will.             *)
IndexesRestored ==
    process = "up" /\ pool /\ pc \in Unlocked =>
        \/ main.indexed /\ main.staged = NoTable
        \/ unrestored /\ main.planned

=============================================================================
