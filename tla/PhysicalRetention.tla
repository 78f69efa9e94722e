-------------------------- MODULE PhysicalRetention --------------------------
(***************************************************************************)
(* Retention by the size of the file (DB.PrunePhysical in                  *)
(* internal/storage/physical.go, over Prune and deleteOldestTelemetryBatch *)
(* of retention.go) on top of rewrites and reclamation.                    *)
(*                                                                         *)
(* A pass of the storage guard either rewrites the file or evicts the      *)
(* oldest rows and rewrites it; a pass of an operator rewrites and then    *)
(* evicts and rewrites until the file is small enough.  The fraction that  *)
(* is evicted is any number of rows up to a half of them.  The guard's own *)
(* policy is StorageGuard.tla; here it runs whenever the file is too big.  *)
(***************************************************************************)
EXTENDS ReclaimIndexes

CONSTANT Cap  \* RetentionConfig.MaxDBSizeBytes, in blocks

ASSUME RetentionAssumption == Cap \in Nat

VARIABLES
    ready,     \* retentionPhysicalReady: fragmentation was reclaimed
    recent,    \* retentionPhysicalLast is not ten minutes ago
    backing,   \* retentionRetry is ahead
    manual,    \* whether the pass is an operator's
    evicting,  \* whether the rewrite follows an eviction
    before,    \* the size measured before that
    evicted    \* history: the rows evicted for their size

retention == <<ready, recent, backing, manual, evicting, before, evicted>>
vars == <<reclaimVars, retention>>

\* Rows and holes fill blocks of two.
Blocks(rows) == (Cardinality(rows) + 1) \div 2
Copies(db) == IF db.staged = NoTable THEN {} ELSE db.staged
Size == IF main = NoFile THEN 0 ELSE Blocks(main.rows \cup main.dead) + Blocks(Copies(main))

Init ==
    /\ ReclaimInit
    /\ ready = FALSE /\ recent = FALSE /\ backing = FALSE
    /\ manual = FALSE /\ evicting = FALSE /\ before = 0 /\ evicted = {}

(***************************************************************************)
(* The pass.  Below the cap it has nothing to do.                          *)
(***************************************************************************)
BelowCap ==
    /\ process = "up" /\ pc = "idle" /\ Size <= Cap /\ ready
    /\ ready' = FALSE
    /\ UNCHANGED <<reclaimVars, recent, backing, manual, evicting, before, evicted>>

\* Rewriting comes before evicting, unless it has just been done.
ReclaimFirst == ~ready /\ ~recent

BeginPass ==
    /\ process = "up" /\ pc = "idle" /\ Size > Cap
    /\ \E man \in BOOLEAN :
         /\ man \/ ~backing
         /\ manual' = man
         /\ pc' = IF man \/ ReclaimFirst THEN "rewrite" ELSE "measure"
    /\ evicting' = FALSE
    /\ UNCHANGED <<main, other, job, unrestored, faults, ready, recent, backing, before, evicted>>

Measure ==
    /\ process = "up" /\ pc = "measure"
    /\ IF Size <= Cap
       THEN pc' = "idle" /\ ready' = FALSE /\ UNCHANGED <<job, before>>
       ELSE pc' = "pause" /\ job' = "evict" /\ before' = Size /\ UNCHANGED ready
    /\ UNCHANGED <<main, other, unrestored, faults, recent, backing, manual, evicting, evicted>>

\* deleteOldestTelemetryBatch, in one transaction.
Oldest(n) == {r \in main.rows : Cardinality({q \in main.rows : q <= r}) <= n}

Delete(rows) ==
    /\ main' = [main EXCEPT !.rows = @ \ rows, !.dead = @ \cup rows]
    /\ stored' = stored \ rows

Evict ==
    /\ Step("evict", "evicted") /\ main.rows # {}
    /\ \E n \in 1..((Cardinality(main.rows) + 1) \div 2) :
         Delete(Oldest(n)) /\ evicted' = evicted \cup Oldest(n)
    /\ job' = "none"
    /\ UNCHANGED <<old, candidate, serving, leased, failed, written, broken, faults, unrestored,
                   ready, recent, backing, manual, evicting, before>>

EvictFails ==
    /\ Step("evict", "failed") /\ Fault
    /\ UNCHANGED <<main, other, job, unrestored, retention>>

\* The target cannot be reached by deleting: the pass ends in a soft error.
GiveUp ==
    /\ pc' = "idle" /\ job' = "none"
    /\ ready' = FALSE /\ recent' = FALSE /\ backing' = (backing \/ ~manual)

NothingToEvict ==
    /\ process = "up" /\ pc = "evict" /\ main.rows = {} /\ GiveUp
    /\ UNCHANGED <<main, other, unrestored, faults, manual, evicting, before, evicted>>

RewriteEvicted ==
    /\ Step("evicted", "rewrite") /\ evicting' = TRUE
    /\ UNCHANGED <<main, other, job, unrestored, faults, ready, recent, backing, manual, before, evicted>>

\* The rewrite is done; that is all of an automatic pass.
NeverReady == FALSE  \* mutant: no pass may evict but within the ten minutes
StillTooBig == Size > Cap

PassGoesOn ==
    /\ process = "up" /\ pc = "rewritten" /\ ~(evicting /\ Size >= before)
    /\ pc' = IF manual THEN "measure" ELSE "idle"
    /\ ready' = StillTooBig /\ recent' = TRUE
    /\ UNCHANGED <<main, other, job, unrestored, faults, backing, manual, evicting, before, evicted>>

NoProgress ==
    /\ process = "up" /\ pc = "rewritten" /\ evicting /\ Size >= before /\ GiveUp
    /\ UNCHANGED <<main, other, unrestored, faults, manual, evicting, before, evicted>>

\* A failed pass forgets that it has rewritten the file.
ForgetsReadyOnly == ready' = FALSE /\ UNCHANGED recent  \* mutant
Forgets == ready' = FALSE /\ recent' = FALSE

PassFails ==
    /\ Step("failed", "idle") /\ job \in {"none", "evict"} /\ Forgets /\ job' = "none"
    /\ UNCHANGED <<main, other, unrestored, faults, backing, manual, evicting, before, evicted>>

BackoffEnds ==
    /\ backing /\ backing' = FALSE
    /\ UNCHANGED <<reclaimVars, ready, recent, manual, evicting, before, evicted>>

TenMinutesPass ==
    /\ recent /\ recent' = FALSE
    /\ UNCHANGED <<reclaimVars, ready, backing, manual, evicting, before, evicted>>

(***************************************************************************)
(* Retention by age and count deletes sessions of any age.                 *)
(***************************************************************************)
Expire ==
    /\ Step("idle", "pause") /\ pool /\ main.rows # {} /\ job' = "expire"
    /\ UNCHANGED <<main, other, unrestored, faults, retention>>

DeleteExpired ==
    /\ Step("expire", "done")
    /\ \E rows \in SUBSET main.rows : rows # {} /\ Delete(rows)
    /\ UNCHANGED <<old, candidate, serving, leased, failed, written, broken, faults, job, unrestored, retention>>

ExpireReturns ==
    /\ job = "expire" /\ pc \in {"done", "failed"} /\ Step(pc, "idle") /\ job' = "none"
    /\ UNCHANGED <<main, other, unrestored, faults, retention>>

\* The process stops: what it had in memory starts afresh with the next Open.
Crash ==
    /\ Stop /\ job' = "none" /\ unrestored' = FALSE
    /\ ready' = FALSE /\ recent' = FALSE /\ backing' = FALSE
    /\ manual' = FALSE /\ evicting' = FALSE /\ before' = 0
    /\ UNCHANGED evicted

Restart ==
    \/ (RecoverSwap \/ OpenPool) /\ UNCHANGED <<job, unrestored, retention>>
    \/ Open /\ UNCHANGED retention

Maintenance ==
    \/ Rewriting /\ UNCHANGED <<job, unrestored, retention>>
    \/ Reclaiming /\ UNCHANGED retention
    \/ BelowCap \/ Measure \/ Evict \/ NothingToEvict \/ RewriteEvicted
    \/ PassGoesOn \/ NoProgress \/ PassFails \/ DeleteExpired \/ ExpireReturns

Failure ==
    \/ RewriteFailure /\ UNCHANGED <<job, unrestored, retention>>
    \/ ReclaimFailure /\ UNCHANGED retention
    \/ EvictFails \/ Crash

Next ==
    \/ Writing /\ UNCHANGED <<job, unrestored, retention>>
    \/ Maintenance \/ BeginPass \/ Failure \/ Restart \/ BackoffEnds \/ TenMinutesPass
    \/ Expire \/ (Compact /\ UNCHANGED retention)

Spec == Init /\ [][Next]_vars

\* Maintenance and Open go on, transactions end, the guard comes round, and a
\* backoff is of minutes.
FairSpec ==
    /\ Spec
    /\ WF_vars(Maintenance) /\ WF_vars(BeginPass) /\ WF_vars(Restart) /\ WF_vars(BackoffEnds)
    /\ \A c \in Clients : WF_vars(End(c) /\ UNCHANGED <<job, unrestored, retention>>)

-----------------------------------------------------------------------------
TypeOK ==
    /\ RewriteTypeOK
    /\ pc \in Unlocked \cup {"rewrite", "drain", "copy", "discard", "away", "in", "reopen", "pause",
              "recover", "compact", "expire", "evict", "vacuum", "stage", "swap", "restore",
              "checkpoint", "cleanup", "done"}
    /\ job \in {"none", "evict", "expire", "compact"} /\ unrestored \in BOOLEAN
    /\ ready \in BOOLEAN /\ recent \in BOOLEAN /\ backing \in BOOLEAN
    /\ manual \in BOOLEAN /\ evicting \in BOOLEAN /\ before \in Nat
    /\ evicted \subseteq Rows

DatabaseInv == TypeOK /\ DatabaseIntact

(* "A failed copy can leave committed tombstones in the authoritative file. *)
(* Retry their reclamation before allowing another live eviction": no row   *)
(* is evicted while one that was evicted before still takes space.          *)
EvictsOnlyReclaimed ==
    [][evicted' # evicted => main.dead \cap evicted = {}]_vars

(* The file comes back below the cap by itself: passes that rewrite, evict, *)
(* make no progress or fail do not chase each other for ever, as long as    *)
(* the pool could be opened again.                                          *)
CapRegained == <>[](broken \/ ~pool \/ Size <= Cap)

=============================================================================
