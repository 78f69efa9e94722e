---------------------------- MODULE PhysicalProofs ----------------------------
(***************************************************************************)
(* DatabaseInv, IndexesRestored and EvictsOnlyReclaimed for any number of  *)
(* rows, transactions, failures and stops, and any cap.                    *)
(*                                                                         *)
(* Nothing is said of a file by itself: the file that is authoritative     *)
(* changes with the renames, so the invariant says which file has the rows *)
(* at each step of a rewrite (FilesInv), who can write to it (ServingInv), *)
(* what the journal of each file holds (JournalInv), and at which steps an *)
(* evicted row may still take space (EvictionInv).                         *)
(***************************************************************************)
EXTENDS PhysicalRetention, TLAPS, FiniteSetTheorems

\* The steps at which transactions are kept out, those without a pool, and
\* those between the suspension of the indexes and their restoration.
Detached == {"copy", "discard", "away", "in", "reopen"}
Exclusive == Detached \cup {"recover", "compact", "expire", "evict", "vacuum", "stage", "swap",
                            "restore", "checkpoint", "cleanup"}
Suspending == {"vacuum", "stage", "swap", "restore"}
Inside == Suspending \cup {"cleanup"}

ServingInv ==
    /\ process # "up" => pc = "idle" /\ leased = {} /\ ~appenders
    /\ process \in {"down", "recovered"} => ~pool
    /\ pc \in Exclusive => leased = {}
    /\ pc \in Detached => ~pool
    /\ pc \in Detached \cup {"drain"} => ~appenders
    /\ main = NoFile => ~pool /\ ~appenders /\ process # "opened"
                        /\ (process = "up" => pc \in {"in", "reopen", "failed", "idle"})

JobInv ==
    /\ pc \in Detached \cup {"idle", "rewrite", "drain", "rewritten", "measure", "evicted"} => job = "none"
    /\ pc \in {"pause", "recover"} => job # "none"
    /\ pc \in {"evict", "expire", "compact"} => job = pc

\* The candidate is the file it is to replace, without its holes.
FilesInv ==
    /\ pc \in {"discard", "away"} => main # NoFile /\ candidate = [main EXCEPT !.dead = {}]
    /\ pc = "in" => main = NoFile /\ old # NoFile /\ candidate = [old EXCEPT !.dead = {}]
    /\ pc = "swap" => main.staged = main.rows
    /\ process = "recovered" /\ main = NoFile => old = NoFile
    /\ process = "up" /\ main = NoFile /\ pc # "in" => broken
    /\ DatabaseIntact

Whole(db) == db.indexed /\ db.staged = NoTable

JournalInv ==
    /\ main # NoFile => Whole(main) \/ main.planned
    /\ old # NoFile => Whole(old) \/ old.planned
    /\ pc \in Suspending => main.planned
    /\ process = "up" /\ main # NoFile /\ pc \notin Inside => Whole(main) \/ unrestored
    /\ pc = "in" => Whole(old) \/ unrestored

Unreclaimed == main # NoFile /\ main.dead \cap evicted # {}

EvictionInv ==
    /\ evicted \subseteq 1..written
    /\ main # NoFile => main.rows \subseteq 1..written /\ main.rows \cap evicted = {}
    /\ old # NoFile => old.rows \subseteq 1..written
    /\ main = NoFile /\ old # NoFile => old.rows \cap evicted = {}
    /\ process # "up" => ~ready /\ ~recent
    /\ pc = "reopen" /\ ~failed => ~Unreclaimed
    /\ pc \in {"rewritten", "measure"} => ~Unreclaimed
    /\ pc \in {"pause", "recover", "evict"} /\ job = "evict" => ~Unreclaimed
    /\ Unreclaimed =>
         \/ ~ready /\ ~recent
         \/ job = "none" /\ pc \in Detached \cup {"evicted", "rewrite", "drain", "failed"}

PhysicalInv == TypeOK /\ ServingInv /\ JobInv /\ FilesInv /\ JournalInv /\ EvictionInv

-----------------------------------------------------------------------------
(* Files.                                                                  *)

LEMMA FileRecord ==
  ASSUME NEW r \in SUBSET Rows, NEW d \in SUBSET Rows, NEW i \in BOOLEAN, NEW p \in BOOLEAN,
         NEW s \in (SUBSET Rows) \cup {NoTable}
  PROVE  [rows |-> r, dead |-> d, indexed |-> i, planned |-> p, staged |-> s] \in File
  BY DEF File

LEMMA NewFileFacts == NewFile \in File /\ NewFile # NoFile
  <1>1. TRUE \in BOOLEAN /\ FALSE \in BOOLEAN
    BY Zenon
  <1>2. {} \in SUBSET Rows /\ NoTable \in (SUBSET Rows) \cup {NoTable}
    OBVIOUS
  <1>3. NewFile \in File
    BY <1>1, <1>2, FileRecord, Zenon DEF NewFile
  <1> QED
    BY <1>3, NoFileAssumption

LEMMA MarkedFile ==
  ASSUME NEW db \in File, NEW i \in BOOLEAN, NEW p \in BOOLEAN,
         NEW s \in (SUBSET Rows) \cup {NoTable}
  PROVE  /\ [db EXCEPT !.indexed = i, !.planned = p, !.staged = s] \in File
         /\ [db EXCEPT !.planned = p, !.indexed = i] \in File
  BY DEF File

\* Carrying out a plan leaves the rows alone.
LEMMA RestoredFile ==
  ASSUME NEW db \in File
  PROVE  /\ Restored(db) \in File
         /\ Restored(db).rows = db.rows /\ Restored(db).dead = db.dead
         /\ Whole(Restored(db)) /\ ~Restored(db).planned
  <1>1. TRUE \in BOOLEAN /\ FALSE \in BOOLEAN
    BY Zenon
  <1>2. NoTable \in (SUBSET Rows) \cup {NoTable}
    OBVIOUS
  <1>3. Restored(db) \in File
    BY <1>1, <1>2, MarkedFile, Zenon DEF Restored
  <1> QED
    BY <1>3 DEF Restored, Whole

LEMMA RecoveredFile ==
  ASSUME NEW db \in File
  PROVE  /\ Recovered(db) \in File
         /\ Recovered(db).rows = db.rows /\ Recovered(db).dead = db.dead
         /\ ~Recovered(db).planned
         /\ Whole(db) \/ db.planned => Whole(Recovered(db))
  BY RestoredFile DEF Recovered

LEMMA SuspendedFile ==
  ASSUME main \in File
  PROVE  /\ Suspended \in File /\ Suspended.planned
         /\ Suspended.rows = main.rows /\ Suspended.dead = main.dead
  <1>1. TRUE \in BOOLEAN /\ FALSE \in BOOLEAN
    BY Zenon
  <1>2. Suspended \in File
    BY <1>1, MarkedFile, Zenon DEF Suspended
  <1> QED
    BY <1>2 DEF Suspended

\* The copy that is swapped in has the rows it was made from.
LEMMA SwappedFile ==
  ASSUME main \in File, main.staged = main.rows,
         main' = Restored([main EXCEPT !.rows = main.staged, !.dead = {}])
  PROVE  /\ main' \in File /\ main'.rows = main.rows /\ main'.dead = {}
         /\ Whole(main') /\ ~main'.planned
  <1> DEFINE db == [main EXCEPT !.rows = main.staged, !.dead = {}]
  <1>1. db \in File /\ db.rows = main.rows /\ db.dead = {}
    BY DEF File
  <1>2. main' = Restored(db)
    OBVIOUS
  <1> HIDE DEF db
  <1> QED
    BY <1>1, <1>2, RestoredFile

LEMMA DeletedFile ==
  ASSUME main \in File, NEW R \in SUBSET main.rows, Delete(R)
  PROVE  /\ main' \in File /\ main'.rows = main.rows \ R /\ main'.dead = main.dead \cup R
         /\ main'.indexed = main.indexed /\ main'.planned = main.planned /\ main'.staged = main.staged
         /\ stored' = stored \ R
  BY DEF Delete, File

LEMMA SizeFacts ==
  ASSUME main \in File \cup {NoFile}
  PROVE  Size \in Nat /\ (main = NoFile => Size = 0)
  <1>1. ASSUME NEW S \in SUBSET Rows
        PROVE  Blocks(S) \in Nat
    <2>1. IsFiniteSet(Rows)
      BY RewriteAssumption, FS_Interval DEF Rows
    <2>2. Cardinality(S) \in Nat
      BY <2>1, FS_Subset, FS_CardinalityType
    <2> QED
      BY <2>2 DEF Blocks
  <1>2. CASE main = NoFile
    BY <1>2 DEF Size
  <1>3. CASE main # NoFile
    <2>1. main.rows \cup main.dead \in SUBSET Rows
      BY <1>3 DEF File
    <2>2. Copies(main) \in SUBSET Rows
      BY <1>3 DEF File, Copies
    <2> QED
      BY <1>1, <1>3, <2>1, <2>2 DEF Size
  <1> QED
    BY <1>2, <1>3

-----------------------------------------------------------------------------
LEMMA WritingStep ==
  ASSUME PhysicalInv, Writing /\ UNCHANGED <<job, unrestored, retention>>
  PROVE  PhysicalInv'
  <1>1. TypeOK'
    <2>1. CASE Append
      BY <2>1, RewriteAssumption DEF serving, retention, Append, Write, PhysicalInv, TypeOK,
         RewriteTypeOK, ServingInv, File, Rows
    <2>2. CASE \E c \in Clients : Begin(c)
      BY <2>2 DEF files, serving, retention, Begin, PhysicalInv, TypeOK, RewriteTypeOK
    <2>3. CASE \E c \in Clients : End(c)
      BY <2>3, RewriteAssumption DEF serving, retention, End, Write, PhysicalInv, TypeOK,
         RewriteTypeOK, File, Rows
    <2> QED
      BY <2>1, <2>2, <2>3 DEF Writing
  <1>2. ServingInv'
    BY RewriteAssumption, NoFileAssumption DEF files, serving, Writing, Append, Write, Unlocked,
       Begin, End, PhysicalInv, ServingInv, Exclusive, TypeOK, RewriteTypeOK, File, Rows
  <1>3. JobInv'
    BY DEF Writing, Append, Write, Begin, End, PhysicalInv, JobInv
  <1>4. FilesInv'
    <2>1. CASE Append
      BY <2>1, RewriteAssumption, NoFileAssumption DEF serving, Append, Write, Unlocked,
         PhysicalInv, FilesInv, DatabaseIntact, Authoritative, TypeOK, RewriteTypeOK, File, Rows
    <2>2. CASE \E c \in Clients : Begin(c)
      BY <2>2 DEF files, serving, Begin, PhysicalInv, FilesInv, DatabaseIntact, Authoritative
    <2>3. CASE \E c \in Clients : End(c)
      <3>1. PICK c \in leased :
              /\ \/ main # NoFile /\ Write
                 \/ UNCHANGED <<main, written, stored>>
              /\ UNCHANGED <<old, candidate, serving, pc, failed, broken, faults>>
        BY <2>3 DEF End
      <3>2. pc \notin Exclusive
        BY DEF PhysicalInv, ServingInv
      <3>3. CASE UNCHANGED <<main, written, stored>>
        BY <3>1, <3>3 DEF serving, PhysicalInv, FilesInv, DatabaseIntact, Authoritative
      <3>4. CASE main # NoFile /\ Write
        <4>1. main \in File /\ pc \notin {"discard", "away", "in", "swap"}
          BY <3>2, <3>4 DEF PhysicalInv, TypeOK, RewriteTypeOK, Exclusive, Detached
        <4>2. main' \in File /\ main'.rows = main.rows \cup {written + 1}
          BY <3>4, <4>1, RewriteAssumption DEF Write, PhysicalInv, TypeOK, RewriteTypeOK, File, Rows
        <4> QED
          BY <3>1, <3>4, <4>1, <4>2, NoFileAssumption DEF Write, PhysicalInv, FilesInv,
             DatabaseIntact, Authoritative
      <3> QED
        BY <3>1, <3>3, <3>4
    <2> QED
      BY <2>1, <2>2, <2>3 DEF Writing
  <1>5. JournalInv'
    BY DEF files, Writing, Append, Write, Begin, End, PhysicalInv, JournalInv, Whole, TypeOK,
       RewriteTypeOK, ServingInv, File
  <1>6. EvictionInv'
    BY RewriteAssumption, NoFileAssumption DEF files, serving, retention, Writing, Append, Write,
       Begin, End, PhysicalInv, EvictionInv, Unreclaimed, TypeOK, RewriteTypeOK, ServingInv, File,
       Rows
  <1> QED
    BY <1>1, <1>2, <1>3, <1>4, <1>5, <1>6 DEF PhysicalInv

LEMMA RewritingStep ==
  ASSUME PhysicalInv, Rewriting /\ UNCHANGED <<job, unrestored, retention>>
  PROVE  PhysicalInv'
  <1>1. TypeOK'
    <2>1. CASE CloseAppenders
      <3>1. appenders' \in BOOLEAN
        BY <2>1, Zenon DEF CloseAppenders
      <3> QED
        BY <3>1, <2>1 DEF files, retention, Step, CloseAppenders, PhysicalInv, TypeOK, RewriteTypeOK
    <2>2. CASE ClosePool
      <3>1. pool' \in BOOLEAN /\ failed' \in BOOLEAN
        BY <2>2, Zenon DEF ClosePool
      <3> QED
        BY <3>1, <2>2 DEF files, retention, Step, ClosePool, PhysicalInv, TypeOK, RewriteTypeOK
    <2>3. CASE Copy
      BY <2>3 DEF serving, retention, Step, Copy, PhysicalInv, TypeOK, RewriteTypeOK, ServingInv,
         File
    <2>4. CASE DiscardOld
      BY <2>4 DEF serving, retention, Step, DiscardOld, PhysicalInv, TypeOK, RewriteTypeOK
    <2>5. CASE RenameAway
      BY <2>5 DEF serving, retention, Step, RenameAway, PhysicalInv, TypeOK, RewriteTypeOK
    <2>6. CASE RenameIn
      BY <2>6 DEF serving, retention, Step, RenameIn, PhysicalInv, TypeOK, RewriteTypeOK
    <2>7. CASE Reopen
      <3>1. pool' \in BOOLEAN
        BY <2>7, Zenon DEF Reopen, PoolReopened
      <3> QED
        BY <3>1, <2>7, RewriteAssumption, NewFileFacts DEF retention, Unlocked, Reopen,
           PoolReopened, Fault, PhysicalInv, TypeOK, RewriteTypeOK
    <2> QED
      BY <2>1, <2>2, <2>3, <2>4, <2>5, <2>6, <2>7 DEF Rewriting
  <1>2. ServingInv'
    BY NewFileFacts DEF files, serving, Step, Drained, Rewriting, CloseAppenders, ClosePool, Copy,
       DiscardOld, RenameAway, RenameIn, Reopen, PoolReopened, PhysicalInv, ServingInv, Exclusive,
       Detached
  <1>3. JobInv'
    BY DEF Step, Rewriting, CloseAppenders, ClosePool, Copy, DiscardOld, RenameAway, RenameIn,
       Reopen, PoolReopened, PhysicalInv, JobInv, Detached
  <1>4. FilesInv'
    BY NoFileAssumption DEF files, serving, Step, Rewriting, CloseAppenders, ClosePool, Copy,
       DiscardOld, RenameAway, RenameIn, Reopen, PoolReopened, PhysicalInv, FilesInv,
       DatabaseIntact, Authoritative, TypeOK, RewriteTypeOK, ServingInv, File
  <1>5. JournalInv'
    BY DEF files, Step, Rewriting, CloseAppenders, ClosePool, Copy, DiscardOld, RenameAway,
       RenameIn, Reopen, PoolReopened, NewFile, PhysicalInv, JournalInv, Whole, Inside, Suspending,
       TypeOK, RewriteTypeOK, FilesInv, File
  <1>6. EvictionInv'
    BY DEF files, serving, retention, Step, Rewriting, CloseAppenders, ClosePool, Copy, DiscardOld,
       RenameAway, RenameIn, Reopen, PoolReopened, NewFile, PhysicalInv, EvictionInv, Unreclaimed,
       Detached, TypeOK, RewriteTypeOK, ServingInv, FilesInv, File
  <1> QED
    BY <1>1, <1>2, <1>3, <1>4, <1>5, <1>6 DEF PhysicalInv

LEMMA RewriteFailureStep ==
  ASSUME PhysicalInv, RewriteFailure /\ UNCHANGED <<job, unrestored, retention>>
  PROVE  PhysicalInv'
  <1>1. TypeOK'
    <2>1. CASE CloseAppendersFails
      BY <2>1, RewriteAssumption DEF files, retention, Step, Fault, Unlocked, CloseAppendersFails,
         PhysicalInv, TypeOK, RewriteTypeOK
    <2>2. CASE ClosePoolFails
      <3>1. pool' \in BOOLEAN /\ failed' \in BOOLEAN
        BY <2>2, Zenon DEF ClosePoolFails
      <3> QED
        BY <3>1, <2>2, RewriteAssumption DEF files, retention, Step, Fault, ClosePoolFails,
           PhysicalInv, TypeOK, RewriteTypeOK
    <2>3. CASE DrainFails
      BY <2>3, RewriteAssumption DEF files, retention, Step, Fault, Unlocked, DrainFails,
         PhysicalInv, TypeOK, RewriteTypeOK
    <2>4. CASE RewriteStepFails
      <3>1. failed' \in BOOLEAN
        BY <2>4, Zenon DEF RewriteStepFails
      <3> QED
        BY <3>1, <2>4, RewriteAssumption DEF serving, retention, Step, Fault, RewriteStepFails,
           PhysicalInv, TypeOK, RewriteTypeOK
    <2>5. CASE RenameInFails
      <3>1. failed' \in BOOLEAN
        BY <2>5, Zenon DEF RenameInFails
      <3> QED
        BY <3>1, <2>5, RewriteAssumption DEF serving, retention, Step, Fault, RenameInFails,
           PhysicalInv, TypeOK, RewriteTypeOK
    <2>6. CASE RenameBackFails
      <3>1. failed' \in BOOLEAN /\ broken' \in BOOLEAN
        BY <2>6, Zenon DEF RenameBackFails
      <3> QED
        BY <3>1, <2>6 DEF serving, retention, Step, RenameBackFails, PhysicalInv, TypeOK,
           RewriteTypeOK
    <2>7. CASE ReopenFails
      BY <2>7, RewriteAssumption DEF files, serving, retention, Step, Fault, Unlocked, ReopenFails,
         PhysicalInv, TypeOK, RewriteTypeOK
    <2>8. CASE ReopenAppenderFails
      <3>1. pool' \in BOOLEAN
        BY <2>8, Zenon DEF ReopenAppenderFails, PoolReopened
      <3> QED
        BY <3>1, <2>8, RewriteAssumption, NewFileFacts DEF retention, Unlocked, ReopenAppenderFails,
           PoolReopened, Fault, PhysicalInv, TypeOK, RewriteTypeOK
    <2> QED
      BY <2>1, <2>2, <2>3, <2>4, <2>5, <2>6, <2>7, <2>8 DEF RewriteFailure
  <1>2. ServingInv'
    BY NewFileFacts DEF files, serving, Step, Drained, RewriteFailure, CloseAppendersFails,
       ClosePoolFails, DrainFails, RewriteStepFails, RenameInFails, RenameBackFails,
       ReopenAppenderFails, PoolReopened, ReopenFails, PhysicalInv, ServingInv, Exclusive, Detached
  <1>3. JobInv'
    BY DEF Step, RewriteFailure, CloseAppendersFails, ClosePoolFails, DrainFails, RewriteStepFails,
       RenameInFails, RenameBackFails, ReopenAppenderFails, PoolReopened, ReopenFails, PhysicalInv,
       JobInv, Detached
  <1>4. FilesInv'
    BY NewFileFacts DEF files, serving, Step, RewriteFailure, CloseAppendersFails, ClosePoolFails,
       DrainFails, RewriteStepFails, RenameInFails, RenameBackFails, ReopenAppenderFails,
       PoolReopened, ReopenFails, PhysicalInv, FilesInv, ServingInv, DatabaseIntact, Authoritative
  <1>5. JournalInv'
    BY DEF files, Step, RewriteFailure, CloseAppendersFails, ClosePoolFails, DrainFails,
       RewriteStepFails, RenameInFails, RenameBackFails, ReopenAppenderFails, PoolReopened,
       ReopenFails, NewFile, Whole, PhysicalInv, JournalInv, Inside, Suspending
  <1>6. EvictionInv'
    BY DEF files, serving, retention, Step, RewriteFailure, CloseAppendersFails, ClosePoolFails,
       DrainFails, RewriteStepFails, RenameInFails, RenameBackFails, ReopenAppenderFails,
       PoolReopened, ReopenFails, PhysicalInv, EvictionInv, Unreclaimed, NewFile, Detached,
       ServingInv, FilesInv, JobInv
  <1> QED
    BY <1>1, <1>2, <1>3, <1>4, <1>5, <1>6 DEF PhysicalInv

LEMMA ReclaimingStep ==
  ASSUME PhysicalInv, Reclaiming /\ UNCHANGED retention
  PROVE  PhysicalInv'
  <1>1. TypeOK'
    <2>1. CASE DrainForJob
      BY <2>1 DEF serving, other, retention, Step, DrainForJob, PhysicalInv, TypeOK, RewriteTypeOK
    <2>2. CASE RecoverPlan
      <3>1. unrestored' \in BOOLEAN
        BY <2>2, Zenon DEF RecoverPlan
      <3> QED
        BY <3>1, <2>2, RecoveredFile DEF serving, other, retention, Step, RecoverPlan, PhysicalInv,
           TypeOK, RewriteTypeOK, ServingInv, JobInv
    <2>3. CASE NothingToReclaim
      BY <2>3 DEF serving, other, retention, Step, NothingToReclaim, PhysicalInv, TypeOK,
         RewriteTypeOK
    <2>4. CASE Suspend
      BY <2>4, SuspendedFile DEF serving, other, retention, Step, Suspend, PhysicalInv, TypeOK,
         RewriteTypeOK, ServingInv
    <2>5. CASE Vacuum
      BY <2>5 DEF serving, other, retention, Step, Vacuum, PhysicalInv, TypeOK, RewriteTypeOK,
         ServingInv, File
    <2>6. CASE Stage
      BY <2>6 DEF serving, other, retention, Step, Stage, PhysicalInv, TypeOK, RewriteTypeOK,
         ServingInv, File
    <2>7. CASE Swap
      BY <2>7, SwappedFile DEF serving, other, retention, Step, Swap, PhysicalInv, TypeOK,
         RewriteTypeOK, ServingInv, FilesInv
    <2>8. CASE RestoreIndexes
      BY <2>8, RestoredFile DEF serving, other, retention, Step, RestoreIndexes, PhysicalInv,
         TypeOK, RewriteTypeOK, ServingInv
    <2>9. CASE FinalCheckpoint
      BY <2>9 DEF serving, other, retention, Step, FinalCheckpoint, PhysicalInv, TypeOK,
         RewriteTypeOK
    <2>10. CASE Cleanup
      BY <2>10, RecoveredFile DEF serving, other, retention, Step, Unlocked, Cleanup, PhysicalInv,
         TypeOK, RewriteTypeOK, ServingInv
    <2>11. CASE CompactReturns
      BY <2>11 DEF serving, other, retention, Step, Unlocked, CompactReturns, PhysicalInv, TypeOK,
         RewriteTypeOK
    <2> QED
      BY <2>1, <2>2, <2>3, <2>4, <2>5, <2>6, <2>7, <2>8, <2>9, <2>10, <2>11 DEF Reclaiming
  <1>2. ServingInv'
    BY NoFileAssumption, RecoveredFile, SuspendedFile, SwappedFile, RestoredFile DEF serving, other,
       Step, Drained, Reclaiming, DrainForJob, RecoverPlan, NothingToReclaim, Suspend, Vacuum,
       Stage, Swap, RestoreIndexes, FinalCheckpoint, Cleanup, CompactReturns, PhysicalInv,
       ServingInv, Exclusive, Detached, TypeOK, RewriteTypeOK, FilesInv, File
  <1>3. JobInv'
    BY DEF Step, Reclaiming, DrainForJob, RecoverPlan, NothingToReclaim, Suspend, Vacuum, Stage,
       Swap, RestoreIndexes, FinalCheckpoint, Cleanup, CompactReturns, PhysicalInv, JobInv,
       Detached, TypeOK
  <1>4. FilesInv'
    BY NoFileAssumption, RecoveredFile, SuspendedFile, SwappedFile, RestoredFile DEF serving, other,
       Step, Reclaiming, DrainForJob, RecoverPlan, NothingToReclaim, Suspend, Vacuum, Stage, Swap,
       RestoreIndexes, FinalCheckpoint, Cleanup, CompactReturns, PhysicalInv, FilesInv,
       DatabaseIntact, Authoritative, TypeOK, RewriteTypeOK, ServingInv, File
  <1>5. JournalInv'
    BY RecoveredFile, SuspendedFile, SwappedFile, RestoredFile DEF other, Step, Reclaiming,
       DrainForJob, RecoverPlan, NothingToReclaim, Suspend, Vacuum, Stage, Swap, RestoreIndexes,
       FinalCheckpoint, Cleanup, CompactReturns, PhysicalInv, JournalInv, Inside, Suspending,
       TypeOK, RewriteTypeOK, ServingInv, FilesInv, File
  <1>6. EvictionInv'
    BY NoFileAssumption, RecoveredFile, SuspendedFile, SwappedFile, RestoredFile DEF serving, other,
       retention, Step, Reclaiming, DrainForJob, RecoverPlan, NothingToReclaim, Suspend, Vacuum,
       Stage, Swap, RestoreIndexes, FinalCheckpoint, Cleanup, CompactReturns, PhysicalInv,
       EvictionInv, Unreclaimed, Detached, TypeOK, RewriteTypeOK, ServingInv, FilesInv, File
  <1> QED
    BY <1>1, <1>2, <1>3, <1>4, <1>5, <1>6 DEF PhysicalInv

LEMMA ReclaimFailureStep ==
  ASSUME PhysicalInv, ReclaimFailure /\ UNCHANGED retention
  PROVE  PhysicalInv'
  <1>1. TypeOK'
    <2>1. CASE DrainForJobFails
      BY <2>1, RewriteAssumption DEF serving, other, retention, Step, Fault, Unlocked,
         DrainForJobFails, PhysicalInv, TypeOK, RewriteTypeOK
    <2>2. CASE RecoverPlanFails
      <3>1. unrestored' \in BOOLEAN
        BY <2>2, Zenon DEF RecoverPlanFails
      <3> QED
        BY <3>1, <2>2, RewriteAssumption, RestoredFile DEF serving, other, retention, Step, Fault,
           Unlocked, RecoverPlanFails, PhysicalInv, TypeOK, RewriteTypeOK, ServingInv
    <2>3. CASE SuspendFails
      BY <2>3, RewriteAssumption DEF serving, other, retention, Step, Fault, Unlocked, SuspendFails,
         PhysicalInv, TypeOK, RewriteTypeOK
    <2>4. CASE ReclaimFails
      BY <2>4, RewriteAssumption DEF serving, other, retention, Step, Fault, ReclaimFails,
         PhysicalInv, TypeOK, RewriteTypeOK
    <2>5. CASE CleanupFails
      <3>1. unrestored' \in BOOLEAN
        BY <2>5, Zenon DEF CleanupFails
      <3> QED
        BY <3>1, <2>5, RewriteAssumption DEF serving, other, retention, Step, Fault, Unlocked,
           CleanupFails, PhysicalInv, TypeOK, RewriteTypeOK
    <2> QED
      BY <2>1, <2>2, <2>3, <2>4, <2>5 DEF ReclaimFailure
  <1>2. ServingInv'
    BY NoFileAssumption, RestoredFile DEF serving, other, Step, ReclaimFailure, DrainForJobFails,
       RecoverPlanFails, SuspendFails, ReclaimFails, CleanupFails, PhysicalInv, ServingInv,
       Exclusive, Detached, TypeOK, RewriteTypeOK
  <1>3. JobInv'
    BY DEF Step, ReclaimFailure, DrainForJobFails, RecoverPlanFails, SuspendFails, ReclaimFails,
       CleanupFails, JobInv, Detached
  <1>4. FilesInv'
    BY NoFileAssumption, RestoredFile DEF serving, other, Step, ReclaimFailure, DrainForJobFails,
       RecoverPlanFails, SuspendFails, ReclaimFails, CleanupFails, PhysicalInv, FilesInv,
       ServingInv, TypeOK, RewriteTypeOK, DatabaseIntact, Authoritative
  <1>5. JournalInv'
    BY RestoredFile DEF other, Step, ReclaimFailure, DrainForJobFails, RecoverPlanFails,
       SuspendFails, ReclaimFails, CleanupFails, PhysicalInv, JournalInv, Inside, Suspending, Whole,
       ServingInv, TypeOK, RewriteTypeOK
  <1>6. EvictionInv'
    BY NoFileAssumption, RestoredFile DEF serving, other, retention, Step, ReclaimFailure,
       DrainForJobFails, RecoverPlanFails, SuspendFails, ReclaimFails, CleanupFails, PhysicalInv,
       EvictionInv, Unreclaimed, Detached, ServingInv, TypeOK, RewriteTypeOK
  <1> QED
    BY <1>1, <1>2, <1>3, <1>4, <1>5, <1>6 DEF PhysicalInv

LEMMA StartingStep ==
  ASSUME PhysicalInv, Restart
  PROVE  PhysicalInv'
  <1>1. TypeOK'
    <2>1. CASE RecoverSwap /\ UNCHANGED <<job, unrestored, retention>>
      BY <2>1 DEF retention, RecoverSwap, SwapRecovered, PhysicalInv, TypeOK, RewriteTypeOK
    <2>2. CASE OpenPool /\ UNCHANGED <<job, unrestored, retention>>
      <3>1. pool' \in BOOLEAN
        BY <2>2, Zenon DEF OpenPool
      <3> QED
        BY <3>1, <2>2, NewFileFacts DEF retention, OpenPool, PhysicalInv, TypeOK, RewriteTypeOK
    <2>3. CASE Open /\ UNCHANGED retention
      <3>1. appenders' \in BOOLEAN /\ unrestored' \in BOOLEAN
        BY <2>3, Zenon DEF Open
      <3> QED
        BY <3>1, <2>3, RecoveredFile DEF retention, Open, PhysicalInv, TypeOK, RewriteTypeOK,
           ServingInv
    <2> QED
      BY <2>1, <2>2, <2>3 DEF Restart
  <1>2. ServingInv'
    BY NoFileAssumption, NewFileFacts, RecoveredFile DEF Restart, RecoverSwap, SwapRecovered,
       OpenPool, Open, PhysicalInv, ServingInv, Detached, TypeOK, RewriteTypeOK
  <1>3. JobInv'
    BY DEF Restart, RecoverSwap, SwapRecovered, OpenPool, Open, PhysicalInv, JobInv
  <1>4. FilesInv'
    BY NoFileAssumption, RecoveredFile DEF Restart, RecoverSwap, SwapRecovered, OpenPool, Open,
       PhysicalInv, FilesInv, DatabaseIntact, Authoritative, TypeOK, RewriteTypeOK, ServingInv
  <1>5. JournalInv'
    BY RecoveredFile DEF Restart, RecoverSwap, SwapRecovered, OpenPool, NewFile, Open, PhysicalInv,
       JournalInv, Whole, Suspending, TypeOK, RewriteTypeOK, ServingInv
  <1>6. EvictionInv'
    BY NoFileAssumption, RecoveredFile DEF retention, Restart, RecoverSwap, SwapRecovered, OpenPool,
       NewFile, Open, PhysicalInv, EvictionInv, TypeOK, RewriteTypeOK, ServingInv, FilesInv
  <1> QED
    BY <1>1, <1>2, <1>3, <1>4, <1>5, <1>6 DEF PhysicalInv

LEMMA StoppingStep ==
  ASSUME PhysicalInv, Crash
  PROVE  PhysicalInv'
  <1>1. TypeOK'
    <2>1. CASE Crash
      <3>1. pool' \in BOOLEAN /\ appenders' \in BOOLEAN /\ failed' \in BOOLEAN /\ unrestored' \in BOOLEAN /\ ready' \in BOOLEAN /\ recent' \in BOOLEAN /\ backing' \in BOOLEAN /\ manual' \in BOOLEAN /\ evicting' \in BOOLEAN
        BY <2>1, Zenon DEF Crash, Stop
      <3> QED
        BY <3>1, <2>1, RewriteAssumption DEF Stop, Fault, Unlocked, Crash, PhysicalInv, TypeOK,
           RewriteTypeOK
    <2> QED
      BY <2>1
  <1>2. ServingInv'
    <2>1. CASE Crash
      BY <2>1 DEF Stop, Crash, ServingInv
    <2> QED
      BY <2>1
  <1>3. JobInv'
    <2>1. CASE Crash
      BY <2>1 DEF Stop, Crash, JobInv
    <2> QED
      BY <2>1
  <1>4. FilesInv'
    <2>1. CASE Crash
      BY <2>1 DEF Stop, Crash, PhysicalInv, FilesInv, DatabaseIntact, Authoritative
    <2> QED
      BY <2>1
  <1>5. JournalInv'
    <2>1. CASE Crash
      BY <2>1 DEF Stop, Crash, PhysicalInv, JournalInv, Suspending
    <2> QED
      BY <2>1
  <1>6. EvictionInv'
    <2>1. CASE Crash
      BY <2>1 DEF Stop, Crash, PhysicalInv, EvictionInv
    <2> QED
      BY <2>1
  <1> QED
    BY <1>1, <1>2, <1>3, <1>4, <1>5, <1>6 DEF PhysicalInv

LEMMA DeletingStep ==
  ASSUME PhysicalInv, Evict \/ DeleteExpired
  PROVE  PhysicalInv'
  <1>1. TypeOK'
    <2>1. CASE Evict
      <3>1. PICK n \in 1..((Cardinality(main.rows) + 1) \div 2) :
              Delete(Oldest(n)) /\ evicted' = evicted \cup Oldest(n)
        BY <2>1 DEF Evict
      <3>2. main \in File /\ Oldest(n) \in SUBSET main.rows
        BY <2>1 DEF Evict, Oldest, Step, PhysicalInv, ServingInv, TypeOK, RewriteTypeOK
      <3>3. main' \in File /\ stored' = stored \ Oldest(n)
        BY <3>1, <3>2, DeletedFile
      <3>4. evicted' \subseteq Rows
        BY <3>1, <3>2 DEF File, PhysicalInv, TypeOK
      <3> QED
        BY <2>1, <3>3, <3>4 DEF Evict, Step, serving, PhysicalInv, TypeOK, RewriteTypeOK, Unlocked
    <2>2. CASE DeleteExpired
      BY <2>2, DeletedFile DEF serving, retention, Step, DeleteExpired, PhysicalInv, TypeOK,
         RewriteTypeOK, ServingInv
    <2> QED
      BY <2>1, <2>2
  <1>2. ServingInv'
    BY NoFileAssumption, DeletedFile DEF serving, Step, Evict, Oldest, DeleteExpired, PhysicalInv,
       ServingInv, Exclusive, Detached, TypeOK, RewriteTypeOK
  <1>3. JobInv'
    BY DEF Step, Evict, DeleteExpired, JobInv, Detached
  <1>4. FilesInv'
    BY NoFileAssumption, DeletedFile DEF serving, Step, Evict, Oldest, DeleteExpired, PhysicalInv,
       FilesInv, DatabaseIntact, Authoritative, TypeOK, RewriteTypeOK
  <1>5. JournalInv'
    BY DeletedFile DEF Step, Evict, Oldest, DeleteExpired, PhysicalInv, JournalInv, Whole, Inside,
       Suspending, TypeOK, RewriteTypeOK, ServingInv
  <1>6. EvictionInv'
    <2>1. CASE Evict
      BY <2>1, NoFileAssumption, DeletedFile DEF serving, Step, Evict, Oldest, PhysicalInv,
         EvictionInv, TypeOK, RewriteTypeOK, ServingInv
    <2>2. CASE DeleteExpired
      BY <2>2, NoFileAssumption, DeletedFile DEF serving, retention, Step, DeleteExpired,
         PhysicalInv, EvictionInv, Unreclaimed, Detached, TypeOK, RewriteTypeOK, ServingInv
    <2> QED
      BY <2>1, <2>2
  <1> QED
    BY <1>1, <1>2, <1>3, <1>4, <1>5, <1>6 DEF PhysicalInv

LEMMA PassingStep ==
  ASSUME PhysicalInv, BelowCap \/ Measure \/ NothingToEvict \/ RewriteEvicted \/ PassGoesOn \/ NoProgress \/ PassFails \/ ExpireReturns
  PROVE  PhysicalInv'
  <1>1. TypeOK'
    <2>1. CASE BelowCap
      <3>1. ready' \in BOOLEAN
        BY <2>1, Zenon DEF BelowCap
      <3> QED
        BY <3>1, <2>1 DEF serving, reclaimVars, rewriteVars, files, BelowCap, PhysicalInv, TypeOK,
           RewriteTypeOK
    <2>2. CASE Measure
      <3>1. ready' \in BOOLEAN
        BY <2>2, Zenon DEF Measure, PhysicalInv, TypeOK
      <3>2. before' \in Nat
        BY <2>2, SizeFacts DEF Measure, PhysicalInv, TypeOK, RewriteTypeOK
      <3> QED
        BY <2>2, <3>1, <3>2 DEF Measure, other, serving, PhysicalInv, TypeOK, RewriteTypeOK,
           Unlocked
    <2>3. CASE NothingToEvict
      <3>1. ready' \in BOOLEAN /\ recent' \in BOOLEAN
        BY <2>3, Zenon DEF NothingToEvict, GiveUp
      <3> QED
        BY <3>1, <2>3 DEF serving, other, GiveUp, Unlocked, NothingToEvict, PhysicalInv, TypeOK,
           RewriteTypeOK
    <2>4. CASE RewriteEvicted
      <3>1. evicting' \in BOOLEAN
        BY <2>4, Zenon DEF RewriteEvicted
      <3> QED
        BY <3>1, <2>4 DEF serving, other, Step, RewriteEvicted, PhysicalInv, TypeOK, RewriteTypeOK
    <2>5. CASE PassGoesOn
      <3>1. recent' \in BOOLEAN
        BY <2>5, Zenon DEF PassGoesOn
      <3> QED
        BY <3>1, <2>5 DEF serving, other, StillTooBig, Unlocked, PassGoesOn, PhysicalInv, TypeOK,
           RewriteTypeOK
    <2>6. CASE NoProgress
      <3>1. ready' \in BOOLEAN /\ recent' \in BOOLEAN
        BY <2>6, Zenon DEF NoProgress, GiveUp
      <3> QED
        BY <3>1, <2>6 DEF serving, other, GiveUp, Unlocked, NoProgress, PhysicalInv, TypeOK,
           RewriteTypeOK
    <2>7. CASE PassFails
      <3>1. ready' \in BOOLEAN /\ recent' \in BOOLEAN
        BY <2>7, Zenon DEF PassFails, Forgets
      <3> QED
        BY <3>1, <2>7 DEF serving, other, Step, Unlocked, PassFails, PhysicalInv, TypeOK,
           RewriteTypeOK
    <2>8. CASE ExpireReturns
      BY <2>8 DEF serving, other, retention, Step, Unlocked, ExpireReturns, PhysicalInv, TypeOK,
         RewriteTypeOK
    <2> QED
      BY <2>1, <2>2, <2>3, <2>4, <2>5, <2>6, <2>7, <2>8
  <1>2. ServingInv'
    BY DEF serving, other, reclaimVars, rewriteVars, files, GiveUp, Step, BelowCap, Measure,
       NothingToEvict, RewriteEvicted, PassGoesOn, NoProgress, PassFails, ExpireReturns,
       PhysicalInv, ServingInv, Exclusive, Detached
  <1>3. JobInv'
    BY DEF reclaimVars, rewriteVars, GiveUp, Step, BelowCap, Measure, NothingToEvict,
       RewriteEvicted, PassGoesOn, NoProgress, PassFails, ExpireReturns, PhysicalInv, JobInv,
       Detached
  <1>4. FilesInv'
    BY DEF serving, other, reclaimVars, rewriteVars, files, GiveUp, Step, BelowCap, Measure,
       NothingToEvict, RewriteEvicted, PassGoesOn, NoProgress, PassFails, ExpireReturns,
       PhysicalInv, FilesInv, DatabaseIntact, Authoritative
  <1>5. JournalInv'
    BY DEF other, reclaimVars, rewriteVars, files, GiveUp, Step, BelowCap, Measure, NothingToEvict,
       RewriteEvicted, PassGoesOn, NoProgress, PassFails, ExpireReturns, PhysicalInv, JournalInv,
       Inside, Suspending
  <1>6. EvictionInv'
    BY DEF serving, other, reclaimVars, rewriteVars, files, retention, GiveUp, Forgets, Step,
       BelowCap, Measure, NothingToEvict, RewriteEvicted, PassGoesOn, NoProgress, PassFails,
       ExpireReturns, PhysicalInv, EvictionInv, Unreclaimed, FilesInv
  <1> QED
    BY <1>1, <1>2, <1>3, <1>4, <1>5, <1>6 DEF PhysicalInv

LEMMA BeginningStep ==
  ASSUME PhysicalInv, BeginPass \/ Expire \/ (Compact /\ UNCHANGED retention) \/ EvictFails \/ BackoffEnds \/ TenMinutesPass
  PROVE  PhysicalInv'
  <1>1. TypeOK'
    <2>1. CASE BeginPass
      <3>1. evicting' \in BOOLEAN
        BY <2>1, Zenon DEF BeginPass
      <3> QED
        BY <3>1, <2>1 DEF serving, other, Unlocked, BeginPass, PhysicalInv, TypeOK, RewriteTypeOK
    <2>2. CASE Expire
      BY <2>2 DEF serving, other, retention, Step, Expire, PhysicalInv, TypeOK, RewriteTypeOK
    <2>3. CASE Compact /\ UNCHANGED retention
      BY <2>3 DEF serving, other, retention, Step, Compact, PhysicalInv, TypeOK, RewriteTypeOK
    <2>4. CASE EvictFails
      BY <2>4, RewriteAssumption DEF serving, other, retention, Step, Fault, Unlocked, EvictFails,
         PhysicalInv, TypeOK, RewriteTypeOK
    <2>5. CASE BackoffEnds
      <3>1. backing' \in BOOLEAN
        BY <2>5, Zenon DEF BackoffEnds
      <3> QED
        BY <3>1, <2>5 DEF serving, reclaimVars, rewriteVars, files, BackoffEnds, PhysicalInv,
           TypeOK, RewriteTypeOK
    <2>6. CASE TenMinutesPass
      <3>1. recent' \in BOOLEAN
        BY <2>6, Zenon DEF TenMinutesPass
      <3> QED
        BY <3>1, <2>6 DEF serving, reclaimVars, rewriteVars, files, TenMinutesPass, PhysicalInv,
           TypeOK, RewriteTypeOK
    <2> QED
      BY <2>1, <2>2, <2>3, <2>4, <2>5, <2>6
  <1>2. ServingInv'
    BY SizeFacts, RetentionAssumption DEF serving, other, reclaimVars, rewriteVars, files, Step,
       BeginPass, Expire, Compact, EvictFails, BackoffEnds, TenMinutesPass, PhysicalInv, ServingInv,
       Exclusive, Detached
  <1>3. JobInv'
    BY DEF reclaimVars, rewriteVars, Step, BeginPass, Expire, Compact, EvictFails, BackoffEnds,
       TenMinutesPass, PhysicalInv, JobInv, Detached
  <1>4. FilesInv'
    BY DEF serving, other, reclaimVars, rewriteVars, files, Step, BeginPass, Expire, Compact,
       EvictFails, BackoffEnds, TenMinutesPass, PhysicalInv, FilesInv, DatabaseIntact, Authoritative
  <1>5. JournalInv'
    BY DEF serving, other, reclaimVars, rewriteVars, files, Step, BeginPass, Expire, Compact,
       EvictFails, BackoffEnds, TenMinutesPass, PhysicalInv, JournalInv, Inside, Suspending
  <1>6. EvictionInv'
    BY DEF serving, other, reclaimVars, rewriteVars, files, retention, ReclaimFirst, Step,
       BeginPass, Expire, Compact, EvictFails, BackoffEnds, TenMinutesPass, PhysicalInv,
       EvictionInv, Unreclaimed, Detached, ServingInv, FilesInv
  <1> QED
    BY <1>1, <1>2, <1>3, <1>4, <1>5, <1>6 DEF PhysicalInv

(* The invariant and what follows.                                         *)

LEMMA InitPhysical == Init => PhysicalInv
  <1> SUFFICES ASSUME Init
               PROVE  PhysicalInv
    OBVIOUS
  <1> USE DEF Init, ReclaimInit, RewriteInit
  <1>1. TypeOK
    <2>1. /\ pool \in BOOLEAN /\ appenders \in BOOLEAN /\ failed \in BOOLEAN /\ broken \in BOOLEAN
          /\ unrestored \in BOOLEAN /\ ready \in BOOLEAN /\ recent \in BOOLEAN
          /\ backing \in BOOLEAN /\ manual \in BOOLEAN /\ evicting \in BOOLEAN
      BY Zenon
    <2> QED
      BY <2>1, NewFileFacts, RewriteAssumption DEF TypeOK, RewriteTypeOK, Unlocked
  <1>2. ServingInv /\ JobInv
    BY NewFileFacts DEF ServingInv, JobInv, Detached
  <1>3. FilesInv
    BY NewFileFacts DEF FilesInv, DatabaseIntact, Authoritative, NewFile
  <1>4. JournalInv
    BY DEF JournalInv, Whole, Suspending, NewFile
  <1>5. EvictionInv
    BY DEF EvictionInv, NewFile
  <1> QED
    BY <1>1, <1>2, <1>3, <1>4, <1>5 DEF PhysicalInv

LEMMA StutterStep ==
  ASSUME PhysicalInv, UNCHANGED vars
  PROVE  PhysicalInv'
  <1>1. /\ UNCHANGED <<main, old, candidate, process, pool, appenders, leased, pc, failed, written, stored, broken, faults>>
        /\ UNCHANGED <<job, unrestored, ready, recent, backing, manual, evicting, before, evicted>>
    BY DEF vars, reclaimVars, rewriteVars, files, serving, retention
  <1>2. TypeOK'
    BY <1>1 DEF PhysicalInv, TypeOK, RewriteTypeOK
  <1>3. ServingInv' /\ JobInv'
    BY <1>1 DEF PhysicalInv, ServingInv, JobInv
  <1>4. FilesInv'
    BY <1>1 DEF PhysicalInv, FilesInv, DatabaseIntact, Authoritative
  <1>5. JournalInv'
    BY <1>1 DEF PhysicalInv, JournalInv
  <1>6. EvictionInv'
    BY <1>1 DEF PhysicalInv, EvictionInv, Unreclaimed
  <1> QED
    BY <1>2, <1>3, <1>4, <1>5, <1>6 DEF PhysicalInv

LEMMA PhysicalStep == PhysicalInv /\ [Next]_vars => PhysicalInv'
  <1> SUFFICES ASSUME PhysicalInv, [Next]_vars
               PROVE  PhysicalInv'
    OBVIOUS
  <1>1. CASE Writing /\ UNCHANGED <<job, unrestored, retention>>
    BY <1>1, WritingStep
  <1>2. CASE Maintenance
    BY <1>2, RewritingStep, ReclaimingStep, PassingStep, DeletingStep DEF Maintenance
  <1>3. CASE Failure
    BY <1>3, RewriteFailureStep, ReclaimFailureStep, BeginningStep, StoppingStep DEF Failure
  <1>4. CASE Restart
    BY <1>4, StartingStep
  <1>5. CASE BeginPass \/ BackoffEnds \/ TenMinutesPass \/ Expire \/ (Compact /\ UNCHANGED retention)
    BY <1>5, BeginningStep
  <1>6. CASE UNCHANGED vars
    BY <1>6, StutterStep
  <1> QED
    BY <1>1, <1>2, <1>3, <1>4, <1>5, <1>6 DEF Next

(* The inductive invariant of writers, rewrites, reclamation, retention    *)
(* and restarts together (physical.go, reclaim_indexes.go, maintenance.go).*)
THEOREM PhysicalInvariant == Spec => []PhysicalInv
  BY InitPhysical, PhysicalStep, PTL DEF Spec

(* "The old file remains authoritative until the complete candidate is     *)
(* synced": at every step of a rewrite, and after any failures and stops,  *)
(* the file that Open takes has the committed rows (rewritePhysicalLocked).*)
THEOREM DatabaseSurvives == Spec => []DatabaseInv
  <1>1. PhysicalInv => DatabaseInv
    BY DEF PhysicalInv, FilesInv, DatabaseInv
  <1> QED
    BY <1>1, PhysicalInvariant, PTL

(* Indexes that were dropped come back, or the journal says how            *)
(* (saveAndDropReclaimIndexes, recoverReclaimIndexes).                     *)
THEOREM IndexesComeBack == Spec => []IndexesRestored
  <1>1. PhysicalInv => IndexesRestored
    BY DEF PhysicalInv, ServingInv, JournalInv, IndexesRestored, Whole, Unlocked, Inside, Suspending
  <1> QED
    BY <1>1, PhysicalInvariant, PTL

(* No pass evicts live rows while rows it could reclaim still take space   *)
(* (PrunePhysical's retentionPhysicalReady).                               *)
THEOREM EvictionsAreNeeded == Spec => EvictsOnlyReclaimed
  <1>1. PhysicalInv /\ [Next]_vars => [evicted' # evicted => main.dead \cap evicted = {}]_vars
    <2> SUFFICES ASSUME PhysicalInv, Next, evicted' # evicted
                 PROVE  main.dead \cap evicted = {}
      OBVIOUS
    <2>1. Evict
      BY DEF Next, Writing, Maintenance, Rewriting, Reclaiming, Failure, RewriteFailure,
         ReclaimFailure, Restart, retention, BelowCap, Measure, NothingToEvict, RewriteEvicted,
         PassGoesOn, NoProgress, PassFails, DeleteExpired, ExpireReturns, EvictFails, Crash,
         BeginPass, BackoffEnds, TenMinutesPass, Expire
    <2>2. main # NoFile /\ ~Unreclaimed
      BY <2>1 DEF Evict, Step, PhysicalInv, ServingInv, JobInv, EvictionInv
    <2> QED
      BY <2>2 DEF Unreclaimed
  <1> QED
    BY <1>1, PhysicalInvariant, PTL DEF Spec, EvictsOnlyReclaimed

=============================================================================
