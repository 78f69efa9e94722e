----------------------------- MODULE StorageProofs -----------------------------
(***************************************************************************)
(* What is stored, and when storing is refused.                            *)
(*                                                                         *)
(* The appenders, for every set of exports, traces, tables and rows:       *)
(* AppendersInv and LossIsKept, of the appenders alone and under their     *)
(* users; OnlyTakenIsLost; AcknowledgedIsStored wherever the code keeps    *)
(* it: all groups compare failure versions, or no callback outside the     *)
(* executor flushes; AnsweredIsSettled; and KeepsContract, the refinement  *)
(* of ExportContract.                                                      *)
(*                                                                         *)
(* Under their users the appenders are known by two facts only.  Safe: a   *)
(* step keeps what is written, and rows leave the appenders for somewhere  *)
(* else than their table only if the failure version moves.  Noticed: nor  *)
(* do they without leaving flushErr set, if the step is not an explicit    *)
(* flush.  The first serves FlushBatchSince, the second FlushBatch.        *)
(*                                                                         *)
(* The guard of the database's size, at the end: GuardInv and              *)
(* RecoveryStaysPaused.                                                    *)
(***************************************************************************)
EXTENDS IngestStorage, StorageGuard, FiniteSetTheorems, TLAPS

-----------------------------------------------------------------------------
(* The appenders alone: a step either empties the buffers it fails or      *)
(* leaves them as they are.                                                *)

\* What of the types the argument uses.
Shape ==
  /\ slot \in [Tables -> {"open", "leased", "none"}]
  /\ buffer \in [Tables -> SUBSET Rows]
  /\ flushErr \in BOOLEAN

BInv == Shape /\ EachRowOnce /\ MaintenanceExclusive /\ LossIsKept

\* A write keeps every row in one place and empties what it wrote.
LEMMA WriteKeeps ==
  ASSUME Shape, EachRowOnce,
         NEW T \in SUBSET Tables, NEW F \in SUBSET T, NEW S, Write(T, F, S)
  PROVE  /\ buffer' \in [Tables -> SUBSET Rows]
         /\ \A t \in T : buffer'[t] = {}
         /\ \A t \in Tables : buffer'[t] \subseteq buffer[t]
         /\ Held' \cap stored' = {} /\ Held' \cap lost' = {} /\ stored' \cap lost' = {}
         /\ F = {} => lost' = lost
  <1>1. buffer' = [t \in Tables |-> IF t \in T THEN {} ELSE buffer[t]]
    BY DEF Write
  <1>2. /\ stored' = stored \cup (UNION {buffer[t] : t \in T \ F}) \cup S
        /\ lost' = lost \cup ((UNION {buffer[t] : t \in F}) \ S)
        /\ S \subseteq UNION {buffer[t] : t \in F}
    BY DEF Write
  <1>3. /\ \A t \in T : buffer'[t] = {}
        /\ \A t \in Tables \ T : buffer'[t] = buffer[t]
        /\ buffer' \in [Tables -> SUBSET Rows]
    BY <1>1 DEF Shape
  <1>4. \A t, u \in Tables : t # u => buffer[t] \cap buffer[u] = {}
    BY DEF EachRowOnce
  <1>5. Held' = UNION {buffer[t] : t \in Tables \ T}
    <2>1. \A r : r \in Held' <=> \E t \in Tables : r \in buffer'[t]
      BY DEF Held
    <2> QED
      BY <1>3, <2>1
  <1>6. \A r \in Held' : \E t \in Tables \ T : r \in buffer[t]
    BY <1>5
  <1>7. \A t \in T : \A r \in buffer[t] : r \notin Held'
    BY <1>4, <1>6
  <1>8. Held' \subseteq Held
    BY <1>5 DEF Held
  <1>9. \A r \in stored' : r \in stored \/ \E t \in T : r \in buffer[t]
    BY <1>2
  <1>10. \A r \in lost' : r \in lost \/ \E t \in T : r \in buffer[t]
    BY <1>2
  <1>11. Held' \cap stored' = {} /\ Held' \cap lost' = {}
    BY <1>7, <1>8, <1>9, <1>10 DEF EachRowOnce
  <1>12. stored' \cap lost' = {}
    <2>1. ASSUME NEW r \in stored', r \in lost' PROVE FALSE
      <3>1. \A t \in Tables : r \in buffer[t] => r \notin stored /\ r \notin lost
        BY DEF EachRowOnce, Held
      <3>2. CASE r \in lost
        BY <1>2, <2>1, <3>1, <3>2 DEF EachRowOnce
      <3>3. CASE r \notin lost
        <4>1. r \notin S /\ \E t \in F : r \in buffer[t]
          BY <1>2, <2>1, <3>3
        <4>2. \E t \in T \ F : r \in buffer[t]
          BY <1>2, <2>1, <3>1, <4>1
        <4> QED
          BY <1>4, <4>1, <4>2
      <3> QED
        BY <3>2, <3>3
    <2> QED
      BY <2>1
  <1>13. F = {} => lost' = lost
    BY <1>2
  <1> QED
    BY <1>3, <1>11, <1>12, <1>13

\* A failure that is counted is kept, whatever it lost.
LEMMA FailKeeps ==
  ASSUME Shape, LossIsKept, NEW F, Fail(F), F = {} => lost' = lost
  PROVE  flushErr' \in BOOLEAN /\ LossIsKept'
  BY DEF Fail, LossIsKept, Shape

LEMMA RecreateTypes ==
  ASSUME Shape, NEW F \in SUBSET Tables, Recreate(F)
  PROVE  /\ slot' \in [Tables -> {"open", "leased", "none"}]
         /\ \A t \in Tables \ F : slot'[t] = slot[t]
  <1>1. PICK N \in SUBSET F :
          slot' = [t \in Tables |-> IF t \in N THEN "none" ELSE IF t \in F THEN "open" ELSE slot[t]]
    BY DEF Recreate
  <1>2. slot' \in [Tables -> {"open", "leased", "none"}]
    BY <1>1 DEF Shape
  <1>3. \A t \in Tables \ F : slot'[t] = slot[t]
    BY <1>1
  <1> QED
    BY <1>2, <1>3

\* Appenders are reopened only where none is open, and hold nothing.
LEMMA ReopenKeeps ==
  ASSUME BInv, NEW L \in SUBSET Tables, NEW F, Reopen(L, F), \A t \in L : buffer[t] = {},
         buffer' = buffer, stored' = stored, ~maintaining'
  PROVE  BInv'
  <1>1. /\ slot' = [t \in Tables |-> IF t \in F THEN "leased" ELSE IF t \in L THEN "open" ELSE slot[t]]
        /\ lost' = lost /\ Fail(F) /\ F \subseteq L
    BY DEF Reopen
  <1>2. slot' \in [Tables -> {"open", "leased", "none"}]
    BY <1>1 DEF BInv, Shape
  <1>3. flushErr' \in BOOLEAN /\ LossIsKept'
    BY <1>1, FailKeeps DEF BInv
  <1>4. \A t \in Tables : \A r \in buffer[t] : t \notin L
    OBVIOUS
  <1>5. \A t \in Tables \ L : slot'[t] = slot[t]
    BY <1>1
  <1>6. EachRowOnce'
    BY <1>1, <1>4, <1>5 DEF BInv, EachRowOnce, Held
  <1> QED
    BY <1>2, <1>3, <1>6 DEF BInv, Shape, MaintenanceExclusive

-----------------------------------------------------------------------------
(* Steps.                                                                  *)

\* A flush, of the ticker or of a caller.
LEMMA FlushKeeps ==
  ASSUME BInv, NEW F \in SUBSET Loaded, FlushTables(F)
  PROVE  /\ slot' \in [Tables -> {"open", "leased", "none"}]
         /\ buffer' \in [Tables -> SUBSET Rows]
         /\ EachRowOnce' /\ MaintenanceExclusive'
         /\ F = {} => lost' = lost
  <1>1. PICK S \in SUBSET UNION {buffer[t] : t \in F} : Write(Loaded, F, S)
    BY DEF FlushTables
  <1>2. Recreate(F) /\ ~maintaining /\ maintaining' = maintaining
    BY DEF FlushTables, Running, Free, lifeVars
  <1>3. Loaded \in SUBSET Tables /\ F \in SUBSET Tables
    BY DEF Loaded
  <1>4. /\ slot' \in [Tables -> {"open", "leased", "none"}]
        /\ \A t \in Tables \ F : slot'[t] = slot[t]
    BY <1>2, <1>3, RecreateTypes DEF BInv
  <1>5. /\ buffer' \in [Tables -> SUBSET Rows]
        /\ \A t \in Loaded : buffer'[t] = {}
        /\ \A t \in Tables : buffer'[t] \subseteq buffer[t]
        /\ Held' \cap stored' = {} /\ Held' \cap lost' = {} /\ stored' \cap lost' = {}
        /\ F = {} => lost' = lost
    BY <1>1, <1>3, WriteKeeps DEF BInv
  <1>6. \A t \in Tables : \A r \in buffer'[t] : t \notin F /\ TableOf[r] = t /\ slot[t] = "open"
    BY <1>5 DEF BInv, EachRowOnce
  <1>7. EachRowOnce'
    BY <1>4, <1>5, <1>6 DEF EachRowOnce
  <1> QED
    BY <1>2, <1>4, <1>5, <1>7 DEF MaintenanceExclusive

\* A row the appender takes, with the flush it may cause.
LEMMA AcceptKeeps ==
  ASSUME BInv, NEW r \in Rows, AppendAccepts(r)
  PROVE  BInv'
  <1> DEFINE t == TableOf[r]
  <1>1. t \in Tables
    BY BatcherConstants
  <1>2. /\ ~maintaining /\ maintaining' = maintaining /\ lost' = lost
        /\ flushErr' = flushErr /\ unreported' = unreported
        /\ slot' = [slot EXCEPT ![t] = "open"]
        /\ r \notin Held /\ r \notin stored /\ r \notin lost
    BY DEF AppendAccepts, Keep, KeepAndFlush, lossVars, lifeVars, Running, Free, Fresh
  <1>3. slot' \in [Tables -> {"open", "leased", "none"}] /\ slot'[t] = "open"
        /\ \A u \in Tables : u # t => slot'[u] = slot[u]
    BY <1>1, <1>2 DEF BInv, Shape
  <1>4. \A u \in Tables : buffer[u] \subseteq Held
    BY DEF Held
  <1>5. \A u \in Tables : u # t => buffer[u] \cap buffer[t] = {}
    BY <1>1 DEF BInv, EachRowOnce
  <1>6. CASE Keep(r, t)
    <2>1. buffer' = [buffer EXCEPT ![t] = @ \cup {r}] /\ stored' = stored
      BY <1>6 DEF Keep
    <2>2. buffer' \in [Tables -> SUBSET Rows] /\ buffer'[t] = buffer[t] \cup {r}
          /\ \A u \in Tables : u # t => buffer'[u] = buffer[u]
      BY <1>1, <2>1 DEF BInv, Shape
    <2>3. Held' = Held \cup {r}
      BY <1>1, <2>2 DEF Held
    <2>4. EachRowOnce'
      BY <1>2, <1>3, <2>1, <2>2, <2>3 DEF BInv, EachRowOnce
    <2> QED
      BY <1>2, <1>3, <2>2, <2>4 DEF BInv, Shape, MaintenanceExclusive, LossIsKept
  <1>7. CASE KeepAndFlush(r, t)
    <2>1. buffer' = [buffer EXCEPT ![t] = {}] /\ stored' = stored \cup buffer[t] \cup {r}
      BY <1>7 DEF KeepAndFlush
    <2>2. buffer' \in [Tables -> SUBSET Rows] /\ buffer'[t] = {}
          /\ \A u \in Tables : u # t => buffer'[u] = buffer[u]
      BY <1>1, <2>1 DEF BInv, Shape
    <2>3. Held' \subseteq Held \ buffer[t]
      BY <1>5, <2>2 DEF Held
    <2>4. buffer[t] \cap lost = {} /\ buffer[t] \subseteq Held
      BY <1>1, <1>4 DEF BInv, EachRowOnce
    <2>5. Held' \cap stored' = {} /\ Held' \cap lost' = {} /\ stored' \cap lost' = {}
      BY <1>2, <2>1, <2>3, <2>4 DEF BInv, EachRowOnce
    <2>6. EachRowOnce'
      BY <1>3, <2>2, <2>5 DEF BInv, EachRowOnce
    <2> QED
      BY <1>2, <1>3, <2>2, <2>6 DEF BInv, Shape, MaintenanceExclusive, LossIsKept
  <1> QED
    BY <1>6, <1>7 DEF AppendAccepts

\* A row that is refused, or that takes its appender with it.
LEMMA FailureKeeps ==
  ASSUME BInv, NEW r \in Rows, AppendFails(r)
  PROVE  BInv'
  <1> DEFINE t == TableOf[r]
  <1>1. t \in Tables
    BY BatcherConstants
  <1>2. r \notin Held /\ r \notin stored /\ r \notin lost
    BY DEF AppendFails, AppendBreaks, AppendRefused, Fresh
  <1>3. \A u \in Tables : buffer[u] \subseteq Held
    BY DEF Held
  <1>4. \A u \in Tables : u # t => buffer[u] \cap buffer[t] = {}
    BY <1>1 DEF BInv, EachRowOnce
  <1>5. CASE AppendBreaks(r)
    <2>1. PICK S \in SUBSET (buffer[t] \cup {r}) :
            stored' = stored \cup S /\ lost' = lost \cup ((buffer[t] \cup {r}) \ S)
      BY <1>5 DEF AppendBreaks
    <2>2. /\ buffer' = [buffer EXCEPT ![t] = {}] /\ Recreate({t}) /\ Fail({t})
          /\ ~maintaining /\ maintaining' = maintaining
      BY <1>5 DEF AppendBreaks, lifeVars, Running, Free
    <2>3. slot' \in [Tables -> {"open", "leased", "none"}]
          /\ \A u \in Tables \ {t} : slot'[u] = slot[u]
      BY <1>1, <2>2, RecreateTypes DEF BInv
    <2>4. buffer' \in [Tables -> SUBSET Rows] /\ buffer'[t] = {}
          /\ \A u \in Tables : u # t => buffer'[u] = buffer[u]
      BY <1>1, <2>2 DEF BInv, Shape
    <2>5. Held' \subseteq Held \ buffer[t]
      BY <1>4, <2>4 DEF Held
    <2>6. buffer[t] \cap lost = {} /\ buffer[t] \cap stored = {} /\ buffer[t] \subseteq Held
      BY <1>1, <1>3 DEF BInv, EachRowOnce
    <2>7. Held' \cap stored' = {} /\ Held' \cap lost' = {} /\ stored' \cap lost' = {}
      BY <1>2, <2>1, <2>5, <2>6 DEF BInv, EachRowOnce
    <2>8. EachRowOnce'
      BY <2>3, <2>4, <2>7 DEF BInv, EachRowOnce
    <2>9. flushErr' \in BOOLEAN /\ LossIsKept'
      BY <2>2, FailKeeps DEF BInv
    <2> QED
      BY <2>2, <2>3, <2>4, <2>8, <2>9 DEF BInv, Shape, MaintenanceExclusive
  <1>6. CASE AppendRefused(r)
    <2>1. /\ buffer' = buffer /\ stored' = stored /\ lost' = lost \cup {r}
          /\ flushErr' = flushErr /\ unreported' = unreported
          /\ ~maintaining /\ maintaining' = maintaining
      BY <1>6 DEF AppendRefused, lossVars, lifeVars, Free
    <2>2. slot' = slot \/ (slot[t] # "open" /\ slot' = [slot EXCEPT ![t] = "none"])
      BY <1>6 DEF AppendRefused
    <2>3. slot' \in [Tables -> {"open", "leased", "none"}]
          /\ \A u \in Tables : slot[u] = "open" => slot'[u] = "open"
      BY <1>1, <2>2 DEF BInv, Shape
    <2>4. EachRowOnce'
      BY <1>2, <2>1, <2>3 DEF BInv, EachRowOnce, Held
    <2> QED
      BY <2>1, <2>3, <2>4 DEF BInv, Shape, MaintenanceExclusive, LossIsKept
  <1> QED
    BY <1>5, <1>6 DEF AppendFails

\* closeAllLocked leaves no appender and no row in one.
LEMMA ReleaseKeeps ==
  ASSUME BInv, ReleaseAll
  PROVE  BInv'
  <1>1. PICK F \in SUBSET Loaded, S \in SUBSET Held : Write(Tables, F, S)
    BY DEF ReleaseAll
  <1>2. F \in SUBSET Tables /\ Tables \in SUBSET Tables
    BY DEF Loaded
  <1>3. /\ buffer' \in [Tables -> SUBSET Rows]
        /\ \A t \in Tables : buffer'[t] = {}
        /\ Held' \cap stored' = {} /\ Held' \cap lost' = {} /\ stored' \cap lost' = {}
    BY <1>1, <1>2, WriteKeeps DEF BInv
  <1>4. /\ slot' = [t \in Tables |-> "none"]
        /\ flushErr' = flushErr /\ unreported' = unreported
    BY DEF ReleaseAll, lossVars
  <1>5. slot' \in [Tables -> {"open", "leased", "none"}] /\ \A t \in Tables : slot'[t] # "open"
    BY <1>4
  <1> QED
    BY <1>3, <1>4, <1>5 DEF BInv, Shape, EachRowOnce, MaintenanceExclusive, LossIsKept

\* Everything the ticker, maintenance and shutdown do.
LEMMA BackgroundKeeps ==
  ASSUME BInv, Background
  PROVE  BInv'
  <1>1. CASE IntervalFlush
    <2>1. PICK F \in SUBSET Loaded : FlushTables(F) /\ Fail(F)
      BY <1>1 DEF IntervalFlush
    <2>2. /\ slot' \in [Tables -> {"open", "leased", "none"}]
          /\ buffer' \in [Tables -> SUBSET Rows]
          /\ EachRowOnce' /\ MaintenanceExclusive'
          /\ F = {} => lost' = lost
      BY <2>1, FlushKeeps
    <2>3. flushErr' \in BOOLEAN /\ LossIsKept'
      BY <2>1, <2>2, FailKeeps DEF BInv
    <2> QED
      BY <2>2, <2>3 DEF BInv, Shape
  <1>2. CASE MaintenanceRefused
    <2>1. PICK t \in Tables : slot[t] = "none" /\ \E L \in SUBSET {u \in Tables : slot[u] = "none" /\ u # t} :
            \E F \in SUBSET (L \cup Leased) : Reopen(L \cup Leased, F)
      BY <1>2 DEF MaintenanceRefused
    <2>2. PICK L \in SUBSET {u \in Tables : slot[u] = "none" /\ u # t} :
            \E F \in SUBSET (L \cup Leased) : Reopen(L \cup Leased, F)
      BY <2>1
    <2>3. PICK F : Reopen(L \cup Leased, F)
      BY <2>2
    <2>4. /\ buffer' = buffer /\ stored' = stored
          /\ ~maintaining'
      <3>1. ~maintaining /\ maintaining' = maintaining
        BY <1>2 DEF MaintenanceRefused, lifeVars, Running, Free
      <3> QED
        BY <1>2, <3>1 DEF MaintenanceRefused
    <2>5. L \cup Leased \in SUBSET Tables /\ \A u \in L \cup Leased : buffer[u] = {}
      BY DEF Leased, BInv, EachRowOnce
    <2> QED
      BY <2>3, <2>4, <2>5, ReopenKeeps
  <1>3. CASE BeginMaintenance
    <2>1. PICK F \in SUBSET Opened, S \in SUBSET Held : Write(Tables, F, S) /\ Fail(F)
      BY <1>3 DEF BeginMaintenance
    <2>2. F \in SUBSET Tables /\ Tables \in SUBSET Tables
      BY DEF Opened
    <2>3. /\ buffer' \in [Tables -> SUBSET Rows]
          /\ \A t \in Tables : buffer'[t] = {}
          /\ Held' \cap stored' = {} /\ Held' \cap lost' = {} /\ stored' \cap lost' = {}
          /\ F = {} => lost' = lost
      BY <2>1, <2>2, WriteKeeps DEF BInv
    <2>4. slot' = [t \in Tables |-> "leased"]
      BY <1>3 DEF BeginMaintenance
    <2>5. slot' \in [Tables -> {"open", "leased", "none"}] /\ \A t \in Tables : slot'[t] # "open"
      BY <2>4
    <2>6. flushErr' \in BOOLEAN /\ LossIsKept'
      BY <2>1, <2>3, FailKeeps DEF BInv
    <2> QED
      BY <2>3, <2>5, <2>6 DEF BInv, Shape, EachRowOnce, MaintenanceExclusive
  <1>4. CASE EndMaintenance
    <2>1. PICK F : Reopen(Leased, F)
      BY <1>4 DEF EndMaintenance
    <2>2. buffer' = buffer /\ stored' = stored /\ ~maintaining'
      BY <1>4 DEF EndMaintenance
    <2>3. Leased \in SUBSET Tables /\ \A u \in Leased : buffer[u] = {}
      BY DEF Leased, BInv, EachRowOnce
    <2> QED
      BY <2>1, <2>2, <2>3, ReopenKeeps
  <1>5. CASE Close
    BY <1>5 DEF Close, BInv, Shape, EachRowOnce, MaintenanceExclusive, LossIsKept, Held, lossVars
  <1>6. CASE FinishClose
    BY <1>6, ReleaseKeeps DEF FinishClose
  <1>7. CASE BeginClosedMaintenance
    BY <1>7, ReleaseKeeps DEF BeginClosedMaintenance
  <1> QED
    BY <1>1, <1>2, <1>3, <1>4, <1>5, <1>6, <1>7 DEF Background

\* A step of the appenders keeps both invariants.
LEMMA BatcherStep ==
  ASSUME BInv, [BatcherNext]_batchVars
  PROVE  BInv'
  <1>1. CASE Background
    BY <1>1, BackgroundKeeps
  <1>2. ASSUME NEW r \in Rows, AppendAccepts(r) PROVE BInv'
    BY <1>2, AcceptKeeps
  <1>3. ASSUME NEW r \in Rows, AppendFails(r) PROVE BInv'
    BY <1>3, FailureKeeps
  <1>4. ASSUME NEW bad \in BOOLEAN, ExplicitFlush(bad) PROVE BInv'
    <2>1. PICK F \in SUBSET Loaded : FlushTables(F) /\ flushErr' = FALSE /\ unreported' = {}
      BY <1>4 DEF ExplicitFlush
    <2>2. /\ slot' \in [Tables -> {"open", "leased", "none"}]
          /\ buffer' \in [Tables -> SUBSET Rows]
          /\ EachRowOnce' /\ MaintenanceExclusive'
      BY <2>1, FlushKeeps
    <2> QED
      BY <2>1, <2>2 DEF BInv, Shape, LossIsKept
  <1>5. CASE UNCHANGED batchVars
    BY <1>5 DEF batchVars, lossVars, lifeVars, BInv, Shape, EachRowOnce, MaintenanceExclusive, LossIsKept, Held
  <1> QED
    BY <1>1, <1>2, <1>3, <1>4, <1>5 DEF BatcherNext

-----------------------------------------------------------------------------

\* In every order of appends, flushes, failures, maintenance and Close: rows
\* in one place, no appender alive during maintenance (AppendersInv), and no
\* loss forgotten before an explicit flush has reported it (LossIsKept).
THEOREM AppendersHold == BatcherSpec => [](AppendersInv /\ LossIsKept)
  <1>1. BatcherInit => BInv
    <2> SUFFICES ASSUME BatcherInit PROVE BInv
      OBVIOUS
    <2>1. Shape
      BY DEF BatcherInit, Shape
    <2>2. Held = {}
      BY DEF BatcherInit, Held
    <2>3. \A t \in Tables : buffer[t] = {}
      BY DEF BatcherInit
    <2> QED
      BY <2>1, <2>2, <2>3 DEF BatcherInit, BInv, EachRowOnce, MaintenanceExclusive, LossIsKept
  <1>2. BInv /\ [BatcherNext]_batchVars => BInv'
    BY BatcherStep
  <1>3. BInv => AppendersInv /\ LossIsKept
    BY DEF BInv, AppendersInv
  <1> QED
    BY <1>1, <1>2, <1>3, PTL DEF BatcherSpec

-----------------------------------------------------------------------------
(* The appenders under the executor and the callbacks.                     *)

Moved == Held \cup stored \subseteq Held' \cup stored'

Safe ==
  /\ BatcherTypeOK'
  /\ stored \subseteq stored'
  /\ failureVersion <= failureVersion'
  /\ closing = "no" /\ failureVersion' = failureVersion => Moved

Noticed == closing = "no" /\ ~flushErr' => ~flushErr /\ Moved

-----------------------------------------------------------------------------
(* Appenders.                                                              *)

\* The number of failing tables is counted, and is zero only for none.
LEMMA CountTables ==
  ASSUME NEW F \in SUBSET Tables
  PROVE  Cardinality(F) \in Nat /\ (Cardinality(F) = 0 => F = {})
  <1>1. IsFiniteSet(F)
    BY FS_Subset, BatcherConstants
  <1> QED
    BY <1>1, FS_CardinalityType, FS_EmptySet

\* failLocked moves the version and leaves a note unless nothing failed.
LEMMA FailMoves ==
  ASSUME BatcherTypeOK, NEW F \in SUBSET Tables, Fail(F), lost \subseteq lost', lost' \subseteq Rows
  PROVE  /\ failureVersion' \in 0..MaxFailures
         /\ failureVersion <= failureVersion'
         /\ failureVersion' = failureVersion => F = {}
         /\ flushErr' \in BOOLEAN
         /\ ~flushErr' => ~flushErr /\ F = {}
         /\ unreported' \subseteq lost'
  <1>1. Cardinality(F) \in Nat /\ (Cardinality(F) = 0 => F = {})
    BY CountTables
  <1>2. failureVersion \in Nat /\ MaxFailures \in Nat /\ failureVersion <= MaxFailures
    BY BatcherConstants DEF BatcherTypeOK
  <1>3. failureVersion' = failureVersion + Cardinality(F) /\ failureVersion' <= MaxFailures
    BY <1>1, <1>2 DEF Fail
  <1>4. failureVersion' \in 0..MaxFailures /\ failureVersion <= failureVersion'
        /\ (failureVersion' = failureVersion => F = {})
    BY <1>1, <1>2, <1>3
  <1>5. flushErr' \in BOOLEAN /\ (~flushErr' => ~flushErr /\ F = {})
    BY DEF Fail, BatcherTypeOK
  <1>6. unreported' \subseteq lost'
    BY DEF Fail, BatcherTypeOK
  <1> QED
    BY <1>4, <1>5, <1>6

\* A write keeps the types; without a failing table it loses nothing.
LEMMA WriteMoves ==
  ASSUME BatcherTypeOK, NEW T \in SUBSET Tables, NEW F, NEW S, Write(T, F, S)
  PROVE  /\ buffer' \in [Tables -> SUBSET Rows]
         /\ stored' \subseteq Rows
         /\ lost' \subseteq Rows
         /\ lost \subseteq lost'
         /\ stored \subseteq stored'
         /\ F = {} => Moved
         /\ F = {} => \A t \in T : buffer[t] \subseteq stored'
  <1>1. F \subseteq T /\ S \subseteq UNION {buffer[t] : t \in F}
    BY DEF Write
  <1>2. \A t \in Tables : buffer[t] \subseteq Rows
    BY DEF BatcherTypeOK
  <1>3. buffer' = [t \in Tables |-> IF t \in T THEN {} ELSE buffer[t]]
    BY DEF Write
  <1>4. buffer' \in [Tables -> SUBSET Rows]
    BY <1>2, <1>3
  <1>5. stored' = stored \cup (UNION {buffer[t] : t \in T \ F}) \cup S
    BY DEF Write
  <1>6. stored' \subseteq Rows /\ stored \subseteq stored'
    <2>1. S \subseteq Rows /\ stored \subseteq Rows
      BY <1>1, <1>2 DEF BatcherTypeOK
    <2>2. ASSUME NEW r \in stored' PROVE r \in Rows
      <3>1. r \in stored \/ r \in S \/ \E t \in T \ F : r \in buffer[t]
        BY <1>5
      <3> QED
        BY <2>1, <3>1, <1>2
    <2> QED
      BY <2>2, <1>5
  <1>7. lost' \subseteq Rows /\ lost \subseteq lost'
    BY <1>1, <1>2 DEF Write, BatcherTypeOK
  <1>8. F = {} => \A t \in T : buffer[t] \subseteq stored'
    BY <1>5
  <1>9. F = {} => Moved
    <2> SUFFICES ASSUME F = {}, NEW r \in Held \cup stored
                 PROVE  r \in Held' \cup stored'
      BY DEF Moved
    <2>1. CASE r \in stored
      BY <2>1, <1>6
    <2>2. CASE r \in Held
      <3>1. PICK t \in Tables : r \in buffer[t]
        BY <2>2 DEF Held
      <3>2. CASE t \in T
        BY <3>1, <3>2, <1>8
      <3>3. CASE t \notin T
        BY <3>1, <3>3, <1>3 DEF Held
      <3> QED BY <3>2, <3>3
    <2> QED BY <2>1, <2>2
  <1> QED
    BY <1>4, <1>6, <1>7, <1>8, <1>9

\* Replacing appenders leaves slots well typed.
LEMMA RecreateType ==
  ASSUME BatcherTypeOK, NEW F, Recreate(F)
  PROVE  slot' \in [Tables -> {"open", "leased", "none"}]
  BY DEF Recreate, BatcherTypeOK

\* The ticker.
LEMMA IntervalSafe ==
  ASSUME BatcherTypeOK, IntervalFlush
  PROVE  Safe /\ Noticed
  <1>1. PICK F \in SUBSET Loaded : FlushTables(F) /\ Fail(F)
    BY DEF IntervalFlush
  <1>2. PICK S \in SUBSET UNION {buffer[t] : t \in F} : Write(Loaded, F, S)
    BY <1>1 DEF FlushTables
  <1>3. Loaded \in SUBSET Tables /\ F \in SUBSET Tables
    BY <1>1 DEF Loaded
  <1>4. /\ buffer' \in [Tables -> SUBSET Rows]
        /\ stored' \subseteq Rows /\ lost' \subseteq Rows
        /\ lost \subseteq lost' /\ stored \subseteq stored'
        /\ F = {} => Moved
    BY <1>2, <1>3, WriteMoves
  <1>5. /\ failureVersion' \in 0..MaxFailures
        /\ failureVersion <= failureVersion'
        /\ failureVersion' = failureVersion => F = {}
        /\ flushErr' \in BOOLEAN
        /\ ~flushErr' => ~flushErr /\ F = {}
        /\ unreported' \subseteq lost'
    BY <1>1, <1>3, <1>4, FailMoves
  <1>6. slot' \in [Tables -> {"open", "leased", "none"}]
    BY <1>1, RecreateType DEF FlushTables
  <1>7. closing' = closing /\ maintaining' = maintaining
    BY <1>1 DEF FlushTables, lifeVars
  <1>8. BatcherTypeOK'
    BY <1>4, <1>5, <1>6, <1>7 DEF BatcherTypeOK
  <1> QED
    BY <1>4, <1>5, <1>8 DEF Safe, Noticed

\* An explicit flush that reports nothing has written every buffered row, and
\* found no earlier failure.
LEMMA ExplicitSafe ==
  ASSUME BatcherTypeOK, NEW bad \in BOOLEAN, ExplicitFlush(bad)
  PROVE  /\ Safe
         /\ ~bad => ~flushErr /\ Held \cup stored \subseteq stored'
         /\ failureVersion' = failureVersion => Held \cup stored \subseteq stored'
         /\ closing' = closing
  <1>1. PICK F \in SUBSET Loaded :
          /\ FlushTables(F)
          /\ failureVersion + Cardinality(F) <= MaxFailures
          /\ failureVersion' = failureVersion + Cardinality(F)
          /\ bad = (flushErr \/ F # {})
          /\ flushErr' = FALSE
          /\ unreported' = {}
    BY DEF ExplicitFlush
  <1>2. PICK S \in SUBSET UNION {buffer[t] : t \in F} : Write(Loaded, F, S)
    BY <1>1 DEF FlushTables
  <1>3. Loaded \in SUBSET Tables /\ F \in SUBSET Tables
    BY <1>1 DEF Loaded
  <1>4. /\ buffer' \in [Tables -> SUBSET Rows]
        /\ stored' \subseteq Rows /\ lost' \subseteq Rows
        /\ stored \subseteq stored'
        /\ F = {} => Moved
        /\ F = {} => \A t \in Loaded : buffer[t] \subseteq stored'
    BY <1>2, <1>3, WriteMoves
  <1>5. Cardinality(F) \in Nat /\ (Cardinality(F) = 0 => F = {})
    BY <1>3, CountTables
  <1>6. failureVersion \in Nat /\ MaxFailures \in Nat
    BY BatcherConstants DEF BatcherTypeOK
  <1>7. /\ failureVersion' \in 0..MaxFailures
        /\ failureVersion <= failureVersion'
        /\ failureVersion' = failureVersion => F = {}
    BY <1>1, <1>5, <1>6
  <1>8. slot' \in [Tables -> {"open", "leased", "none"}]
    BY <1>1, RecreateType DEF FlushTables
  <1>9. closing' = closing /\ maintaining' = maintaining
    BY <1>1 DEF FlushTables, lifeVars
  <1>10. BatcherTypeOK'
    BY <1>1, <1>4, <1>7, <1>8, <1>9 DEF BatcherTypeOK
  <1>11. F = {} => Held \cup stored \subseteq stored'
    <2>1. \A t \in Tables \ Loaded : buffer[t] = {}
      BY DEF Loaded
    <2> QED
      BY <1>4, <2>1 DEF Held
  <1>12. ~bad => ~flushErr /\ F = {}
    BY <1>1
  <1> QED
    BY <1>4, <1>7, <1>9, <1>10, <1>11, <1>12 DEF Safe

\* Maintenance reopens appenders: rows stay where they are.
LEMMA ReopenSafe ==
  ASSUME BatcherTypeOK, NEW L \in SUBSET Tables, NEW F, Reopen(L, F),
         buffer' = buffer, closing' = closing, stored' = stored,
         maintaining' \in BOOLEAN
  PROVE  Safe /\ Noticed
  <1>1. F \in SUBSET Tables /\ Fail(F) /\ lost' = lost
    BY DEF Reopen
  <1>2. /\ failureVersion' \in 0..MaxFailures
        /\ failureVersion <= failureVersion'
        /\ flushErr' \in BOOLEAN
        /\ ~flushErr' => ~flushErr
        /\ unreported' \subseteq lost'
    <2>1. lost \subseteq lost' /\ lost' \subseteq Rows
      BY <1>1 DEF BatcherTypeOK
    <2> QED
      BY <1>1, <2>1, FailMoves
  <1>3. slot' \in [Tables -> {"open", "leased", "none"}]
    BY DEF Reopen, BatcherTypeOK
  <1>4. BatcherTypeOK'
    BY <1>1, <1>2, <1>3 DEF BatcherTypeOK
  <1>5. Moved
    BY DEF Moved, Held
  <1> QED
    BY <1>2, <1>4, <1>5 DEF Safe, Noticed

\* Closing every appender for maintenance writes its rows or records a loss.
LEMMA BeginSafe ==
  ASSUME BatcherTypeOK, BeginMaintenance
  PROVE  Safe /\ Noticed
  <1>1. PICK F \in SUBSET Opened, S \in SUBSET Held : Write(Tables, F, S) /\ Fail(F)
    BY DEF BeginMaintenance
  <1>2. F \in SUBSET Tables
    BY <1>1 DEF Opened
  <1>3. /\ buffer' \in [Tables -> SUBSET Rows]
        /\ stored' \subseteq Rows /\ lost' \subseteq Rows
        /\ lost \subseteq lost' /\ stored \subseteq stored'
        /\ F = {} => Moved
    BY <1>1, WriteMoves
  <1>4. /\ failureVersion' \in 0..MaxFailures
        /\ failureVersion <= failureVersion'
        /\ failureVersion' = failureVersion => F = {}
        /\ flushErr' \in BOOLEAN
        /\ ~flushErr' => ~flushErr /\ F = {}
        /\ unreported' \subseteq lost'
    BY <1>1, <1>2, <1>3, FailMoves
  <1>5. slot' \in [Tables -> {"open", "leased", "none"}] /\ closing' = closing /\ maintaining' = TRUE
    BY DEF BeginMaintenance
  <1>6. BatcherTypeOK'
    BY <1>3, <1>4, <1>5 DEF BatcherTypeOK
  <1> QED
    BY <1>3, <1>4, <1>6 DEF Safe, Noticed

\* Shutdown may lose what is left, when no export waits for it.
LEMMA ReleaseSafe ==
  ASSUME BatcherTypeOK, ReleaseAll, closing # "no",
         closing' \in {"no", "stopping", "done"}, maintaining' \in BOOLEAN
  PROVE  Safe /\ Noticed
  <1>1. PICK F \in SUBSET Loaded, S \in SUBSET Held : Write(Tables, F, S)
    BY DEF ReleaseAll
  <1>2. /\ buffer' \in [Tables -> SUBSET Rows]
        /\ stored' \subseteq Rows /\ lost' \subseteq Rows
        /\ lost \subseteq lost' /\ stored \subseteq stored'
    BY <1>1, WriteMoves
  <1>3. slot' \in [Tables -> {"open", "leased", "none"}]
    BY DEF ReleaseAll
  <1>4. flushErr' = flushErr /\ failureVersion' = failureVersion /\ unreported' = unreported
    BY DEF ReleaseAll, lossVars
  <1>5. BatcherTypeOK'
    BY <1>2, <1>3, <1>4 DEF BatcherTypeOK
  <1>6. failureVersion <= failureVersion'
    BY <1>4 DEF BatcherTypeOK
  <1> QED
    BY <1>2, <1>5, <1>6 DEF Safe, Noticed

\* Append accepted: the row and those before it are in the appender or the table.
LEMMA AcceptSafe ==
  ASSUME BatcherTypeOK, NEW r \in Rows, AppendAccepts(r)
  PROVE  /\ Safe /\ Noticed
         /\ Moved
         /\ r \in Held' \cup stored'
         /\ closing' = closing /\ flushErr' = flushErr
  <1> DEFINE t == TableOf[r]
  <1>1. t \in Tables
    BY BatcherConstants
  <1>2. buffer[t] \in SUBSET Rows /\ buffer \in [Tables -> SUBSET Rows]
    BY <1>1 DEF BatcherTypeOK
  <1>3. Keep(r, t) \/ KeepAndFlush(r, t)
    BY DEF AppendAccepts
  <1>4. closing' = closing /\ maintaining' = maintaining /\ slot' = [slot EXCEPT ![t] = "open"]
    BY DEF AppendAccepts, lifeVars
  <1>5. lost' = lost /\ flushErr' = flushErr /\ failureVersion' = failureVersion /\ unreported' = unreported
    BY <1>3 DEF Keep, KeepAndFlush, lossVars
  <1>6. /\ buffer' \in [Tables -> SUBSET Rows] /\ stored' \subseteq Rows /\ stored \subseteq stored'
        /\ Moved /\ r \in Held' \cup stored'
    <2>1. CASE Keep(r, t)
      <3>1. buffer' = [buffer EXCEPT ![t] = @ \cup {r}] /\ stored' = stored
        BY <2>1 DEF Keep
      <3>2. buffer' \in [Tables -> SUBSET Rows] /\ stored' \subseteq Rows
        BY <1>1, <1>2, <3>1 DEF BatcherTypeOK
      <3>3. \A u \in Tables : buffer[u] \subseteq buffer'[u]
        BY <1>1, <1>2, <3>1
      <3>4. r \in buffer'[t]
        BY <1>1, <1>2, <3>1
      <3> QED
        BY <1>1, <3>1, <3>2, <3>3, <3>4 DEF Held, Moved
    <2>2. CASE KeepAndFlush(r, t)
      <3>1. stored' = stored \cup buffer[t] \cup {r} /\ buffer' = [buffer EXCEPT ![t] = {}]
        BY <2>2 DEF KeepAndFlush
      <3>2. buffer' \in [Tables -> SUBSET Rows]
        BY <1>1, <1>2, <3>1
      <3>3. stored' \subseteq Rows
        BY <1>2, <3>1 DEF BatcherTypeOK
      <3>4. \A u \in Tables : buffer[u] \subseteq stored' \/ buffer'[u] = buffer[u]
        BY <1>1, <1>2, <3>1
      <3>5. Moved
        BY <3>1, <3>4 DEF Held, Moved
      <3> QED
        BY <3>1, <3>2, <3>3, <3>5
    <2> QED BY <1>3, <2>1, <2>2
  <1>7. slot' \in [Tables -> {"open", "leased", "none"}]
    BY <1>4 DEF BatcherTypeOK
  <1>8. BatcherTypeOK'
    BY <1>4, <1>5, <1>6, <1>7 DEF BatcherTypeOK
  <1>9. failureVersion <= failureVersion'
    BY <1>5 DEF BatcherTypeOK
  <1> QED
    BY <1>4, <1>5, <1>6, <1>8, <1>9 DEF Safe, Noticed

\* Append failed: the version moves, or only the new row is gone.
LEMMA FailsSafe ==
  ASSUME BatcherTypeOK, NEW r \in Rows, AppendFails(r)
  PROVE  Safe /\ Noticed /\ closing' = closing
  <1> DEFINE t == TableOf[r]
  <1>1. t \in Tables
    BY BatcherConstants
  <1>2. buffer[t] \in SUBSET Rows /\ buffer \in [Tables -> SUBSET Rows]
    BY <1>1 DEF BatcherTypeOK
  <1>3. CASE AppendBreaks(r)
    <2>1. PICK S \in SUBSET (buffer[t] \cup {r}) :
            stored' = stored \cup S /\ lost' = lost \cup ((buffer[t] \cup {r}) \ S)
      BY <1>3 DEF AppendBreaks
    <2>2. stored' \subseteq Rows /\ stored \subseteq stored' /\ lost' \subseteq Rows /\ lost \subseteq lost'
      BY <1>2, <2>1 DEF BatcherTypeOK
    <2>3. buffer' = [buffer EXCEPT ![t] = {}] /\ Recreate({t}) /\ Fail({t})
          /\ closing' = closing /\ maintaining' = maintaining
      BY <1>3 DEF AppendBreaks, lifeVars
    <2>4. buffer' \in [Tables -> SUBSET Rows]
      BY <1>1, <1>2, <2>3
    <2>5. slot' \in [Tables -> {"open", "leased", "none"}]
      BY <2>3, RecreateType
    <2>6. /\ failureVersion' \in 0..MaxFailures
          /\ failureVersion <= failureVersion'
          /\ failureVersion' # failureVersion
          /\ flushErr' \in BOOLEAN
          /\ flushErr'
          /\ unreported' \subseteq lost'
      <3>1. {t} \in SUBSET Tables /\ {t} # {}
        BY <1>1
      <3> QED
        BY <2>2, <2>3, <3>1, FailMoves
    <2>7. BatcherTypeOK'
      BY <2>2, <2>3, <2>4, <2>5, <2>6 DEF BatcherTypeOK
    <2> QED
      BY <2>2, <2>3, <2>6, <2>7 DEF Safe, Noticed
  <1>4. CASE AppendRefused(r)
    <2>1. /\ lost' = lost \cup {r}
          /\ buffer' = buffer /\ stored' = stored
          /\ flushErr' = flushErr /\ failureVersion' = failureVersion /\ unreported' = unreported
          /\ closing' = closing /\ maintaining' = maintaining
      BY <1>4 DEF AppendRefused, lossVars, lifeVars
    <2>2. slot' \in [Tables -> {"open", "leased", "none"}]
      BY <1>4 DEF AppendRefused, BatcherTypeOK
    <2>3. BatcherTypeOK'
      BY <2>1, <2>2 DEF BatcherTypeOK
    <2>4. failureVersion <= failureVersion'
      BY <2>1 DEF BatcherTypeOK
    <2> QED
      BY <2>1, <2>3, <2>4 DEF Safe, Noticed, Moved, Held
  <1> QED
    BY <1>3, <1>4 DEF AppendFails

\* Everything the ticker, maintenance and shutdown do.
LEMMA BackgroundSafe ==
  ASSUME BatcherTypeOK, Background
  PROVE  Safe /\ Noticed
  <1>1. CASE IntervalFlush
    BY <1>1, IntervalSafe
  <1>2. CASE MaintenanceRefused
    <2>1. PICK t \in Tables : slot[t] = "none" /\ \E L \in SUBSET {u \in Tables : slot[u] = "none" /\ u # t} :
            \E F \in SUBSET (L \cup Leased) : Reopen(L \cup Leased, F)
      BY <1>2 DEF MaintenanceRefused
    <2>2. PICK L \in SUBSET Tables : \E F : Reopen(L \cup Leased, F)
      BY <2>1
    <2>3. PICK F : Reopen(L \cup Leased, F)
      BY <2>2
    <2>4. L \cup Leased \in SUBSET Tables
      BY DEF Leased
    <2>5. buffer' = buffer /\ closing' = closing /\ stored' = stored /\ maintaining' \in BOOLEAN
      BY <1>2 DEF MaintenanceRefused, lifeVars, BatcherTypeOK
    <2> QED
      BY <2>3, <2>4, <2>5, ReopenSafe
  <1>3. CASE BeginMaintenance
    BY <1>3, BeginSafe
  <1>4. CASE EndMaintenance
    <2>1. PICK F : Reopen(Leased, F)
      BY <1>4 DEF EndMaintenance
    <2>2. Leased \in SUBSET Tables
      BY DEF Leased
    <2>3. buffer' = buffer /\ closing' = closing /\ stored' = stored /\ maintaining' \in BOOLEAN
      BY <1>4 DEF EndMaintenance
    <2> QED
      BY <2>1, <2>2, <2>3, ReopenSafe
  <1>5. CASE Close
    <2>1. /\ closing' = "stopping"
          /\ UNCHANGED <<slot, buffer, flushErr, failureVersion, unreported, maintaining, stored, lost>>
      BY <1>5 DEF Close, lossVars
    <2> QED
      BY <2>1 DEF Safe, Noticed, Moved, Held, BatcherTypeOK
  <1>6. CASE FinishClose
    <2>1. ReleaseAll /\ closing # "no" /\ closing' = "done" /\ maintaining' \in BOOLEAN
      BY <1>6 DEF FinishClose, BatcherTypeOK
    <2> QED
      BY <2>1, ReleaseSafe
  <1>7. CASE BeginClosedMaintenance
    <2>1. ReleaseAll /\ closing # "no" /\ closing' = closing /\ maintaining' \in BOOLEAN
      BY <1>7 DEF BeginClosedMaintenance, BatcherTypeOK
    <2>2. closing' \in {"no", "stopping", "done"}
      BY <2>1 DEF BatcherTypeOK
    <2> QED
      BY <2>1, <2>2, ReleaseSafe
  <1> QED
    BY <1>1, <1>2, <1>3, <1>4, <1>5, <1>6, <1>7 DEF Background

-----------------------------------------------------------------------------
(* The executor.                                                           *)

\* A step that leaves the appenders alone leaves what the invariant says of them.
LEMMA BatchUnchanged ==
  ASSUME BatcherTypeOK, UNCHANGED batchVars
  PROVE  /\ BatcherTypeOK'
         /\ Held' = Held /\ stored' = stored /\ flushErr' = flushErr
         /\ failureVersion' = failureVersion /\ closing' = closing
  BY DEF batchVars, lossVars, lifeVars, BatcherTypeOK, Held

\* The version snapshot stays in range while the version only grows.
LEMMA SinceStays ==
  ASSUME StorageTypeOK, BatcherTypeOK', failureVersion <= failureVersion', since' = since
  PROVE  since' \in 0..failureVersion'
  BY BatcherConstants DEF StorageTypeOK, BatcherTypeOK

\* What was acknowledged stays stored.
LEMMA AckStays ==
  ASSUME OnlyTakenIsLost, stored \subseteq stored', verdict' = verdict, taken \subseteq taken'
  PROVE  OnlyTakenIsLost'
  BY DEF OnlyTakenIsLost

\* Between its callbacks, while no failure was missed, the group keeps its rows
\* through every step of the appenders that it does not make itself: it takes
\* no failure of the group's, or it is recorded.
Others ==
  \/ taken' = taken /\ (Noticed \/ step # "run" \/ failureVersion' = since)
  \/ taken' = taken \cup group /\ step = "run" /\ failureVersion' # since /\ Traces # {}

LEMMA GroupSurvives ==
  ASSUME StorageInv, Safe, Others,
         UNCHANGED <<verdict, execVars>>
  PROVE  GroupRows'
  <1>1. step' = step /\ failed' = failed /\ since' = since /\ Taken' = Taken
    BY DEF execVars, Taken
  <1>2. failureVersion \in Nat /\ failureVersion' \in Nat /\ since \in Nat
        /\ since <= failureVersion /\ failureVersion <= failureVersion'
    BY BatcherConstants DEF Safe, StorageInv, StorageTypeOK, BatcherTypeOK
  <1>3. failureVersion' = since => failureVersion = since /\ failureVersion' = failureVersion
    BY <1>2
  <1>4. step # "idle" => closing = "no"
    BY DEF StorageInv, Executor
  <1>5. stored \subseteq stored' /\ (closing = "no" /\ failureVersion' = failureVersion => Moved)
    BY DEF Safe
  <1>6. ASSUME ~failed, step = "run", Unharmed'
        PROVE  Taken \subseteq Held' \cup stored'
    <2>1. CASE failureVersion' = since
      BY <1>3, <1>4, <1>5, <1>6, <2>1 DEF StorageInv, GroupRows, Unharmed, Moved
    <2>2. CASE taken' = taken /\ Noticed /\ group \cap taken = {} /\ ~flushErr'
      <3>1. ~flushErr /\ Moved
        BY <1>4, <1>6, <2>2 DEF Noticed
      <3> QED
        BY <1>6, <2>2, <3>1 DEF StorageInv, GroupRows, Unharmed, Moved
    <2>3. CASE taken' = taken \cup group /\ group \cap taken' = {}
      <3>1. group = {}
        BY <2>3
      <3> QED
        BY <3>1 DEF Taken
    <2>4. group' = group
      BY DEF execVars
    <2> QED
      BY <1>1, <1>6, <2>1, <2>2, <2>3, <2>4 DEF Unharmed, Others
  <1>7. group' = group /\ (group \cap taken' = {} => group \cap taken = {})
    BY DEF execVars, Others
  <1> QED
    BY <1>1, <1>3, <1>5, <1>6, <1>7 DEF GroupRows, StorageInv

\* A step of the appenders that is not the executor's keeps the invariant,
\* whatever the traces do.
LEMMA OthersStep ==
  ASSUME StorageInv, Safe, Others,
         UNCHANGED <<verdict, execVars>>,
         closing # closing' => step = "idle" /\ \A e \in Exports : verdict[e] # "pending",
         tail' \in [Traces -> {"buffered", "appending", "done"}],
         tailTodo' \in [Traces -> SUBSET Rows],
         accepted' \subseteq Rows, shown' \subseteq accepted'
  PROVE  StorageInv'
  <1>1. GroupRows'
    BY GroupSurvives
  <1>2. OnlyTakenIsLost'
    BY AckStays DEF StorageInv, Safe, Others
  <1>3. Executor'
    <2>1. failureVersion \in Nat /\ failureVersion' \in Nat /\ since \in Nat
          /\ since <= failureVersion /\ failureVersion <= failureVersion'
      BY BatcherConstants DEF Safe, StorageInv, StorageTypeOK, BatcherTypeOK
    <2>2. failureVersion # since => failureVersion' # since
      BY <2>1
    <2> QED
      BY <2>2 DEF StorageInv, Executor, execVars, Others
  <1>4. since' \in 0..failureVersion'
    BY SinceStays DEF StorageInv, Safe, execVars
  <1>5. StorageTypeOK'
    BY <1>4 DEF StorageInv, StorageTypeOK, Safe, execVars, Others
  <1> QED
    BY <1>1, <1>2, <1>3, <1>5 DEF StorageInv

\* A step of the executor that leaves the appenders alone keeps what was
\* stored; the types of what it changes are the caller's.
LEMMA ExecutorTypes ==
  ASSUME StorageTypeOK, UNCHANGED batchVars, UNCHANGED bufferVars, taken' \subseteq Exports,
         verdict' \in [Exports -> {"none", "pending", "ok", "error"}],
         step' \in {"idle", "run", "compare", "answer"},
         group' \subseteq Exports, left' \subseteq group', expired' \subseteq group' \ left',
         current' \in group' \cup {None},
         todo' \subseteq Rows, since' \in 0..failureVersion,
         instrument' \in BOOLEAN, failed' \in BOOLEAN
  PROVE  StorageTypeOK'
  <1>1. BatcherTypeOK' /\ failureVersion' = failureVersion
    BY BatchUnchanged DEF StorageTypeOK
  <1> QED
    BY <1>1 DEF StorageTypeOK, bufferVars

\* The invariant holds at first.
LEMMA StorageInitially == StorageInit => StorageInv
  <1> SUFFICES ASSUME StorageInit PROVE StorageInv
    OBVIOUS
  <1>1. BatcherTypeOK
    <2>1. slot \in [Tables -> {"open", "leased", "none"}] /\ buffer \in [Tables -> SUBSET Rows]
      BY DEF StorageInit, BatcherInit
    <2>2. failureVersion \in 0..MaxFailures
      BY BatcherConstants DEF StorageInit, BatcherInit
    <2> QED
      BY <2>1, <2>2 DEF StorageInit, BatcherInit, BatcherTypeOK
  <1>2. StorageTypeOK
    <2>1. since \in 0..failureVersion
      BY DEF StorageInit, BatcherInit
    <2>2. /\ verdict \in [Exports -> {"none", "pending", "ok", "error"}]
          /\ tail \in [Traces -> {"buffered", "appending", "done"}]
          /\ tailTodo \in [Traces -> SUBSET Rows]
      BY DEF StorageInit
    <2> QED
      BY <1>1, <2>1, <2>2 DEF StorageInit, StorageTypeOK
  <1>3. Executor
    BY DEF StorageInit, BatcherInit, Executor
  <1>4. GroupRows /\ OnlyTakenIsLost
    BY DEF StorageInit, GroupRows, OnlyTakenIsLost
  <1> QED
    BY <1>2, <1>3, <1>4 DEF StorageInv

\* Every step keeps the invariant.
LEMMA StorageStep ==
  ASSUME StorageInv, [StorageNext]_storageVars
  PROVE  StorageInv'
  <1> USE DEF StorageInv
  <1>0. /\ failureVersion \in Nat /\ since \in 0..failureVersion
        /\ BatcherTypeOK /\ StorageTypeOK /\ Executor /\ GroupRows /\ OnlyTakenIsLost
    BY DEF StorageTypeOK, BatcherTypeOK
  <1>1. ASSUME NEW e \in Exports, Admit(e) PROVE StorageInv'
    <2>1. UNCHANGED batchVars /\ UNCHANGED execVars /\ UNCHANGED bufferVars /\ taken' = taken /\ closing = "no"
          /\ verdict' = [verdict EXCEPT ![e] = "pending"] /\ verdict[e] = "none"
      BY <1>1 DEF Admit, tailVars
    <2>2. Held' = Held /\ stored' = stored /\ flushErr' = flushErr
          /\ failureVersion' = failureVersion /\ closing' = closing
      BY <2>1, <1>0, BatchUnchanged
    <2>3. StorageTypeOK'
      BY <2>1, <1>0, ExecutorTypes DEF StorageTypeOK, execVars, bufferVars
    <2>4. Executor'
      BY <2>1, <2>2, <1>0 DEF Executor, execVars, StorageTypeOK
    <2>5. GroupRows'
      BY <2>1, <2>2, <1>0 DEF GroupRows, Unharmed, Taken, execVars
    <2>6. OnlyTakenIsLost'
      BY <2>1, <2>2, <1>0 DEF OnlyTakenIsLost, StorageTypeOK
    <2> QED
      BY <2>3, <2>4, <2>5, <2>6
  <1>2. ASSUME NEW G \in SUBSET Exports, TakeGroup(G) PROVE StorageInv'
    <2>1. /\ UNCHANGED batchVars /\ UNCHANGED <<verdict, current, todo>> /\ UNCHANGED bufferVars /\ taken' = taken
          /\ step = "idle" /\ step' = "run" /\ group' = G /\ left' = G /\ expired' = {} /\ since' = failureVersion
          /\ instrument' = FALSE /\ failed' = FALSE /\ \A e \in G : verdict[e] = "pending"
      BY <1>2 DEF TakeGroup, tailVars
    <2>2. Held' = Held /\ stored' = stored /\ closing' = closing
      BY <2>1, <1>0, BatchUnchanged
    <2>3. current = None /\ todo = {}
      BY <2>1, <1>0 DEF Executor
    <2>4. StorageTypeOK'
      <3>1. since' \in 0..failureVersion
        BY <2>1, <1>0
      <3>2. /\ verdict' \in [Exports -> {"none", "pending", "ok", "error"}]
            /\ group' \subseteq Exports /\ left' \subseteq group' /\ expired' \subseteq group' \ left' /\ current' \in group' \cup {None}
            /\ todo' \subseteq Rows
        BY <2>1, <2>3, <1>0 DEF StorageTypeOK
      <3> QED
        BY <2>1, <3>1, <3>2, <1>0, ExecutorTypes DEF StorageTypeOK
    <2>5. Taken' = {}
      BY <2>1 DEF Taken
    <2>6. GroupRows'
      BY <2>1, <2>5 DEF GroupRows
    <2>7. closing = "no"
      BY <1>0, <1>2 DEF TakeGroup, Executor
    <2>8. Executor'
      BY <2>1, <2>2, <2>3, <2>7 DEF Executor
    <2>9. OnlyTakenIsLost'
      BY <2>1, <2>2, <1>0 DEF OnlyTakenIsLost
    <2> QED
      BY <2>4, <2>6, <2>8, <2>9
  <1>3. ASSUME NEW e \in Exports, Withdraw(e) PROVE StorageInv'
    <2>1. /\ UNCHANGED batchVars /\ UNCHANGED <<step, expired, current, todo, since, instrument, failed>> /\ UNCHANGED bufferVars /\ taken' = taken \ {e}
          /\ verdict[e] = "pending" /\ (e \in group => e \in left /\ step = "run")
          /\ left' = left \ {e} /\ group' = group \ {e} /\ verdict' = [verdict EXCEPT ![e] = "error"]
      BY <1>3, <1>0 DEF Withdraw, StorageTypeOK, Executor
    <2>2. Held' = Held /\ stored' = stored /\ flushErr' = flushErr
          /\ failureVersion' = failureVersion /\ closing' = closing
      BY <2>1, <1>0, BatchUnchanged
    <2>3. StorageTypeOK'
      <3>1. left' \subseteq group' /\ expired' \subseteq group' \ left'
        BY <2>1, <1>0 DEF StorageTypeOK
      <3>2. current' \in group' \cup {None}
        BY <2>1, <1>0 DEF StorageTypeOK, Executor
      <3>3. verdict' \in [Exports -> {"none", "pending", "ok", "error"}] /\ group' \subseteq Exports
        BY <2>1, <1>0 DEF StorageTypeOK
      <3> QED
        BY <2>1, <3>1, <3>2, <3>3, <1>0, ExecutorTypes DEF StorageTypeOK
    <2>4. Executor'
      BY <2>1, <2>2, <1>0 DEF Executor, StorageTypeOK
    <2>5. Taken' = Taken
      BY <2>1 DEF Taken
    <2>6. GroupRows'
      <3>1. CASE e \in taken /\ group' \cap taken' = {}
        <4>1. group \subseteq {e} /\ e \in group /\ e \in left
          BY <2>1, <3>1, <1>0 DEF Executor, StorageTypeOK
        <4>2. Taken = {}
          BY <2>1, <4>1 DEF Taken
        <4> QED
          BY <2>5, <4>2 DEF GroupRows
      <3>2. CASE e \notin taken \/ group' \cap taken' # {}
        <4>1. group' \cap taken' = {} => group \cap taken = {}
          BY <2>1, <3>2
        <4> QED
          BY <2>1, <2>2, <2>5, <4>1, <1>0 DEF GroupRows, Unharmed
      <3> QED
        BY <3>1, <3>2
    <2>7. OnlyTakenIsLost'
      BY <2>1, <2>2, <1>0 DEF OnlyTakenIsLost, StorageTypeOK
    <2> QED
      BY <2>3, <2>4, <2>6, <2>7
  <1>4. ASSUME NEW e \in Exports, RefuseFull(e) PROVE StorageInv'
    <2>1. /\ UNCHANGED batchVars /\ UNCHANGED <<verdict, step, group, expired, current, todo, since, instrument>> /\ UNCHANGED bufferVars /\ taken' = taken
          /\ step = "run" /\ current = None /\ left' = left \ {e} /\ failed' = TRUE
      BY <1>4 DEF RefuseFull, Between, tailVars
    <2>2. Held' = Held /\ stored' = stored /\ failureVersion' = failureVersion /\ closing' = closing
      BY <2>1, <1>0, BatchUnchanged
    <2>3. StorageTypeOK'
      BY <2>1, <1>0, ExecutorTypes DEF StorageTypeOK
    <2>4. Executor'
      BY <2>1, <2>2, <1>0 DEF Executor
    <2>5. GroupRows'
      BY <2>1 DEF GroupRows
    <2>6. OnlyTakenIsLost'
      BY <2>1, <2>2, <1>0 DEF OnlyTakenIsLost
    <2> QED
      BY <2>3, <2>4, <2>5, <2>6
  <1>5. ASSUME NEW e \in Exports, StartRun(e) PROVE StorageInv'
    <2>1. /\ UNCHANGED batchVars /\ UNCHANGED <<verdict, step, group, expired, since, instrument, failed>> /\ UNCHANGED bufferVars /\ taken' = taken
          /\ step = "run" /\ current = None /\ e \in left
          /\ left' = left \ {e} /\ current' = e /\ todo' = RowsOf[e]
      BY <1>5 DEF StartRun, Between, tailVars
    <2>2. Held' = Held /\ stored' = stored /\ flushErr' = flushErr
          /\ failureVersion' = failureVersion /\ closing' = closing
      BY <2>1, <1>0, BatchUnchanged
    <2>3. RowsOf[e] \subseteq Rows /\ e # None
      BY StorageConstants
    <2>4. StorageTypeOK'
      BY <2>1, <2>3, <1>0, ExecutorTypes DEF StorageTypeOK
    <2>5. Executor'
      BY <2>1, <2>2, <2>3, <1>0 DEF Executor
    <2>6. Taken' \subseteq Taken
      BY <2>1, <1>0 DEF Taken, Executor
    <2>7. GroupRows'
      BY <2>1, <2>2, <2>6, <1>0 DEF GroupRows, Unharmed
    <2>8. OnlyTakenIsLost'
      BY <2>1, <2>2, <1>0 DEF OnlyTakenIsLost
    <2> QED
      BY <2>4, <2>5, <2>7, <2>8
  <1>6. ASSUME NEW r \in Rows, AppendRow(r) PROVE StorageInv'
    <2>1. /\ UNCHANGED <<verdict, step, group, expired, left, current, since, instrument, failed>> /\ UNCHANGED bufferVars /\ taken' = taken
          /\ r \in todo /\ todo' = todo \ {r} /\ AppendAccepts(r)
      BY <1>6 DEF AppendRow, tailVars
    <2>2. Safe /\ Noticed /\ Moved /\ r \in Held' \cup stored' /\ closing' = closing /\ flushErr' = flushErr
      BY <2>1, <1>0, AcceptSafe
    <2>3. current # None /\ step = "run" /\ step' = "run"
      BY <2>1, <1>0 DEF Executor
    <2>4. since' \in 0..failureVersion'
      BY <2>1, <2>2, <1>0, SinceStays DEF Safe
    <2>5. StorageTypeOK'
      BY <2>1, <2>2, <2>4, <1>0 DEF StorageTypeOK, Safe, bufferVars
    <2>6. Executor'
      <3>1. failureVersion # since => failureVersion' # since'
        <4>1. failureVersion' \in Nat /\ failureVersion <= failureVersion' /\ since' = since
          BY <2>1, <2>2 DEF Safe, BatcherTypeOK
        <4> QED
          BY <4>1, <1>0
      <3> QED
        BY <2>1, <2>2, <2>3, <3>1, <1>0 DEF Executor
    <2>7. Taken' \subseteq Taken \cup {r}
      BY <2>1 DEF Taken
    <2>8. Unharmed' => Unharmed
      <3>1. failureVersion' \in Nat /\ failureVersion <= failureVersion'
        BY <2>2 DEF Safe, BatcherTypeOK
      <3>2. failureVersion' = since => failureVersion = since
        BY <3>1, <1>0
      <3> QED
        BY <3>2, <2>1, <2>2 DEF Unharmed
    <2>9. GroupRows'
      BY <2>1, <2>2, <2>3, <2>7, <2>8, <1>0 DEF GroupRows, Moved
    <2>10. OnlyTakenIsLost'
      BY <2>1, <2>2, <1>0, AckStays DEF Safe
    <2> QED
      BY <2>5, <2>6, <2>9, <2>10
  <1>7. ASSUME NEW r \in Rows, AppendRowFails(r) PROVE StorageInv'
    <2>1. /\ UNCHANGED <<verdict, step, group, expired, left, since, instrument>> /\ UNCHANGED bufferVars /\ taken' = taken
          /\ r \in todo /\ todo' = {} /\ current' = None /\ failed' = TRUE /\ AppendFails(r)
      BY <1>7 DEF AppendRowFails, tailVars
    <2>2. Safe /\ closing' = closing
      BY <2>1, <1>0, FailsSafe
    <2>3. current # None /\ step = "run" /\ step' = "run"
      BY <2>1, <1>0 DEF Executor
    <2>4. since' \in 0..failureVersion'
      BY <2>1, <2>2, <1>0, SinceStays DEF Safe
    <2>5. StorageTypeOK'
      BY <2>1, <2>2, <2>4, <1>0 DEF StorageTypeOK, Safe, bufferVars
    <2>6. Executor'
      <3>1. failureVersion # since => failureVersion' # since'
        <4>1. failureVersion' \in Nat /\ failureVersion <= failureVersion' /\ since' = since
          BY <2>1, <2>2 DEF Safe, BatcherTypeOK
        <4> QED
          BY <4>1, <1>0
      <3> QED
        BY <2>1, <2>2, <2>3, <3>1, <1>0 DEF Executor
    <2>7. GroupRows'
      BY <2>1 DEF GroupRows
    <2>8. OnlyTakenIsLost'
      BY <2>1, <2>2, <1>0, AckStays DEF Safe
    <2> QED
      BY <2>5, <2>6, <2>7, <2>8
  <1>8. CASE EndRun
    <2>1. /\ UNCHANGED batchVars /\ UNCHANGED <<verdict, step, group, expired, left, todo, since, failed>> /\ UNCHANGED bufferVars /\ taken' = taken
          /\ current # None /\ todo = {} /\ instrument' = (instrument \/ current \in Instrumented) /\ current' = None
      BY <1>8 DEF EndRun, tailVars
    <2>2. Held' = Held /\ stored' = stored /\ flushErr' = flushErr
          /\ failureVersion' = failureVersion /\ closing' = closing
      BY <2>1, <1>0, BatchUnchanged
    <2>3. step = "run"
      BY <2>1, <1>0 DEF Executor
    <2>4. StorageTypeOK'
      BY <2>1, <1>0, ExecutorTypes DEF StorageTypeOK
    <2>5. Executor'
      BY <2>1, <2>2, <2>3, <1>0 DEF Executor
    <2>6. Taken' = Taken
      BY <2>1 DEF Taken
    <2>7. GroupRows'
      BY <2>1, <2>2, <2>6, <1>0 DEF GroupRows, Unharmed
    <2>8. OnlyTakenIsLost'
      BY <2>1, <2>2, <1>0 DEF OnlyTakenIsLost
    <2> QED
      BY <2>4, <2>5, <2>7, <2>8
  <1>9. CASE Barrier
    <2>1. PICK bad \in BOOLEAN : ExplicitFlush(bad) /\ failed' = (failed \/ bad)
      BY <1>9 DEF Barrier
    <2>2. /\ UNCHANGED <<verdict, group, expired, left, current, todo, since, instrument>> /\ UNCHANGED bufferVars
          /\ taken' = IF instrument THEN taken ELSE taken \ group
          /\ step = "run" /\ current = None /\ left = {}
          /\ step' = IF instrument THEN "answer" ELSE "compare"
      BY <1>9 DEF Barrier, Between
    <2>3. /\ Safe /\ closing' = closing
          /\ ~bad => ~flushErr /\ Held \cup stored \subseteq stored'
          /\ failureVersion' = failureVersion => Held \cup stored \subseteq stored'
      BY <2>1, <1>0, ExplicitSafe
    <2>4. since' \in 0..failureVersion'
      BY <2>2, <2>3, <1>0, SinceStays DEF Safe
    <2>5. StorageTypeOK'
      BY <2>1, <2>2, <2>3, <2>4, <1>0 DEF StorageTypeOK, Safe, bufferVars
    <2>6. Executor'
      BY <2>2, <2>3, <1>0 DEF Executor
    <2>7. Taken' = Taken
      BY <2>2 DEF Taken
    <2>8. ASSUME ~failed', step' = "answer", group \cap taken' = {} PROVE Taken \subseteq stored'
      <3>1. instrument /\ group \cap taken = {}
        BY <2>2, <2>8
      <3>2. ~failed /\ ~flushErr /\ Held \cup stored \subseteq stored'
        BY <2>1, <2>3, <2>8
      <3> QED
        BY <2>2, <3>1, <3>2, <1>0 DEF GroupRows, Unharmed
    <2>9. ASSUME ~failed', step' = "compare", failureVersion' = since' PROVE Taken \subseteq stored'
      <3>1. failureVersion' \in Nat /\ failureVersion <= failureVersion'
        BY <2>3 DEF Safe, BatcherTypeOK
      <3>2. failureVersion = since /\ failureVersion' = failureVersion
        BY <3>1, <2>2, <2>9, <1>0
      <3>3. ~failed
        BY <2>1, <2>9
      <3> QED
        BY <2>2, <2>3, <3>2, <3>3, <1>0 DEF GroupRows, Unharmed
    <2>10. GroupRows'
      BY <2>2, <2>7, <2>8, <2>9 DEF GroupRows
    <2>11. OnlyTakenIsLost'
      BY <2>2, <2>3, <1>0 DEF Safe, OnlyTakenIsLost, Executor
    <2> QED
      BY <2>5, <2>6, <2>10, <2>11
  <1>10. CASE Compare
    <2>1. /\ UNCHANGED batchVars /\ UNCHANGED <<verdict, group, expired, left, current, todo, since, instrument>> /\ UNCHANGED bufferVars /\ taken' = taken
          /\ step = "compare" /\ step' = "answer" /\ failed' = (failed \/ failureVersion # since)
      BY <1>10 DEF Compare, tailVars
    <2>2. Held' = Held /\ stored' = stored /\ closing' = closing
      BY <2>1, <1>0, BatchUnchanged
    <2>3. StorageTypeOK'
      BY <2>1, <1>0, ExecutorTypes DEF StorageTypeOK
    <2>4. Executor'
      BY <2>1, <2>2, <1>0 DEF Executor
    <2>5. Taken' = Taken
      BY <2>1 DEF Taken
    <2>6. GroupRows'
      BY <2>1, <2>2, <2>5, <1>0 DEF GroupRows
    <2>7. OnlyTakenIsLost'
      BY <2>1, <2>2, <1>0 DEF OnlyTakenIsLost
    <2> QED
      BY <2>3, <2>4, <2>6, <2>7
  <1>11. CASE Answer
    <2>1. /\ UNCHANGED batchVars /\ UNCHANGED <<left, current, todo, since, instrument, failed>> /\ UNCHANGED bufferVars /\ taken' = taken
          /\ step = "answer" /\ step' = "idle" /\ group' = {} /\ expired' = {}
          /\ verdict' = [e \in Exports |-> IF e \notin group THEN verdict[e] ELSE IF failed \/ e \in expired THEN "error" ELSE "ok"]
      BY <1>11 DEF Answer, tailVars
    <2>2. Held' = Held /\ stored' = stored /\ closing' = closing
      BY <2>1, <1>0, BatchUnchanged
    <2>3. left = {} /\ current = None /\ todo = {}
      BY <2>1, <1>0 DEF Executor
    <2>4. verdict' \in [Exports -> {"none", "pending", "ok", "error"}]
      BY <2>1, <1>0 DEF StorageTypeOK
    <2>5. StorageTypeOK'
      BY <2>1, <2>3, <2>4, <1>0, ExecutorTypes DEF StorageTypeOK
    <2>6. Executor'
      <3>1. \A e \in taken : verdict'[e] \in {"ok", "error"}
        BY <2>1, <1>0 DEF Executor, StorageTypeOK
      <3>2. taken = {} \/ Instrumented # {}
        BY <2>1, <1>0 DEF Executor
      <3>3. closing = "no"
        BY <2>1, <1>0 DEF Executor
      <3> QED
        BY <2>1, <2>2, <2>3, <3>1, <3>2, <3>3, <1>0 DEF Executor
    <2>7. GroupRows'
      BY <2>1 DEF GroupRows
    <2>8. \A e \in group \ expired : ~failed => RowsOf[e] \subseteq stored \/ e \in taken
      <3>1. CASE group \subseteq taken
        BY <3>1
      <3>2. CASE group \cap taken = {}
        BY <2>1, <2>3, <3>2, <1>0 DEF GroupRows, Taken
      <3> QED
        BY <3>1, <3>2, <1>0 DEF Executor
    <2>9. OnlyTakenIsLost'
      BY <2>1, <2>2, <2>8, <1>0 DEF OnlyTakenIsLost
    <2> QED
      BY <2>5, <2>6, <2>7, <2>9
  <1>12. ASSUME NEW t \in Traces, TailDecide(t) PROVE StorageInv'
    <2>1. UNCHANGED batchVars /\ UNCHANGED <<verdict, execVars>> /\ UNCHANGED <<accepted, shown, taken>>
      BY <1>12 DEF TailDecide
    <2>2. tail' \in [Traces -> {"buffered", "appending", "done"}]
      BY <1>12, <1>0 DEF TailDecide, StorageTypeOK
    <2>3. RowsOf[t] \subseteq Rows
      BY StorageConstants
    <2>4. tailTodo' \in [Traces -> SUBSET Rows]
      BY <1>12, <2>3, <1>0 DEF TailDecide, StorageTypeOK
    <2>5. BatcherTypeOK' /\ stored' = stored /\ failureVersion' = failureVersion /\ closing' = closing /\ Held' = Held
      BY <2>1, <1>0, BatchUnchanged
    <2>6. Safe /\ Others
      BY <2>1, <2>5, <1>0 DEF Safe, Moved, Others, Noticed, batchVars, lossVars
    <2>7. accepted' \subseteq Rows /\ shown' \subseteq accepted'
      BY <2>1, <1>0 DEF StorageTypeOK
    <2> QED
      BY <2>1, <2>2, <2>4, <2>5, <2>6, <2>7, OthersStep
  <1>13. ASSUME NEW t \in Traces, NEW r \in Rows, TailAppend(t, r) PROVE StorageInv'
    <2>1. UNCHANGED <<verdict, execVars>> /\ UNCHANGED <<tail, shown, taken>>
          /\ tailTodo' = [tailTodo EXCEPT ![t] = @ \ {r}]
      BY <1>13 DEF TailAppend
    <2>2. Safe /\ Noticed /\ closing' = closing
      BY <1>13, <1>0, AcceptSafe, FailsSafe DEF TailAppend
    <2>6. Others
      BY <2>1, <2>2 DEF Others
    <2>3. accepted' \subseteq Rows /\ accepted \subseteq accepted'
      BY <1>13, <1>0 DEF TailAppend, StorageTypeOK
    <2>4. tailTodo' \in [Traces -> SUBSET Rows]
      BY <2>1, <1>0 DEF StorageTypeOK
    <2>5. tail' \in [Traces -> {"buffered", "appending", "done"}] /\ shown' \subseteq accepted'
      BY <2>1, <2>3, <1>0 DEF StorageTypeOK
    <2> QED
      BY <2>1, <2>2, <2>3, <2>4, <2>5, <2>6, OthersStep
  <1>14. ASSUME NEW t \in Traces, TailFlush(t) PROVE StorageInv'
    <2>1. UNCHANGED <<verdict, execVars>> /\ UNCHANGED <<tailTodo, accepted>>
          /\ tail' = [tail EXCEPT ![t] = "done"]
      BY <1>14 DEF TailFlush
    <2>2. Safe /\ closing' = closing
      <3>1. CASE UNCHANGED batchVars
        BY <3>1, <1>0, BatchUnchanged DEF Safe, Moved
      <3>2. CASE ExplicitFlush(FALSE)
        BY <3>2, <1>0, ExplicitSafe
      <3>3. CASE ExplicitFlush(TRUE)
        BY <3>3, <1>0, ExplicitSafe
      <3> QED
        BY <3>1, <3>2, <3>3, <1>14 DEF TailFlush
    <2>5. Others
      <3>1. CASE UNCHANGED batchVars /\ taken' = taken
        BY <3>1, <1>0, BatchUnchanged DEF Others, Noticed, Moved
      <3>2. CASE ExplicitFlush(FALSE) /\ taken' = taken
        BY <3>2, <1>0, ExplicitSafe DEF Others, Noticed, Moved
      <3>3. CASE taken' = IF step = "run" /\ failureVersion' # since THEN taken \cup group ELSE taken
        BY <3>3 DEF Others
      <3> QED
        BY <3>1, <3>2, <3>3, <1>14 DEF TailFlush
    <2>3. shown' \subseteq accepted'
      BY <1>14, <2>1, <1>0 DEF TailFlush, StorageTypeOK
    <2>4. tail' \in [Traces -> {"buffered", "appending", "done"}] /\ tailTodo' \in [Traces -> SUBSET Rows]
          /\ accepted' \subseteq Rows
      BY <2>1, <1>0 DEF StorageTypeOK
    <2> QED
      BY <2>1, <2>2, <2>3, <2>4, <2>5, OthersStep
  <1>15. CASE BackgroundStep
    <2>1. /\ Background /\ UNCHANGED <<verdict, execVars>> /\ UNCHANGED bufferVars /\ taken' = taken
          /\ closing # closing' => step = "idle" /\ \A e \in Exports : verdict[e] # "pending"
      BY <1>15 DEF BackgroundStep, tailVars
    <2>2. Safe /\ Noticed
      BY <2>1, <1>0, BackgroundSafe
    <2>3. /\ tail' \in [Traces -> {"buffered", "appending", "done"}] /\ tailTodo' \in [Traces -> SUBSET Rows]
          /\ accepted' \subseteq Rows /\ shown' \subseteq accepted'
      BY <2>1, <1>0 DEF tailVars, bufferVars, StorageTypeOK
    <2>4. Others
      BY <2>1, <2>2 DEF Others, tailVars
    <2> QED
      BY <2>1, <2>2, <2>3, <2>4, OthersStep
  <1>16. CASE UNCHANGED storageVars
    <2>1. UNCHANGED batchVars /\ UNCHANGED <<verdict, execVars>> /\ UNCHANGED bufferVars /\ taken' = taken
      BY <1>16 DEF storageVars, tailVars
    <2>2. BatcherTypeOK' /\ Held' = Held /\ stored' = stored /\ flushErr' = flushErr
          /\ failureVersion' = failureVersion /\ closing' = closing
      BY <2>1, <1>0, BatchUnchanged
    <2>3. Safe /\ Noticed
      BY <2>2, <1>0 DEF Safe, Noticed, Moved
    <2>4. /\ tail' \in [Traces -> {"buffered", "appending", "done"}] /\ tailTodo' \in [Traces -> SUBSET Rows]
          /\ accepted' \subseteq Rows /\ shown' \subseteq accepted'
      BY <2>1, <1>0 DEF tailVars, bufferVars, StorageTypeOK
    <2>5. Others
      BY <2>1, <2>3 DEF Others, tailVars
    <2> QED
      BY <2>1, <2>2, <2>3, <2>4, <2>5, OthersStep
  <1>17. ASSUME NEW e \in Exports, Expire(e) PROVE StorageInv'
    <2>1. /\ UNCHANGED batchVars /\ UNCHANGED <<verdict, step, group, current, todo, since, instrument, failed>> /\ UNCHANGED bufferVars /\ taken' = taken
          /\ step = "run" /\ current = None /\ e \in left
          /\ left' = left \ {e} /\ expired' = expired \cup {e}
      BY <1>17 DEF Expire, Between, tailVars
    <2>2. Held' = Held /\ stored' = stored /\ flushErr' = flushErr
          /\ failureVersion' = failureVersion /\ closing' = closing
      BY <2>1, <1>0, BatchUnchanged
    <2>3. StorageTypeOK'
      BY <2>1, <1>0, ExecutorTypes DEF StorageTypeOK
    <2>4. Executor'
      BY <2>1, <2>2, <1>0 DEF Executor
    <2>5. Taken' = Taken
      BY <2>1 DEF Taken
    <2>6. GroupRows'
      BY <2>1, <2>2, <2>5, <1>0 DEF GroupRows, Unharmed
    <2>7. OnlyTakenIsLost'
      BY <2>1, <2>2, <1>0 DEF OnlyTakenIsLost
    <2> QED
      BY <2>3, <2>4, <2>6, <2>7
  <1> QED
    BY <1>1, <1>2, <1>3, <1>4, <1>5, <1>6, <1>7, <1>8, <1>9, <1>10, <1>11, <1>12, <1>13, <1>14, <1>15, <1>16, <1>17
    DEF StorageNext, Execute

-----------------------------------------------------------------------------

\* The invariant holds in every reachable state.
THEOREM StorageInvariant == StorageSpec => []StorageInv
  <1>1. StorageInit => StorageInv
    BY StorageInitially
  <1>2. StorageInv /\ [StorageNext]_storageVars => StorageInv'
    BY StorageStep
  <1> QED
    BY <1>1, <1>2, PTL DEF StorageSpec

\* An acknowledged row is missing from its table only if a callback's flush
\* took the failure from an ordinary group's barrier: neither the ticker, nor
\* a threshold flush, nor maintenance can hide a loss (Batcher.flushErr,
\* FlushBatchSince).
THEOREM LossOnlyTaken == StorageSpec => []OnlyTakenIsLost
  <1>1. StorageInv => OnlyTakenIsLost
    BY DEF StorageInv
  <1> QED
    BY <1>1, StorageInvariant, PTL

\* Composed with the executor and the trace callbacks the appenders do only
\* what AppendBatcher says of them.
THEOREM StorageRefinesBatcher == StorageSpec => BatcherSpec
  <1>1. StorageInit => BatcherInit
    BY DEF StorageInit
  <1>2. ASSUME [StorageNext]_storageVars PROVE [BatcherNext]_batchVars
    <2>1. ASSUME NEW e \in Exports, Admit(e) \/ Withdraw(e) \/ Expire(e) \/ RefuseFull(e) \/ StartRun(e) PROVE UNCHANGED batchVars
      BY <2>1 DEF Admit, Withdraw, Expire, RefuseFull, StartRun
    <2>2. ASSUME NEW G \in SUBSET Exports, TakeGroup(G) PROVE UNCHANGED batchVars
      BY <2>2 DEF TakeGroup
    <2>3. ASSUME NEW r \in Rows, AppendRow(r) \/ AppendRowFails(r) PROVE BatcherNext
      BY <2>3 DEF AppendRow, AppendRowFails, BatcherNext
    <2>4. CASE EndRun \/ Compare \/ Answer
      BY <2>4 DEF EndRun, Compare, Answer
    <2>5. CASE Barrier
      BY <2>5 DEF Barrier, BatcherNext
    <2>6. ASSUME NEW t \in Traces, TailDecide(t) PROVE UNCHANGED batchVars
      BY <2>6 DEF TailDecide
    <2>7. ASSUME NEW t \in Traces, TailFlush(t) PROVE [BatcherNext]_batchVars
      BY <2>7 DEF TailFlush, BatcherNext
    <2>8. ASSUME NEW t \in Traces, NEW r \in Rows, TailAppend(t, r) PROVE BatcherNext
      BY <2>8 DEF TailAppend, BatcherNext
    <2>9. CASE BackgroundStep
      BY <2>9 DEF BackgroundStep, BatcherNext
    <2>10. CASE UNCHANGED storageVars
      BY <2>10 DEF storageVars
    <2> QED
      BY <1>2, <2>1, <2>2, <2>3, <2>4, <2>5, <2>6, <2>7, <2>8, <2>9, <2>10 DEF StorageNext, Execute
  <1> QED
    BY <1>1, <1>2, PTL DEF StorageSpec, BatcherSpec

\* So in the composed system too rows are in one place and no appender is
\* alive during maintenance (Batcher.Maintenance).
THEOREM AppendersInStorage == StorageSpec => []AppendersInv
  BY StorageRefinesBatcher, AppendersHold, PTL

\* And a failure is kept until an explicit flush has reported it (flushErr).
THEOREM LossKeptInStorage == StorageSpec => []LossIsKept
  BY StorageRefinesBatcher, AppendersHold, PTL

Premise == Instrumented = {} \/ Traces = {}

\* If every group compares versions, or no trace callback flushes, no exporter
\* is told of success while a row of its export is missing from its table.
THEOREM AcknowledgedStored ==
  ASSUME Premise
  PROVE  StorageSpec => []AcknowledgedIsStored
  <1>1. ASSUME StorageInv, NEW e \in taken PROVE verdict[e] # "ok"
    <2>1. taken \subseteq group
      BY <1>1 DEF Premise, StorageInv, Executor
    <2> QED
      BY <1>1, <2>1 DEF StorageInv, Executor
  <1>2. StorageInv => AcknowledgedIsStored
    BY <1>1 DEF StorageInv, OnlyTakenIsLost, AcknowledgedIsStored
  <1> QED
    BY <1>2, StorageInvariant, PTL

-----------------------------------------------------------------------------
(* What an answer settles, and the contract.                               *)

\* Rows come into the appenders from R alone, and into the tables from there.
Flows(R) == Held' \subseteq Held \cup R /\ stored' \subseteq stored \cup Held \cup R

\* A write moves rows out of the appenders it empties.
LEMMA WriteFlows ==
  ASSUME BatcherTypeOK, NEW T \in SUBSET Tables, NEW F, NEW S, Write(T, F, S)
  PROVE  Flows({}) /\ (Loaded \subseteq T => Held' = {})
  <1>1. /\ F \subseteq T /\ S \subseteq UNION {buffer[t] : t \in F}
        /\ stored' = stored \cup (UNION {buffer[t] : t \in T \ F}) \cup S
        /\ buffer' = [t \in Tables |-> IF t \in T THEN {} ELSE buffer[t]]
    BY DEF Write
  <1>2. \A t \in Tables : buffer'[t] = IF t \in T THEN {} ELSE buffer[t]
    BY <1>1
  <1>3. Held' \subseteq Held
    BY <1>2 DEF Held
  <1>4. stored' \subseteq stored \cup Held
    BY <1>1 DEF Held
  <1>5. ASSUME Loaded \subseteq T PROVE Held' = {}
    BY <1>2, <1>5 DEF Held, Loaded
  <1> QED
    BY <1>3, <1>4, <1>5 DEF Flows

\* Nothing new comes into the appenders from the ticker, maintenance or Close.
LEMMA BackgroundFlows ==
  ASSUME BatcherTypeOK, Background
  PROVE  Flows({})
  <1>1. CASE IntervalFlush
    <2>1. PICK F \in SUBSET Loaded : \E S \in SUBSET UNION {buffer[t] : t \in F} : Write(Loaded, F, S)
      BY <1>1 DEF IntervalFlush, FlushTables
    <2> QED
      BY <2>1, WriteFlows DEF Loaded
  <1>2. CASE MaintenanceRefused \/ EndMaintenance \/ Close
    <2>1. buffer' = buffer /\ stored' = stored
      BY <1>2 DEF MaintenanceRefused, EndMaintenance, Close
    <2> QED
      BY <2>1 DEF Flows, Held
  <1>3. CASE BeginMaintenance
    <2>1. \E F \in SUBSET Opened, S \in SUBSET Held : Write(Tables, F, S)
      BY <1>3 DEF BeginMaintenance
    <2> QED
      BY <2>1, WriteFlows
  <1>4. CASE FinishClose \/ BeginClosedMaintenance
    <2>1. \E F \in SUBSET Loaded, S \in SUBSET Held : Write(Tables, F, S)
      BY <1>4 DEF FinishClose, BeginClosedMaintenance, ReleaseAll
    <2> QED
      BY <2>1, WriteFlows
  <1> QED
    BY <1>1, <1>2, <1>3, <1>4 DEF Background

\* An explicit flush leaves the appenders empty.
LEMMA ExplicitFlows ==
  ASSUME BatcherTypeOK, NEW bad, ExplicitFlush(bad)
  PROVE  Flows({}) /\ Held' = {}
  <1>1. PICK F \in SUBSET Loaded : \E S \in SUBSET UNION {buffer[t] : t \in F} : Write(Loaded, F, S)
    BY DEF ExplicitFlush, FlushTables
  <1> QED
    BY <1>1, WriteFlows DEF Loaded

\* An append brings its own row at most.
LEMMA AppendFlows ==
  ASSUME BatcherTypeOK, NEW r \in Rows, AppendAccepts(r) \/ AppendFails(r)
  PROVE  Flows({r})
  <1> DEFINE t == TableOf[r]
  <1>0. t \in Tables /\ buffer \in [Tables -> SUBSET Rows]
    BY BatcherConstants DEF BatcherTypeOK
  <1>1. CASE AppendAccepts(r)
    <2>1. CASE Keep(r, t)
      <3>1. stored' = stored /\ \A u \in Tables : buffer'[u] \subseteq buffer[u] \cup {r}
        BY <1>0, <2>1 DEF Keep
      <3> QED
        BY <3>1 DEF Flows, Held
    <2>2. CASE KeepAndFlush(r, t)
      <3>1. stored' = stored \cup buffer[t] \cup {r} /\ \A u \in Tables : buffer'[u] \subseteq buffer[u]
        BY <1>0, <2>2 DEF KeepAndFlush
      <3> QED
        BY <1>0, <3>1 DEF Flows, Held
    <2> QED
      BY <1>1, <2>1, <2>2 DEF AppendAccepts
  <1>2. CASE AppendBreaks(r)
    <2>1. /\ \E S \in SUBSET (buffer[t] \cup {r}) : stored' = stored \cup S
          /\ \A u \in Tables : buffer'[u] \subseteq buffer[u]
      BY <1>0, <1>2 DEF AppendBreaks
    <2> QED
      BY <1>0, <2>1 DEF Flows, Held
  <1>3. CASE AppendRefused(r)
    <2>1. buffer' = buffer /\ stored' = stored
      BY <1>3 DEF AppendRefused
    <2> QED
      BY <2>1 DEF Flows, Held
  <1> QED
    BY <1>1, <1>2, <1>3 DEF AppendFails

\* Rows that wait in an appender belong to an export whose callback the running
\* group has started, or to a trace.
Settled ==
  /\ \A e \in Exports : RowsOf[e] \cap Held # {} => e \in group \ left /\ step = "run"
  /\ \A t \in Traces : tailTodo[t] \subseteq RowsOf[t]

\* A step that adds no export's row and takes no export off the group's started
\* ones.
LEMMA SettledFrame ==
  ASSUME Settled, NEW R, Flows(R), \A e \in Exports : RowsOf[e] \cap R = {},
         group \ left \subseteq group' \ left', step = "run" => step' = "run",
         \A t \in Traces : tailTodo'[t] \subseteq RowsOf[t]
  PROVE  Settled'
  BY DEF Settled, Flows

\* A step that leaves no export's row waiting.
LEMMA SettledEmpty ==
  ASSUME \A e \in Exports : RowsOf[e] \cap Held' = {}, \A t \in Traces : tailTodo'[t] \subseteq RowsOf[t]
  PROVE  Settled'
  BY DEF Settled

\* The row of an export that is being appended is the current one's.
LEMMA CurrentRow ==
  ASSUME StorageInv, NEW r \in todo
  PROVE  /\ current \in group \ left /\ step = "run" /\ r \in RowsOf[current]
         /\ \A e \in Exports : r \in RowsOf[e] => e = current
  <1>1. current # None /\ step = "run" /\ current \notin left /\ r \in RowsOf[current]
    BY DEF StorageInv, Executor
  <1>2. current \in group /\ current \in Exports
    BY <1>1 DEF StorageInv, StorageTypeOK
  <1> QED
    BY <1>1, <1>2, StorageConstants

\* A trace's row is no export's.
LEMMA TraceRow ==
  ASSUME NEW t \in Traces, NEW r \in RowsOf[t], NEW e \in Exports
  PROVE  RowsOf[e] \cap {r} = {}
  <1>1. e # t
    BY StorageConstants
  <1> QED
    BY <1>1, StorageConstants

\* Every step keeps Settled.
LEMMA SettledStep ==
  ASSUME StorageInv, Settled, [StorageNext]_storageVars
  PROVE  Settled'
  <1>0. /\ BatcherTypeOK /\ StorageTypeOK /\ Executor
        /\ \A t \in Traces : tailTodo[t] \subseteq RowsOf[t]
        /\ tailTodo \in [Traces -> SUBSET Rows]
    BY DEF StorageInv, StorageTypeOK, Settled
  <1>1. ASSUME UNCHANGED <<buffer, stored>> PROVE Flows({}) /\ Held' = Held
    BY <1>1 DEF Flows, Held
  <1>2. ASSUME NEW e \in Exports, Admit(e) \/ Withdraw(e) \/ Expire(e) \/ RefuseFull(e) \/ StartRun(e) PROVE Settled'
    <2>1. /\ UNCHANGED <<buffer, stored>> /\ tailTodo' = tailTodo
          /\ group \ left \subseteq group' \ left' /\ step' = step
      BY <1>2 DEF Admit, Withdraw, Expire, RefuseFull, StartRun, batchVars, execVars, tailVars, bufferVars
    <2> QED
      BY <1>0, <1>1, <2>1, SettledFrame
  <1>3. ASSUME NEW G \in SUBSET Exports, TakeGroup(G) PROVE Settled'
    <2>1. UNCHANGED <<buffer, stored>> /\ tailTodo' = tailTodo /\ step = "idle"
      BY <1>3 DEF TakeGroup, batchVars, tailVars, bufferVars
    <2> QED
      BY <1>0, <1>1, <2>1, SettledEmpty DEF Settled
  <1>4. ASSUME NEW r \in Rows, AppendRow(r) \/ AppendRowFails(r) PROVE Settled'
    <2>1. /\ r \in todo /\ tailTodo' = tailTodo /\ group' = group /\ left' = left /\ step' = step
          /\ AppendAccepts(r) \/ AppendFails(r)
      BY <1>4 DEF AppendRow, AppendRowFails, tailVars, bufferVars
    <2>2. Flows({r})
      BY <1>0, <2>1, AppendFlows
    <2>3. ASSUME NEW e \in Exports, RowsOf[e] \cap Held' # {} PROVE e \in group' \ left' /\ step' = "run"
      <3>1. RowsOf[e] \cap Held # {} \/ r \in RowsOf[e]
        BY <2>2, <2>3 DEF Flows
      <3>2. CASE RowsOf[e] \cap Held # {}
        BY <2>1, <3>2 DEF Settled
      <3>3. CASE r \in RowsOf[e]
        BY <2>1, <3>3, CurrentRow
      <3> QED
        BY <3>1, <3>2, <3>3
    <2> QED
      BY <1>0, <2>1, <2>3 DEF Settled
  <1>5. CASE EndRun
    <2>1. /\ UNCHANGED <<buffer, stored>> /\ tailTodo' = tailTodo
          /\ group' = group /\ left' = left /\ step' = step
      BY <1>5 DEF EndRun, batchVars, tailVars, bufferVars
    <2> QED
      BY <1>0, <1>1, <2>1, SettledFrame
  <1>6. CASE Barrier
    <2>1. tailTodo' = tailTodo /\ \E bad \in BOOLEAN : ExplicitFlush(bad)
      BY <1>6 DEF Barrier, bufferVars
    <2>2. Held' = {}
      BY <1>0, <2>1, ExplicitFlows
    <2> QED
      BY <1>0, <2>1, <2>2, SettledEmpty
  <1>7. CASE Compare \/ Answer
    <2>1. UNCHANGED <<buffer, stored>> /\ tailTodo' = tailTodo /\ step # "run"
      BY <1>7 DEF Compare, Answer, batchVars, tailVars, bufferVars
    <2> QED
      BY <1>0, <1>1, <2>1, SettledEmpty DEF Settled
  <1>8. ASSUME NEW t \in Traces, TailDecide(t) PROVE Settled'
    <2>1. /\ UNCHANGED <<buffer, stored>> /\ UNCHANGED <<group, left, step>>
          /\ \A u \in Traces : tailTodo'[u] \subseteq RowsOf[u]
      BY <1>0, <1>8 DEF TailDecide, batchVars, execVars
    <2> QED
      BY <1>1, <2>1, SettledFrame
  <1>9. ASSUME NEW t \in Traces, NEW r \in Rows, TailAppend(t, r) PROVE Settled'
    <2>1. /\ r \in RowsOf[t] /\ UNCHANGED <<group, left, step>>
          /\ AppendAccepts(r) \/ AppendFails(r)
          /\ \A u \in Traces : tailTodo'[u] \subseteq RowsOf[u]
      BY <1>0, <1>9 DEF TailAppend, execVars
    <2>2. Flows({r})
      BY <1>0, <2>1, AppendFlows
    <2>3. \A e \in Exports : RowsOf[e] \cap {r} = {}
      BY <2>1, TraceRow
    <2> QED
      BY <2>1, <2>2, <2>3, SettledFrame
  <1>10. ASSUME NEW t \in Traces, TailFlush(t) PROVE Settled'
    <2>1. /\ UNCHANGED <<group, left, step>> /\ tailTodo' = tailTodo
          /\ UNCHANGED <<buffer, stored>> \/ \E bad \in BOOLEAN : ExplicitFlush(bad)
      BY <1>10 DEF TailFlush, execVars, batchVars
    <2>2. Flows({})
      BY <1>0, <1>1, <2>1, ExplicitFlows
    <2> QED
      BY <1>0, <2>1, <2>2, SettledFrame
  <1>11. CASE BackgroundStep
    <2>1. UNCHANGED <<group, left, step>> /\ tailTodo' = tailTodo /\ Background
      BY <1>11 DEF BackgroundStep, execVars, tailVars, bufferVars
    <2>2. Flows({})
      BY <1>0, <2>1, BackgroundFlows
    <2> QED
      BY <1>0, <2>1, <2>2, SettledFrame
  <1>12. CASE UNCHANGED storageVars
    <2>1. UNCHANGED <<buffer, stored>> /\ UNCHANGED <<group, left, step>> /\ tailTodo' = tailTodo
      BY <1>12 DEF storageVars, batchVars, execVars, tailVars, bufferVars
    <2> QED
      BY <1>0, <1>1, <2>1, SettledFrame
  <1> QED
    BY <1>2, <1>3, <1>4, <1>5, <1>6, <1>7, <1>8, <1>9, <1>10, <1>11, <1>12 DEF StorageNext, Execute

\* Settled holds in every state.
THEOREM SettledInvariant == StorageSpec => []Settled
  <1>1. StorageInit => Settled
    BY DEF StorageInit, BatcherInit, Settled, Held
  <1>2. StorageInv /\ Settled /\ [StorageNext]_storageVars => Settled'
    BY SettledStep
  <1> QED
    BY <1>1, <1>2, StorageInvariant, PTL DEF StorageSpec

\* When an export has been answered, with success or not, no row of it is left in
\* an appender, whatever callbacks, the ticker and maintenance do: the barrier
\* comes after the last append of the group, also when one failed (execute).
THEOREM AnswersSettle == StorageSpec => []AnsweredIsSettled
  <1>1. StorageInv /\ Settled => AnsweredIsSettled
    <2> SUFFICES ASSUME StorageInv, Settled,
                        NEW e \in Exports, verdict[e] \in {"ok", "error"}, RowsOf[e] \cap Held # {}
                 PROVE  FALSE
      BY DEF AnsweredIsSettled
    <2>1. e \in group
      BY DEF Settled
    <2>2. verdict[e] = "pending"
      BY <2>1 DEF StorageInv, Executor
    <2> QED
      BY <2>2
  <1> QED
    BY <1>1, StorageInvariant, SettledInvariant, PTL

-----------------------------------------------------------------------------
(* Each step is one of ExportContract's, or none.                          *)

\* Until its barrier a group is promised nothing for a failure that was taken.
LEMMA DurableGrows ==
  ASSUME StorageInv, verdict' = verdict, stored \subseteq stored',
         \A e \in Exports : e \in taken /\ (e \in group => step = "answer")
                            => e \in taken' /\ (e \in group' => step' = "answer"),
         \A e \in Exports : \/ verdict[e] = "pending"
                            \/ /\ RowsOf[e] \cap stored' \subseteq stored
                               /\ e \in taken' => e \in taken /\ e \notin group
  PROVE  Promise!Persist
  <1>1. Durable \subseteq Durable'
    BY DEF Durable
  <1>2. \A e \in Durable' \ Durable : verdict[e] = "pending"
    BY DEF Durable
  <1>3. Durable' \ Durable \in SUBSET {e \in Exports : verdict[e] = "pending"}
    BY <1>2 DEF Durable
  <1>4. Durable' = Durable \cup (Durable' \ Durable)
    BY <1>1
  <1> QED
    BY <1>3, <1>4 DEF Promise!Persist

\* A step of the appenders, by whom ever, that takes on rows of R only.
LEMMA FlowPersists ==
  ASSUME StorageInv, Settled, verdict' = verdict, NEW R, Flows(R), stored \subseteq stored',
         \A e \in Exports : RowsOf[e] \cap R # {} => verdict[e] = "pending",
         group' = group, step' = step,
         taken' = taken \/ (taken' = taken \cup group /\ step = "run")
  PROVE  Promise!Persist
  <1>1. ASSUME NEW e \in Exports, verdict[e] # "pending" PROVE RowsOf[e] \cap stored' \subseteq stored
    <2>1. e \notin group
      BY <1>1 DEF StorageInv, Executor
    <2>2. RowsOf[e] \cap Held = {} /\ RowsOf[e] \cap R = {}
      BY <1>1, <2>1 DEF Settled
    <2> QED
      BY <2>2 DEF Flows
  <1>2. \A e \in group : verdict[e] = "pending"
    BY DEF StorageInv, Executor
  <1>3. \A e \in Exports : verdict[e] # "pending" /\ e \in taken' => e \in taken /\ e \notin group
    BY <1>2
  <1> QED
    BY <1>1, <1>3, DurableGrows

\* The answer of a group gives success only for exports the contract calls
\* durable.
LEMMA AnswerKeepsContract ==
  ASSUME StorageInv, Answer
  PROVE  Promise!Answer
  <1>0. /\ step = "answer" /\ step' = "idle" /\ group' = {} /\ stored' = stored /\ taken' = taken
        /\ verdict' = [e \in Exports |-> IF e \notin group THEN verdict[e] ELSE IF failed \/ e \in expired THEN "error" ELSE "ok"]
        /\ verdict \in [Exports -> {"none", "pending", "ok", "error"}]
        /\ left = {} /\ todo = {}
        /\ \A e \in group : verdict[e] = "pending"
        /\ group \subseteq taken \/ group \cap taken = {}
    BY DEF Answer, batchVars, tailVars, StorageInv, StorageTypeOK, Executor
  <1>1. Durable' = Durable
    BY <1>0 DEF Durable
  <1>2. ASSUME NEW e \in group \ expired, ~failed PROVE e \in Durable
    <2>1. e \in Exports
      BY DEF StorageInv, StorageTypeOK
    <2>2. CASE e \in taken
      BY <1>0, <2>1, <2>2 DEF Durable
    <2>3. CASE group \cap taken = {}
      <3>1. Taken \subseteq stored
        BY <1>0, <1>2, <2>3 DEF StorageInv, GroupRows
      <3>2. RowsOf[e] \subseteq stored
        BY <1>0, <3>1 DEF Taken
      <3> QED
        BY <2>1, <3>2 DEF Durable
    <2> QED
      BY <1>0, <2>2, <2>3
  <1>3. verdict' \in [Exports -> Promise!Answers]
    BY <1>0 DEF Promise!Answers
  <1>4. \A e \in Exports :
          \/ verdict'[e] = verdict[e]
          \/ verdict[e] = "pending" /\ verdict'[e] = "ok" /\ e \in Durable
          \/ verdict[e] = "pending" /\ verdict'[e] = "error"
    BY <1>0, <1>2
  <1> QED
    BY <1>1, <1>3, <1>4 DEF Promise!Answer

\* An exporter that gave up is answered alone, and is promised nothing.
LEMMA WithdrawKeepsContract ==
  ASSUME StorageInv, NEW e \in Exports, Withdraw(e)
  PROVE  Promise!Answer
  <1>0. /\ step' = step /\ group' = group \ {e} /\ stored' = stored /\ taken' = taken \ {e}
        /\ verdict' = [verdict EXCEPT ![e] = "error"] /\ (e \in taken => e \in group /\ step = "run")
        /\ verdict \in [Exports -> {"none", "pending", "ok", "error"}]
        /\ verdict[e] = "pending"
    BY DEF Withdraw, batchVars, bufferVars, StorageInv, StorageTypeOK, Executor
  <1>1. Durable' = Durable
    BY <1>0 DEF Durable
  <1>2. verdict' \in [Exports -> Promise!Answers]
    BY <1>0 DEF Promise!Answers
  <1>3. \A d \in Exports : verdict'[d] = verdict[d] \/ (verdict[d] = "pending" /\ verdict'[d] = "error")
    BY <1>0
  <1> QED
    BY <1>1, <1>2, <1>3 DEF Promise!Answer

\* The barrier of a group makes exports durable: those it stored, and those of a
\* failure it no longer sees.
LEMMA BarrierPersists ==
  ASSUME StorageInv, Settled, Barrier
  PROVE  Promise!Persist
  <1>1. /\ BatcherTypeOK /\ step = "run" /\ verdict' = verdict /\ group' = group
        /\ \E bad \in BOOLEAN : ExplicitFlush(bad)
        /\ step' = IF instrument THEN "answer" ELSE "compare"
        /\ taken' = IF instrument THEN taken ELSE taken \ group
    BY DEF Barrier, Between, StorageInv, StorageTypeOK
  <1>2. Flows({})
    BY <1>1, ExplicitFlows
  <1>3. stored \subseteq stored'
    BY <1>1 DEF ExplicitFlush, FlushTables, Write
  <1>4. \A e \in group : verdict[e] = "pending"
    BY DEF StorageInv, Executor
  <1>5. ASSUME NEW e \in Exports, verdict[e] # "pending"
        PROVE  RowsOf[e] \cap stored' \subseteq stored /\ (e \in taken' => e \in taken /\ e \notin group)
    <2>1. e \notin group /\ RowsOf[e] \cap Held = {}
      BY <1>4, <1>5 DEF Settled
    <2> QED
      BY <1>1, <1>2, <2>1 DEF Flows
  <1>6. \A e \in Exports : e \in taken /\ (e \in group => step = "answer")
                            => e \in taken' /\ (e \in group' => step' = "answer")
    BY <1>1
  <1> QED
    BY <1>1, <1>3, <1>5, <1>6, DurableGrows

\* What grows in the tables when rows are written or appended.
LEMMA StoredGrows ==
  ASSUME BatcherTypeOK, BatcherNext
  PROVE  stored \subseteq stored'
  <1>1. CASE Background
    <2>1. CASE IntervalFlush
      BY <2>1 DEF IntervalFlush, FlushTables, Write
    <2>2. CASE MaintenanceRefused \/ EndMaintenance \/ Close
      BY <2>2 DEF MaintenanceRefused, EndMaintenance, Close
    <2>3. CASE BeginMaintenance
      BY <2>3 DEF BeginMaintenance, Write
    <2>4. CASE FinishClose \/ BeginClosedMaintenance
      BY <2>4 DEF FinishClose, BeginClosedMaintenance, ReleaseAll, Write
    <2> QED
      BY <1>1, <2>1, <2>2, <2>3, <2>4 DEF Background
  <1>2. ASSUME NEW r \in Rows, AppendAccepts(r) \/ AppendFails(r) PROVE stored \subseteq stored'
    BY <1>2 DEF AppendAccepts, Keep, KeepAndFlush, AppendFails, AppendBreaks, AppendRefused
  <1>3. ASSUME NEW bad \in BOOLEAN, ExplicitFlush(bad) PROVE stored \subseteq stored'
    BY <1>3 DEF ExplicitFlush, FlushTables, Write
  <1> QED
    BY <1>1, <1>2, <1>3 DEF BatcherNext

\* A step that changes nothing the contract is about.
LEMMA ContractStutters ==
  ASSUME verdict' = verdict, Durable' = Durable
  PROVE  UNCHANGED Promise!vars
  BY DEF Promise!vars

\* Every step of the executor, the callbacks and the appenders is a step of the
\* contract, or a stutter.
LEMMA ContractStep ==
  ASSUME StorageInv, Settled, [StorageNext]_storageVars
  PROVE  [Promise!Next]_(Promise!vars)
  <1>0. /\ BatcherTypeOK /\ StorageTypeOK /\ Executor
        /\ \A e \in group : verdict[e] = "pending"
        /\ \A t \in Traces : tailTodo[t] \subseteq RowsOf[t]
    BY DEF StorageInv, StorageTypeOK, Executor, Settled
  <1>1. ASSUME NEW e \in Exports, Admit(e) PROVE Promise!Next
    <2>1. /\ verdict[e] = "none" /\ verdict' = [verdict EXCEPT ![e] = "pending"]
          /\ UNCHANGED <<stored, taken, group, step>>
      BY <1>1 DEF Admit, batchVars, execVars, tailVars
    <2>2. Durable' = Durable
      BY <2>1 DEF Durable
    <2>3. Promise!Admit(e)
      BY <2>1, <2>2 DEF Promise!Admit
    <2> QED
      BY <2>3 DEF Promise!Next
  <1>2. ASSUME NEW G \in SUBSET Exports, TakeGroup(G) PROVE UNCHANGED Promise!vars
    <2>1. /\ verdict' = verdict /\ UNCHANGED <<stored, taken>> /\ step = "idle" /\ group' = G
          /\ \A e \in G : verdict[e] = "pending"
      BY <1>2 DEF TakeGroup, batchVars, tailVars
    <2>2. group = {}
      BY <1>0, <2>1 DEF Executor
    <2>3. \A e \in taken : e \notin group /\ e \notin group'
      BY <1>0, <2>1, <2>2 DEF Executor
    <2>4. Durable' = Durable
      BY <2>1, <2>3 DEF Durable
    <2> QED
      BY <2>1, <2>4, ContractStutters
  <1>3. ASSUME NEW e \in Exports, Withdraw(e) PROVE Promise!Next
    BY <1>3, WithdrawKeepsContract DEF Promise!Next
  <1>4. ASSUME NEW e \in Exports, Expire(e) \/ RefuseFull(e) \/ StartRun(e) PROVE UNCHANGED Promise!vars
    <2>1. UNCHANGED <<verdict, stored, taken, group, step>>
      BY <1>4 DEF Expire, RefuseFull, StartRun, batchVars, tailVars
    <2> QED
      BY <2>1, ContractStutters DEF Durable
  <1>5. CASE EndRun
    <2>1. UNCHANGED <<verdict, stored, taken, group, step>>
      BY <1>5 DEF EndRun, batchVars, tailVars
    <2> QED
      BY <2>1, ContractStutters DEF Durable
  <1>6. CASE Compare
    <2>1. UNCHANGED <<verdict, stored, taken, group>> /\ step = "compare" /\ step' = "answer"
      BY <1>6 DEF Compare, batchVars, tailVars
    <2>2. group \cap taken = {}
      BY <1>0, <2>1 DEF Executor
    <2>3. Durable' = Durable
      BY <2>1, <2>2 DEF Durable
    <2> QED
      BY <2>1, <2>3, ContractStutters
  <1>7. ASSUME NEW r \in Rows, AppendRow(r) \/ AppendRowFails(r) PROVE Promise!Next
    <2>1. /\ r \in todo /\ (AppendAccepts(r) \/ AppendFails(r))
          /\ UNCHANGED <<verdict, group, step, taken>>
      BY <1>7 DEF AppendRow, AppendRowFails, tailVars
    <2>2. Flows({r}) /\ stored \subseteq stored'
      BY <1>0, <2>1, AppendFlows, StoredGrows DEF BatcherNext
    <2>3. \A e \in Exports : RowsOf[e] \cap {r} # {} => verdict[e] = "pending"
      BY <1>0, <2>1, CurrentRow
    <2>4. Promise!Persist
      BY <2>1, <2>2, <2>3, FlowPersists
    <2> QED
      BY <2>4 DEF Promise!Next
  <1>8. CASE Barrier
    BY <1>8, BarrierPersists DEF Promise!Next
  <1>9. CASE Answer
    BY <1>9, AnswerKeepsContract DEF Promise!Next
  <1>10. ASSUME NEW t \in Traces, TailDecide(t) PROVE UNCHANGED Promise!vars
    <2>1. UNCHANGED <<verdict, stored, taken, group, step>>
      BY <1>10 DEF TailDecide, batchVars, execVars
    <2> QED
      BY <2>1, ContractStutters DEF Durable
  <1>11. ASSUME NEW t \in Traces, NEW r \in Rows, TailAppend(t, r) PROVE Promise!Next
    <2>1. /\ r \in RowsOf[t] /\ (AppendAccepts(r) \/ AppendFails(r))
          /\ UNCHANGED <<verdict, group, step, taken>>
      BY <1>0, <1>11 DEF TailAppend, execVars
    <2>2. Flows({r}) /\ stored \subseteq stored'
      BY <1>0, <2>1, AppendFlows, StoredGrows DEF BatcherNext
    <2>3. \A e \in Exports : RowsOf[e] \cap {r} # {} => verdict[e] = "pending"
      BY <2>1, TraceRow
    <2>4. Promise!Persist
      BY <2>1, <2>2, <2>3, FlowPersists
    <2> QED
      BY <2>4 DEF Promise!Next
  <1>12. ASSUME NEW t \in Traces, TailFlush(t) PROVE Promise!Next
    <2>1. /\ UNCHANGED <<verdict, group, step>>
          /\ taken' = taken \/ (taken' = taken \cup group /\ step = "run")
          /\ UNCHANGED <<buffer, stored>> \/ \E bad \in BOOLEAN : ExplicitFlush(bad)
      BY <1>12 DEF TailFlush, execVars, batchVars
    <2>2. Flows({}) /\ stored \subseteq stored'
      BY <1>0, <2>1, ExplicitFlows, StoredGrows DEF BatcherNext, Flows, Held
    <2>3. Promise!Persist
      BY <2>1, <2>2, FlowPersists
    <2> QED
      BY <2>3 DEF Promise!Next
  <1>13. CASE BackgroundStep
    <2>1. UNCHANGED <<verdict, group, step, taken>> /\ Background
      BY <1>13 DEF BackgroundStep, execVars, tailVars
    <2>2. Flows({}) /\ stored \subseteq stored'
      BY <1>0, <2>1, BackgroundFlows, StoredGrows DEF BatcherNext
    <2>3. Promise!Persist
      BY <2>1, <2>2, FlowPersists
    <2> QED
      BY <2>3 DEF Promise!Next
  <1>14. CASE UNCHANGED storageVars
    <2>1. UNCHANGED <<verdict, stored, taken, group, step>>
      BY <1>14 DEF storageVars, batchVars, execVars, tailVars
    <2> QED
      BY <2>1, ContractStutters DEF Durable
  <1> QED
    BY <1>1, <1>2, <1>3, <1>4, <1>5, <1>6, <1>7, <1>8, <1>9, <1>10, <1>11, <1>12, <1>13, <1>14
    DEF StorageNext, Execute

\* Every behaviour of the executor over the real appenders is one the contract
\* allows: answered once, and with success only for stored rows, or for those
\* whose failure a callback took (ExportContract; OnlyTakenIsLost).
THEOREM StorageKeepsContract == StorageSpec => KeepsContract
  <1>1. StorageInit => Promise!Init
    <2> SUFFICES ASSUME StorageInit PROVE Promise!Init
      OBVIOUS
    <2>1. Durable = {}
      BY StorageConstants DEF StorageInit, BatcherInit, Durable
    <2> QED
      BY <2>1 DEF StorageInit, Promise!Init
  <1>2. StorageInv /\ Settled /\ [StorageNext]_storageVars => [Promise!Next]_(Promise!vars)
    BY ContractStep
  <1> QED
    BY <1>1, <1>2, StorageInvariant, SettledInvariant, PTL DEF StorageSpec, KeepsContract, Promise!Spec

-----------------------------------------------------------------------------
(* The storage guard: GuardInv and RecoveryStaysPaused for any caps and    *)
(* sizes and any number of updates, writes, prunes and deletions, whenever *)
(* the updates arrive.                                                     *)
(*                                                                         *)
(* PausedForAReason speaks of the moments between passes.  It is inductive *)
(* with what a pass may rely on (PassInv: one that no update has met read  *)
(* the current policy) and, where no update has met a pass, with the order *)
(* of the latches (LatchInv: a recovery is part of a pruning cycle, which  *)
(* began at high water) and what they say of the reason (ReasonInv).       *)

PassInv ==
    /\ guard.at # "wait" => guard.fresh \/ raced
    /\ guard.at = "wait" /\ ~update => guard.fresh
    /\ update /\ guard.at # "wait" => ~guard.fresh
    /\ update => ~judged
    /\ guard.fresh /\ guard.at \in {"checkpoint", "decide", "prune", "conclude"} => guard.cap = cap
    /\ guard.fresh /\ guard.at \in {"decide", "prune", "conclude"} => cap > 0

LatchInv ==
    ~raced /\ ~update =>
        /\ recovering => pruning
        /\ pruning => crossed
        /\ guard.at \in {"prune", "conclude"} => pruning /\ auto
        /\ pruning => auto /\ cap > 0

ReasonInv ==
    ~raced =>
        /\ recovering /\ ~update => reason # "none"
        /\ judged /\ full => reason # "none"
        /\ auto /\ reason = "cap" => recovering /\ ~update

PolicyInv == TypeOK /\ PassInv /\ LatchInv /\ ReasonInv

\* What is set or not.
Flags ==
    /\ pruning \in BOOLEAN /\ recovering \in BOOLEAN /\ cooling \in BOOLEAN
    /\ update \in BOOLEAN /\ backoff \in BOOLEAN /\ full \in BOOLEAN
    /\ wal \in BOOLEAN /\ crossed \in BOOLEAN /\ judged \in BOOLEAN /\ raced \in BOOLEAN

\* The states of a pass.
GuardRecords == [at : {"wait", "check", "checkpoint", "decide", "prune", "conclude"},
                 cap : Caps \cup {0}, err : {"nil", "soft", "hard"}, fresh : BOOLEAN]

-----------------------------------------------------------------------------
\* A pass goes on from the one it was.
LEMMA GuardType ==
  ASSUME TypeOK
  PROVE  /\ Waiting \in GuardRecords /\ guard \in GuardRecords
         /\ \A at \in {"wait", "check", "checkpoint", "decide", "prune", "conclude"},
               err \in {"nil", "soft", "hard"} :
               /\ [guard EXCEPT !.at = at] \in GuardRecords
               /\ [guard EXCEPT !.at = at, !.err = err] \in GuardRecords
               /\ [guard EXCEPT !.at = at, !.cap = cap] \in GuardRecords
         /\ \A f \in BOOLEAN :
               /\ [guard EXCEPT !.fresh = f] \in GuardRecords
               /\ [Waiting EXCEPT !.at = "check", !.fresh = f] \in GuardRecords
               /\ [Waiting EXCEPT !.at = "checkpoint", !.cap = cap, !.fresh = f] \in GuardRecords
  <1>1. TRUE \in BOOLEAN
    OBVIOUS
  <1>2. \A f \in BOOLEAN :
           [at |-> "wait", cap |-> 0, err |-> "nil", fresh |-> f] \in GuardRecords
    BY DEF GuardRecords
  <1>3. Waiting \in GuardRecords
    BY <1>1, <1>2, Zenon DEF Waiting
  <1>4. guard \in GuardRecords
    BY DEF TypeOK, GuardRecords
  <1> QED
    BY <1>3, <1>4 DEF GuardRecords, TypeOK

\* A pass that leaves the WAL alone.
LEMMA SkipCheckpointStep ==
  ASSUME PolicyInv, SkipCheckpoint
  PROVE  PolicyInv'
  <1>1. TypeOK'
    <2>1. Flags'
      BY Zenon DEF SkipCheckpoint, Begins, Waiting, policy, history, bounds, Flags, PolicyInv,
        TypeOK
    <2>2. guard' \in GuardRecords
      BY GuardType DEF SkipCheckpoint, Begins, Waiting, policy, history, bounds, PolicyInv
    <2> QED
      BY <2>1, <2>2, GuardAssumption DEF SkipCheckpoint, Begins, Waiting, policy, history,
        bounds, Flags, GuardRecords, PolicyInv, TypeOK
  <1>2. PassInv'
    BY DEF SkipCheckpoint, Begins, Waiting, policy, history, bounds, PolicyInv, TypeOK, PassInv
  <1>3. LatchInv'
    BY DEF SkipCheckpoint, Begins, Waiting, policy, history, bounds, PolicyInv, TypeOK, PassInv,
      LatchInv
  <1>4. ReasonInv'
    BY DEF SkipCheckpoint, Begins, Waiting, policy, history, bounds, PolicyInv, TypeOK, PassInv,
      LatchInv, ReasonInv
  <1> QED
    BY <1>1, <1>2, <1>3, <1>4 DEF PolicyInv

\* A pass that begins a checkpoint.
LEMMA StartCheckpointStep ==
  ASSUME PolicyInv, StartCheckpoint
  PROVE  PolicyInv'
  <1>1. TypeOK'
    <2>1. Flags'
      BY Zenon DEF StartCheckpoint, Begins, Waiting, SetFull, Filled, AtCap, policy,
        bounds, Flags, PolicyInv, TypeOK
    <2>2. guard' \in GuardRecords
      BY GuardType DEF StartCheckpoint, Begins, Waiting, SetFull, Filled, AtCap, policy,
        bounds, PolicyInv
    <2> QED
      BY <2>1, <2>2, GuardAssumption DEF StartCheckpoint, Begins, Waiting, SetFull,
        Filled, AtCap, policy, bounds, Flags, GuardRecords, PolicyInv, TypeOK
  <1>2. PassInv'
    BY DEF StartCheckpoint, Begins, Waiting, SetFull, Filled, AtCap, policy, bounds, PolicyInv,
      TypeOK, PassInv
  <1>3. LatchInv'
    BY DEF StartCheckpoint, Begins, Waiting, SetFull, Filled, AtCap, policy, bounds, PolicyInv,
      TypeOK, PassInv, LatchInv
  <1>4. ReasonInv'
    BY DEF StartCheckpoint, Begins, Waiting, SetFull, Filled, AtCap, policy, bounds, PolicyInv,
      TypeOK, PassInv, LatchInv, ReasonInv
  <1> QED
    BY <1>1, <1>2, <1>3, <1>4 DEF PolicyInv

\* The checkpoint returns.
LEMMA EndCheckpointStep ==
  ASSUME PolicyInv, EndCheckpoint
  PROVE  PolicyInv'
  <1>1. PICK failure \in BOOLEAN, s \in Sizes : CheckpointReturns(failure, s)
    <2>1. TRUE \in BOOLEAN /\ FALSE \in BOOLEAN /\ size \in Sizes
      BY DEF PolicyInv, TypeOK
    <2> QED
      BY <2>1, Zenon DEF EndCheckpoint, CheckpointDone, CheckpointTimesOut, CheckpointFails
  <1>2. wal' \in BOOLEAN
    <2>1. wal' = wal \/ wal' = FALSE \/ wal' = ~full'
      BY Zenon DEF EndCheckpoint, CheckpointDone, CheckpointTimesOut, CheckpointFails
    <2> QED
      BY <2>1, Zenon DEF PolicyInv, TypeOK
  <1>3. noSpace' \in 0..MaxNoSpace
    <2>1. noSpace' = noSpace \/ (noSpace < MaxNoSpace /\ noSpace' = noSpace + 1)
      BY Zenon DEF EndCheckpoint, CheckpointDone, CheckpointTimesOut, CheckpointFails
    <2> QED
      BY <2>1, GuardAssumption DEF PolicyInv, TypeOK
  <1>4. TypeOK'
    <2>1. Flags'
      BY <1>1, <1>2, Zenon DEF CheckpointReturns, PausedAfterCheckpoint, SetFull, Rest, policy,
        Flags, PolicyInv, TypeOK
    <2>2. guard' \in GuardRecords
      BY <1>1, GuardType DEF CheckpointReturns, Rest, PolicyInv
    <2>3. reason' \in {"none", "cap", "filled", "failure"}
      BY <1>1 DEF CheckpointReturns, SetFull, Filled, PolicyInv, TypeOK
    <2> QED
      BY <1>1, <1>3, <2>1, <2>2, <2>3 DEF CheckpointReturns, policy, Flags, GuardRecords,
        PolicyInv, TypeOK
  <1>5. guard.at = "checkpoint" /\ guard' = Waiting /\ judged' = (judged \/ guard.fresh)
    BY <1>1 DEF CheckpointReturns, Rest
  <1>6. /\ full' = (failure \/ recovering \/ AtCap(guard.cap, s))
        /\ UNCHANGED <<policy, raced, crossed>>
    BY <1>1, Zenon DEF CheckpointReturns, SetFull, PausedAfterCheckpoint
  <1>7. reason' = IF ~full' THEN "none" ELSE IF reason = "none" THEN
                     IF failure THEN "failure" ELSE Filled(guard.cap, s) ELSE reason
    BY <1>1 DEF CheckpointReturns, SetFull, Filled
  <1>8. PassInv'
    BY <1>5, <1>6 DEF Waiting, policy, PolicyInv, PassInv
  <1>9. LatchInv'
    BY <1>5, <1>6 DEF Waiting, policy, PolicyInv, LatchInv
  <1>10. ReasonInv'
    BY <1>5, <1>6, <1>7 DEF Filled, policy, PolicyInv, PassInv, LatchInv, ReasonInv
  <1> QED
    BY <1>4, <1>8, <1>9, <1>10 DEF PolicyInv

\* Without a cap ingestion goes on.
LEMMA CheckUncappedStep ==
  ASSUME PolicyInv, CheckUncapped
  PROVE  PolicyInv'
  <1>1. TypeOK'
    <2>1. Flags'
      BY Zenon DEF CheckUncapped, Waiting, SetFull, Rest, policy, bounds, Flags, PolicyInv,
        TypeOK
    <2>2. guard' \in GuardRecords
      BY GuardType DEF CheckUncapped, Waiting, SetFull, Rest, policy, bounds, PolicyInv
    <2> QED
      BY <2>1, <2>2, GuardAssumption DEF CheckUncapped, Waiting, SetFull, Rest, policy,
        bounds, Flags, GuardRecords, PolicyInv, TypeOK
  <1>2. PassInv'
    BY DEF CheckUncapped, Waiting, SetFull, Rest, policy, bounds, PolicyInv, TypeOK, PassInv
  <1>3. LatchInv'
    BY DEF CheckUncapped, Waiting, SetFull, Rest, policy, bounds, PolicyInv, TypeOK, PassInv,
      LatchInv
  <1>4. ReasonInv'
    BY DEF CheckUncapped, Waiting, SetFull, Rest, policy, bounds, PolicyInv, TypeOK, PassInv,
      LatchInv, ReasonInv
  <1> QED
    BY <1>1, <1>2, <1>3, <1>4 DEF PolicyInv

\* A pass reads the cap.
LEMMA CheckCapStep ==
  ASSUME PolicyInv, CheckCap
  PROVE  PolicyInv'
  <1>1. TypeOK'
    <2>1. Flags'
      BY Zenon DEF CheckCap, policy, history, bounds, Flags, PolicyInv, TypeOK
    <2>2. guard' \in GuardRecords
      BY GuardType DEF CheckCap, policy, history, bounds, PolicyInv
    <2> QED
      BY <2>1, <2>2, GuardAssumption DEF CheckCap, policy, history, bounds, Flags,
        GuardRecords, PolicyInv, TypeOK
  <1>2. PassInv'
    BY DEF CheckCap, policy, history, bounds, PolicyInv, TypeOK, PassInv
  <1>3. LatchInv'
    BY DEF CheckCap, policy, history, bounds, PolicyInv, TypeOK, PassInv, LatchInv
  <1>4. ReasonInv'
    BY DEF CheckCap, policy, history, bounds, PolicyInv, TypeOK, PassInv, LatchInv, ReasonInv
  <1> QED
    BY <1>1, <1>2, <1>3, <1>4 DEF PolicyInv

\* Without pruning the cap pauses.
LEMMA PreserveStep ==
  ASSUME PolicyInv, Preserve
  PROVE  PolicyInv'
  <1>1. TypeOK'
    <2>1. (size >= guard.cap) \in BOOLEAN
      OBVIOUS
    <2>2. Flags'
      BY <2>1, Zenon DEF Preserve, SetFull, Rest, policy, bounds, PolicyInv, TypeOK, Flags
    <2>3. guard' \in GuardRecords
      BY GuardType DEF Preserve, Rest, PolicyInv
    <2> QED
      BY <2>2, <2>3, GuardAssumption DEF Preserve, SetFull, Measured, AtCap, policy, bounds,
        GuardRecords, Flags, PolicyInv, TypeOK
  <1>2. PassInv'
    BY DEF Preserve, Waiting, SetFull, Measured, AtCap, Rest, policy, bounds, PolicyInv, TypeOK,
      PassInv
  <1>3. LatchInv'
    BY DEF Preserve, Waiting, SetFull, Measured, AtCap, Rest, policy, bounds, PolicyInv, TypeOK,
      PassInv, LatchInv
  <1>4. ReasonInv'
    BY DEF Preserve, Waiting, SetFull, Measured, AtCap, Rest, policy, bounds, PolicyInv, TypeOK,
      PassInv, LatchInv, ReasonInv
  <1> QED
    BY <1>1, <1>2, <1>3, <1>4 DEF PolicyInv

\* A cycle ends at low water.
LEMMA LowWaterStep ==
  ASSUME PolicyInv, LowWater
  PROVE  PolicyInv'
  <1>1. TypeOK'
    <2>1. Flags'
      BY Zenon DEF LowWater, Settles, Waiting, SetFull, Rest, bounds, Flags, PolicyInv, TypeOK
    <2>2. guard' \in GuardRecords
      BY GuardType DEF LowWater, Settles, Waiting, SetFull, Rest, bounds, PolicyInv
    <2> QED
      BY <2>1, <2>2, GuardAssumption DEF LowWater, Settles, Waiting, SetFull, Rest, bounds, Flags,
        GuardRecords, PolicyInv, TypeOK
  <1>2. PassInv'
    BY DEF LowWater, Settles, Waiting, SetFull, Rest, bounds, PolicyInv, TypeOK, PassInv
  <1>3. LatchInv'
    BY DEF LowWater, Settles, Waiting, SetFull, Rest, bounds, PolicyInv, TypeOK, PassInv, LatchInv
  <1>4. ReasonInv'
    BY DEF LowWater, Settles, Waiting, SetFull, Rest, bounds, PolicyInv, TypeOK, PassInv, LatchInv,
      ReasonInv
  <1> QED
    BY <1>1, <1>2, <1>3, <1>4 DEF PolicyInv

\* No cycle, or its cooldown.
LEMMA BetweenWatersStep ==
  ASSUME PolicyInv, BetweenWaters
  PROVE  PolicyInv'
  <1>1. TypeOK'
    <2>1. Flags'
      BY Zenon DEF BetweenWaters, Waiting, SetFull, Rest, bounds, Flags, PolicyInv, TypeOK
    <2>2. guard' \in GuardRecords
      BY GuardType DEF BetweenWaters, Waiting, SetFull, Rest, bounds, PolicyInv
    <2> QED
      BY <2>1, <2>2, GuardAssumption DEF BetweenWaters, Waiting, SetFull, Rest, bounds,
        Flags, GuardRecords, PolicyInv, TypeOK
  <1>2. PassInv'
    BY DEF BetweenWaters, Waiting, SetFull, Rest, bounds, PolicyInv, TypeOK, PassInv
  <1>3. LatchInv'
    BY DEF BetweenWaters, Waiting, SetFull, Rest, bounds, PolicyInv, TypeOK, PassInv, LatchInv
  <1>4. ReasonInv'
    BY DEF BetweenWaters, Waiting, SetFull, Rest, bounds, PolicyInv, TypeOK, PassInv, LatchInv,
      ReasonInv
  <1> QED
    BY <1>1, <1>2, <1>3, <1>4 DEF PolicyInv

\* A phase of pruning starts.
LEMMA StartPruneStep ==
  ASSUME PolicyInv, StartPrune
  PROVE  PolicyInv'
  <1>1. TypeOK'
    <2>1. Flags'
      BY Zenon DEF StartPrune, SetFull, Measured, AtCap, bounds, Flags, PolicyInv, TypeOK
    <2>2. guard' \in GuardRecords
      BY GuardType DEF StartPrune, SetFull, Measured, AtCap, bounds, PolicyInv
    <2> QED
      BY <2>1, <2>2, GuardAssumption DEF StartPrune, SetFull, Measured, AtCap, bounds,
        Flags, GuardRecords, PolicyInv, TypeOK
  <1>2. PassInv'
    BY DEF StartPrune, SetFull, Measured, AtCap, bounds, PolicyInv, TypeOK, PassInv
  <1>3. LatchInv'
    BY DEF StartPrune, SetFull, Measured, AtCap, bounds, PolicyInv, TypeOK, PassInv, LatchInv
  <1>4. ReasonInv'
    BY DEF StartPrune, SetFull, Measured, AtCap, bounds, PolicyInv, TypeOK, PassInv, LatchInv,
      ReasonInv
  <1> QED
    BY <1>1, <1>2, <1>3, <1>4 DEF PolicyInv

\* A phase of pruning returns.
LEMMA PruneStep ==
  ASSUME PolicyInv, Prune
  PROVE  PolicyInv'
  <1>1. TypeOK'
    <2>1. Flags'
      <3>1. UNCHANGED <<policy, full, history>>
        BY Zenon DEF Prune, PruneFrees, PruneShort, PruneUnreached, PruneFails, Pruned
      <3>2. (backoff' = backoff \/ backoff' = TRUE) /\ (wal' = wal \/ wal' = FALSE)
        BY DEF Prune, PruneFrees, PruneShort, PruneUnreached, PruneFails
      <3>3. backoff' \in BOOLEAN /\ wal' \in BOOLEAN
        BY <3>2, Zenon DEF PolicyInv, TypeOK
      <3> QED
        BY <3>1, <3>3, Zenon DEF policy, history, Flags, PolicyInv, TypeOK
    <2>2. guard' \in GuardRecords
      BY GuardType DEF Prune, PruneFrees, PruneShort, PruneUnreached, PruneFails, Pruned,
        policy, history, bounds, PolicyInv
    <2> QED
      BY <2>1, <2>2, GuardAssumption DEF Prune, PruneFrees, PruneShort, PruneUnreached,
        PruneFails, Pruned, policy, history, bounds, Flags, GuardRecords, PolicyInv, TypeOK
  <1>2. PassInv'
    <2>1. /\ guard.at = "prune" /\ guard'.at = "conclude"
          /\ guard'.cap = guard.cap /\ guard'.fresh = guard.fresh
      <3>1. guard.at = "prune" /\ \E e : guard' = [guard EXCEPT !.at = "conclude", !.err = e]
        BY DEF Prune, PruneFrees, PruneShort, PruneUnreached, PruneFails, Pruned
      <3> QED
        BY <3>1 DEF PolicyInv, TypeOK
    <2>2. UNCHANGED <<policy, history>>
      BY DEF Prune, PruneFrees, PruneShort, PruneUnreached, PruneFails, Pruned
    <2> QED
      BY <2>1, <2>2 DEF policy, history, PolicyInv, PassInv
  <1>3. LatchInv'
    BY DEF Prune, PruneFrees, PruneShort, PruneUnreached, PruneFails, Pruned, policy,
      history, bounds, PolicyInv, TypeOK, PassInv, LatchInv
  <1>4. ReasonInv'
    BY DEF Prune, PruneFrees, PruneShort, PruneUnreached, PruneFails, Pruned, policy,
      history, bounds, PolicyInv, TypeOK, PassInv, LatchInv, ReasonInv
  <1> QED
    BY <1>1, <1>2, <1>3, <1>4 DEF PolicyInv

\* The target of a cap is an integer.
LEMMA LowType == \A c \in Nat : High(c) \in Int /\ Low(c) \in Int
  BY DEF High, Low

\* The latches after a phase.
LEMMA ConcludeStep ==
  ASSUME PolicyInv, Conclude
  PROVE  PolicyInv'
  <1>1. TypeOK'
    <2>1. Flags'
      BY Zenon DEF Conclude, Settles, RecoveringAfter, Released, Waiting, SetFull, Measured, AtCap,
        Rest, bounds, Flags, PolicyInv, TypeOK
    <2>2. guard' \in GuardRecords
      BY GuardType DEF Conclude, Settles, RecoveringAfter, Released, Waiting, SetFull, Measured,
        AtCap, Rest, bounds, PolicyInv
    <2> QED
      BY <2>1, <2>2, GuardAssumption DEF Conclude, Settles, RecoveringAfter, Released, Waiting,
        SetFull, Measured, AtCap, Rest, bounds, Flags, GuardRecords, PolicyInv, TypeOK
  <1>2. PassInv'
    BY DEF Conclude, Settles, RecoveringAfter, Released, Waiting, SetFull, Measured, AtCap, Rest,
      bounds, PolicyInv, TypeOK, PassInv
  <1>5. /\ recovering' = RecoveringAfter /\ pruning' = (pruning /\ size > Low(guard.cap))
        /\ crossed' = (crossed /\ size > Low(guard.cap)) /\ guard.at = "conclude"
        /\ guard' = Waiting /\ judged' = (judged \/ guard.fresh)
        /\ UNCHANGED <<cap, auto, update>>
    BY Zenon DEF Conclude, Rest
  <1>6. raced' = raced \/ (~raced' /\ guard.fresh /\ size <= Low(guard.cap))
    BY Zenon DEF Conclude, Settles, PolicyInv, TypeOK
  <1>7. size <= Low(guard.cap) <=> ~(size > Low(guard.cap))
    <2>1. guard.cap \in Nat /\ size \in Int
      <3>1. guard.cap \in Caps \cup {0} /\ size \in Sizes
        BY DEF PolicyInv, TypeOK
      <3>2. size \in Int
        BY <3>1, GuardAssumption
      <3>3. CASE guard.cap = 0
        BY <3>2, <3>3
      <3>4. CASE guard.cap \in Caps
        BY <3>2, <3>4, GuardAssumption
      <3> QED
        BY <3>1, <3>3, <3>4, Zenon
    <2>2. Low(guard.cap) \in Int
      BY <2>1, LowType
    <2> QED
      BY <2>1, <2>2
  <1>8. size <= Low(guard.cap) => ~recovering' /\ ~pruning' /\ ~crossed'
    BY <1>5, <1>7, Zenon DEF RecoveringAfter
  <1>9. \/ full' = TRUE /\ reason' = "failure" /\ ~recovering'
        \/ full' = recovering' /\ (~recovering' => reason' = "none")
    BY Zenon DEF Conclude, SetFull
  <1>3. LatchInv'
    <2>1. CASE size <= Low(guard.cap)
      BY <1>5, <1>8, <2>1, Zenon DEF Waiting, LatchInv
    <2>2. CASE ~(size <= Low(guard.cap)) /\ raced' = raced
      <3>1. size > Low(guard.cap)
        BY <1>7, <2>2
      <3>2. ~raced /\ ~update => pruning' /\ crossed' /\ auto /\ cap > 0
        BY <1>5, <3>1 DEF PolicyInv, LatchInv
      <3> QED
        BY <1>5, <2>2, <3>2 DEF Waiting, LatchInv
    <2> QED
      BY <1>6, <2>1, <2>2
  <1>4. ReasonInv'
    <2>1. CASE ~recovering'
      BY <1>9, <2>1 DEF ReasonInv
    <2>2. CASE recovering' /\ ~raced'
      <3>1. ~raced /\ guard.fresh /\ ~update
        BY <1>5, <1>6, <1>8, <2>2 DEF PolicyInv, PassInv
      <3>2. pruning /\ auto
        BY <1>5, <3>1 DEF PolicyInv, LatchInv
      <3>3. reason' # "none"
        BY <1>5, <2>2, <3>1 DEF Conclude, RecoveringAfter, SetFull, Measured, AtCap, PolicyInv,
          PassInv, ReasonInv, TypeOK
      <3> QED
        BY <1>5, <2>2, <3>1, <3>3 DEF ReasonInv
    <2> QED
      BY <2>1, <2>2 DEF ReasonInv
  <1> QED
    BY <1>1, <1>2, <1>3, <1>4 DEF PolicyInv

\* A new policy begins without latches.
LEMMA UpdateLatchesStep ==
  ASSUME PolicyInv, UpdateLatches
  PROVE  PolicyInv'
  <1>1. TypeOK'
    <2>1. Flags'
      BY Zenon DEF UpdateLatches, bounds, Flags, PolicyInv, TypeOK
    <2>2. guard' \in GuardRecords
      BY GuardType DEF UpdateLatches, bounds, PolicyInv
    <2> QED
      BY <2>1, <2>2, GuardAssumption DEF UpdateLatches, bounds, Flags, GuardRecords, PolicyInv,
        TypeOK
  <1>2. PassInv'
    BY DEF UpdateLatches, bounds, PolicyInv, TypeOK, PassInv
  <1>3. LatchInv'
    BY DEF UpdateLatches, bounds, PolicyInv, TypeOK, PassInv, LatchInv
  <1>4. ReasonInv'
    BY DEF UpdateLatches, bounds, PolicyInv, TypeOK, PassInv, LatchInv, ReasonInv
  <1> QED
    BY <1>1, <1>2, <1>3, <1>4 DEF PolicyInv

\* A new policy is stored.
LEMMA UpdateValuesStep ==
  ASSUME PolicyInv, NEW c \in Caps, NEW a \in BOOLEAN, UpdateValues(c, a)
  PROVE  PolicyInv'
  <1>1. TypeOK'
    <2>1. Flags'
      BY Zenon DEF UpdateValues, Flags, PolicyInv, TypeOK
    <2>2. guard' \in GuardRecords
      BY GuardType DEF UpdateValues, PolicyInv
    <2> QED
      BY <2>1, <2>2, GuardAssumption DEF UpdateValues, Flags, GuardRecords, PolicyInv, TypeOK
  <1>2. PassInv'
    BY DEF UpdateValues, PolicyInv, TypeOK, PassInv
  <1>3. LatchInv'
    BY DEF UpdateValues, PolicyInv, TypeOK, PassInv, LatchInv
  <1>4. ReasonInv'
    BY DEF UpdateValues, PolicyInv, TypeOK, PassInv, LatchInv, ReasonInv
  <1> QED
    BY <1>1, <1>2, <1>3, <1>4 DEF PolicyInv

\* An operator prunes or deletes.
LEMMA OperatorStep ==
  ASSUME PolicyInv, StartManual \/ EndManual \/ Clear
  PROVE  PolicyInv'
  <1>1. /\ UNCHANGED <<policy, backoff, guard, history>>
        /\ UNCHANGED <<updates, growth, noSpace>>
    BY Zenon DEF StartManual, EndManual, ManualSucceeds, ManualFails, ManualReturns, Clear, bounds
  <1>2. wal' \in BOOLEAN /\ full' \in BOOLEAN /\ (full' => full)
    <2>1. (wal' = wal \/ wal' = FALSE) /\ (full' = full \/ full' = FALSE)
      <3>1. CASE StartManual
        BY <3>1 DEF StartManual
      <3>2. CASE EndManual
        <4>1. wal' = wal \/ wal' = FALSE
          BY <3>2, Zenon DEF EndManual, ManualSucceeds, ManualFails, ManualReturns
        <4>2. full' = full \/ full' = FALSE
          BY <3>2, Zenon DEF EndManual, ManualSucceeds, ManualFails, PolicyInv, TypeOK
        <4> QED
          BY <4>1, <4>2
      <3>3. CASE Clear
        BY <3>3 DEF Clear
      <3> QED
        BY <3>1, <3>2, <3>3
    <2>2. wal' \in BOOLEAN
      BY <2>1, Zenon DEF PolicyInv, TypeOK
    <2>3. full' \in BOOLEAN
      BY <2>1, Zenon DEF PolicyInv, TypeOK
    <2> QED
      BY <2>1, <2>2, <2>3
  <1>3. size' \in Sizes
    BY DEF StartManual, EndManual, ManualSucceeds, ManualFails, ManualReturns, Clear, PolicyInv,
      TypeOK
  <1>4. manual' \in Caps \cup {NoManual} /\ operated' \in 0..MaxOperated
    <2>1. manual' \in {manual, NoManual, cap}
      BY Zenon DEF StartManual, EndManual, ManualSucceeds, ManualFails, ManualReturns, Clear
    <2>2. operated' = operated \/ (operated < MaxOperated /\ operated' = operated + 1)
      BY Zenon DEF StartManual, EndManual, ManualSucceeds, ManualFails, ManualReturns, Clear, bounds
    <2> QED
      BY <2>1, <2>2, GuardAssumption DEF PolicyInv, TypeOK
  <1>5. TypeOK'
    BY <1>1, <1>2, <1>3, <1>4 DEF policy, history, PolicyInv, TypeOK
  <1>6. PassInv' /\ LatchInv'
    BY <1>1, Zenon DEF policy, history, PolicyInv, PassInv, LatchInv
  <1>7. ReasonInv'
    BY <1>1, <1>2 DEF policy, history, PolicyInv, ReasonInv
  <1> QED
    BY <1>5, <1>6, <1>7 DEF PolicyInv

\* Ingestion grows the file.
LEMMA GrowStep ==
  ASSUME PolicyInv, Grow
  PROVE  PolicyInv'
  <1>1. TypeOK'
    <2>1. Flags'
      BY Zenon DEF Grow, policy, history, bounds, Flags, PolicyInv, TypeOK
    <2>2. guard' \in GuardRecords
      BY GuardType DEF Grow, policy, history, bounds, PolicyInv
    <2> QED
      BY <2>1, <2>2, GuardAssumption DEF Grow, policy, history, bounds, Flags,
        GuardRecords, PolicyInv, TypeOK
  <1>2. PassInv'
    BY DEF Grow, policy, history, bounds, PolicyInv, TypeOK, PassInv
  <1>3. LatchInv'
    BY DEF Grow, policy, history, bounds, PolicyInv, TypeOK, PassInv, LatchInv
  <1>4. ReasonInv'
    BY DEF Grow, policy, history, bounds, PolicyInv, TypeOK, PassInv, LatchInv, ReasonInv
  <1> QED
    BY <1>1, <1>2, <1>3, <1>4 DEF PolicyInv

\* A write fails for lack of space.
LEMMA NoSpaceStep ==
  ASSUME PolicyInv, NoSpace
  PROVE  PolicyInv'
  <1>1. TypeOK'
    <2>1. Flags'
      BY Zenon DEF NoSpace, SetFull, policy, Flags, PolicyInv, TypeOK
    <2>2. guard' \in GuardRecords
      BY GuardType DEF NoSpace, SetFull, policy, PolicyInv
    <2> QED
      BY <2>1, <2>2, GuardAssumption DEF NoSpace, SetFull, policy, Flags, GuardRecords,
        PolicyInv, TypeOK
  <1>2. PassInv'
    BY DEF NoSpace, SetFull, policy, PolicyInv, TypeOK, PassInv
  <1>3. LatchInv'
    BY DEF NoSpace, SetFull, policy, PolicyInv, TypeOK, PassInv, LatchInv
  <1>4. ReasonInv'
    BY DEF NoSpace, SetFull, policy, PolicyInv, TypeOK, PassInv, LatchInv, ReasonInv
  <1> QED
    BY <1>1, <1>2, <1>3, <1>4 DEF PolicyInv

\* A deadline passes.
LEMMA DeadlineStep ==
  ASSUME PolicyInv, CooldownEnds \/ BackoffEnds
  PROVE  PolicyInv'
  <1>1. TypeOK'
    <2>1. Flags'
      BY Zenon DEF CooldownEnds, BackoffEnds, policy, history, bounds, Flags, PolicyInv, TypeOK
    <2>2. guard' \in GuardRecords
      BY GuardType DEF CooldownEnds, BackoffEnds, policy, history, bounds, PolicyInv
    <2> QED
      BY <2>1, <2>2, GuardAssumption DEF CooldownEnds, BackoffEnds, policy, history,
        bounds, Flags, GuardRecords, PolicyInv, TypeOK
  <1>2. PassInv'
    BY DEF CooldownEnds, BackoffEnds, policy, history, bounds, PolicyInv, TypeOK, PassInv
  <1>3. LatchInv'
    BY DEF CooldownEnds, BackoffEnds, policy, history, bounds, PolicyInv, TypeOK, PassInv,
      LatchInv
  <1>4. ReasonInv'
    BY DEF CooldownEnds, BackoffEnds, policy, history, bounds, PolicyInv, TypeOK, PassInv,
      LatchInv, ReasonInv
  <1> QED
    BY <1>1, <1>2, <1>3, <1>4 DEF PolicyInv

-----------------------------------------------------------------------------
\* The guard starts without latches, a pause or a reason.
LEMMA InitLemma ==
  ASSUME Init
  PROVE  PolicyInv
  <1>1. /\ pruning \in BOOLEAN /\ recovering \in BOOLEAN /\ cooling \in BOOLEAN
        /\ update \in BOOLEAN /\ backoff \in BOOLEAN /\ full \in BOOLEAN
        /\ wal \in BOOLEAN /\ crossed \in BOOLEAN /\ judged \in BOOLEAN /\ raced \in BOOLEAN
        /\ TRUE \in BOOLEAN
    BY Zenon DEF Init
  <1>2. \A f \in BOOLEAN : [at |-> "wait", cap |-> 0, err |-> "nil", fresh |-> f] \in GuardRecords
    BY DEF GuardRecords
  <1>3. guard \in GuardRecords
    BY <1>1, <1>2, Zenon DEF Init, Waiting
  <1>4. TypeOK
    BY <1>1, <1>3, GuardAssumption DEF Init, TypeOK, GuardRecords
  <1> QED
    BY <1>4 DEF Init, Waiting, PolicyInv, PassInv, LatchInv, ReasonInv

\* No step breaks the invariant.
LEMMA NextStep ==
  ASSUME PolicyInv, [Next]_vars
  PROVE  PolicyInv'
  <1>1. CASE Pass
    BY <1>1, SkipCheckpointStep, StartCheckpointStep, EndCheckpointStep, CheckUncappedStep,
      CheckCapStep, PreserveStep, LowWaterStep, BetweenWatersStep, StartPruneStep, PruneStep,
      ConcludeStep DEF Pass
  <1>2. ASSUME NEW c \in Caps, NEW a \in BOOLEAN, UpdateValues(c, a) PROVE PolicyInv'
    BY <1>2, UpdateValuesStep
  <1>3. CASE UpdateLatches
    BY <1>3, UpdateLatchesStep
  <1>4. CASE StartManual \/ EndManual \/ Clear
    BY <1>4, OperatorStep
  <1>5. CASE Grow
    BY <1>5, GrowStep
  <1>6. CASE NoSpace
    BY <1>6, NoSpaceStep
  <1>7. CASE CooldownEnds \/ BackoffEnds
    BY <1>7, DeadlineStep
  <1>8. CASE UNCHANGED vars
    BY <1>8 DEF vars, policy, history, bounds, PolicyInv, TypeOK, PassInv, LatchInv, ReasonInv
  <1> QED
    BY <1>1, <1>2, <1>3, <1>4, <1>5, <1>6, <1>7, <1>8 DEF Next

\* The invariant holds of every state.
LEMMA GuardInvariant == Spec => []PolicyInv
  <1>1. Init => PolicyInv
    BY InitLemma
  <1>2. PolicyInv /\ [Next]_vars => PolicyInv'
    BY NextStep
  <1> QED
    BY <1>1, <1>2, PTL DEF Spec

-----------------------------------------------------------------------------
(* Between passes no pause is without a reason, and no prune runs outside  *)
(* a cycle that began at high water, except after an update that met a     *)
(* pass, until the next low water (checkStorageGuard, checkStorageWAL).    *)
THEOREM PausesHaveReasons == Spec => []GuardInv
  <1>1. PolicyInv => GuardInv
    BY DEF PolicyInv, PassInv, LatchInv, ReasonInv, GuardInv, PausedForAReason, PrunesInACycle
  <1> QED
    BY <1>1, GuardInvariant, PTL

\* What lifts a pause for which the cap was the reason.
LEMMA LiftStep ==
  ASSUME PolicyInv, [Next]_vars, auto, ~raced, reason = "cap", full, ~full'
  PROVE  \/ size' <= Low(cap)
         \/ guard.at = "conclude" /\ guard.err = "soft" /\ size' < High(cap)
         \/ manual' # manual \/ operated' # operated
  <1>1. recovering /\ pruning /\ ~update /\ cap > 0
    BY DEF PolicyInv, LatchInv, ReasonInv
  <1>2. CASE Pass
    <2>1. CASE SkipCheckpoint \/ CheckCap \/ Prune
      BY <2>1 DEF SkipCheckpoint, CheckCap, Prune, PruneFrees, PruneShort, PruneUnreached,
        PruneFails, Pruned
    <2>2. CASE StartCheckpoint \/ EndCheckpoint
      BY <1>1, <2>2, Zenon DEF StartCheckpoint, EndCheckpoint, CheckpointDone,
        CheckpointTimesOut, CheckpointFails, CheckpointReturns, SetFull, PausedAfterCheckpoint
    <2>3. CASE CheckUncapped \/ Preserve
      BY <1>1, <2>3 DEF CheckUncapped, Preserve, PolicyInv, TypeOK
    <2>4. CASE LowWater
      BY <2>4 DEF LowWater, Settles, PolicyInv, PassInv
    <2>5. CASE BetweenWaters \/ StartPrune
      <3>1. CASE BetweenWaters
        <4>1. pruning'
          BY <1>1, <3>1 DEF BetweenWaters, PolicyInv, TypeOK
        <4>2. recovering'
          BY <1>1, <3>1 DEF BetweenWaters, PolicyInv, TypeOK
        <4> QED
          BY <3>1, <4>1, <4>2, Zenon DEF BetweenWaters
      <3>2. CASE StartPrune
        <4>1. recovering'
          BY <1>1, <3>2 DEF StartPrune, PolicyInv, TypeOK
        <4> QED
          BY <3>2, <4>1, Zenon DEF StartPrune, SetFull
      <3> QED
        BY <2>5, <3>1, <3>2
    <2>6. CASE Conclude
      <3>1. guard.cap = cap /\ size' = size
        BY <2>6 DEF Conclude, PolicyInv, PassInv
      <3>2. size \in Int /\ Low(cap) \in Int
        BY LowType, GuardAssumption DEF PolicyInv, TypeOK
      <3>3. ~RecoveringAfter
        BY <2>6, Zenon DEF Conclude, SetFull
      <3>4. ~(size > Low(cap)) \/ Released
        BY <1>1, <3>1, <3>3 DEF RecoveringAfter
      <3>5. CASE ~(size > Low(cap))
        BY <3>1, <3>2, <3>5
      <3>6. CASE Released
        BY <2>6, <3>1, <3>6 DEF Released, Conclude
      <3> QED
        BY <3>4, <3>5, <3>6
    <2> QED
      BY <1>2, <2>1, <2>2, <2>3, <2>4, <2>5, <2>6 DEF Pass
  <1>3. CASE EndManual
    BY <1>3 DEF EndManual, ManualSucceeds, ManualFails, ManualReturns
  <1>4. CASE Clear
    BY <1>4 DEF Clear, PolicyInv, TypeOK
  <1>5. CASE \/ \E c \in Caps, a \in BOOLEAN : UpdateValues(c, a)
             \/ UpdateLatches \/ StartManual \/ Grow \/ NoSpace \/ CooldownEnds \/ BackoffEnds
             \/ UNCHANGED vars
    BY <1>5 DEF UpdateValues, UpdateLatches, StartManual, Grow, NoSpace, SetFull, CooldownEnds,
      BackoffEnds, vars
  <1> QED
    BY <1>2, <1>3, <1>4, <1>5 DEF Next

(* An emergency ends at low water or at a safety stop below high water:    *)
(* neither a phase that stopped short nor a checkpoint of the WAL lifts    *)
(* the pause, only an operator does (retention.go:246-261, 315-317).       *)
THEOREM EmergencyLasts == Spec => RecoveryStaysPaused
  <1>1. PolicyInv /\ [Next]_vars =>
          [auto /\ ~raced /\ reason = "cap" /\ full /\ ~full' =>
              \/ size' <= Low(cap)
              \/ guard.at = "conclude" /\ guard.err = "soft" /\ size' < High(cap)
              \/ manual' # manual \/ operated' # operated]_vars
    BY LiftStep
  <1> QED
    BY <1>1, GuardInvariant, PTL DEF Spec, RecoveryStaysPaused

=============================================================================
