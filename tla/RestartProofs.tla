--------------------------- MODULE RestartProofs ---------------------------
(***************************************************************************)
(* The two components whose promises span a restart of the process: the    *)
(* budget of metric series, and the spool of the forwarder.                *)
(*                                                                         *)
(* SeriesInv holds for any sessions, series, deleters and budget, and any  *)
(* number of deletions, failures and restarts.  CatalogAgrees speaks of    *)
(* moments without a deletion on its way; between them the invariant says  *)
(* what a metric that is being stored may still count on (HoldsInv), what  *)
(* a reading of the table is worth when it is installed (LoadedInv), and   *)
(* that the rows unknown to the memory are accounted for by starts that    *)
(* did not read the table and by answers that were lost (BudgetInv).       *)
(*                                                                         *)
(* SpoolInv and DropsOnlyOverCap hold for any records, sizes of records    *)
(* and cap, with any number of failed writes or with one stop of the       *)
(* process (OneKindOnly).  The invariant says that the cells up to the     *)
(* write offset are whole records (Whole), that every offset in memory, in *)
(* the loop's hands and on disk is the first cell of one (Boundary), and   *)
(* that the records after the read offset are all that is not done with    *)
(* (Covered).  The cap and the reader walk from record to record; what     *)
(* such a walk returns is proved from the record nearest the end of the    *)
(* file at which it would not hold (Least).                                *)
(***************************************************************************)
EXTENDS MetricSeries, Spool, FiniteSetTheorems, WellFoundedInduction, TLAPS

-----------------------------------------------------------------------------
(* Metric series.                                                          *)

Storing == {"admit", "record", "append"}

CallInv ==
    /\ ~At("idle") => call.session \in Sessions
    /\ At("record") \/ At("append") => call.key \in Keys
    /\ At("record") => call.key \in series[call.session] /\ call.indexed

\* What the table may hold beyond a budget that was granted once.
Extra == Limit * blindStarts + lost

LoadedInv ==
    At("install") =>
        \A s \in Sessions :
            /\ catalog[s] \subseteq call.rows[s] /\ Cardinality(call.rows[s]) <= Limit + Extra
            /\ call.seen = epoch /\ ~Committed(s) => call.rows[s] = catalog[s]
            /\ ~overtaken /\ s = call.session => call.rows[s] = catalog[s]

HoldsInv ==
    /\ call.at \in Storing /\ ~overtaken => Settled(call.session) \subseteq catalog[call.session]
    /\ PointsFollowCatalog

BudgetInv ==
    \A s \in Sessions :
        /\ Cardinality(catalog[s] \cup series[s]) <= Limit + Extra
        /\ Cardinality(catalog[s] \ Settled(s)) <= Extra

IInv == TypeOK /\ CatalogAgrees /\ CallInv /\ LoadedInv /\ HoldsInv /\ BudgetInv

-----------------------------------------------------------------------------
\* A set of keys is finite, and no smaller than a part of it.
LEMMA KeySets ==
  ASSUME NEW S \in SUBSET Keys
  PROVE  IsFiniteSet(S) /\ Cardinality(S) \in Nat
                        /\ \A T \in SUBSET S : Cardinality(T) <= Cardinality(S)
  <1>1. IsFiniteSet(S)
    BY FS_Subset, SeriesAssumption
  <1>2. Cardinality(S) \in Nat
    BY <1>1, FS_CardinalityType
  <1>3. \A T \in SUBSET S : Cardinality(T) <= Cardinality(S)
    BY <1>1, FS_Subset
  <1> QED
    BY <1>1, <1>2, <1>3

\* A union has no more members than its parts together.
LEMMA UnionBound ==
  ASSUME NEW S \in SUBSET Keys, NEW T \in SUBSET Keys
  PROVE  Cardinality(S \cup T) <= Cardinality(S) + Cardinality(T)
  <1>1. IsFiniteSet(S) /\ IsFiniteSet(T) /\ S \cap T \in SUBSET Keys
    BY KeySets
  <1>2. /\ Cardinality(S) \in Nat /\ Cardinality(T) \in Nat /\ Cardinality(S \cap T) \in Nat
    BY <1>1, KeySets
  <1>3. Cardinality(S \cup T) = Cardinality(S) + Cardinality(T) - Cardinality(S \cap T)
    BY <1>1, FS_Union
  <1> QED
    BY <1>2, <1>3

\* One more key makes a set larger by at most one.
LEMMA OneMore ==
  ASSUME NEW S \in SUBSET Keys, NEW k \in Keys
  PROVE  Cardinality(S \cup {k}) <= Cardinality(S) + 1
  <1>1. IsFiniteSet(S) /\ Cardinality(S) \in Nat
    BY KeySets
  <1>2. Cardinality(S \cup {k}) = IF k \in S THEN Cardinality(S) ELSE Cardinality(S) + 1
    BY <1>1, FS_AddElement
  <1> QED
    BY <1>1, <1>2

\* The bound of BudgetKept is the budget and what comes on top of it.
LEMMA ExtraFacts ==
  ASSUME TypeOK
  PROVE  /\ Limit \in Nat /\ blindStarts \in Nat /\ lost \in Nat /\ Extra \in Nat
         /\ Limit * (1 + blindStarts) + lost = Limit + Extra
         /\ Limit * (blindStarts + 1) + lost = Limit + Extra
  <1>1. Limit \in Nat /\ blindStarts \in Nat /\ lost \in Nat
    BY SeriesAssumption DEF TypeOK
  <1>2. Limit * (1 + blindStarts) = Limit + Limit * blindStarts
    BY <1>1
  <1>3. Limit * blindStarts \in Nat
    BY <1>1
  <1> QED
    BY <1>1, <1>2, <1>3 DEF Extra

\* The calls of storeMetric of TypeOK.
CallRecords(e) ==
    [at : Steps, session : Sessions \cup {"none"}, key : Keys \cup {"none"},
     indexed : BOOLEAN, seen : 0..e, rows : [Sessions -> SUBSET Keys]]

\* The states of a call of storeMetric whose rows are not read.
LEMMA CallType ==
  ASSUME TypeOK, NEW at \in Steps, NEW session \in Sessions \cup {"none"},
         NEW key \in Keys \cup {"none"}, NEW indexed \in BOOLEAN, NEW seen \in 0..epoch
  PROVE  [at |-> at, session |-> session, key |-> key, indexed |-> indexed, seen |-> seen,
          rows |-> NoRows]
           \in CallRecords(epoch)
  BY DEF NoRows, CallRecords

\* The budget and what comes on top of it are natural numbers.
LEMMA ExtraType ==
  ASSUME TypeOK
  PROVE  Limit \in Nat /\ Extra \in Nat
  BY ExtraFacts

\* A step that only takes series away keeps to the budget.
LEMMA BudgetShrinks ==
  ASSUME TypeOK, TypeOK', BudgetInv, Extra' = Extra,
         \A s \in Sessions : /\ catalog'[s] \cup series'[s] \subseteq catalog[s] \cup series[s]
                             /\ catalog'[s] \ Settled(s)' \subseteq catalog[s] \ Settled(s)
  PROVE  BudgetInv'
  <1> SUFFICES ASSUME NEW s \in Sessions
               PROVE  /\ Cardinality(catalog'[s] \cup series'[s]) <= Limit + Extra
                      /\ Cardinality(catalog'[s] \ Settled(s)') <= Extra
    BY DEF BudgetInv
  <1> DEFINE union == catalog[s] \cup series[s]
             extra == catalog[s] \ Settled(s)
             union1 == catalog'[s] \cup series'[s]
             extra1 == catalog'[s] \ Settled(s)'
  <1>1. union \in SUBSET Keys /\ extra \in SUBSET Keys
    BY DEF TypeOK
  <1>2. union1 \in SUBSET union /\ extra1 \in SUBSET extra
    OBVIOUS
  <1>3. union1 \in SUBSET Keys /\ extra1 \in SUBSET Keys
    BY <1>1, <1>2
  <1>4. /\ Cardinality(union) \in Nat /\ Cardinality(union1) \in Nat
        /\ Cardinality(extra) \in Nat /\ Cardinality(extra1) \in Nat
    BY <1>1, <1>3, KeySets
  <1>5. Cardinality(union1) <= Cardinality(union) /\ Cardinality(extra1) <= Cardinality(extra)
    BY <1>1, <1>2, KeySets
  <1>6. Cardinality(union) <= Limit + Extra /\ Cardinality(extra) <= Extra
    BY DEF BudgetInv
  <1>7. Limit \in Nat /\ Extra \in Nat
    BY ExtraType
  <1> QED
    BY <1>4, <1>5, <1>6, <1>7

-----------------------------------------------------------------------------
\* A metric finds the memory current, or stale and reads the epoch.
LEMMA FetchStep ==
  ASSUME IInv, NEW s \in Sessions, Fetch(s)
  PROVE  IInv'
  <1>1. TypeOK'
    <2>1. overtaken' \in BOOLEAN
      BY Zenon DEF Fetch, Committed
    <2>2. call' \in [at : Steps, session : Sessions \cup {"none"}, key : Keys \cup {"none"},
                     indexed : BOOLEAN, seen : 0..epoch', rows : [Sessions -> SUBSET Keys]]
      <3>1. /\ "load" \in Steps /\ "admit" \in Steps /\ FALSE \in BOOLEAN
            /\ 0 \in 0..epoch /\ epoch \in 0..epoch /\ epoch' = epoch
        BY DEF Steps, Fetch, IInv, TypeOK
      <3>2. \/ call' = [at |-> "load", session |-> s, key |-> "none", indexed |-> FALSE,
                       seen |-> epoch, rows |-> NoRows]
            \/ call' = [at |-> "admit", session |-> s, key |-> "none", indexed |-> FALSE,
                       seen |-> 0, rows |-> NoRows]
        BY DEF Fetch, Idle
      <3>3. s \in Sessions \cup {"none"} /\ "none" \in Keys \cup {"none"} /\ TypeOK
        BY DEF IInv
      <3>4. /\ [at |-> "load", session |-> s, key |-> "none", indexed |-> FALSE, seen |-> epoch,
                rows |-> NoRows] \in CallRecords(epoch)
            /\ [at |-> "admit", session |-> s, key |-> "none", indexed |-> FALSE, seen |-> 0,
                rows |-> NoRows] \in CallRecords(epoch)
        BY <3>1, <3>3, CallType, Zenon
      <3>5. call' \in CallRecords(epoch')
        BY <3>1, <3>2, <3>4, Zenon
      <3> QED
        BY <3>5 DEF CallRecords
    <2> QED
      BY <2>1, <2>2 DEF Fetch, bounds, IInv, TypeOK
  <1>2. CatalogAgrees'
    BY DEF Settled, Fetch, IInv, TypeOK, CatalogAgrees, Committed, At
  <1>3. CallInv'
    BY DEF Fetch, IInv, TypeOK, CallInv, At
  <1>4. LoadedInv'
    BY DEF Fetch, IInv, TypeOK, LoadedInv, At
  <1>5. HoldsInv'
    BY DEF Settled, Fetch, IInv, TypeOK, CatalogAgrees, HoldsInv, PointsFollowCatalog, Storing, At
  <1>6. BudgetInv'
    BY DEF Settled, Fetch, Idle, IInv, TypeOK, BudgetInv, Extra, At
  <1> QED
    BY <1>1, <1>2, <1>3, <1>4, <1>5, <1>6 DEF IInv

\* The table is read for a stale memory.
LEMMA LoadStep ==
  ASSUME IInv, Load
  PROVE  IInv'
  <1>1. TypeOK'
    BY DEF Load, bounds, Steps, IInv, TypeOK
  <1>2. CatalogAgrees'
    BY DEF Settled, Load, IInv, TypeOK, CatalogAgrees, Committed, At
  <1>3. CallInv'
    BY DEF Load, IInv, TypeOK, CallInv, At
  <1>4. LoadedInv'
    <2>1. \A s \in Sessions : Cardinality(catalog[s]) <= Cardinality(catalog[s] \cup series[s])
      BY KeySets DEF IInv, TypeOK
    <2>2. \A s \in Sessions : /\ Cardinality(catalog[s]) \in Nat
                              /\ Cardinality(catalog[s] \cup series[s]) \in Nat
      BY KeySets DEF IInv, TypeOK
    <2>3. \A s \in Sessions : Cardinality(catalog[s]) <= Limit + Extra
      <3>1. Limit \in Nat /\ Extra \in Nat
        BY ExtraType DEF IInv
      <3>2. \A s \in Sessions : Cardinality(catalog[s] \cup series[s]) <= Limit + Extra
        BY DEF IInv, BudgetInv
      <3> TAKE s \in Sessions
      <3>3. /\ Cardinality(catalog[s]) <= Cardinality(catalog[s] \cup series[s])
            /\ Cardinality(catalog[s]) \in Nat /\ Cardinality(catalog[s] \cup series[s]) \in Nat
            /\ Cardinality(catalog[s] \cup series[s]) <= Limit + Extra
        BY <2>1, <2>2, <3>2, Zenon
      <3> QED
        BY <3>1, <3>3
    <2> QED
      BY <2>3 DEF Load, IInv, TypeOK, LoadedInv, Extra
  <1>5. HoldsInv'
    BY DEF Load, IInv, TypeOK, HoldsInv, PointsFollowCatalog, Storing, At
  <1>6. BudgetInv'
    BY DEF Settled, Load, IInv, TypeOK, BudgetInv, Extra, At
  <1> QED
    BY <1>1, <1>2, <1>3, <1>4, <1>5, <1>6 DEF IInv

\* Reading the table fails.
LEMMA LoadFailsStep ==
  ASSUME IInv, LoadFails
  PROVE  IInv'
  <1>1. TypeOK'
    BY SeriesAssumption DEF LoadFails, Fail, Idle, NoRows, Steps, IInv, TypeOK
  <1>2. CatalogAgrees'
    BY DEF Settled, LoadFails, Fail, Idle, IInv, TypeOK, CatalogAgrees, Committed, At
  <1>3. CallInv'
    BY DEF LoadFails, Fail, Idle, IInv, TypeOK, CallInv, At
  <1>4. LoadedInv'
    BY DEF LoadFails, Fail, Idle, IInv, TypeOK, LoadedInv, At
  <1>5. HoldsInv'
    BY DEF LoadFails, Fail, Idle, IInv, TypeOK, HoldsInv, PointsFollowCatalog, Storing, At
  <1>6. BudgetInv'
    BY DEF Settled, LoadFails, Fail, Idle, IInv, TypeOK, BudgetInv, Extra, At
  <1> QED
    BY <1>1, <1>2, <1>3, <1>4, <1>5, <1>6 DEF IInv

\* The memory is replaced by what was read, under the epoch read before it.
LEMMA InstallStep ==
  ASSUME IInv, Install
  PROVE  IInv'
  <1>1. TypeOK'
    <2>1. gap' \in BOOLEAN
      BY Zenon DEF Install, Installed
    <2>2. call' \in [at : Steps, session : Sessions \cup {"none"}, key : Keys \cup {"none"},
                     indexed : BOOLEAN, seen : 0..epoch', rows : [Sessions -> SUBSET Keys]]
      <3>1. /\ "admit" \in Steps /\ 0 \in 0..epoch /\ epoch' = epoch
            /\ call.session \in Sessions \cup {"none"} /\ call.key \in Keys \cup {"none"}
            /\ TypeOK
        BY DEF Steps, Install, Installed, IInv, TypeOK
      <3>2. call' = [at |-> "admit", session |-> call.session, key |-> call.key,
                     indexed |-> call.indexed, seen |-> 0, rows |-> NoRows]
        BY DEF Install, Installed, IInv, TypeOK
      <3>3. call.indexed \in BOOLEAN
        BY Zenon DEF IInv, TypeOK
      <3>4. [at |-> "admit", session |-> call.session, key |-> call.key, indexed |-> call.indexed,
             seen |-> 0, rows |-> NoRows] \in CallRecords(epoch)
        BY <3>1, <3>3, CallType, Zenon
      <3>5. call' \in CallRecords(epoch')
        BY <3>1, <3>2, <3>4, Zenon
      <3> QED
        BY <3>5 DEF CallRecords
    <2> QED
      BY <2>1, <2>2 DEF Install, Installed, bounds, IInv, TypeOK
  <1>2. CatalogAgrees'
    BY DEF Settled, Install, Installed, IInv, TypeOK, LoadedInv, CatalogAgrees, Committed, At
  <1>3. CallInv'
    BY DEF Install, Installed, IInv, TypeOK, CallInv, At
  <1>4. LoadedInv'
    BY DEF Install, Installed, IInv, TypeOK, LoadedInv, At
  <1>5. HoldsInv'
    BY DEF Settled, Install, Installed, IInv, TypeOK, CallInv, LoadedInv, HoldsInv,
      PointsFollowCatalog, At
  <1>6. BudgetInv'
    <2>1. \A s \in Sessions : /\ catalog'[s] \cup series'[s] = call.rows[s]
                              /\ catalog'[s] \ Settled(s)' = {}
      BY DEF Settled, Install, Installed, IInv, TypeOK, LoadedInv, At
    <2>2. Cardinality({}) = 0
      BY FS_EmptySet
    <2> QED
      <3>1. Extra' = Extra /\ Extra \in Nat /\ Limit \in Nat
        BY ExtraType DEF Install, Installed, IInv, Extra
      <3>2. \A s \in Sessions : Cardinality(call.rows[s]) <= Limit + Extra
        BY DEF Install, Installed, IInv, LoadedInv
      <3>3. ASSUME NEW s \in Sessions
            PROVE  /\ Cardinality(catalog'[s] \cup series'[s]) <= Limit + Extra'
                   /\ Cardinality(catalog'[s] \ Settled(s)') <= Extra'
        <4>1. /\ Cardinality(catalog'[s] \cup series'[s]) = Cardinality(call.rows[s])
              /\ Cardinality(catalog'[s] \ Settled(s)') = 0
          BY <2>1, <2>2, Zenon
        <4> QED
          BY <3>1, <3>2, <4>1
      <3> QED
        BY <3>3 DEF BudgetInv
  <1> QED
    BY <1>1, <1>2, <1>3, <1>4, <1>5, <1>6 DEF IInv

\* A point of a series in memory.
LEMMA AdmitKnownStep ==
  ASSUME IInv, NEW k \in Keys, AdmitKnown(k)
  PROVE  IInv'
  <1>1. TypeOK'
    BY DEF AdmitKnown, bounds, Steps, IInv, TypeOK
  <1>2. CatalogAgrees'
    BY DEF Settled, AdmitKnown, IInv, TypeOK, CatalogAgrees, Committed, At
  <1>3. CallInv'
    BY DEF AdmitKnown, IInv, TypeOK, CallInv, At
  <1>4. LoadedInv'
    BY DEF AdmitKnown, IInv, TypeOK, LoadedInv, At
  <1>5. HoldsInv'
    BY DEF Settled, AdmitKnown, IInv, TypeOK, HoldsInv, PointsFollowCatalog, Storing, At
  <1>6. BudgetInv'
    BY DEF Settled, AdmitKnown, IInv, TypeOK, BudgetInv, Extra, At
  <1> QED
    BY <1>1, <1>2, <1>3, <1>4, <1>5, <1>6 DEF IInv

\* A point of a new series while the budget lasts.
LEMMA AdmitFreshStep ==
  ASSUME IInv, NEW k \in Keys, AdmitFresh(k)
  PROVE  IInv'
  <1>1. TypeOK'
    BY DEF AdmitFresh, bounds, Steps, IInv, TypeOK
  <1>2. CatalogAgrees'
    BY DEF Settled, AdmitFresh, IInv, TypeOK, CatalogAgrees, Committed, At
  <1>3. CallInv'
    BY DEF AdmitFresh, IInv, TypeOK, CallInv, At
  <1>4. LoadedInv'
    BY DEF AdmitFresh, IInv, TypeOK, LoadedInv, At
  <1>5. HoldsInv'
    BY DEF Settled, AdmitFresh, IInv, TypeOK, HoldsInv, PointsFollowCatalog, Storing, At
  <1>6. BudgetInv'
    <2>1. ASSUME NEW s \in Sessions
          PROVE  Settled(s)' = Settled(s) /\ Settled(s) = series[s]
      BY <2>1 DEF Settled, AdmitFresh, IInv, TypeOK, At
    <2>2. ASSUME NEW s \in Sessions, s # call.session
          PROVE  catalog'[s] \cup series'[s] = catalog[s] \cup series[s]
      BY <2>2 DEF AdmitFresh, IInv, TypeOK
    <2>3. DEFINE unknown == catalog[call.session] \ series[call.session]
    <2>4. Cardinality(catalog'[call.session] \cup series'[call.session]) <= Limit + Extra
      <3> DEFINE s == call.session
      <3>1. s \in Sessions /\ series[s] \in SUBSET Keys /\ unknown \in SUBSET Keys
        BY DEF AdmitFresh, IInv, TypeOK, CallInv, At
      <3>2. catalog'[s] \cup series'[s] = (series[s] \cup {k}) \cup unknown
        BY <3>1 DEF AdmitFresh, IInv, TypeOK
      <3>3. Cardinality(series[s] \cup {k}) <= Limit
        BY <3>1, OneMore, KeySets, ExtraFacts DEF AdmitFresh, IInv
      <3>4. Cardinality(unknown) <= Extra
        BY <2>1, <3>1 DEF IInv, BudgetInv
      <3>5. /\ Cardinality(series[s] \cup {k}) \in Nat /\ Cardinality(unknown) \in Nat
            /\ Cardinality((series[s] \cup {k}) \cup unknown) \in Nat
        BY <3>1, KeySets
      <3>6. Cardinality((series[s] \cup {k}) \cup unknown)
              <= Cardinality(series[s] \cup {k}) + Cardinality(unknown)
        BY <3>1, UnionBound
      <3> QED
        BY <3>2, <3>3, <3>4, <3>5, <3>6, ExtraType DEF IInv
    <2> QED
      BY <2>1, <2>2, <2>4 DEF AdmitFresh, IInv, BudgetInv, Extra
  <1> QED
    BY <1>1, <1>2, <1>3, <1>4, <1>5, <1>6 DEF IInv

\* A point of a new series beyond the budget.
LEMMA CollapseStep ==
  ASSUME IInv, NEW k \in Keys, Collapse(k)
  PROVE  IInv'
  <1>1. TypeOK'
    BY DEF Collapse, bounds, Steps, IInv, TypeOK
  <1>2. CatalogAgrees'
    BY DEF Settled, Collapse, IInv, TypeOK, CatalogAgrees, Committed, At
  <1>3. CallInv'
    BY DEF Collapse, IInv, TypeOK, CallInv, At
  <1>4. LoadedInv'
    BY DEF Collapse, IInv, TypeOK, LoadedInv, At
  <1>5. HoldsInv'
    <2>1. /\ Settled(call.session)' = Settled(call.session)
          /\ Settled(call.session) = series[call.session]
      BY DEF Settled, Collapse, IInv, TypeOK, At
    <2>2. ASSUME ~overtaken PROVE Cardinality(catalog[call.session]) >= Limit
      <3>1. /\ catalog[call.session] \in SUBSET Keys
            /\ series[call.session] \in SUBSET catalog[call.session]
        BY <2>1, <2>2 DEF Collapse, IInv, TypeOK, CallInv, HoldsInv, Storing, At
      <3>2. Cardinality(series[call.session]) <= Cardinality(catalog[call.session])
        BY <3>1, KeySets
      <3>3. Cardinality(series[call.session]) \in Nat /\ Cardinality(catalog[call.session]) \in Nat
        BY <3>1, KeySets
      <3> QED
        BY <3>2, <3>3, ExtraFacts DEF Collapse, IInv
    <2> QED
      BY <2>1, <2>2 DEF Collapse, IInv, TypeOK, HoldsInv, PointsFollowCatalog, At, Storing
  <1>6. BudgetInv'
    BY DEF Settled, Collapse, IInv, TypeOK, BudgetInv, Extra, At
  <1> QED
    BY <1>1, <1>2, <1>3, <1>4, <1>5, <1>6 DEF IInv

\* A new series gets its row.
LEMMA RecordStep ==
  ASSUME IInv, Record
  PROVE  IInv'
  <1>1. TypeOK'
    BY DEF Record, Inserted, bounds, Steps, IInv, TypeOK, CallInv
  <1>2. CatalogAgrees'
    <2>1. ASSUME NEW s \in Sessions
          PROVE  /\ Settled(s)' \subseteq Settled(s)
                                      \cup (IF s = call.session THEN {call.key} ELSE {})
                 /\ Settled(s) \subseteq Settled(s)'
                 /\ s = call.session => call.key \in Settled(s)'
                 /\ catalog'[s] = catalog[s] \cup (IF s = call.session THEN {call.key} ELSE {})
      BY <2>1 DEF Settled, Record, Inserted, IInv, TypeOK, CallInv, At
    <2>2. ASSUME NEW s \in Sessions, seriesEpoch' = epoch', ~Committed(s)'
          PROVE  /\ Settled(s)' \subseteq catalog'[s]
                 /\ ~gap' => Settled(s)' = catalog'[s]
      <3>1. Settled(s) \subseteq catalog[s] /\ (~gap => Settled(s) = catalog[s])
        BY <2>2 DEF Record, IInv, CatalogAgrees, Committed
      <3>2. gap' = gap
        BY DEF Record
      <3>3. CASE s = call.session
        BY <2>1, <3>1, <3>2, <3>3
      <3>4. CASE s # call.session
        <4>1. Settled(s)' = Settled(s) /\ catalog'[s] = catalog[s]
          BY <2>1, <3>4
        <4> QED
          BY <3>1, <3>2, <4>1
      <3> QED
        BY <3>3, <3>4
    <2> QED
      BY <2>2 DEF CatalogAgrees
  <1>3. CallInv'
    BY DEF Record, Inserted, IInv, TypeOK, CallInv, At
  <1>4. LoadedInv'
    BY DEF Record, Inserted, IInv, TypeOK, LoadedInv, At
  <1>5. HoldsInv'
    BY DEF Settled, Record, Inserted, IInv, TypeOK, CallInv, HoldsInv, PointsFollowCatalog,
      Storing, At
  <1>6. BudgetInv'
    <2>1. ASSUME NEW s \in Sessions
          PROVE  /\ catalog'[s] \cup series'[s] \subseteq catalog[s] \cup series[s]
                 /\ catalog'[s] \ Settled(s)' \subseteq catalog[s] \ Settled(s)
      BY <2>1 DEF Settled, Record, Inserted, IInv, TypeOK, CallInv, At
    <2>2. Extra' = Extra
      BY DEF Record, Extra
    <2> QED
      BY <1>1, <2>1, <2>2, BudgetShrinks DEF IInv
  <1> QED
    BY <1>1, <1>2, <1>3, <1>4, <1>5, <1>6 DEF IInv

\* A row is not written, and its series forgotten.
LEMMA RecordFailsStep ==
  ASSUME IInv, RecordFails
  PROVE  IInv'
  <1>1. TypeOK'
    BY SeriesAssumption DEF RecordFails, Forget, Fail, Idle, NoRows, Steps, IInv, TypeOK, CallInv,
       At
  <1>2. CatalogAgrees'
    BY DEF Settled, RecordFails, Forget, Fail, Idle, IInv, TypeOK, CatalogAgrees, Committed, At
  <1>3. CallInv'
    BY DEF RecordFails, Forget, Fail, Idle, IInv, TypeOK, CallInv, At
  <1>4. LoadedInv'
    BY DEF RecordFails, Forget, Fail, Idle, IInv, TypeOK, LoadedInv, At
  <1>5. HoldsInv'
    BY DEF RecordFails, Forget, Fail, Idle, IInv, TypeOK, HoldsInv, PointsFollowCatalog, Storing, At
  <1>6. BudgetInv'
    <2>1. ASSUME NEW s \in Sessions
          PROVE  /\ catalog'[s] \cup series'[s] \subseteq catalog[s] \cup series[s]
                 /\ catalog'[s] \ Settled(s)' \subseteq catalog[s] \ Settled(s)
      <3>1. Settled(s)' = Settled(s) /\ series'[s] \subseteq series[s] /\ catalog' = catalog
        BY <2>1 DEF Settled, RecordFails, Forget, IInv, TypeOK, At, Idle
      <3> QED
        BY <3>1
    <2>2. Extra' = Extra
      BY DEF RecordFails, Extra
    <2> QED
      BY <1>1, <2>1, <2>2, BudgetShrinks DEF IInv
  <1> QED
    BY <1>1, <1>2, <1>3, <1>4, <1>5, <1>6 DEF IInv

\* A row is written and its series forgotten all the same.
LEMMA RecordUnansweredStep ==
  ASSUME IInv, RecordUnanswered
  PROVE  IInv'
  <1>1. TypeOK'
    BY SeriesAssumption DEF RecordUnanswered, Forget, Fail, Inserted, Idle, NoRows, Steps, IInv,
       TypeOK, CallInv, At
  <1>2. CatalogAgrees'
    BY DEF Settled, RecordUnanswered, Forget, Fail, Inserted, IInv, TypeOK, CatalogAgrees, Committed
  <1>3. CallInv'
    BY DEF RecordUnanswered, Forget, Fail, Inserted, Idle, IInv, TypeOK, CallInv, At
  <1>4. LoadedInv'
    BY DEF RecordUnanswered, Forget, Fail, Inserted, Idle, IInv, TypeOK, LoadedInv, At
  <1>5. HoldsInv'
    BY DEF RecordUnanswered, Forget, Fail, Inserted, Idle, IInv, TypeOK, HoldsInv,
       PointsFollowCatalog, Storing, At
  <1>6. BudgetInv'
    <2>1. ASSUME NEW s \in Sessions
          PROVE  /\ catalog'[s] \cup series'[s] = catalog[s] \cup series[s]
                 /\ catalog'[s] \ Settled(s)' = (catalog[s] \ Settled(s))
                                                \cup (IF s = call.session THEN {call.key} ELSE {})
      <3>1. Settled(s)' = Settled(s)
        BY <2>1 DEF Settled, RecordUnanswered, Forget, IInv, TypeOK, At, Idle
      <3>2. /\ catalog'[s] = catalog[s] \cup (IF s = call.session THEN {call.key} ELSE {})
            /\ series'[s] = series[s] \ (IF s = call.session THEN {call.key} ELSE {})
        BY <2>1 DEF RecordUnanswered, Forget, Inserted, IInv, TypeOK
      <3>3. /\ s = call.session => call.key \in series[s] /\ call.key \notin Settled(s)
            /\ Settled(s) \subseteq series[s]
        BY <2>1 DEF Settled, RecordUnanswered, Forget, IInv, TypeOK, CallInv
      <3> QED
        BY <3>1, <3>2, <3>3
    <2>2. Extra' = Extra + 1 /\ Extra \in Nat /\ Limit \in Nat
      BY ExtraFacts DEF RecordUnanswered, IInv, Extra
    <2>3. ASSUME NEW s \in Sessions
          PROVE  Cardinality(catalog'[s] \ Settled(s)') <= Extra + 1
      <3>1. /\ catalog[s] \ Settled(s) \in SUBSET Keys /\ call.key \in Keys
        BY DEF RecordUnanswered, Forget, IInv, TypeOK, CallInv
      <3>2. /\ Cardinality(catalog[s] \ Settled(s)) \in Nat
            /\ Cardinality(catalog[s] \ Settled(s)) <= Extra
        BY <3>1, KeySets DEF IInv, BudgetInv
      <3>3. CASE s = call.session
        <4>1. Cardinality((catalog[s] \ Settled(s)) \cup {call.key})
                <= Cardinality(catalog[s] \ Settled(s)) + 1
          BY <3>1, OneMore
        <4>2. Cardinality((catalog[s] \ Settled(s)) \cup {call.key}) \in Nat
          BY <3>1, KeySets
        <4>3. catalog'[s] \ Settled(s)' = (catalog[s] \ Settled(s)) \cup {call.key}
          BY <2>1, <3>3
        <4> QED
          BY <2>2, <3>2, <4>1, <4>2, <4>3
      <3>4. CASE s # call.session
        <4>1. catalog'[s] \ Settled(s)' = catalog[s] \ Settled(s)
          BY <2>1, <3>4
        <4> QED
          BY <2>2, <3>2, <4>1
      <3> QED
        BY <3>3, <3>4
    <2>4. ASSUME NEW s \in Sessions
          PROVE  Cardinality(catalog'[s] \cup series'[s]) <= Limit + Extra + 1
      <3>1. Cardinality(catalog[s] \cup series[s]) \in Nat
        BY KeySets DEF IInv, TypeOK
      <3>2. Cardinality(catalog[s] \cup series[s]) <= Limit + Extra
        BY DEF IInv, BudgetInv
      <3>3. Cardinality(catalog'[s] \cup series'[s]) = Cardinality(catalog[s] \cup series[s])
        BY <2>1, Zenon
      <3> QED
        BY <2>2, <3>1, <3>2, <3>3
    <2> QED
      BY <2>2, <2>3, <2>4 DEF BudgetInv
  <1> QED
    BY <1>1, <1>2, <1>3, <1>4, <1>5, <1>6 DEF IInv

\* A point is stored.
LEMMA AppendStep ==
  ASSUME IInv, AppendPoint
  PROVE  IInv'
  <1>1. TypeOK'
    <2>1. CASE call' = [call EXCEPT !.at = "admit", !.key = "none", !.indexed = FALSE]
      BY <2>1 DEF AppendPoint, bounds, Steps, IInv, TypeOK
    <2>2. CASE call' = Idle
      BY <2>2 DEF AppendPoint, bounds, Idle, NoRows, Steps, IInv, TypeOK
    <2> QED
      BY <2>1, <2>2 DEF AppendPoint
  <1>2. CatalogAgrees'
    <2>1. CASE call' = [call EXCEPT !.at = "admit", !.key = "none", !.indexed = FALSE]
      BY <2>1 DEF Settled, AppendPoint, IInv, TypeOK, CatalogAgrees, Committed, At
    <2>2. CASE call' = Idle
      BY <2>2 DEF Settled, AppendPoint, Idle, IInv, TypeOK, CatalogAgrees, Committed, At
    <2> QED
      BY <2>1, <2>2 DEF AppendPoint
  <1>3. CallInv'
    <2>1. CASE call' = [call EXCEPT !.at = "admit", !.key = "none", !.indexed = FALSE]
      BY <2>1 DEF AppendPoint, IInv, TypeOK, CallInv, At
    <2>2. CASE call' = Idle
      BY <2>2 DEF AppendPoint, Idle, IInv, TypeOK, CallInv, At
    <2> QED
      BY <2>1, <2>2 DEF AppendPoint
  <1>4. LoadedInv'
    <2>1. CASE call' = [call EXCEPT !.at = "admit", !.key = "none", !.indexed = FALSE]
      BY <2>1 DEF AppendPoint, IInv, TypeOK, LoadedInv, At
    <2>2. CASE call' = Idle
      BY <2>2 DEF AppendPoint, Idle, IInv, TypeOK, LoadedInv, At
    <2> QED
      BY <2>1, <2>2 DEF AppendPoint
  <1>5. HoldsInv'
    <2>1. CASE call' = [call EXCEPT !.at = "admit", !.key = "none", !.indexed = FALSE]
      BY <2>1 DEF Settled, AppendPoint, IInv, TypeOK, HoldsInv, PointsFollowCatalog, Storing, At
    <2>2. CASE call' = Idle
      BY <2>2 DEF AppendPoint, Idle, IInv, TypeOK, HoldsInv, PointsFollowCatalog, Storing, At
    <2> QED
      BY <2>1, <2>2 DEF AppendPoint
  <1>6. BudgetInv'
    <2>1. CASE call' = [call EXCEPT !.at = "admit", !.key = "none", !.indexed = FALSE]
      BY <2>1 DEF Settled, AppendPoint, IInv, TypeOK, BudgetInv, Extra, At
    <2>2. CASE call' = Idle
      BY <2>2 DEF Settled, AppendPoint, Idle, IInv, TypeOK, BudgetInv, Extra, At
    <2> QED
      BY <2>1, <2>2 DEF AppendPoint
  <1> QED
    BY <1>1, <1>2, <1>3, <1>4, <1>5, <1>6 DEF IInv

\* A deletion takes the snapshot of its transaction.
LEMMA DeleteSessionStep ==
  ASSUME IInv, NEW d \in Deleters, NEW s \in Sessions, DeleteSession(d, s)
  PROVE  IInv'
  <1>1. TypeOK'
    BY SeriesAssumption DEF DeleteSession, CountDeletion, IInv, TypeOK
  <1>2. CatalogAgrees'
    BY DEF Settled, DeleteSession, CountDeletion, IInv, TypeOK, CatalogAgrees, Committed, At
  <1>3. CallInv'
    BY DEF DeleteSession, CountDeletion, IInv, TypeOK, CallInv, At
  <1>4. LoadedInv'
    BY DEF DeleteSession, CountDeletion, IInv, TypeOK, LoadedInv, Committed, Extra, At
  <1>5. HoldsInv'
    BY DEF Settled, DeleteSession, CountDeletion, IInv, TypeOK, HoldsInv, PointsFollowCatalog, At
  <1>6. BudgetInv'
    BY DEF Settled, DeleteSession, CountDeletion, IInv, TypeOK, BudgetInv, Extra, At
  <1> QED
    BY <1>1, <1>2, <1>3, <1>4, <1>5, <1>6 DEF IInv

\* A deletion becomes durable.
LEMMA CommitStep ==
  ASSUME IInv, NEW d \in Deleters, Commit(d)
  PROVE  IInv'
  <1>1. TypeOK'
    BY DEF Commit, Overtakes, bounds, IInv, TypeOK
  <1>2. CatalogAgrees'
    BY DEF Settled, Commit, Overtakes, IInv, TypeOK, CatalogAgrees, Committed, At
  <1>3. CallInv'
    BY DEF Commit, Overtakes, IInv, TypeOK, CallInv, At
  <1>4. LoadedInv'
    BY DEF Commit, Overtakes, IInv, TypeOK, LoadedInv, Committed, Extra, At
  <1>5. HoldsInv'
    BY DEF Settled, Commit, Overtakes, IInv, TypeOK, CallInv, HoldsInv, PointsFollowCatalog,
      Storing, At
  <1>6. BudgetInv'
    <2>1. ASSUME NEW s \in Sessions
          PROVE  /\ catalog'[s] \cup series'[s] \subseteq catalog[s] \cup series[s]
                 /\ catalog'[s] \ Settled(s)' \subseteq catalog[s] \ Settled(s)
      BY <2>1 DEF Settled, Commit, Overtakes, IInv, TypeOK, At
    <2>2. Extra' = Extra
      BY DEF Commit, Extra
    <2> QED
      BY <1>1, <2>1, <2>2, BudgetShrinks DEF IInv
  <1> QED
    BY <1>1, <1>2, <1>3, <1>4, <1>5, <1>6 DEF IInv

\* A deletion is given up.
LEMMA RollbackStep ==
  ASSUME IInv, NEW d \in Deleters, Rollback(d)
  PROVE  IInv'
  <1>1. TypeOK'
    BY DEF Rollback, NotDeleting, bounds, IInv, TypeOK
  <1>2. CatalogAgrees'
    BY DEF Settled, Rollback, NotDeleting, IInv, TypeOK, CatalogAgrees, Committed, At
  <1>3. CallInv'
    BY DEF Rollback, NotDeleting, IInv, TypeOK, CallInv, At
  <1>4. LoadedInv'
    BY DEF Rollback, NotDeleting, IInv, TypeOK, LoadedInv, Committed, Extra, At
  <1>5. HoldsInv'
    BY DEF Settled, Rollback, NotDeleting, IInv, TypeOK, HoldsInv, PointsFollowCatalog, At
  <1>6. BudgetInv'
    BY DEF Settled, Rollback, NotDeleting, IInv, TypeOK, BudgetInv, Extra, At
  <1> QED
    BY <1>1, <1>2, <1>3, <1>4, <1>5, <1>6 DEF IInv

\* All sessions are deleted.
LEMMA ClearStep ==
  ASSUME IInv, NEW d \in Deleters, Clear(d)
  PROVE  IInv'
  <1>1. TypeOK'
    BY SeriesAssumption DEF Clear, CountDeletion, Overtakes, NoRows, IInv, TypeOK
  <1>2. CatalogAgrees'
    BY DEF Clear, CountDeletion, Overtakes, IInv, TypeOK, CatalogAgrees, Committed
  <1>3. CallInv'
    BY DEF Clear, CountDeletion, Overtakes, IInv, TypeOK, CallInv, At
  <1>4. LoadedInv'
    BY DEF Clear, CountDeletion, Overtakes, NoRows, IInv, TypeOK, LoadedInv, Committed, Extra, At
  <1>5. HoldsInv'
    BY DEF Clear, CountDeletion, Overtakes, IInv, TypeOK, CallInv, HoldsInv, PointsFollowCatalog,
       Storing, At
  <1>6. BudgetInv'
    <2>1. ASSUME NEW s \in Sessions
          PROVE  /\ catalog'[s] \cup series'[s] \subseteq catalog[s] \cup series[s]
                 /\ catalog'[s] \ Settled(s)' \subseteq catalog[s] \ Settled(s)
      BY <2>1 DEF Clear, NoRows, IInv, TypeOK
    <2>2. Extra' = Extra
      BY DEF Clear, Extra
    <2> QED
      BY <1>1, <2>1, <2>2, BudgetShrinks DEF IInv
  <1> QED
    BY <1>1, <1>2, <1>3, <1>4, <1>5, <1>6 DEF IInv

\* A durable deletion moves the epoch.
LEMMA ChangedStep ==
  ASSUME IInv, NEW d \in Deleters, Changed(d)
  PROVE  IInv'
  <1>1. TypeOK'
    BY DEF Changed, NotDeleting, bounds, IInv, TypeOK
  <1>2. CatalogAgrees'
    BY DEF Changed, NotDeleting, IInv, TypeOK, CatalogAgrees
  <1>3. CallInv'
    BY DEF Changed, NotDeleting, IInv, TypeOK, CallInv, At
  <1>4. LoadedInv'
    BY DEF Changed, NotDeleting, IInv, TypeOK, LoadedInv, Extra, At
  <1>5. HoldsInv'
    BY DEF Settled, Changed, NotDeleting, IInv, TypeOK, HoldsInv, PointsFollowCatalog, At
  <1>6. BudgetInv'
    BY DEF Settled, Changed, NotDeleting, IInv, TypeOK, BudgetInv, Extra, At
  <1> QED
    BY <1>1, <1>2, <1>3, <1>4, <1>5, <1>6 DEF IInv

\* The next process reads the table, or fails to.
LEMMA RestartStep ==
  ASSUME IInv, Restart
  PROVE  IInv'
  <1>1. TypeOK'
    <2>1. overtaken' \in BOOLEAN /\ gap' \in BOOLEAN
      BY Zenon DEF Restart
    <2>2. call' \in [at : Steps, session : Sessions \cup {"none"}, key : Keys \cup {"none"},
                     indexed : BOOLEAN, seen : 0..epoch', rows : [Sessions -> SUBSET Keys]]
      BY DEF Restart, Idle, NoRows, Steps
    <2> QED
      BY <2>1, <2>2, SeriesAssumption DEF Restart, NotDeleting, NoRows, IInv, TypeOK
  <1>2. CatalogAgrees'
    BY DEF Settled, Restart, NotDeleting, Idle, NoRows, IInv, TypeOK, CatalogAgrees, At
  <1>3. CallInv'
    BY DEF Restart, NotDeleting, Idle, IInv, TypeOK, CallInv, At
  <1>4. LoadedInv'
    BY DEF Restart, NotDeleting, Idle, IInv, TypeOK, LoadedInv, At
  <1>5. HoldsInv'
    BY DEF Restart, NotDeleting, Idle, IInv, TypeOK, HoldsInv, PointsFollowCatalog, Storing, At
  <1>6. BudgetInv'
    <2>1. ASSUME NEW s \in Sessions
          PROVE  /\ catalog[s] \in SUBSET Keys /\ Cardinality(catalog[s]) \in Nat
                 /\ Cardinality(catalog[s]) <= Limit + Extra
      <3>1. catalog[s] \in SUBSET Keys /\ catalog[s] \cup series[s] \in SUBSET Keys
        BY DEF IInv, TypeOK
      <3>2. Cardinality(catalog[s]) \in Nat /\ Cardinality(catalog[s] \cup series[s]) \in Nat
        BY <3>1, KeySets
      <3>3. Cardinality(catalog[s]) <= Cardinality(catalog[s] \cup series[s])
        BY <3>1, KeySets
      <3>4. Cardinality(catalog[s] \cup series[s]) <= Limit + Extra
        BY DEF IInv, BudgetInv
      <3>5. Limit \in Nat /\ Extra \in Nat
        BY ExtraType DEF IInv
      <3> QED
        BY <3>1, <3>2, <3>3, <3>4, <3>5
    <2>2. ASSUME NEW s \in Sessions PROVE catalog'[s] = catalog[s] /\ Settled(s)' = series'[s]
      BY <2>2 DEF Settled, Restart, Idle, At, IInv, TypeOK
    <2>3. CASE series' = catalog /\ UNCHANGED blindStarts
      <3>1. Extra' = Extra
        BY <2>3 DEF Restart, Extra
      <3>3. Extra \in Nat /\ Limit \in Nat
        BY ExtraType DEF IInv
      <3>4. Cardinality({}) = 0
        BY FS_EmptySet
      <3>2. ASSUME NEW s \in Sessions
            PROVE  catalog'[s] \cup series'[s] = catalog[s] /\ catalog'[s] \ Settled(s)' = {}
        BY <2>2, <2>3
      <3> QED
        <4>1. ASSUME NEW s \in Sessions
              PROVE  /\ Cardinality(catalog'[s] \cup series'[s]) <= Limit + Extra'
                     /\ Cardinality(catalog'[s] \ Settled(s)') <= Extra'
          <5>1. /\ Cardinality(catalog'[s] \cup series'[s]) = Cardinality(catalog[s])
                /\ Cardinality(catalog'[s] \ Settled(s)') = 0
            BY <3>2, <3>4, Zenon
          <5> QED
            BY <2>1, <3>1, <3>3, <5>1
        <4> QED
          BY <4>1 DEF BudgetInv
    <2>4. CASE series' = NoRows /\ blindStarts' = blindStarts + 1
      <3>1. Extra' = Limit + Extra /\ Limit \in Nat /\ Extra \in Nat
        BY <2>4, ExtraFacts DEF Restart, IInv, Extra
      <3>2. ASSUME NEW s \in Sessions
            PROVE  /\ catalog'[s] \cup series'[s] = catalog[s]
                   /\ catalog'[s] \ Settled(s)' = catalog[s]
        BY <2>1, <2>2, <2>4 DEF NoRows
      <3>3. ASSUME NEW s \in Sessions
            PROVE  /\ Cardinality(catalog'[s] \cup series'[s]) <= Limit + Extra'
                   /\ Cardinality(catalog'[s] \ Settled(s)') <= Extra'
        <4>1. /\ Cardinality(catalog'[s] \cup series'[s]) = Cardinality(catalog[s])
              /\ Cardinality(catalog'[s] \ Settled(s)') = Cardinality(catalog[s])
          BY <3>2, Zenon
        <4> QED
          BY <2>1, <3>1, <4>1
      <3> QED
        BY <3>3 DEF BudgetInv
    <2> QED
      BY <2>3, <2>4 DEF Restart
  <1> QED
    BY <1>1, <1>2, <1>3, <1>4, <1>5, <1>6 DEF IInv

-----------------------------------------------------------------------------
\* The invariant holds at the start of the first process.
LEMMA InitLemma ==
  ASSUME Init
  PROVE  IInv
  <1>1. Limit \in Nat /\ Limit * 0 = 0 /\ Cardinality({}) = 0
    BY FS_EmptySet, SeriesAssumption
  <1>2. overtaken \in BOOLEAN /\ gap \in BOOLEAN
    BY Zenon DEF Init
  <1>3. TypeOK
    BY <1>2, SeriesAssumption DEF Init, TypeOK, NoRows, Idle, NotDeleting, Steps
  <1>4. CatalogAgrees /\ CallInv /\ LoadedInv /\ HoldsInv
    BY DEF Settled, Init, Idle, CatalogAgrees, CallInv, LoadedInv, HoldsInv, PointsFollowCatalog, At
  <1>5. Extra = 0
    BY <1>1 DEF Init, Extra
  <1>6. \A s \in Sessions : catalog[s] \cup series[s] = {} /\ catalog[s] \ Settled(s) = {}
    BY DEF Init, NoRows
  <1>7. BudgetInv
    <2>1. \A s \in Sessions : /\ Cardinality(catalog[s] \cup series[s]) = 0
                              /\ Cardinality(catalog[s] \ Settled(s)) = 0
      BY <1>1, <1>6
    <2> QED
      <3>1. ASSUME NEW s \in Sessions
            PROVE  /\ Cardinality(catalog[s] \cup series[s]) <= Limit + Extra
                   /\ Cardinality(catalog[s] \ Settled(s)) <= Extra
        <4>1. Limit \in Nat
          BY <1>1
        <4>2. /\ Cardinality(catalog[s] \cup series[s]) = 0
              /\ Cardinality(catalog[s] \ Settled(s)) = 0
          BY <2>1, Zenon
        <4> QED
          BY <1>5, <4>1, <4>2
      <3> QED
        BY <3>1 DEF BudgetInv
  <1> QED
    BY <1>3, <1>4, <1>7 DEF IInv

\* No step breaks the invariant.
LEMMA NextStep ==
  ASSUME IInv, [Next]_vars
  PROVE  IInv'
  <1>1. CASE StoreMetric
    BY <1>1, FetchStep, LoadStep, LoadFailsStep, InstallStep, AdmitKnownStep, AdmitFreshStep,
       CollapseStep, RecordStep, RecordFailsStep, RecordUnansweredStep, AppendStep DEF StoreMetric
  <1>2. ASSUME NEW d \in Deleters, Delete(d) PROVE IInv'
    BY <1>2, DeleteSessionStep, CommitStep, RollbackStep, ClearStep, ChangedStep DEF Delete
  <1>3. CASE Restart
    BY <1>3, RestartStep
  <1>4. CASE UNCHANGED vars
    BY <1>4 DEF Settled, vars, memory, bounds, IInv, TypeOK, CatalogAgrees, CallInv, LoadedInv,
      HoldsInv,
       PointsFollowCatalog, BudgetInv, Committed, Extra, At
  <1> QED
    BY <1>1, <1>2, <1>3, <1>4 DEF Next

-----------------------------------------------------------------------------
(* The table keeps to the budget of every stream and agrees with the       *)
(* memory, and points are stored by what the table says, for any number of *)
(* sessions, series, concurrent deletions, failures and restarts           *)
(* (metric_series.go:26-90, pipeline.go:730-760).                          *)
THEOREM SeriesInvariant == Spec => []SeriesInv
  <1>1. Init => IInv
    BY InitLemma
  <1>2. IInv /\ [Next]_vars => IInv'
    BY NextStep
  <1>3. IInv => SeriesInv
    <2> SUFFICES ASSUME IInv PROVE SeriesInv
      OBVIOUS
    <2>1. ASSUME NEW s \in Sessions
          PROVE  Cardinality(catalog[s]) <= Limit * (1 + blindStarts) + lost
      <3>1. catalog[s] \in SUBSET Keys /\ catalog[s] \cup series[s] \in SUBSET Keys
        BY DEF IInv, TypeOK
      <3>2. Cardinality(catalog[s]) \in Nat /\ Cardinality(catalog[s] \cup series[s]) \in Nat
        BY <3>1, KeySets
      <3>3. Cardinality(catalog[s]) <= Cardinality(catalog[s] \cup series[s])
        BY <3>1, KeySets
      <3>4. Cardinality(catalog[s] \cup series[s]) <= Limit + Extra
        BY DEF IInv, BudgetInv
      <3>5. Limit * (1 + blindStarts) + lost = Limit + Extra /\ Limit \in Nat /\ Extra \in Nat
        BY ExtraFacts DEF IInv
      <3> DEFINE budget == Limit * (1 + blindStarts) + lost
      <3>6. Cardinality(catalog[s]) <= budget
        <4> HIDE DEF budget
        <4>1. budget = Limit + Extra
          BY <3>5 DEF budget
        <4> QED
          BY <3>2, <3>3, <3>4, <3>5, <4>1
      <3> QED
        BY <3>6
    <2> QED
      BY <2>1 DEF IInv, HoldsInv, SeriesInv, BudgetKept
  <1> QED
    BY <1>1, <1>2, <1>3, PTL DEF Spec

-----------------------------------------------------------------------------
(* The spool: what its invariant is made of.                               *)

\* Either the process stops once or the disk fails.
OneKindOnly ==
  \A c, e \in Nat : <<c, e>> \in Faults => c = 0 \/ (c = 1 /\ e = 0)

\* The first w cells of f are records, none of them cut short.
Whole(f, w) ==
  \A i \in 1..w : LET r == f[i][1] k == f[i][2] IN
    /\ i - k \in Nat /\ i - k + SizeOf[r] <= w
    /\ \A j \in 1..SizeOf[r] : f[i - k + j] = <<r, j>>

\* A record begins at offset o, or the records end there.
Boundary(f, w, o) == o \in 0..w /\ (o < w => f[o + 1][2] = 1)

\* The records with a cell between the two offsets.
RecordsIn(f, o, w) == {f[i][1] : i \in o + 1..w}

\* What need not be kept any longer.
Done(r) == r \in dropped \/ Cells(r) \in delivered

\* No record is missing from those that are read from offset o on.
Covered(o, w) == \A r \in accepted : Done(r) \/ r \in RecordsIn(file, o, w)

HistoryInv ==
  /\ \A c \in delivered : \E r \in accepted : c = Cells(r)
  /\ dropped \subseteq accepted /\ accepted \subseteq Records

\* The process is up.
LiveInv == alive =>
  /\ writeOff \in 0..Len(file) /\ readOff \in 0..writeOff
  /\ Whole(file, writeOff) /\ RecordsIn(file, 0, writeOff) \subseteq accepted
  /\ Boundary(file, writeOff, readOff) /\ Covered(readOff, writeOff)

\* The record that the loop is at.
LoopInv == alive =>
  /\ pc \in {"reading", "sending", "sent"} =>
       Boundary(file, writeOff, start) /\ start < writeOff /\ start <= readOff
  /\ pc \in {"sending", "sent"} => frame = Cells(file[start + 1][1])
  /\ pc = "sent" => frame \in delivered
  /\ pc \in {"saving", "saveOpen"} => Boundary(file, writeOff, save) /\ save <= readOff

\* While a stop may come, the offset that would be read again is not past the
\* one in memory; no write comes between the truncation and the reset of the
\* offset.
FilesInv ==
  /\ alive /\ crashes = 0 /\ errors = 0 =>
       /\ writeOff = Len(file)
       /\ offset # None =>
            \/ Boundary(file, writeOff, offset) /\ offset <= readOff
            \/ pc = "saving" /\ save = 0 /\ file = <<>>
  /\ ~alive =>
       /\ crashes = 1 /\ errors = 0 /\ writeOff = 0 /\ readOff = 0 /\ pc = "idle"
       /\ Whole(file, Len(file)) /\ RecordsIn(file, 0, Len(file)) \subseteq accepted
       /\ Boundary(file, Len(file), SavedOff) /\ Covered(SavedOff, Len(file))

Types ==
  /\ file \in Seq(Cell) /\ offset \in Nat \cup {None} /\ alive \in BOOLEAN
  /\ readOff \in Nat /\ writeOff \in Nat
  /\ pc \in {"idle", "reading", "sending", "sent", "saving", "saveOpen"}
  /\ start \in Nat /\ save \in Nat /\ frame \in Seq(Cell)
  /\ <<crashes, errors>> \in Faults /\ crashes \in Nat /\ errors \in Nat

SpoolIInv == Types /\ HistoryInv /\ LiveInv /\ LoopInv /\ FilesInv

-----------------------------------------------------------------------------
(* Records in a file.                                                      *)

\* A cell spells a record and a place in it.
LEMMA CellFacts ==
  ASSUME NEW f \in Seq(Cell), NEW i \in 1..Len(f)
  PROVE  /\ f[i] = <<f[i][1], f[i][2]>> /\ f[i][1] \in Records
         /\ f[i][2] \in 1..SizeOf[f[i][1]] /\ SizeOf[f[i][1]] \in Nat \ {0}
<1>1. f[i] \in Cell
  OBVIOUS
<1>2. PICK r \in Records : \E k \in 1..SizeOf[r] : f[i] = <<r, k>>
  BY <1>1 DEF Cell
<1>3. PICK k \in 1..SizeOf[r] : f[i] = <<r, k>>
  BY <1>2
<1>4. f[i][1] = r /\ f[i][2] = k
  BY <1>3
<1>5. SizeOf[r] \in Nat \ {0}
  BY SpoolConstants
<1>6. QED BY <1>3, <1>4, <1>5

\* A record is as many cells as its size.
LEMMA CellsFacts ==
  ASSUME NEW r \in Records
  PROVE  /\ Cells(r) \in Seq(Cell) /\ SizeOf[r] \in Nat \ {0} /\ Len(Cells(r)) = SizeOf[r]
         /\ \A i \in 1..SizeOf[r] : Cells(r)[i] = <<r, i>>
<1>1. SizeOf[r] \in Nat \ {0}
  BY SpoolConstants
<1>2. \A i \in 1..SizeOf[r] : <<r, i>> \in Cell
  BY DEF Cell
<1>3. Cells(r) \in [1..SizeOf[r] -> Cell] /\ \A i \in 1..SizeOf[r] : Cells(r)[i] = <<r, i>>
  BY <1>2 DEF Cells
<1>4. QED BY <1>1, <1>3

\* Sequences of cells are equal when their cells are.
LEMMA SameCells ==
  ASSUME NEW a \in Seq(Cell), NEW b \in Seq(Cell), Len(a) = Len(b), \A j \in 1..Len(a) : a[j] = b[j]
  PROVE  a = b
  OBVIOUS

\* A part of a file.
LEMMA SubSeqFacts ==
  ASSUME NEW f \in Seq(Cell), NEW o \in Nat, NEW s \in Nat, o + s <= Len(f)
  PROVE  /\ SubSeq(f, o + 1, o + s) \in Seq(Cell) /\ Len(SubSeq(f, o + 1, o + s)) = s
         /\ \A j \in 1..s : SubSeq(f, o + 1, o + s)[j] = f[o + j]
  OBVIOUS

\* A reader finds a positive length everywhere.
LEMMA SizeAtFacts ==
  ASSUME NEW f \in Seq(Cell), NEW o \in Nat, o < Len(f)
  PROVE  SizeAt(f, o) \in Nat \ {0}
<1>1. o + 1 \in 1..Len(f)
  OBVIOUS
<1>2. QED BY <1>1, CellFacts, SpoolConstants DEF SizeAt

\* At the first cell of a record a reader finds the record, and after it the
\* next one or the end.
LEMMA BoundaryStep ==
  ASSUME NEW f \in Seq(Cell), NEW w \in 0..Len(f), NEW o, Whole(f, w), Boundary(f, w, o), o < w
  PROVE  /\ f[o + 1][1] \in Records
         /\ SizeAt(f, o) = SizeOf[f[o + 1][1]] /\ SizeAt(f, o) \in Nat \ {0}
         /\ Boundary(f, w, o + SizeAt(f, o))
         /\ FrameAt(f, o) = Cells(f[o + 1][1])
         /\ \A j \in 1..SizeAt(f, o) : f[o + j] = <<f[o + 1][1], j>>
<1> DEFINE r == f[o + 1][1]
           s == SizeOf[r]
<1>1. o \in Nat /\ o + 1 \in 1..w /\ o + 1 \in 1..Len(f) /\ Len(f) \in Nat /\ w \in Nat
  BY DEF Boundary
<1>2. f[o + 1][2] = 1
  BY DEF Boundary
<1>3. r \in Records /\ s \in Nat \ {0} /\ f[o + 1] = <<r, 1>>
  BY <1>1, <1>2, CellFacts
<1>4. o + s <= w /\ \A j \in 1..s : f[o + j] = <<r, j>>
  <2> DEFINE i == o + 1
  <2>1. /\ i - f[i][2] + SizeOf[f[i][1]] <= w
        /\ \A j \in 1..SizeOf[f[i][1]] : f[i - f[i][2] + j] = <<f[i][1], j>>
    BY <1>1 DEF Whole
  <2>2. i - f[i][2] = o
    BY <1>1, <1>2
  <2>3. QED BY <2>1, <2>2
<1>5. SizeAt(f, o) = s
  BY <1>2 DEF SizeAt
<1>6. ASSUME o + s < w PROVE f[o + s + 1][2] = 1
  <2> DEFINE i == o + s + 1
             q == f[i][1]
             k == f[i][2]
  <2>1. i \in 1..w /\ i \in 1..Len(f)
    BY <1>1, <1>3, <1>6
  <2>2. q \in Records /\ k \in 1..SizeOf[q] /\ SizeOf[q] \in Nat
    BY <2>1, CellFacts
  <2>3. i - k \in Nat /\ \A j \in 1..SizeOf[q] : f[i - k + j] = <<q, j>>
    BY <2>1 DEF Whole
  <2>4. SUFFICES ASSUME k > 1 PROVE FALSE
    BY <2>2
  <2>5. k - 1 \in 1..SizeOf[q] /\ i - k + (k - 1) = o + s
    <3> HIDE DEF k, q, r, s
    <3> QED BY <1>1, <1>3, <2>2, <2>4
  <2>6. f[o + s] = <<q, k - 1>>
    BY <2>3, <2>5
  <2>7. f[o + s] = <<r, s>>
    BY <1>3, <1>4
  <2>8. q = r /\ k - 1 = s
    BY <2>6, <2>7
  <2>9. QED BY <2>2, <2>8, <1>3
<1>7. Boundary(f, w, o + s)
  BY <1>1, <1>3, <1>4, <1>6 DEF Boundary
<1>8. FrameAt(f, o) = Cells(r)
  <2>1. o + 1 \in 1..Len(f) + 1 /\ o + s \in 0..Len(f) /\ o + s >= o + 1
    BY <1>1, <1>3, <1>4
  <2>2. /\ SubSeq(f, o + 1, o + s) \in Seq(Cell) /\ Len(SubSeq(f, o + 1, o + s)) = s
        /\ \A j \in 1..s : SubSeq(f, o + 1, o + s)[j] = f[o + j]
    <3> HIDE DEF r, s
    <3>1. o \in Nat /\ s \in Nat \ {0} /\ o + s <= Len(f)
      BY <1>1, <1>3, <2>1
    <3>2. QED BY <3>1, SubSeqFacts
  <2>3. Cells(r) \in Seq(Cell) /\ Len(Cells(r)) = s /\ \A j \in 1..s : Cells(r)[j] = <<r, j>>
    BY <1>3, CellsFacts
  <2>4. SubSeq(f, o + 1, o + s) = Cells(r)
    <3> DEFINE a == SubSeq(f, o + 1, o + s)
               b == Cells(r)
    <3>1. a \in Seq(Cell) /\ b \in Seq(Cell) /\ Len(a) = Len(b) /\ \A j \in 1..Len(a) : a[j] = b[j]
      BY <1>4, <2>2, <2>3
    <3> HIDE DEF a, b
    <3>2. a = b
      BY <3>1, SameCells
    <3>3. QED BY <3>2 DEF a, b
  <2>5. QED BY <1>5, <2>4 DEF FrameAt
<1>9. QED BY <1>3, <1>4, <1>5, <1>7, <1>8

\* The records before an offset lie between the earlier ones and it.
LEMMA RecordsInFacts ==
  ASSUME NEW f \in Seq(Cell), NEW w \in Nat, NEW o \in Nat, NEW p \in Nat, o <= p, p <= w
  PROVE  /\ RecordsIn(f, o, w) = RecordsIn(f, o, p) \cup RecordsIn(f, p, w)
         /\ RecordsIn(f, w, w) = {}
<1>1. \A i : i \in o + 1..w <=> i \in o + 1..p \/ i \in p + 1..w
  OBVIOUS
<1>2. w + 1..w = {}
  OBVIOUS
<1>3. QED BY <1>1, <1>2 DEF RecordsIn

\* A file that agrees on the first cells has the same records there.
LEMMA SamePrefix ==
  ASSUME NEW f \in Seq(Cell), NEW g \in Seq(Cell), NEW w \in 0..Len(f),
         \A i \in 1..w : g[i] = f[i]
  PROVE  /\ Whole(f, w) => Whole(g, w)
         /\ \A o : Boundary(f, w, o) => Boundary(g, w, o)
         /\ \A o \in Nat : RecordsIn(g, o, w) = RecordsIn(f, o, w)
<1>1. ASSUME Whole(f, w) PROVE Whole(g, w)
  <2> SUFFICES ASSUME NEW i \in 1..w
               PROVE  LET r == g[i][1] k == g[i][2] IN
                        /\ i - k \in Nat /\ i - k + SizeOf[r] <= w
                        /\ \A j \in 1..SizeOf[r] : g[i - k + j] = <<r, j>>
    BY DEF Whole
  <2> DEFINE r == f[i][1]
             k == f[i][2]
  <2>1. /\ i - k \in Nat /\ i - k + SizeOf[r] <= w
        /\ \A j \in 1..SizeOf[r] : f[i - k + j] = <<r, j>>
    BY <1>1 DEF Whole
  <2>2. g[i][1] = r /\ g[i][2] = k
    OBVIOUS
  <2>3. ASSUME NEW j \in 1..SizeOf[r] PROVE g[i - k + j] = <<r, j>>
    <3>1. f[i - k + j] = <<r, j>>
      BY <2>1
    <3>2. i - k + j \in 1..w
      <4>1. SizeOf[r] \in Nat /\ w \in Nat /\ i - k \in Nat
        BY <2>1, CellFacts
      <4> HIDE DEF r, k
      <4>2. QED BY <2>1, <4>1
    <3>3. QED BY <3>1, <3>2
  <2>4. QED BY <2>1, <2>2, <2>3
<1>2. ASSUME NEW o, Boundary(f, w, o) PROVE Boundary(g, w, o)
  <2>1. o \in 0..w /\ (o < w => o + 1 \in 1..w)
    BY <1>2 DEF Boundary
  <2>2. QED BY <1>2, <2>1 DEF Boundary
<1>3. ASSUME NEW o \in Nat PROVE RecordsIn(g, o, w) = RecordsIn(f, o, w)
  <2>1. \A i \in o + 1..w : g[i][1] = f[i][1]
    OBVIOUS
  <2>2. QED BY <2>1 DEF RecordsIn
<1>4. QED BY <1>1, <1>2, <1>3

-----------------------------------------------------------------------------
(* Recursion along a file.                                                 *)

\* A set of numbers has a least one.
LEMMA Least ==
  ASSUME NEW T, T \subseteq Nat, T # {}
  PROVE  \E x \in T : \A y \in T : x <= y
<1> DEFINE R == OpToRel(<, Nat)
<1>1. IsWellFoundedOn(R, Nat)
  BY NatLessThanWellFounded
<1>2. \A x, y \in Nat : x < y => <<x, y>> \in R
  BY DEF OpToRel
<1> HIDE DEF R
<1>3. \E x \in T : \A y \in T : ~ (<<y, x>> \in R)
  BY <1>1, WFMin
<1>4. PICK x \in T : \A y \in T : ~ (<<y, x>> \in R)
  BY <1>3, Zenon
<1>5. ASSUME NEW y \in T PROVE x <= y
  <2>1. x \in Nat /\ y \in Nat
    OBVIOUS
  <2>2. ~(y < x)
    BY <1>2, <1>4, <2>1, Zenon
  <2>3. QED BY <2>1, <2>2
<1>6. QED BY <1>5

\* What g is at o: built by step from its value further on, or a base.
Follows(g, C, next, step, base, o) ==
  g[o] = IF o \in C THEN step[o][g[next[o]]] ELSE base[o]

\* A function on offsets may be defined from its values at larger offsets,
\* when only offsets below a bound look further.
LEMMA RecursionDefined ==
  ASSUME NEW V, NEW L \in Nat, NEW C \in SUBSET Nat, NEW next \in [Nat -> Nat],
         NEW step \in [Nat -> [V -> V]], NEW base \in [Nat -> V],
         \A o \in C : o < L /\ next[o] > o
  PROVE  \E g \in [Nat -> V] : \A o \in Nat : Follows(g, C, next, step, base, o)
<1> DEFINE From(n) == \E g \in [Nat -> V] : \A o \in Nat : o >= n => Follows(g, C, next, step, base, o)
           T == {n \in Nat : From(n)}
<1>1. L \in T
  <2>1. \A o \in Nat : o >= L => Follows(base, C, next, step, base, o)
    BY DEF Follows
  <2>2. From(L)
    BY <2>1
  <2>3. QED BY <2>2
<1>2. PICK m \in T : \A n \in T : m <= n
  <2>1. T \subseteq Nat /\ T # {}
    BY <1>1
  <2>2. QED BY <2>1, Least
<1>3. PICK g \in [Nat -> V] : \A o \in Nat : o >= m => Follows(g, C, next, step, base, o)
  BY <1>2
<1>4. SUFFICES ASSUME m # 0 PROVE FALSE
  BY <1>2, <1>3
<1> DEFINE q == m - 1
           v == IF q \in C THEN step[q][g[next[q]]] ELSE base[q]
           h == [g EXCEPT ![q] = v]
<1>5. q \in Nat /\ q < m /\ m \in Nat /\ \A o \in Nat : o >= q => o = q \/ o >= m
  BY <1>2, <1>4
<1>6. v \in V
  BY <1>5
<1> HIDE DEF q, v
<1>7. h \in [Nat -> V] /\ h[q] = v /\ \A o \in Nat : o # q => h[o] = g[o]
  BY <1>5, <1>6
<1> HIDE DEF h
<1>8. ASSUME NEW o \in Nat, o >= q PROVE Follows(h, C, next, step, base, o)
  <2>1. o \in C => next[o] \in Nat /\ next[o] # q
    BY <1>5, <1>8
  <2>2. o \in C => h[next[o]] = g[next[o]]
    BY <1>7, <2>1
  <2>3. CASE o = q
    BY <1>7, <2>2, <2>3 DEF Follows, v
  <2>4. CASE o # q
    <3>1. o >= m
      BY <1>5, <1>8, <2>4
    <3>2. Follows(g, C, next, step, base, o)
      BY <1>3, <3>1
    <3>3. h[o] = g[o]
      BY <1>7, <2>4
    <3>4. QED BY <2>2, <3>2, <3>3 DEF Follows
  <2>5. QED BY <2>3, <2>4
<1>9. From(q)
  BY <1>7, <1>8
<1>10. q \in T
  <2> HIDE DEF From
  <2> QED BY <1>5, <1>9
<1>11. m <= q
  <2> HIDE DEF T
  <2> QED BY <1>2, <1>10
<1>12. QED BY <1>5, <1>11

\* The functions that EnforceCap and Pending define.
CapFrom(f, w) ==
  CHOOSE g : g = [o \in Nat |-> IF w - o > MaxBytes /\ o < Len(f) THEN g[o + SizeAt(f, o)] ELSE o]

PendingFrom(f, e) ==
  CHOOSE g : g = [o \in Nat |-> IF o < e /\ Readable(f, o)
                                  THEN {FrameAt(f, o)} \cup g[o + SizeAt(f, o)] ELSE {}]

LEMMA CapIsCapFrom == \A f, w : EnforceCap(f, w) = CapFrom(f, w)[readOff]
  BY DEF EnforceCap, CapFrom

LEMMA PendingIsPendingFrom ==
  Pending = PendingFrom(file, IF alive THEN writeOff ELSE Len(file))[IF alive THEN readOff ELSE SavedOff]
  BY DEF Pending, PendingFrom

\* The cap steps from record to record.
LEMMA CapFromFacts ==
  ASSUME NEW f \in Seq(Cell), NEW w \in Nat, NEW o \in Nat
  PROVE  CapFrom(f, w)[o] =
           IF w - o > MaxBytes /\ o < Len(f) THEN CapFrom(f, w)[o + SizeAt(f, o)] ELSE o
<1> DEFINE Goes(x) == w - x > MaxBytes /\ x < Len(f)
           C == {x \in Nat : Goes(x)}
           next == [x \in Nat |-> IF x < Len(f) THEN x + SizeAt(f, x) ELSE 0]
           step == [x \in Nat |-> [y \in Nat |-> y]]
           base == [x \in Nat |-> x]
           Eq(g) == g = [x \in Nat |-> IF Goes(x) THEN g[x + SizeAt(f, x)] ELSE x]
<1>1. Len(f) \in Nat
  OBVIOUS
<1>2. \A x \in Nat : x < Len(f) => SizeAt(f, x) \in Nat \ {0}
  BY SizeAtFacts
<1>3. next \in [Nat -> Nat]
  BY <1>2
<1>4. \A x \in C : x < Len(f) /\ next[x] > x
  BY <1>1, <1>2
<1>5. C \in SUBSET Nat /\ step \in [Nat -> [Nat -> Nat]] /\ base \in [Nat -> Nat]
  OBVIOUS
<1>6. PICK g \in [Nat -> Nat] : \A x \in Nat : Follows(g, C, next, step, base, x)
  <2> HIDE DEF C, next, step, base
  <2>1. QED BY <1>1, <1>3, <1>4, <1>5, RecursionDefined
<1>7. ASSUME NEW x \in Nat PROVE g[x] = IF Goes(x) THEN g[x + SizeAt(f, x)] ELSE x
  <2>1. Follows(g, C, next, step, base, x)
    BY <1>6
  <2>2. CASE Goes(x)
    <3>1. x \in C /\ next[x] = x + SizeAt(f, x) /\ next[x] \in Nat
      BY <1>3, <2>2
    <3>2. g[x] = step[x][g[next[x]]]
      BY <2>1, <3>1 DEF Follows
    <3>3. g[next[x]] \in Nat
      BY <3>1
    <3>4. step[x][g[next[x]]] = g[next[x]]
      BY <3>3
    <3>5. QED BY <2>2, <3>1, <3>2, <3>4
  <2>3. CASE ~Goes(x)
    <3>1. x \notin C
      BY <2>3
    <3>2. QED BY <2>1, <2>3, <3>1 DEF Follows
  <2>4. QED BY <2>2, <2>3
<1>8. Eq(g)
  BY <1>7
<1>9. CapFrom(f, w) = [x \in Nat |-> IF Goes(x) THEN CapFrom(f, w)[x + SizeAt(f, x)] ELSE x]
  <2>1. \E a : Eq(a)
    BY <1>8
  <2>2. Eq(CHOOSE a : Eq(a))
    BY <2>1, Zenon
  <2>3. QED BY <2>2 DEF CapFrom
<1>10. QED BY <1>9

\* What is pending is found record by record.
LEMMA PendingFromFacts ==
  ASSUME NEW f \in Seq(Cell), NEW e \in Nat, NEW o \in Nat
  PROVE  PendingFrom(f, e)[o] =
           IF o < e /\ Readable(f, o)
             THEN {FrameAt(f, o)} \cup PendingFrom(f, e)[o + SizeAt(f, o)] ELSE {}
<1> DEFINE V == SUBSET {FrameAt(f, x) : x \in Nat}
           Goes(x) == x < e /\ Readable(f, x)
           C == {x \in Nat : Goes(x)}
           next == [x \in Nat |-> IF x < Len(f) THEN x + SizeAt(f, x) ELSE 0]
           step == [x \in Nat |-> [y \in V |-> {FrameAt(f, x)} \cup y]]
           base == [x \in Nat |-> {}]
           Eq(g) == g = [x \in Nat |-> IF Goes(x) THEN {FrameAt(f, x)} \cup g[x + SizeAt(f, x)] ELSE {}]
<1>1. Len(f) \in Nat
  OBVIOUS
<1>2. \A x \in Nat : x < Len(f) => SizeAt(f, x) \in Nat \ {0}
  BY SizeAtFacts
<1>3. next \in [Nat -> Nat]
  BY <1>2
<1>4. \A x \in C : x < Len(f) /\ next[x] > x
  BY <1>1, <1>2 DEF Readable
<1>5. C \in SUBSET Nat /\ base \in [Nat -> V]
  OBVIOUS
<1>a. step \in [Nat -> [V -> V]]
  <2>1. \A x \in Nat : \A y \in V : {FrameAt(f, x)} \cup y \in V
    OBVIOUS
  <2> HIDE DEF V
  <2>2. QED BY <2>1
<1>6. PICK g \in [Nat -> V] : \A x \in Nat : Follows(g, C, next, step, base, x)
  <2> HIDE DEF V, C, next, step, base
  <2>1. QED BY <1>1, <1>3, <1>4, <1>5, <1>a, RecursionDefined
<1>7. ASSUME NEW x \in Nat PROVE g[x] = IF Goes(x) THEN {FrameAt(f, x)} \cup g[x + SizeAt(f, x)] ELSE {}
  <2>1. Follows(g, C, next, step, base, x)
    BY <1>6
  <2>2. CASE Goes(x)
    <3>1. x \in C /\ next[x] = x + SizeAt(f, x) /\ next[x] \in Nat
      BY <1>3, <2>2 DEF Readable
    <3>2. g[x] = step[x][g[next[x]]]
      BY <2>1, <3>1 DEF Follows
    <3>3. g[next[x]] \in V
      <4> HIDE DEF V
      <4> QED BY <3>1
    <3>4. step[x][g[next[x]]] = {FrameAt(f, x)} \cup g[next[x]]
      <4> HIDE DEF V
      <4> QED BY <3>3
    <3>5. QED BY <2>2, <3>1, <3>2, <3>4
  <2>3. CASE ~Goes(x)
    <3>1. x \notin C
      BY <2>3
    <3>2. QED BY <2>1, <2>3, <3>1 DEF Follows
  <2>4. QED BY <2>2, <2>3
<1>8. Eq(g)
  BY <1>7
<1>9. PendingFrom(f, e) =
        [x \in Nat |-> IF Goes(x) THEN {FrameAt(f, x)} \cup PendingFrom(f, e)[x + SizeAt(f, x)] ELSE {}]
  <2>1. \E a : Eq(a)
    BY <1>8
  <2>2. Eq(CHOOSE a : Eq(a))
    BY <2>1, Zenon
  <2>3. QED BY <2>2 DEF PendingFrom
<1>10. QED BY <1>9

\* The cap keeps to the records: it stops at the first cell of one or at the
\* end, and takes the last one only when the pending ones did not fit with it.
CapStop(f, w, o, p) ==
  /\ Boundary(f, w, p) /\ o <= p
  /\ p > o => w - p + SizeOf[f[p][1]] > MaxBytes

LEMMA CapStops ==
  ASSUME NEW f \in Seq(Cell), NEW w \in 0..Len(f), Whole(f, w), NEW o, Boundary(f, w, o)
  PROVE  CapStop(f, w, o, CapFrom(f, w)[o])
<1> DEFINE p(x) == CapFrom(f, w)[x]
           T == {n \in Nat : \E x \in 0..w : n = w - x /\ Boundary(f, w, x) /\ ~ CapStop(f, w, x, p(x))}
<1>1. SUFFICES T = {}
  <2>1. o \in 0..w /\ w - o \in Nat
    BY DEF Boundary
  <2> HIDE DEF p
  <2>2. QED BY <2>1 DEF p
<1>2. SUFFICES ASSUME T # {} PROVE FALSE
  OBVIOUS
<1>3. PICK n \in T : \A y \in T : n <= y
  <2>1. T \subseteq Nat
    OBVIOUS
  <2> HIDE DEF T
  <2>2. QED BY <1>2, <2>1, Least
<1>4. PICK x \in 0..w : n = w - x /\ Boundary(f, w, x) /\ ~ CapStop(f, w, x, p(x))
  OBVIOUS
<1>5. x \in Nat /\ w \in Nat /\ Len(f) \in Nat /\ MaxBytes \in Nat \ {0} /\ w <= Len(f)
  BY SpoolConstants
<1>6. p(x) = IF w - x > MaxBytes /\ x < Len(f) THEN p(x + SizeAt(f, x)) ELSE x
  BY <1>5, CapFromFacts
<1>7. CASE ~(w - x > MaxBytes /\ x < Len(f))
  <2>1. p(x) = x
    BY <1>6, <1>7
  <2> HIDE DEF p
  <2>2. QED BY <1>4, <1>5, <2>1 DEF CapStop
<1>8. CASE w - x > MaxBytes /\ x < Len(f)
  <2> DEFINE s == SizeAt(f, x)
             y == x + s
  <2>1. x < w
    BY <1>5, <1>8
  <2>2. /\ s \in Nat \ {0} /\ Boundary(f, w, y) /\ s = SizeOf[f[x + 1][1]]
        /\ \A j \in 1..s : f[x + j] = <<f[x + 1][1], j>>
    BY <1>4, <2>1, BoundaryStep
  <2>3. f[y] = <<f[x + 1][1], s>>
    BY <2>2
  <2>4. p(x) = p(y)
    BY <1>6, <1>8
  <2> HIDE DEF s, p
  <2>5. y \in 0..w /\ w - y \in Nat /\ w - y < w - x
    <3>1. y \in 0..w /\ s \in Nat /\ s > 0
      BY <2>2 DEF Boundary
    <3>2. QED BY <1>5, <3>1
  <2>6. CapStop(f, w, y, p(y))
    <3>1. w - y \notin T
      <4> HIDE DEF T
      <4>1. ~(n <= w - y)
        BY <1>4, <1>5, <2>5
      <4>2. QED BY <1>3, <4>1
    <3>2. QED BY <2>2, <2>5, <3>1
  <2>7. p(y) \in 0..w /\ y <= p(y) /\ y > x /\ Boundary(f, w, p(y))
    BY <1>5, <2>2, <2>5, <2>6 DEF CapStop, Boundary
  <2>8. w - p(y) + SizeOf[f[p(y)][1]] > MaxBytes
    <3>1. CASE p(y) > y
      BY <2>6, <3>1 DEF CapStop
    <3>2. CASE p(y) = y
      <4>1. f[p(y)][1] = f[x + 1][1]
        BY <2>3, <3>2
      <4>2. w - y + s = w - x
        BY <1>5, <2>2
      <4>3. QED BY <1>8, <2>2, <3>2, <4>1, <4>2
    <3>3. QED BY <1>5, <2>5, <2>7, <3>1, <3>2
  <2>9. CapStop(f, w, x, p(x))
    BY <1>5, <2>4, <2>5, <2>7, <2>8 DEF CapStop
  <2>10. QED BY <1>4, <2>9
<1>9. QED BY <1>7, <1>8

\* Every record between an offset and the end is among those pending from it.
LEMMA PendingHasAll ==
  ASSUME NEW f \in Seq(Cell), NEW e \in 0..Len(f), Whole(f, e), NEW o, Boundary(f, e, o)
  PROVE  \A r \in RecordsIn(f, o, e) : Cells(r) \in PendingFrom(f, e)[o]
<1> DEFINE P(x) == PendingFrom(f, e)[x]
           Has(x) == \A r \in RecordsIn(f, x, e) : Cells(r) \in P(x)
           T == {n \in Nat : \E x \in 0..e : n = e - x /\ Boundary(f, e, x) /\ ~ Has(x)}
<1>1. SUFFICES T = {}
  <2>1. o \in 0..e /\ e - o \in Nat
    BY DEF Boundary
  <2>2. Has(o)
    <3> HIDE DEF Has
    <3> QED BY <2>1
  <2>3. QED BY <2>2
<1>2. SUFFICES ASSUME T # {} PROVE FALSE
  OBVIOUS
<1>3. PICK n \in T : \A y \in T : n <= y
  <2>1. T \subseteq Nat
    OBVIOUS
  <2> HIDE DEF T
  <2>2. QED BY <1>2, <2>1, Least
<1>4. PICK x \in 0..e : n = e - x /\ Boundary(f, e, x) /\ ~ Has(x)
  <2> HIDE DEF Has
  <2> QED OBVIOUS
<1>5. x \in Nat /\ e \in Nat /\ Len(f) \in Nat /\ e <= Len(f)
  OBVIOUS
<1>6. x < e
  <2>1. ASSUME x = e PROVE FALSE
    <3>1. RecordsIn(f, x, e) = {}
      BY <1>5, <2>1, RecordsInFacts
    <3>2. QED BY <1>4, <3>1
  <2>2. QED BY <2>1
<1> DEFINE s == SizeAt(f, x)
           y == x + s
           q == f[x + 1][1]
<1>7. /\ s \in Nat \ {0} /\ Boundary(f, e, y) /\ FrameAt(f, x) = Cells(q)
      /\ \A j \in 1..s : f[x + j] = <<q, j>>
  BY <1>4, <1>6, BoundaryStep
<1>8. y \in 0..e /\ e - y \in Nat /\ e - y < e - x
  <2> HIDE DEF s
  <2> QED BY <1>5, <1>7 DEF Boundary
<1>9. P(x) = {Cells(q)} \cup P(y)
  <2>1. Readable(f, x)
    BY <1>5, <1>6, <1>8 DEF Readable
  <2>2. QED BY <1>5, <1>6, <1>7, <2>1, PendingFromFacts
<1>10. Has(y)
  <2> HIDE DEF Has, s
  <2>1. e - y \notin T
    <3> HIDE DEF T, y
    <3>1. ~(n <= e - y)
      BY <1>4, <1>5, <1>8
    <3>2. QED BY <1>3, <3>1
  <2>2. QED BY <1>7, <1>8, <2>1
<1>11. RecordsIn(f, x, e) \subseteq {q} \cup RecordsIn(f, y, e)
  <2>1. RecordsIn(f, x, e) = RecordsIn(f, x, y) \cup RecordsIn(f, y, e)
    <3> HIDE DEF s
    <3> QED BY <1>5, <1>7, <1>8, RecordsInFacts
  <2>2. \A i \in x + 1..y : f[i][1] = q
    <3> SUFFICES ASSUME NEW i \in x + 1..y PROVE f[i][1] = q
      OBVIOUS
    <3>1. i - x \in 1..s /\ x + (i - x) = i
      <4> HIDE DEF s
      <4> QED BY <1>5, <1>7
    <3>2. f[i] = <<q, i - x>>
      BY <1>7, <3>1
    <3>3. QED BY <3>2
  <2>3. RecordsIn(f, x, y) \subseteq {q}
    BY <2>2 DEF RecordsIn
  <2>4. QED BY <2>1, <2>3
<1>12. Has(x)
  <2> HIDE DEF P, q, y
  <2> QED BY <1>9, <1>10, <1>11
<1>13. QED BY <1>4, <1>12

-----------------------------------------------------------------------------
(* A write.                                                                *)

\* Two sequences of cells, one after the other.
LEMMA ConcatFacts ==
  ASSUME NEW a \in Seq(Cell), NEW b \in Seq(Cell)
  PROVE  /\ a \o b \in Seq(Cell) /\ Len(a \o b) = Len(a) + Len(b)
         /\ \A i \in 1..Len(a) : (a \o b)[i] = a[i]
  OBVIOUS

\* The cells land at the write offset, and those before it stay.
LEMMA OverwrittenFacts ==
  ASSUME file \in Seq(Cell), writeOff \in 0..Len(file), NEW c \in Seq(Cell)
  PROVE  /\ Overwritten(c) \in Seq(Cell) /\ Len(Overwritten(c)) \in Nat
         /\ writeOff + Len(c) <= Len(Overwritten(c))
         /\ writeOff = Len(file) => Len(Overwritten(c)) = writeOff + Len(c)
         /\ \A i \in 1..writeOff : Overwritten(c)[i] = file[i]
         /\ \A i \in 1..Len(c) : Overwritten(c)[writeOff + i] = c[i]
<1> DEFINE a == SubSeq(file, 1, writeOff)
           b == SubSeq(file, writeOff + Len(c) + 1, Len(file))
<1>1. Len(file) \in Nat /\ Len(c) \in Nat /\ writeOff \in Nat /\ writeOff <= Len(file)
  OBVIOUS
<1>2. a \in Seq(Cell) /\ Len(a) = writeOff /\ \A i \in 1..writeOff : a[i] = file[i]
  <2>1. 0 + writeOff <= Len(file)
    BY <1>1
  <2>2. /\ SubSeq(file, 0 + 1, 0 + writeOff) \in Seq(Cell)
        /\ Len(SubSeq(file, 0 + 1, 0 + writeOff)) = writeOff
        /\ \A j \in 1..writeOff : SubSeq(file, 0 + 1, 0 + writeOff)[j] = file[0 + j]
    BY <1>1, <2>1, SubSeqFacts
  <2>3. 0 + 1 = 1 /\ 0 + writeOff = writeOff /\ \A j \in 1..writeOff : 0 + j = j
    BY <1>1
  <2>4. QED BY <2>2, <2>3
<1>3. b \in Seq(Cell) /\ Len(b) \in Nat /\ (writeOff = Len(file) => Len(b) = 0)
  BY <1>1
<1>4. Overwritten(c) = a \o c \o b
  BY DEF Overwritten
<1> HIDE DEF a, b
<1>5. /\ a \o c \in Seq(Cell) /\ Len(a \o c) = writeOff + Len(c)
      /\ \A i \in 1..writeOff : (a \o c)[i] = file[i]
      /\ \A i \in 1..Len(c) : (a \o c)[writeOff + i] = c[i]
  BY <1>1, <1>2
<1> DEFINE d == a \o c
<1>6. d \in Seq(Cell) /\ Len(d) = writeOff + Len(c)
      /\ (\A i \in 1..writeOff : d[i] = file[i]) /\ \A i \in 1..Len(c) : d[writeOff + i] = c[i]
  BY <1>5
<1>7. Overwritten(c) = d \o b
  BY <1>4
<1> HIDE DEF d
<1>8. d \o b \in Seq(Cell) /\ Len(d \o b) = Len(d) + Len(b) /\ \A i \in 1..Len(d) : (d \o b)[i] = d[i]
  BY <1>3, <1>6, ConcatFacts
<1>9. /\ \A i \in 1..writeOff : i \in 1..Len(d)
      /\ \A i \in 1..Len(c) : writeOff + i \in 1..Len(d)
  <2>1. Len(d) = writeOff + Len(c)
    BY <1>6
  <2>2. QED BY <1>1, <2>1
<1>10. /\ d \o b \in Seq(Cell) /\ Len(d \o b) \in Nat /\ writeOff + Len(c) <= Len(d \o b)
       /\ writeOff = Len(file) => Len(d \o b) = writeOff + Len(c)
  <2>1. Len(d) = writeOff + Len(c) /\ Len(d \o b) = Len(d) + Len(b) /\ d \o b \in Seq(Cell)
    BY <1>6, <1>8
  <2> DEFINE e == d \o b
  <2>2. Len(e) = writeOff + Len(c) + Len(b) /\ e \in Seq(Cell)
    BY <2>1
  <2> HIDE DEF e
  <2>3. Len(e) \in Nat /\ writeOff + Len(c) <= Len(e) /\ (writeOff = Len(file) => Len(e) = writeOff + Len(c))
    BY <1>1, <1>3, <2>2
  <2>4. QED BY <2>2, <2>3 DEF e
<1>11. \A i \in 1..writeOff : (d \o b)[i] = file[i]
  BY <1>6, <1>8, <1>9
<1>12. \A i \in 1..Len(c) : (d \o b)[writeOff + i] = c[i]
  BY <1>6, <1>8, <1>9
<1>13. QED BY <1>7, <1>10, <1>11, <1>12

\* A record appended to whole records.
LEMMA WholeAppend ==
  ASSUME NEW f \in Seq(Cell), NEW w \in Nat, NEW r \in Records, w + SizeOf[r] <= Len(f),
         Whole(f, w), \A j \in 1..SizeOf[r] : f[w + j] = <<r, j>>
  PROVE  /\ Whole(f, w + SizeOf[r])
         /\ \A o : Boundary(f, w, o) => Boundary(f, w + SizeOf[r], o)
         /\ RecordsIn(f, w, w + SizeOf[r]) = {r}
<1> DEFINE s == SizeOf[r]
<1>1. s \in Nat \ {0} /\ Len(f) \in Nat
  BY SpoolConstants
<1>2. \A i \in w + 1..w + s : f[i] = <<r, i - w>>
  <2> HIDE DEF s
  <2> SUFFICES ASSUME NEW i \in w + 1..w + s PROVE f[i] = <<r, i - w>>
    OBVIOUS
  <2>1. i - w \in 1..s /\ w + (i - w) = i
    BY <1>1
  <2>2. f[w + (i - w)] = <<r, i - w>>
    BY <2>1 DEF s
  <2>3. QED BY <2>1, <2>2
<1>3. Whole(f, w + s)
  <2> SUFFICES ASSUME NEW i \in 1..w + s
               PROVE  /\ i - f[i][2] \in Nat /\ i - f[i][2] + SizeOf[f[i][1]] <= w + s
                      /\ \A j \in 1..SizeOf[f[i][1]] : f[i - f[i][2] + j] = <<f[i][1], j>>
    BY DEF Whole
  <2>1. CASE i \in 1..w
    <3>1. /\ i - f[i][2] \in Nat /\ i - f[i][2] + SizeOf[f[i][1]] <= w
          /\ \A j \in 1..SizeOf[f[i][1]] : f[i - f[i][2] + j] = <<f[i][1], j>>
      BY <2>1 DEF Whole
    <3>2. i \in 1..Len(f)
      BY <1>1, <2>1
    <3>3. SizeOf[f[i][1]] \in Nat
      BY <3>2, CellFacts
    <3>4. i - f[i][2] + SizeOf[f[i][1]] <= w + s
      <4> DEFINE m == i - f[i][2]
                 n == SizeOf[f[i][1]]
      <4>1. m \in Nat /\ n \in Nat /\ m + n <= w
        BY <3>1, <3>3
      <4> HIDE DEF m, n, s
      <4>2. m + n <= w + s
        BY <1>1, <4>1
      <4>3. QED BY <4>2 DEF m, n
    <3>5. QED BY <3>1, <3>4
  <2>2. CASE i \in w + 1..w + s
    <3>1. f[i][1] = r /\ f[i][2] = i - w
      BY <1>2, <2>2
    <3>2. i - f[i][2] = w
      <4> HIDE DEF s
      <4> QED BY <1>1, <2>2, <3>1
    <3>3. \A j \in 1..SizeOf[f[i][1]] : f[i - f[i][2] + j] = <<f[i][1], j>>
      BY <3>1, <3>2
    <3>4. w \in Nat /\ w + SizeOf[f[i][1]] <= w + s
      BY <1>1, <3>1
    <3>5. QED BY <3>2, <3>3, <3>4
  <2>3. i \in 1..w \/ i \in w + 1..w + s
    <3> HIDE DEF s
    <3> QED BY <1>1
  <2>4. QED BY <2>1, <2>2, <2>3
<1>4. f[w + 1] = <<r, 1>>
  BY <1>1
<1>5. ASSUME NEW o, Boundary(f, w, o) PROVE Boundary(f, w + s, o)
  <2>1. o \in 0..w
    BY <1>5 DEF Boundary
  <2>2. f[o + 1][2] = 1
    BY <1>4, <1>5, <2>1 DEF Boundary
  <2>3. o \in 0..w + s
    <3> HIDE DEF s
    <3> QED BY <1>1, <2>1
  <2>4. QED BY <2>2, <2>3 DEF Boundary
<1>6. RecordsIn(f, w, w + s) = {r}
  <2>1. \A i \in w + 1..w + s : f[i][1] = r
    BY <1>2
  <2>2. w + 1 \in w + 1..w + s
    <3> HIDE DEF s
    <3> QED BY <1>1
  <2>3. QED BY <2>1, <2>2 DEF RecordsIn
<1>7. QED BY <1>3, <1>5, <1>6

\* A write keeps the invariant, and drops records only while those that are
\* left do not fit.
LEMMA WriteKeeps ==
  ASSUME SpoolIInv, NEW r \in Records, Write(r)
  PROVE  /\ SpoolIInv'
         /\ readOff' > readOff => writeOff' - readOff' + SizeOf[file'[readOff'][1]] > MaxBytes
<1> DEFINE f == Overwritten(Cells(r))
           s == SizeOf[r]
           w == writeOff + s
<1>1. /\ file \in Seq(Cell) /\ writeOff \in 0..Len(file) /\ readOff \in 0..writeOff
      /\ writeOff \in Nat /\ readOff \in Nat /\ Len(file) \in Nat
      /\ Whole(file, writeOff) /\ RecordsIn(file, 0, writeOff) \subseteq accepted
      /\ Boundary(file, writeOff, readOff) /\ Covered(readOff, writeOff)
  BY DEF SpoolIInv, Types, LiveInv, Write
<1>2. /\ alive /\ ~Locked /\ alive' = alive /\ file' = f /\ writeOff' = w
      /\ accepted' = accepted \cup {r} /\ delivered' = delivered
      /\ UNCHANGED <<offset, pc, start, frame, save, crashes, errors>>
  BY DEF Write, loopVars
<1>3. /\ f \in Seq(Cell) /\ Len(f) \in Nat /\ w <= Len(f) /\ s \in Nat \ {0} /\ w \in Nat
      /\ writeOff = Len(file) => Len(f) = w
      /\ \A i \in 1..writeOff : f[i] = file[i]
      /\ \A i \in 1..s : f[writeOff + i] = <<r, i>>
  <2>1. /\ Cells(r) \in Seq(Cell) /\ s \in Nat \ {0} /\ Len(Cells(r)) = s
        /\ \A i \in 1..s : Cells(r)[i] = <<r, i>>
    BY CellsFacts
  <2>2. /\ f \in Seq(Cell) /\ Len(f) \in Nat /\ w <= Len(f)
        /\ writeOff = Len(file) => Len(f) = w
        /\ \A i \in 1..writeOff : f[i] = file[i]
        /\ \A i \in 1..s : f[writeOff + i] = Cells(r)[i]
    BY <1>1, <2>1, OverwrittenFacts
  <2>3. w \in Nat
    BY <1>1, <2>1
  <2> HIDE DEF f, s, w
  <2>4. \A i \in 1..s : f[writeOff + i] = <<r, i>>
    BY <2>1, <2>2, Zenon
  <2>5. QED BY <2>1, <2>2, <2>3, <2>4, Zenon
<1>4. /\ Whole(f, writeOff) /\ RecordsIn(f, 0, writeOff) = RecordsIn(file, 0, writeOff)
      /\ RecordsIn(f, readOff, writeOff) = RecordsIn(file, readOff, writeOff)
      /\ \A o : Boundary(file, writeOff, o) => Boundary(f, writeOff, o)
  <2> HIDE DEF f
  <2>1. QED BY <1>1, <1>3, SamePrefix
<1>5. /\ Whole(f, w) /\ RecordsIn(f, writeOff, w) = {r}
      /\ \A o : Boundary(f, writeOff, o) => Boundary(f, w, o)
  <2> HIDE DEF f
  <2>1. QED BY <1>1, <1>3, <1>4, WholeAppend
<1>6. CapStop(f, w, readOff, readOff')
  <2>1. readOff' = CapFrom(f, w)[readOff]
    <3>1. readOff' = EnforceCap(f, w)
      BY DEF Write
    <3>2. QED BY <3>1, CapIsCapFrom
  <2> HIDE DEF f, w
  <2>2. w \in 0..Len(f) /\ Boundary(f, w, readOff)
    BY <1>1, <1>3, <1>4, <1>5
  <2>3. QED BY <1>3, <1>5, <2>1, <2>2, CapStops
<1>7. readOff' \in Nat /\ readOff' \in 0..w /\ readOff <= readOff' /\ Boundary(f, w, readOff')
  <2> HIDE DEF f, w
  <2> QED BY <1>1, <1>3, <1>6 DEF CapStop, Boundary
<1>8. dropped' = dropped \cup RecordsIn(f, readOff, readOff')
  <2>1. dropped' = dropped \cup {f[i][1] : i \in readOff + 1..Smaller(readOff', Len(f))}
    BY DEF Write
  <2>2. Smaller(readOff', Len(f)) = readOff'
    <3> HIDE DEF f, w
    <3> QED BY <1>3, <1>7 DEF Smaller
  <2>3. QED BY <2>1, <2>2 DEF RecordsIn
<1> HIDE DEF f, w, s
<1>9. /\ RecordsIn(f, 0, w) = RecordsIn(f, 0, writeOff) \cup {r}
      /\ RecordsIn(f, readOff, w) = RecordsIn(f, readOff, writeOff) \cup {r}
      /\ RecordsIn(f, readOff, w) = RecordsIn(f, readOff, readOff') \cup RecordsIn(f, readOff', w)
      /\ RecordsIn(f, 0, w) = RecordsIn(f, 0, readOff) \cup RecordsIn(f, readOff, w)
  <2>1. writeOff <= w
    BY <1>1, <1>3 DEF w
  <2>2. QED BY <1>1, <1>3, <1>5, <1>7, <2>1, RecordsInFacts
<1>10. RecordsIn(f, 0, w) \subseteq accepted' /\ dropped' \subseteq accepted'
  BY <1>1, <1>2, <1>4, <1>8, <1>9 DEF SpoolIInv, HistoryInv
<1>11. Covered(readOff, writeOff)'
  <2> SUFFICES ASSUME NEW a \in accepted' PROVE Done(a)' \/ a \in RecordsIn(f, readOff', w)
    BY <1>2 DEF Covered
  <2>1. CASE a \in RecordsIn(f, readOff, w)
    BY <1>8, <1>9, <2>1 DEF Done
  <2>2. CASE a \notin RecordsIn(f, readOff, w)
    <3>1. a \in accepted /\ a \notin RecordsIn(file, readOff, writeOff)
      BY <1>2, <1>4, <1>9, <2>2
    <3>2. Done(a)
      BY <1>1, <3>1 DEF Covered
    <3>3. QED BY <1>2, <1>8, <3>2 DEF Done
  <2>3. QED BY <2>1, <2>2
<1>12. Types'
  BY <1>2, <1>3, <1>7 DEF SpoolIInv, Types
<1>13. HistoryInv'
  <2>1. accepted' \subseteq Records /\ \A c \in delivered' : \E x \in accepted' : c = Cells(x)
    BY <1>2 DEF SpoolIInv, HistoryInv
  <2>2. QED BY <1>10, <2>1 DEF HistoryInv
<1>14. LiveInv'
  <2>1. w \in 0..Len(f)
    BY <1>3
  <2>2. QED BY <1>2, <1>5, <1>7, <1>10, <1>11, <2>1 DEF LiveInv
<1>15. \A o : Boundary(file, writeOff, o) => Boundary(f, w, o)
  BY <1>4, <1>5
<1>16. LoopInv'
  <2>1. pc \in {"reading", "sending", "sent"} =>
          Boundary(f, w, start) /\ start < w /\ start <= readOff'
    <3>1. SUFFICES ASSUME pc \in {"reading", "sending", "sent"}
                   PROVE  Boundary(f, w, start) /\ start < w /\ start <= readOff'
      OBVIOUS
    <3>2. Boundary(file, writeOff, start) /\ start < writeOff /\ start <= readOff /\ start \in Nat
      BY <1>2, <3>1 DEF SpoolIInv, LoopInv, Types
    <3>3. writeOff < w
      BY <1>1, <1>3 DEF w
    <3>4. QED BY <1>1, <1>3, <1>7, <1>15, <3>2, <3>3
  <2>2. pc \in {"sending", "sent"} => frame = Cells(f[start + 1][1])
    <3>1. SUFFICES ASSUME pc \in {"sending", "sent"} PROVE frame = Cells(f[start + 1][1])
      OBVIOUS
    <3>2. frame = Cells(file[start + 1][1]) /\ start < writeOff /\ start \in Nat
      BY <1>2, <3>1 DEF SpoolIInv, LoopInv, Types
    <3>3. start + 1 \in 1..writeOff
      BY <1>1, <3>2
    <3>4. QED BY <1>3, <3>2, <3>3
  <2>3. pc = "sent" => frame \in delivered
    BY <1>2 DEF SpoolIInv, LoopInv
  <2>4. pc \in {"saving", "saveOpen"} => Boundary(f, w, save) /\ save <= readOff'
    <3>1. SUFFICES ASSUME pc \in {"saving", "saveOpen"} PROVE Boundary(f, w, save) /\ save <= readOff'
      OBVIOUS
    <3>2. Boundary(file, writeOff, save) /\ save <= readOff /\ save \in Nat
      BY <1>2, <3>1 DEF SpoolIInv, LoopInv, Types
    <3>3. QED BY <1>1, <1>7, <1>15, <3>2
  <2>5. QED BY <1>2, <2>1, <2>2, <2>3, <2>4 DEF LoopInv
<1>17. FilesInv'
  <2> SUFFICES ASSUME crashes = 0, errors = 0
               PROVE  /\ w = Len(f)
                      /\ offset # None => Boundary(f, w, offset) /\ offset <= readOff'
    BY <1>2 DEF FilesInv
  <2>1. /\ writeOff = Len(file)
        /\ offset # None => \/ Boundary(file, writeOff, offset) /\ offset <= readOff
                            \/ pc = "saving" /\ save = 0 /\ file = <<>>
    BY <1>2 DEF SpoolIInv, FilesInv
  <2>2. offset # None => Boundary(file, writeOff, offset) /\ offset <= readOff /\ offset \in Nat
    BY <1>2, <2>1 DEF Locked, SpoolIInv, Types
  <2>3. QED BY <1>1, <1>3, <1>7, <1>15, <2>1, <2>2
<1>18. readOff' > readOff => writeOff' - readOff' + SizeOf[file'[readOff'][1]] > MaxBytes
  BY <1>2, <1>6 DEF CapStop
<1>19. QED BY <1>12, <1>13, <1>14, <1>16, <1>17, <1>18 DEF SpoolIInv

\* A write that fails leaves the records, and what follows them does not count.
LEMMA WriteFailsKeeps ==
  ASSUME SpoolIInv, NEW r \in Records, WriteFails(r)
  PROVE  SpoolIInv'
<1>1. PICK n \in 0..SizeOf[r] - 1 :
        /\ alive /\ ~Locked
        /\ <<crashes, errors + 1>> \in Faults
        /\ file' = Overwritten(SubSeq(Cells(r), 1, n))
        /\ errors' = errors + 1
        /\ UNCHANGED <<offset, memVars, loopVars, histVars, crashes>>
  BY DEF WriteFails
<1>2. /\ UNCHANGED <<offset, alive, readOff, writeOff, pc, start, frame, save, accepted, delivered, dropped, crashes>>
      /\ errors' = errors + 1 /\ errors \in Nat /\ crashes \in Nat /\ alive
      /\ <<crashes', errors'>> \in Faults
  BY <1>1 DEF memVars, loopVars, histVars, SpoolIInv, Types
<1>3. /\ file \in Seq(Cell) /\ writeOff \in 0..Len(file) /\ readOff \in 0..writeOff
      /\ writeOff \in Nat /\ readOff \in Nat /\ Len(file) \in Nat
      /\ Whole(file, writeOff) /\ RecordsIn(file, 0, writeOff) \subseteq accepted
      /\ Boundary(file, writeOff, readOff) /\ Covered(readOff, writeOff)
  BY <1>2 DEF SpoolIInv, Types, LiveInv
<1>4. file' \in Seq(Cell) /\ writeOff \in 0..Len(file') /\ \A i \in 1..writeOff : file'[i] = file[i]
  <2> DEFINE c == SubSeq(Cells(r), 1, n)
  <2>1. c \in Seq(Cell) /\ Len(c) \in Nat
    <3>1. Cells(r) \in Seq(Cell) /\ SizeOf[r] \in Nat \ {0} /\ Len(Cells(r)) = SizeOf[r]
      BY CellsFacts
    <3>2. n \in Nat /\ 0 + n <= Len(Cells(r))
      BY <3>1
    <3>3. SubSeq(Cells(r), 0 + 1, 0 + n) \in Seq(Cell)
      BY <3>1, <3>2, SubSeqFacts
    <3>4. 0 + 1 = 1 /\ 0 + n = n
      BY <3>2
    <3>5. QED BY <3>3, <3>4
  <2>2. file' = Overwritten(c)
    BY <1>1
  <2> HIDE DEF c
  <2>3. /\ file' \in Seq(Cell) /\ Len(file') \in Nat /\ writeOff + Len(c) <= Len(file')
        /\ \A i \in 1..writeOff : file'[i] = file[i]
    BY <1>3, <2>1, <2>2, OverwrittenFacts
  <2>4. writeOff <= Len(file')
    BY <1>3, <2>1, <2>3
  <2>5. QED BY <1>3, <2>3, <2>4
<1>5. /\ Whole(file', writeOff) /\ \A o \in Nat : RecordsIn(file', o, writeOff) = RecordsIn(file, o, writeOff)
      /\ \A o : Boundary(file, writeOff, o) => Boundary(file', writeOff, o)
  BY <1>3, <1>4, SamePrefix
<1>6. Types'
  BY <1>2, <1>4 DEF SpoolIInv, Types
<1>7. HistoryInv'
  BY <1>2 DEF SpoolIInv, HistoryInv
<1>8. LiveInv'
  <2>1. RecordsIn(file', 0, writeOff) \subseteq accepted
    BY <1>3, <1>5
  <2>2. Covered(readOff, writeOff)'
    BY <1>2, <1>3, <1>5 DEF Covered, Done
  <2>3. QED BY <1>2, <1>3, <1>4, <1>5, <2>1, <2>2 DEF LiveInv
<1>9. LoopInv'
  <2>1. pc \in {"sending", "sent"} => frame = Cells(file'[start + 1][1])
    <3>1. SUFFICES ASSUME pc \in {"sending", "sent"} PROVE frame = Cells(file'[start + 1][1])
      OBVIOUS
    <3>2. frame = Cells(file[start + 1][1]) /\ start < writeOff /\ start \in Nat
      BY <1>2, <3>1 DEF SpoolIInv, LoopInv, Types
    <3>3. start + 1 \in 1..writeOff
      BY <1>3, <3>2
    <3>4. QED BY <1>4, <3>2, <3>3
  <2>2. QED BY <1>2, <1>5, <2>1 DEF SpoolIInv, LoopInv
<1>10. FilesInv'
  BY <1>2 DEF FilesInv
<1>11. QED BY <1>6, <1>7, <1>8, <1>9, <1>10 DEF SpoolIInv

-----------------------------------------------------------------------------
(* The send loop.                                                          *)

\* The loop takes the first pending record.
LEMMA SnapshotKeeps ==
  ASSUME SpoolIInv, Snapshot
  PROVE  SpoolIInv'
<1>1. /\ alive /\ pc = "idle" /\ readOff < writeOff /\ pc' = "reading" /\ start' = readOff
      /\ UNCHANGED <<file, offset, alive, readOff, writeOff, frame, save, accepted, delivered, dropped, crashes, errors>>
  BY DEF Snapshot, diskVars, memVars, histVars
<1>2. Boundary(file, writeOff, readOff) /\ readOff \in Nat
  BY <1>1 DEF SpoolIInv, LiveInv, Types
<1>3. Types' /\ HistoryInv' /\ LiveInv'
  BY <1>1, <1>2 DEF SpoolIInv, Types, HistoryInv, LiveInv, Covered, Done
<1>4. LoopInv'
  BY <1>1, <1>2 DEF LoopInv
<1>5. FilesInv'
  BY <1>1 DEF SpoolIInv, FilesInv
<1>6. QED BY <1>3, <1>4, <1>5 DEF SpoolIInv

\* It reads a whole record, or starts over.
LEMMA ReadFileKeeps ==
  ASSUME SpoolIInv, ReadFile
  PROVE  SpoolIInv'
<1>1. /\ alive /\ pc = "reading"
      /\ UNCHANGED <<file, offset, alive, readOff, writeOff, start, save, accepted, delivered, dropped, crashes, errors>>
      /\ \/ frame' = FrameAt(file, start) /\ pc' = "sending"
         \/ pc' = "idle" /\ frame' = frame
  BY DEF ReadFile, diskVars, memVars, histVars
<1>2. /\ file \in Seq(Cell) /\ writeOff \in 0..Len(file) /\ Whole(file, writeOff)
      /\ Boundary(file, writeOff, start) /\ start < writeOff
  BY <1>1 DEF SpoolIInv, LiveInv, LoopInv, Types
<1>3. FrameAt(file, start) = Cells(file[start + 1][1]) /\ file[start + 1][1] \in Records
  BY <1>2, BoundaryStep
<1>4. frame' \in Seq(Cell)
  BY <1>1, <1>3, CellsFacts DEF SpoolIInv, Types
<1>5. Types' /\ HistoryInv' /\ LiveInv'
  BY <1>1, <1>4 DEF SpoolIInv, Types, HistoryInv, LiveInv, Covered, Done
<1>6. LoopInv'
  BY <1>1, <1>3 DEF SpoolIInv, LoopInv
<1>7. FilesInv'
  BY <1>1 DEF SpoolIInv, FilesInv
<1>8. QED BY <1>5, <1>6, <1>7 DEF SpoolIInv

\* The upstream receives the record that the loop is at.
LEMMA ReceivedKeeps ==
  ASSUME SpoolIInv, alive, pc = "sending", delivered' \in {delivered, delivered \cup {frame}},
         pc' \in {"idle", "sent"}, pc' = "sent" => frame \in delivered',
         UNCHANGED <<file, offset, alive, readOff, writeOff, start, frame, save, accepted, dropped, crashes, errors>>
  PROVE  SpoolIInv'
<1>1. file[start + 1][1] \in accepted
  <2>1. /\ writeOff \in Nat /\ start \in Nat /\ start < writeOff
        /\ RecordsIn(file, 0, writeOff) \subseteq accepted
    BY DEF SpoolIInv, LiveInv, LoopInv, Types
  <2>2. start + 1 \in 0 + 1..writeOff
    BY <2>1
  <2>3. QED BY <2>1, <2>2 DEF RecordsIn
<1>2. frame = Cells(file[start + 1][1])
  BY DEF SpoolIInv, LoopInv
<1>3. HistoryInv'
  BY <1>1, <1>2 DEF SpoolIInv, HistoryInv
<1>4. delivered \subseteq delivered'
  OBVIOUS
<1>5. \A o, w : Covered(o, w) => Covered(o, w)'
  BY <1>4 DEF Covered, Done
<1>6. LiveInv'
  BY <1>5 DEF SpoolIInv, LiveInv
<1>7. Types'
  BY DEF SpoolIInv, Types
<1>8. LoopInv'
  BY <1>2 DEF SpoolIInv, LoopInv
<1>9. FilesInv'
  BY DEF SpoolIInv, FilesInv
<1>10. QED BY <1>3, <1>6, <1>7, <1>8, <1>9 DEF SpoolIInv

LEMMA DeliverKeeps ==
  ASSUME SpoolIInv, Deliver
  PROVE  SpoolIInv'
  BY ReceivedKeeps DEF Deliver, diskVars, memVars

LEMMA SendFailsKeeps ==
  ASSUME SpoolIInv, SendFails
  PROVE  SpoolIInv'
  BY ReceivedKeeps DEF SendFails, diskVars, memVars

\* Behind the record that was sent lies the next one, or the end; when the
\* offset has moved already, the record was dropped.
LEMMA AdvancedFacts ==
  ASSUME SpoolIInv, alive, pc = "sent"
  PROVE  /\ Advanced \in Nat /\ Boundary(file, writeOff, Advanced) /\ readOff <= Advanced
         /\ Covered(Advanced, writeOff)
<1>1. /\ file \in Seq(Cell) /\ writeOff \in 0..Len(file) /\ readOff \in 0..writeOff
      /\ writeOff \in Nat /\ readOff \in Nat /\ Len(file) \in Nat
      /\ Whole(file, writeOff)
      /\ Boundary(file, writeOff, readOff) /\ Covered(readOff, writeOff)
  BY DEF SpoolIInv, Types, LiveInv
<1>2. /\ Boundary(file, writeOff, start) /\ start < writeOff /\ start \in Nat
      /\ frame = Cells(file[start + 1][1]) /\ frame \in delivered
  BY DEF SpoolIInv, Types, LoopInv
<1>3. CASE readOff # start
  BY <1>1, <1>3 DEF Advanced
<1>4. CASE readOff = start
  <2> DEFINE q == file[start + 1][1]
             s == SizeAt(file, start)
  <2>1. /\ q \in Records /\ s = SizeOf[q] /\ s \in Nat \ {0}
        /\ Boundary(file, writeOff, start + s)
        /\ \A j \in 1..s : file[start + j] = <<q, j>>
    BY <1>1, <1>2, BoundaryStep
  <2>2. Len(frame) = s
    BY <1>2, <2>1, CellsFacts
  <2>3. Advanced = start + s
    BY <1>4, <2>2 DEF Advanced
  <2> HIDE DEF s
  <2>4. start + s \in Nat /\ start <= start + s /\ start + s <= writeOff
    BY <1>1, <1>2, <2>1 DEF Boundary
  <2>5. RecordsIn(file, start, writeOff) \subseteq {q} \cup RecordsIn(file, start + s, writeOff)
    <3>1. RecordsIn(file, start, writeOff) = RecordsIn(file, start, start + s) \cup RecordsIn(file, start + s, writeOff)
      BY <1>1, <1>2, <2>4, RecordsInFacts
    <3>2. ASSUME NEW i \in start + 1..start + s PROVE file[i][1] = q
      <4>1. i - start \in 1..s /\ start + (i - start) = i
        BY <1>2, <2>1
      <4>2. file[i] = <<q, i - start>>
        BY <2>1, <4>1
      <4>3. QED BY <4>2
    <3>3. RecordsIn(file, start, start + s) \subseteq {q}
      BY <3>2 DEF RecordsIn
    <3>4. QED BY <3>1, <3>3
  <2>6. Done(q)
    BY <1>2 DEF Done
  <2>7. Covered(start + s, writeOff)
    <3> HIDE DEF q
    <3> QED BY <1>1, <1>4, <2>5, <2>6 DEF Covered
  <2>8. QED BY <1>4, <2>1, <2>3, <2>4, <2>7
<1>5. QED BY <1>3, <1>4

\* With the offset at the end every record is done with.
LEMMA NothingLeft ==
  ASSUME SpoolIInv, alive, pc = "sent", Advanced >= writeOff
  PROVE  \A r \in accepted : Done(r)
<1>1. Advanced \in Nat /\ Boundary(file, writeOff, Advanced) /\ Covered(Advanced, writeOff)
  BY AdvancedFacts
<1>2. writeOff \in Nat /\ file \in Seq(Cell)
  BY DEF SpoolIInv, Types
<1>3. Advanced = writeOff
  BY <1>1, <1>2 DEF Boundary
<1>4. RecordsIn(file, Advanced, writeOff) = {}
  BY <1>2, <1>3, RecordsInFacts
<1>5. QED BY <1>1, <1>4 DEF Covered

\* A commit steps over what was delivered, or starts a file with nothing left
\* from the beginning.
LEMMA CommitKeeps ==
  ASSUME SpoolIInv, CommitRecord
  PROVE  SpoolIInv'
<1>1. /\ alive /\ pc = "sent" /\ pc' = "saving"
      /\ UNCHANGED <<offset, alive, start, frame, accepted, delivered, dropped, crashes>>
  BY DEF CommitRecord, histVars
<1>2. /\ file \in Seq(Cell) /\ writeOff \in 0..Len(file) /\ readOff \in 0..writeOff
      /\ writeOff \in Nat /\ readOff \in Nat /\ Len(file) \in Nat
      /\ Whole(file, writeOff) /\ RecordsIn(file, 0, writeOff) \subseteq accepted
      /\ errors \in Nat /\ crashes \in Nat /\ <<crashes, errors>> \in Faults
  BY <1>1 DEF SpoolIInv, Types, LiveInv
<1>3. /\ Advanced \in Nat /\ Boundary(file, writeOff, Advanced) /\ readOff <= Advanced
      /\ Covered(Advanced, writeOff)
  BY <1>1, AdvancedFacts
<1>4. HistoryInv'
  BY <1>1 DEF SpoolIInv, HistoryInv
<1>5. CASE Advanced >= writeOff
  <2>1. /\ readOff' = 0 /\ writeOff' = 0 /\ save' = 0
        /\ \/ file' = <<>> /\ errors' = errors
           \/ <<crashes, errors + 1>> \in Faults /\ errors' = errors + 1 /\ file' = file
    BY <1>5 DEF CommitRecord
  <2>2. file' \in Seq(Cell) /\ Len(file') \in Nat /\ <<crashes', errors'>> \in Faults /\ errors' \in Nat
    <3>1. <<>> \in Seq(Cell) /\ Len(<<>>) \in Nat
      OBVIOUS
    <3>2. file' \in Seq(Cell) /\ Len(file') \in Nat
      BY <1>2, <2>1, <3>1
    <3>3. errors' \in Nat
      BY <1>2, <2>1
    <3>4. <<crashes', errors'>> \in Faults
      BY <1>1, <1>2, <2>1
    <3>5. QED BY <3>2, <3>3, <3>4
  <2>3. Types'
    BY <1>1, <2>1, <2>2 DEF SpoolIInv, Types
  <2>4. Whole(file', 0) /\ Boundary(file', 0, 0) /\ RecordsIn(file', 0, 0) = {}
    BY DEF Whole, Boundary, RecordsIn
  <2>5. Covered(readOff, writeOff)'
    <3>1. \A r \in accepted : Done(r)
      BY <1>1, <1>5, NothingLeft
    <3>2. QED BY <1>1, <3>1 DEF Covered, Done
  <2>6. LiveInv'
    BY <2>1, <2>2, <2>4, <2>5 DEF LiveInv
  <2>7. LoopInv'
    BY <1>1, <2>1, <2>4 DEF LoopInv
  <2>8. FilesInv'
    <3>1. errors' = 0 => file' = <<>>
      BY <1>2, <2>1
    <3>2. file' = <<>> => Len(file') = 0
      OBVIOUS
    <3>3. QED BY <1>1, <2>1, <3>1, <3>2 DEF FilesInv
  <2>9. QED BY <1>4, <2>3, <2>6, <2>7, <2>8 DEF SpoolIInv
<1>6. CASE ~(Advanced >= writeOff)
  <2>1. readOff' = Advanced /\ save' = Advanced /\ UNCHANGED <<file, writeOff, errors>>
    BY <1>6 DEF CommitRecord
  <2>2. Types'
    BY <1>1, <1>3, <2>1 DEF SpoolIInv, Types
  <2>3. LiveInv'
    <3>1. Covered(readOff, writeOff)'
      BY <1>1, <1>3, <2>1 DEF Covered, Done
    <3>2. Advanced \in 0..writeOff
      BY <1>3 DEF Boundary
    <3>3. QED BY <1>1, <1>2, <1>3, <2>1, <3>1, <3>2 DEF LiveInv
  <2>4. LoopInv'
    BY <1>1, <1>3, <2>1 DEF LoopInv
  <2>5. FilesInv'
    <3> SUFFICES ASSUME crashes = 0, errors = 0
                 PROVE  /\ writeOff = Len(file)
                        /\ offset # None => Boundary(file, writeOff, offset) /\ offset <= Advanced
      BY <1>1, <2>1 DEF FilesInv
    <3>1. /\ writeOff = Len(file)
          /\ offset # None => Boundary(file, writeOff, offset) /\ offset <= readOff /\ offset \in Nat
      BY <1>1 DEF SpoolIInv, FilesInv, Types
    <3>2. QED BY <1>2, <1>3, <3>1
  <2>6. QED BY <1>4, <2>2, <2>3, <2>4, <2>5 DEF SpoolIInv
<1>7. QED BY <1>5, <1>6

\* The offset file holds no offset, the offset of the last commit, or what it
\* held before.
LEMMA SaveKeeps ==
  ASSUME SpoolIInv, SaveOpen \/ SaveWrite \/ SaveFails
  PROVE  SpoolIInv'
<1>1. /\ alive /\ pc \in {"saving", "saveOpen"}
      /\ UNCHANGED <<file, alive, readOff, writeOff, start, frame, save, accepted, delivered, dropped, crashes>>
  BY DEF SaveOpen, SaveWrite, SaveFails, diskVars, memVars, histVars
<1>2. /\ \/ pc' = "saveOpen" /\ offset' = None /\ errors' = errors
         \/ pc' = "idle" /\ offset' = save /\ errors' = errors
         \/ pc' = "idle" /\ offset' = offset /\ errors' = errors + 1 /\ <<crashes, errors + 1>> \in Faults
  BY DEF SaveOpen, SaveWrite, SaveFails, diskVars
<1>3. /\ Boundary(file, writeOff, save) /\ save <= readOff /\ save \in Nat
      /\ errors \in Nat /\ crashes \in Nat /\ <<crashes, errors>> \in Faults
  BY <1>1 DEF SpoolIInv, LoopInv, Types
<1>4. <<crashes', errors'>> \in Faults /\ errors' \in Nat
  BY <1>1, <1>2, <1>3
<1>5. Types'
  BY <1>1, <1>2, <1>3, <1>4 DEF SpoolIInv, Types
<1>6. HistoryInv' /\ LiveInv'
  BY <1>1 DEF SpoolIInv, HistoryInv, LiveInv, Covered, Done
<1>7. LoopInv'
  BY <1>1, <1>2, <1>3 DEF LoopInv
<1>8. FilesInv'
  <2> SUFFICES ASSUME crashes = 0, errors' = 0
               PROVE  /\ writeOff = Len(file)
                      /\ offset' # None => Boundary(file, writeOff, offset') /\ offset' <= readOff
    BY <1>1 DEF FilesInv
  <2>1. errors = 0 /\ (offset' = None \/ offset' = save)
    BY <1>2, <1>3
  <2>2. writeOff = Len(file)
    BY <1>1, <2>1 DEF SpoolIInv, FilesInv
  <2>3. QED BY <1>3, <2>1, <2>2
<1>9. QED BY <1>5, <1>6, <1>7, <1>8 DEF SpoolIInv

-----------------------------------------------------------------------------
(* Stop and start.                                                         *)

\* The process that stops leaves files from which everything is read again
\* that was pending.
LEMMA CrashKeeps ==
  ASSUME OneKindOnly, SpoolIInv, Crash
  PROVE  SpoolIInv'
<1>1. /\ alive /\ <<crashes + 1, errors>> \in Faults /\ crashes' = crashes + 1 /\ alive' = FALSE
      /\ readOff' = 0 /\ writeOff' = 0 /\ pc' = "idle" /\ start' = 0 /\ frame' = <<>> /\ save' = 0
      /\ UNCHANGED <<file, offset, accepted, delivered, dropped, errors>>
  BY DEF Crash, diskVars, histVars
<1>2. crashes = 0 /\ errors = 0
  <2>1. crashes \in Nat /\ errors \in Nat /\ crashes + 1 \in Nat
    BY DEF SpoolIInv, Types
  <2>2. crashes + 1 = 0 \/ (crashes + 1 = 1 /\ errors = 0)
    BY <1>1, <2>1 DEF OneKindOnly
  <2>3. QED BY <2>1, <2>2
<1>3. /\ file \in Seq(Cell) /\ readOff \in Nat /\ writeOff \in Nat /\ Len(file) \in Nat
      /\ writeOff = Len(file) /\ readOff <= writeOff
      /\ Whole(file, writeOff) /\ RecordsIn(file, 0, writeOff) \subseteq accepted
      /\ Covered(readOff, writeOff)
      /\ offset # None => \/ Boundary(file, writeOff, offset) /\ offset <= readOff /\ offset \in Nat
                          \/ file = <<>>
      /\ offset \in Nat \cup {None}
  BY <1>1, <1>2 DEF SpoolIInv, Types, LiveInv, FilesInv
<1>4. SavedOff \in Nat /\ SavedOff <= readOff /\ Boundary(file, writeOff, SavedOff)
  <2>1. CASE SavedOff = 0
    <3>1. writeOff > 0 => file[0 + 1][2] = 1
      <4>1. SUFFICES ASSUME writeOff > 0 PROVE file[1][2] = 1
        OBVIOUS
      <4>2. 1 \in 1..writeOff /\ 1 \in 1..Len(file)
        BY <1>3, <4>1
      <4>3. 1 - file[1][2] \in Nat
        BY <1>3, <4>2 DEF Whole
      <4>4. file[1][2] \in 1..SizeOf[file[1][1]]
        BY <1>3, <4>2, CellFacts
      <4>5. QED BY <4>3, <4>4
    <3>2. QED BY <1>3, <2>1, <3>1 DEF Boundary
  <2>2. CASE SavedOff # 0
    <3>1. offset # None /\ SavedOff = offset /\ offset <= Len(file)
      BY <2>2 DEF SavedOff
    <3>2. file # <<>>
      BY <1>3, <2>2, <3>1
    <3>3. QED BY <1>3, <3>1, <3>2
  <2>3. QED BY <2>1, <2>2
<1>5. Covered(SavedOff, writeOff)
  <2>1. RecordsIn(file, SavedOff, writeOff) =
          RecordsIn(file, SavedOff, readOff) \cup RecordsIn(file, readOff, writeOff)
    BY <1>3, <1>4, RecordsInFacts
  <2>2. QED BY <1>3, <2>1 DEF Covered
<1>6. Types'
  <2>1. <<>> \in Seq(Cell)
    OBVIOUS
  <2>2. frame' \in Seq(Cell)
    BY <1>1, <2>1
  <2>3. <<crashes', errors'>> \in Faults /\ crashes' \in Nat /\ errors' \in Nat
    BY <1>1, <1>2
  <2>4. QED BY <1>1, <2>2, <2>3 DEF SpoolIInv, Types
<1>7. HistoryInv' /\ LiveInv' /\ LoopInv'
  BY <1>1 DEF SpoolIInv, HistoryInv, LiveInv, LoopInv
<1>8. FilesInv'
  <2>1. SavedOff' = SavedOff
    BY <1>1 DEF SavedOff
  <2>2. Covered(SavedOff, Len(file))'
    BY <1>1, <1>3, <1>5, <2>1 DEF Covered, Done
  <2>3. QED BY <1>1, <1>2, <1>3, <1>4, <2>1, <2>2 DEF FilesInv
<1>9. QED BY <1>6, <1>7, <1>8 DEF SpoolIInv

\* The next start reads from there.
LEMMA OpenKeeps ==
  ASSUME SpoolIInv, Open
  PROVE  SpoolIInv'
<1>1. /\ ~alive /\ alive' = TRUE /\ readOff' = SavedOff /\ writeOff' = Len(file)
      /\ UNCHANGED <<file, offset, pc, start, frame, save, accepted, delivered, dropped, crashes, errors>>
  BY DEF Open, diskVars, loopVars, histVars
<1>2. /\ file \in Seq(Cell) /\ Len(file) \in Nat
      /\ crashes = 1 /\ pc = "idle"
      /\ Whole(file, Len(file)) /\ RecordsIn(file, 0, Len(file)) \subseteq accepted
      /\ Boundary(file, Len(file), SavedOff) /\ Covered(SavedOff, Len(file))
  BY <1>1 DEF SpoolIInv, Types, FilesInv
<1>3. SavedOff \in 0..Len(file) /\ SavedOff \in Nat
  BY <1>2 DEF Boundary
<1>4. Types'
  BY <1>1, <1>2, <1>3 DEF SpoolIInv, Types
<1>5. HistoryInv' /\ LoopInv' /\ FilesInv'
  BY <1>1, <1>2 DEF SpoolIInv, HistoryInv, LoopInv, FilesInv
<1>6. LiveInv'
  <2>1. Covered(readOff, writeOff)'
    BY <1>1, <1>2 DEF Covered, Done
  <2>2. Len(file) \in 0..Len(file)
    BY <1>2
  <2>3. QED BY <1>1, <1>2, <1>3, <2>1, <2>2 DEF LiveInv
<1>7. QED BY <1>4, <1>5, <1>6 DEF SpoolIInv

-----------------------------------------------------------------------------
(* The theorems.                                                           *)

\* The invariant gives what the spool promises: what has to be kept is found
\* from the offset that is read next.
LEMMA SpoolIInvGives ==
  ASSUME SpoolIInv
  PROVE  SpoolInv
<1> DEFINE e == IF alive THEN writeOff ELSE Len(file)
           o == IF alive THEN readOff ELSE SavedOff
<1>1. /\ file \in Seq(Cell) /\ Len(file) \in Nat /\ e \in 0..Len(file) /\ Whole(file, e)
      /\ Boundary(file, e, o) /\ Covered(o, e)
  BY DEF SpoolIInv, Types, LiveInv, FilesInv
<1>2. Pending = PendingFrom(file, e)[o]
  BY PendingIsPendingFrom
<1> HIDE DEF e, o
<1>3. \A r \in RecordsIn(file, o, e) : Cells(r) \in Pending
  BY <1>1, <1>2, PendingHasAll
<1>4. NothingLost
  BY <1>1, <1>3 DEF NothingLost, Covered, Done
<1>5. DeliveredWasWritten
  BY DEF SpoolIInv, HistoryInv, DeliveredWasWritten
<1>6. writeOff \in Nat /\ writeOff <= Len(file) /\ readOff \in Nat /\ readOff <= writeOff
  BY <1>1 DEF SpoolIInv, Types, LiveInv, FilesInv
<1>7. SpoolTypeOK
  BY <1>6 DEF SpoolIInv, Types, HistoryInv, SpoolTypeOK
<1>8. QED BY <1>4, <1>5, <1>7 DEF SpoolInv

\* The empty spool.
LEMMA SpoolInitIInv ==
  ASSUME SpoolInit
  PROVE  SpoolIInv
<1>1. file = <<>> /\ file \in Seq(Cell) /\ Len(file) = 0 /\ frame \in Seq(Cell)
  BY DEF SpoolInit
<1>2. Types
  BY <1>1, SpoolConstants DEF SpoolInit, Types
<1>3. Whole(file, 0) /\ Boundary(file, 0, 0) /\ RecordsIn(file, 0, 0) = {}
  BY DEF Whole, Boundary, RecordsIn
<1>4. HistoryInv /\ LiveInv /\ LoopInv /\ FilesInv
  BY <1>1, <1>3 DEF SpoolInit, HistoryInv, LiveInv, LoopInv, FilesInv, Covered
<1>5. QED BY <1>2, <1>4 DEF SpoolIInv

\* Every step keeps the invariant.
LEMMA SpoolNextIInv ==
  ASSUME OneKindOnly, SpoolIInv, [SpoolNext]_spoolVars
  PROVE  SpoolIInv'
<1>1. ASSUME NEW r \in Records, Write(r) PROVE SpoolIInv'
  BY <1>1, WriteKeeps
<1>2. ASSUME NEW r \in Records, WriteFails(r) PROVE SpoolIInv'
  BY <1>2, WriteFailsKeeps
<1>3. CASE Loop
  BY <1>3, SnapshotKeeps, ReadFileKeeps, DeliverKeeps, SendFailsKeeps, CommitKeeps, SaveKeeps DEF Loop
<1>4. CASE Crash
  BY <1>4, CrashKeeps
<1>5. CASE Open
  BY <1>5, OpenKeeps
<1>6. CASE UNCHANGED spoolVars
  <2>1. UNCHANGED <<file, offset, alive, readOff, writeOff, pc, start, frame, save, accepted, delivered,
                    dropped, crashes, errors>>
    BY <1>6 DEF spoolVars, diskVars, memVars, loopVars, histVars
  <2>2. SavedOff' = SavedOff
    BY <2>1 DEF SavedOff
  <2>3. QED BY <2>1, <2>2 DEF SpoolIInv, Types, HistoryInv, LiveInv, LoopInv, FilesInv, Covered, Done
<1>7. QED BY <1>1, <1>2, <1>3, <1>4, <1>5, <1>6 DEF SpoolNext

\* SpoolIInv holds in every reachable state.
THEOREM SpoolInvariant ==
  ASSUME OneKindOnly
  PROVE  SpoolSpec => []SpoolIInv
<1>1. SpoolInit => SpoolIInv
  BY SpoolInitIInv
<1>2. SpoolIInv /\ [SpoolNext]_spoolVars => SpoolIInv'
  BY SpoolNextIInv
<1>3. QED BY <1>1, <1>2, PTL DEF SpoolSpec

\* What was written is delivered, counted as dropped or pending, and the
\* upstream receives nothing but records (SpoolInv), for any records, sizes
\* and cap, with any number of failed writes or with one stop.
THEOREM SpoolSafe ==
  ASSUME OneKindOnly
  PROVE  SpoolSpec => []SpoolInv
<1>1. SpoolIInv => SpoolInv
  BY SpoolIInvGives
<1>2. QED BY <1>1, SpoolInvariant, PTL

\* The cap drops a record only when the pending ones do not fit with it.
THEOREM CapDropsNoMore ==
  ASSUME OneKindOnly
  PROVE  SpoolSpec => DropsOnlyOverCap
<1>1. SpoolIInv /\ [SpoolNext]_spoolVars =>
        [accepted' # accepted /\ readOff' > readOff =>
           writeOff' - readOff' + SizeOf[file'[readOff'][1]] > MaxBytes]_spoolVars
  <2> SUFFICES ASSUME SpoolIInv, [SpoolNext]_spoolVars, accepted' # accepted, readOff' > readOff
               PROVE  writeOff' - readOff' + SizeOf[file'[readOff'][1]] > MaxBytes
    OBVIOUS
  <2>1. ASSUME NEW r \in Records, Write(r)
        PROVE  writeOff' - readOff' + SizeOf[file'[readOff'][1]] > MaxBytes
    BY <2>1, WriteKeeps
  <2>2. ASSUME ~ \E r \in Records : Write(r) PROVE accepted' = accepted
    BY <2>2 DEF SpoolNext, Loop, WriteFails, Snapshot, ReadFile, Deliver, SendFails, CommitRecord, SaveOpen, SaveWrite,
       SaveFails, Crash, Open, spoolVars, histVars
  <2>3. QED BY <2>1, <2>2
<1>2. QED BY <1>1, SpoolInvariant, PTL DEF SpoolSpec, DropsOnlyOverCap

=============================================================================
