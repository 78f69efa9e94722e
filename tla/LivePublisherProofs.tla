-------------------------- MODULE LivePublisherProofs --------------------------
(***************************************************************************)
(* PublisherInv for any number of exports, failed queries and absences, and *)
(* any set of calls that might overlap: TypeOK and OnePublication are       *)
(* inductive together, the second because the number of timers started and  *)
(* calls running is that of a set with at most one member; TotalsStored is  *)
(* inductive with the types.                                                *)
(***************************************************************************)
EXTENDS LivePublisher, FiniteSetTheorems, TLAPS

\* The chain of publications without what they show.
ChainInv == TypeOK /\ OnePublication

\* Calls of publish can be counted.
LEMMA CountFacts ==
  ASSUME NEW S \in SUBSET Callbacks
  PROVE  /\ Cardinality(S) \in Nat
         /\ Cardinality(S) = 0 <=> S = {}
         /\ \A c \in S : Cardinality(S) <= 1 => S = {c}
         /\ \A c : S = {c} => Cardinality(S) = 1
  <1>1. IsFiniteSet(S)
    BY FS_Subset, PublisherAssumption
  <1>2. Cardinality(S) \in Nat
    BY <1>1, FS_CardinalityType
  <1>3. Cardinality(S) = 0 <=> S = {}
    BY <1>1, FS_EmptySet
  <1>4. ASSUME NEW c \in S, Cardinality(S) <= 1 PROVE S = {c}
    <2>1. Cardinality(S) = 1
      BY <1>2, <1>3, <1>4
    <2>2. PICK x : S = {x}
      BY <1>1, <2>1, FS_Singleton
    <2> QED
      BY <1>4, <2>2
  <1>5. ASSUME NEW c, S = {c} PROVE Cardinality(S) = 1
    BY <1>1, <1>5, FS_Singleton
  <1> QED
    BY <1>2, <1>3, <1>4, <1>5

\* No timer and one timer are possible counts.
LEMMA OneCallback == 0 \in 0..Cardinality(Callbacks) /\ 1 \in 0..Cardinality(Callbacks)
  <1>1. Cardinality(Callbacks) \in Nat /\ Cardinality(Callbacks) # 0
    BY CountFacts, PublisherAssumption
  <1> QED
    BY <1>1

\* What OnePublication says of the parts it counts.
LEMMA PublicationFacts ==
  ASSUME ChainInv
  PROVE  /\ ~timer => due = 0 /\ Running = {}
         /\ due > 0 => timer /\ due = 1 /\ Running = {}
         /\ \A c \in Running : timer /\ due = 0 /\ Running = {c}
  <1> DEFINE running == Cardinality(Running)
  <1>1. Running \in SUBSET Callbacks
    BY DEF Running
  <1>2. running \in Nat /\ (running = 0 <=> Running = {})
        /\ \A c \in Running : running <= 1 => Running = {c}
    BY <1>1, CountFacts
  <1>3. due \in Nat
    <2>1. Cardinality(Callbacks) \in Nat
      BY CountFacts
    <2> QED
      BY <2>1 DEF ChainInv, TypeOK
  <1>4. due + running = IF timer THEN 1 ELSE 0
    BY DEF ChainInv, OnePublication
  <1>5. ~timer => due = 0 /\ running = 0
    BY <1>2, <1>3, <1>4
  <1>6. due > 0 => timer /\ due = 1 /\ running = 0
    BY <1>2, <1>3, <1>4
  <1>7. running # 0 => timer /\ due = 0 /\ running <= 1
    BY <1>2, <1>3, <1>4
  <1> HIDE DEF running
  <1>8. \A c \in Running : Running # {}
    OBVIOUS
  <1> QED
    BY <1>2, <1>5, <1>6, <1>7, <1>8

\* The count is what it was when timer, due and Running are.
LEMMA SameCount ==
  ASSUME OnePublication, UNCHANGED <<timer, due>>, Running' = Running
  PROVE  OnePublication'
  BY DEF OnePublication

-----------------------------------------------------------------------------
\* Ingestion and viewers do not touch the chain of publications.
LEMMA TrafficStep ==
  ASSUME ChainInv, Receive \/ Store \/ Cool \/ Hide \/ Appear
  PROVE  ChainInv'
  <1>1. TypeOK'
    <2>1. hot' \in BOOLEAN /\ viewers' \in BOOLEAN
      BY Zenon DEF Receive, Store, Cool, Hide, Appear, ChainInv, TypeOK
    <2>2. shown' \in Snapshot
      <3>1. CASE Appear
        <4>1. stored \in 0..MaxExports /\ FALSE \in BOOLEAN
          BY PublisherAssumption DEF ChainInv, TypeOK
        <4>2. [stats |-> stored, hot |-> FALSE] \in Snapshot
          BY <4>1, Zenon DEF Snapshot
        <4> QED
          BY <3>1, <4>2, Zenon DEF Appear
      <3> QED
        BY <3>1, Zenon DEF Receive, Store, Cool, Hide, ChainInv, TypeOK
    <2> QED
      BY <2>1, <2>2, PublisherAssumption DEF Receive, Store, Cool, Hide, Appear, ChainInv, TypeOK
  <1>2. Running' = Running /\ UNCHANGED <<timer, due>>
    BY DEF Receive, Store, Cool, Hide, Appear, Running
  <1> QED
    BY <1>1, <1>2, SameCount DEF ChainInv

\* Notify starts a timer only when none is started and no call is running.
LEMMA NotifyStep ==
  ASSUME ChainInv, Notify
  PROVE  ChainInv'
  <1>1. due' \in {due, 1}
    BY PublicationFacts DEF Notify, Unarmed
  <1>2. TypeOK'
    <2>1. timer' \in BOOLEAN
      BY Zenon DEF Notify, ChainInv, TypeOK
    <2> QED
      BY <1>1, <2>1, OneCallback DEF Notify, ChainInv, TypeOK
  <1>3. Running' = Running
    BY DEF Notify, Running
  <1>4. CASE viewers /\ Unarmed
    <2>1. due = 0 /\ Running = {}
      BY <1>4, PublicationFacts DEF Unarmed
    <2>2. timer' = TRUE /\ due' = 1 /\ Running' = {}
      BY <1>3, <1>4, <2>1 DEF Notify
    <2>3. Cardinality(Running') = 0
      BY <2>2, FS_EmptySet
    <2> QED
      BY <1>2, <2>2, <2>3 DEF ChainInv, OnePublication
  <1>5. CASE ~(viewers /\ Unarmed)
    BY <1>2, <1>3, <1>5, SameCount DEF Notify, ChainInv
  <1> QED
    BY <1>4, <1>5

\* A timer that fires becomes the one call that runs.
LEMMA FireStep ==
  ASSUME ChainInv, NEW c \in Callbacks, Fire(c)
  PROVE  ChainInv'
  <1>1. timer /\ due = 1 /\ Running = {}
    BY PublicationFacts DEF Fire
  <1>2. Running' = {c}
    BY <1>1 DEF Fire, Goto, Running, At, ChainInv, TypeOK
  <1>3. Cardinality(Running') = 1 
    <2>1. Running' \in SUBSET Callbacks
      BY <1>2
    <2> QED
      BY <1>2, <2>1, CountFacts
  <1>4. TypeOK'
    BY <1>1, OneCallback DEF Fire, Goto, At, ChainInv, TypeOK
  <1> QED
    BY <1>1, <1>3, <1>4 DEF Fire, ChainInv, OnePublication

\* A call that goes on stays the one that runs.
LEMMA WorkStep ==
  ASSUME ChainInv, NEW c \in Callbacks,
         Begin(c) \/ ReadStats(c) \/ ReadRates(c) \/ Broadcast(c)
  PROVE  ChainInv'
  <1>1. Running' = Running /\ UNCHANGED <<timer, due>>
    BY DEF Begin, ReadStats, ReadRates, Broadcast, At, Goto, Running, ChainInv, TypeOK
  <1>2. stored \in 0..MaxExports
    BY PublisherAssumption DEF ChainInv, TypeOK
  <1>3. TypeOK'
    <2>1. pub' \in [Callbacks -> [at : {"idle", "called", "leaving", "stats", "rates", "sources",
                                        "finish"},
                                  err : BOOLEAN, stats : 0..MaxExports, hot : BOOLEAN]]
      BY <1>2 DEF Begin, ReadStats, ReadRates, Broadcast, At, Goto, ChainInv, TypeOK
    <2>2. shown' \in Snapshot
      BY DEF Begin, ReadStats, ReadRates, Broadcast, Snapshot, ChainInv, TypeOK
    <2> QED
      BY <2>1, <2>2, PublisherAssumption
      DEF Begin, ReadStats, ReadRates, Broadcast, ChainInv, TypeOK
  <1> QED
    BY <1>1, <1>3, SameCount DEF ChainInv

\* A call that ends leaves none running, and perhaps its next timer.
LEMMA EndStep ==
  ASSUME ChainInv, NEW c \in Callbacks, LeaveEarly(c) \/ Finish(c)
  PROVE  ChainInv'
  <1>1. c \in Running
    BY DEF LeaveEarly, Finish, At, Running
  <1>2. due = 0 /\ Running = {c}
    BY <1>1, PublicationFacts
  <1>3. Running' = {}
    BY <1>2 DEF LeaveEarly, Finish, Running, Idle, ChainInv, TypeOK
  <1>4. Cardinality(Running') = 0
    BY <1>3, FS_EmptySet
  <1>5. \/ timer' = TRUE /\ due' = 1
        \/ timer' = FALSE /\ due' = 0
    <2>1. CASE LeaveEarly(c)
      BY <1>2, <2>1 DEF LeaveEarly
    <2>2. CASE Finish(c) /\ Rearms(pub[c])
      <3>1. timer' = TRUE
        BY <2>2, Zenon DEF Finish, Rearms
      <3>2. due' = due + 1
        BY <2>2 DEF Finish
      <3> QED
        BY <1>2, <3>1, <3>2
    <2>3. CASE Finish(c) /\ ~Rearms(pub[c])
      <3>1. timer' = FALSE
        BY <2>3, Zenon DEF Finish, Rearms
      <3>2. due' = due
        BY <2>3 DEF Finish
      <3> QED
        BY <1>2, <3>1, <3>2
    <2> QED
      BY <2>1, <2>2, <2>3
  <1>6. TypeOK'
    <2>1. timer' \in BOOLEAN
      BY <1>5
    <2>2. due' \in 0..Cardinality(Callbacks)
      BY <1>5, OneCallback
    <2>3. Idle \in [at : {"idle", "called", "leaving", "stats", "rates", "sources", "finish"},
                    err : BOOLEAN, stats : 0..MaxExports, hot : BOOLEAN]
      BY PublisherAssumption DEF Idle
    <2>4. pub' = [pub EXCEPT ![c] = Idle]
      BY DEF LeaveEarly, Finish
    <2> QED
      BY <2>1, <2>2, <2>3, <2>4 DEF LeaveEarly, Finish, ChainInv, TypeOK
  <1> QED
    BY <1>4, <1>5, <1>6 DEF ChainInv, OnePublication

-----------------------------------------------------------------------------
\* The store grows, and totals are read from it.
LEMMA TotalsStep ==
  ASSUME TypeOK, TotalsStored, [Next]_vars
  PROVE  TotalsStored'
  <1>1. /\ stored \in Int /\ received \in Int /\ stored <= received
        /\ shown \in Snapshot /\ shown.stats \in Int
        /\ \A c \in Callbacks : pub[c].stats \in Int
    BY PublisherAssumption DEF TypeOK, Snapshot
  <1>2. CASE Store
    <2>1. stored <= stored' /\ stored' \in Int /\ UNCHANGED <<pub, shown>>
      BY <1>1, <1>2 DEF Store
    <2> QED
      BY <1>1, <2>1 DEF TotalsStored
  <1>3. CASE Appear
    BY <1>1, <1>3 DEF Appear, TotalsStored
  <1>4. CASE Receive \/ Cool \/ Notify \/ Hide \/ UNCHANGED vars
    BY <1>4 DEF Receive, Cool, Notify, Hide, vars, TotalsStored
  <1>5. ASSUME NEW c \in Callbacks, Fire(c) \/ Begin(c) \/ ReadRates(c) PROVE TotalsStored'
    BY <1>5 DEF Fire, Begin, ReadRates, Goto, TypeOK, TotalsStored
  <1>6. ASSUME NEW c \in Callbacks, ReadStats(c) PROVE TotalsStored'
    BY <1>1, <1>6 DEF ReadStats, TypeOK, TotalsStored
  <1>7. ASSUME NEW c \in Callbacks, Broadcast(c) PROVE TotalsStored'
    BY <1>7 DEF Broadcast, Goto, TypeOK, TotalsStored
  <1>8. ASSUME NEW c \in Callbacks, LeaveEarly(c) \/ Finish(c) PROVE TotalsStored'
    <2>1. Idle.stats <= stored /\ UNCHANGED <<stored, shown>>
      BY <1>8, PublisherAssumption DEF LeaveEarly, Finish, Idle, TypeOK
    <2>2. \A d \in Callbacks : pub'[d].stats <= stored
      BY <1>8, <2>1 DEF LeaveEarly, Finish, TypeOK, TotalsStored
    <2> QED
      BY <2>1, <2>2 DEF TotalsStored
  <1> QED
    BY <1>2, <1>3, <1>4, <1>5, <1>6, <1>7, <1>8 DEF Next, Publish

-----------------------------------------------------------------------------
(* At most one timer or publication exists at a time, whatever exports,    *)
(* viewers and failing queries do meanwhile, and the totals it shows are   *)
(* those of exports that were stored (Publisher.Notify and publish).       *)
THEOREM OnePublisher == Spec => []PublisherInv
  <1>1. Init => ChainInv
    <2> SUFFICES ASSUME Init PROVE ChainInv
      OBVIOUS
    <2>1. Running = {}
      BY DEF Init, Idle, Running
    <2>2. Cardinality(Running) = 0
      BY <2>1, FS_EmptySet
    <2>3. hot \in BOOLEAN /\ viewers \in BOOLEAN /\ timer \in BOOLEAN
      BY Zenon DEF Init
    <2>4. 0 \in 0..Cardinality(Callbacks)
      BY OneCallback
    <2>5. shown \in Snapshot /\ Idle \in [at : {"idle"}, err : BOOLEAN, stats : 0..MaxExports,
                                          hot : BOOLEAN]
      BY PublisherAssumption DEF Init, Snapshot, Idle
    <2>6. TypeOK
      BY <2>3, <2>4, <2>5, PublisherAssumption DEF Init, TypeOK
    <2> QED
      BY <2>2, <2>6 DEF Init, ChainInv, OnePublication
  <1>2. ChainInv /\ [Next]_vars => ChainInv'
    <2> SUFFICES ASSUME ChainInv, [Next]_vars PROVE ChainInv'
      OBVIOUS
    <2>1. CASE Receive \/ Store \/ Cool \/ Hide \/ Appear
      BY <2>1, TrafficStep
    <2>2. CASE Notify
      BY <2>2, NotifyStep
    <2>3. ASSUME NEW c \in Callbacks, Publish(c) PROVE ChainInv'
      BY <2>3, FireStep, WorkStep, EndStep DEF Publish
    <2>4. CASE UNCHANGED vars
      BY <2>4 DEF vars, ChainInv, TypeOK, OnePublication, Running
    <2> QED
      BY <2>1, <2>2, <2>3, <2>4 DEF Next
  <1>3. Init => TotalsStored
    BY PublisherAssumption DEF Init, Idle, TotalsStored
  <1>4. ChainInv /\ TotalsStored /\ [Next]_vars => TotalsStored'
    BY TotalsStep DEF ChainInv
  <1>5. ChainInv /\ TotalsStored => PublisherInv
    BY DEF ChainInv, PublisherInv
  <1> QED
    BY <1>1, <1>2, <1>3, <1>4, <1>5, PTL DEF Spec
=============================================================================
