---------------------------- MODULE LivePublisher ----------------------------
(***************************************************************************)
(* The publisher of live footer snapshots, internal/live/publisher.go.     *)
(*                                                                         *)
(* An export is counted by the ring behind Throughput, stored by a flush   *)
(* and then notified.  Notify starts a coalescing timer unless p.timer is  *)
(* set; publish, the callback of the timer, reads the statistics, the      *)
(* rates and the sources one after the other, broadcasts them, and only    *)
(* then clears p.timer or, while the rates are not zero, sets it again.    *)
(*                                                                         *)
(* A snapshot is abstracted to the number of exports its statistics see    *)
(* and to whether its rates are above zero.                                *)
(***************************************************************************)
EXTENDS Integers, FiniteSets

CONSTANTS
    Callbacks,    \* identities for calls of publish that may overlap
    MaxExports,   \* bound: exports ingested
    MaxErrors,    \* bound: queries of publish that fail
    MaxAbsences   \* bound: times the last viewer goes away

ASSUME PublisherAssumption ==
    /\ IsFiniteSet(Callbacks) /\ Callbacks # {}
    /\ MaxExports \in Nat /\ MaxErrors \in Nat /\ MaxAbsences \in Nat

VARIABLES
    received,   \* exports counted by the throughput ring
    stored,     \* exports that are durable
    notified,   \* exports whose completion was notified
    hot,        \* the rates of the trailing window are above zero
    viewers,    \* Hub.HasViewers
    timer,      \* p.timer is not nil
    due,        \* timers that have been started and not yet fired
    pub,        \* pub[c]: the call of publish that callback c runs
    promised,   \* the last export whose Notify started a timer
    shown,      \* what the viewers know: the totals of the last snapshot, and
                \* whether its rates were published to them as above zero
    errors, absences

vars == <<received, stored, notified, hot, viewers, timer, due, pub,
          promised, shown, errors, absences>>

Snapshot == [stats : 0..MaxExports, hot : BOOLEAN]
Idle == [at |-> "idle", err |-> FALSE, stats |-> 0, hot |-> FALSE]
Running == {c \in Callbacks : pub[c].at # "idle"}

Init ==
    /\ received = 0 /\ stored = 0 /\ notified = 0 /\ hot = FALSE
    /\ viewers = FALSE
    /\ timer = FALSE /\ due = 0 /\ pub = [c \in Callbacks |-> Idle]
    /\ promised = 0 /\ shown = [stats |-> 0, hot |-> FALSE]
    /\ errors = 0 /\ absences = 0

(***************************************************************************)
(* Ingestion: the ring counts an export while it is executed, the flush    *)
(* makes it durable, and its deferred effects notify the publisher.        *)
(***************************************************************************)
Receive ==
    /\ received < MaxExports
    /\ received' = received + 1 /\ hot' = TRUE
    /\ UNCHANGED <<stored, notified, viewers, timer, due, pub, promised, shown,
                   errors, absences>>

Store ==
    /\ stored < received
    /\ stored' = received
    /\ UNCHANGED <<received, notified, hot, viewers, timer, due, pub, promised,
                   shown, errors, absences>>

\* The window of the ring has passed since the last export, which may still be
\* on its way, or in the statistics that a publication is reading.
Cool ==
    /\ hot
    /\ hot' = FALSE
    /\ UNCHANGED <<received, stored, notified, viewers, timer, due, pub,
                   promised, shown, errors, absences>>

UnarmedUnchecked == TRUE
Unarmed == ~timer

\* Notify of an export that is durable.
Notify ==
    /\ notified < stored
    /\ notified' = notified + 1
    /\ IF viewers /\ Unarmed
       THEN timer' = TRUE /\ due' = due + 1 /\ promised' = notified + 1
       ELSE UNCHANGED <<timer, due, promised>>
    /\ UNCHANGED <<received, stored, hot, viewers, pub, shown, errors, absences>>

(***************************************************************************)
(* publish.                                                                *)
(***************************************************************************)
At(c, step) == pub[c].at = step
Goto(c, step) == pub' = [pub EXCEPT ![c].at = step]

Fire(c) ==
    /\ due > 0 /\ At(c, "idle")
    /\ due' = due - 1 /\ Goto(c, "called")
    /\ UNCHANGED <<received, stored, notified, hot, viewers, timer, promised,
                   shown, errors, absences>>

BeginInverted(c) ==
    /\ At(c, "called")
    /\ Goto(c, IF viewers THEN "leaving" ELSE "stats")
    /\ UNCHANGED <<received, stored, notified, hot, viewers, timer, due,
                   promised, shown, errors, absences>>

\* The test of HasViewers at the start.
Begin(c) ==
    /\ At(c, "called")
    /\ Goto(c, IF viewers THEN "stats" ELSE "leaving")
    /\ UNCHANGED <<received, stored, notified, hot, viewers, timer, due,
                   promised, shown, errors, absences>>

\* Without viewers the timer is cleared and nothing is read.
LeaveEarly(c) ==
    /\ At(c, "leaving")
    /\ timer' = FALSE /\ pub' = [pub EXCEPT ![c] = Idle]
    /\ UNCHANGED <<received, stored, notified, hot, viewers, due, promised,
                   shown, errors, absences>>

\* GetStats: the snapshot's totals, or an error, which skips to the end.
ReadStats(c) ==
    /\ At(c, "stats")
    /\ \/ /\ pub' = [pub EXCEPT ![c].at = "rates", ![c].stats = stored]
          /\ UNCHANGED errors
       \/ /\ errors < MaxErrors /\ errors' = errors + 1
          /\ pub' = [pub EXCEPT ![c].at = "finish", ![c].err = TRUE]
    /\ UNCHANGED <<received, stored, notified, hot, viewers, timer, due,
                   promised, shown, absences>>

\* Throughput of the ring, and the drop counters.
ReadRates(c) ==
    /\ At(c, "rates")
    /\ pub' = [pub EXCEPT ![c].at = "sources", ![c].hot = hot]
    /\ UNCHANGED <<received, stored, notified, hot, viewers, timer, due,
                   promised, shown, errors, absences>>

\* GetSourceStats and the broadcast, which an error leaves out; the hub sends
\* the snapshot to visible clients only.
Broadcast(c) ==
    /\ At(c, "sources") /\ Goto(c, "finish")
    /\ \/ /\ shown' = IF viewers THEN [stats |-> pub[c].stats, hot |-> pub[c].hot]
                                 ELSE shown
          /\ UNCHANGED errors
       \/ /\ errors < MaxErrors /\ errors' = errors + 1
          /\ UNCHANGED shown
    /\ UNCHANGED <<received, stored, notified, hot, viewers, timer, due,
                   promised, absences>>

RearmsNever(p) == FALSE
Rearms(p) == ~p.err /\ p.hot

\* The end, under the lock: the timer is cleared, or set for a second later.
Finish(c) ==
    /\ At(c, "finish")
    /\ timer' = Rearms(pub[c])
    /\ due' = IF Rearms(pub[c]) THEN due + 1 ELSE due
    /\ pub' = [pub EXCEPT ![c] = Idle]
    /\ UNCHANGED <<received, stored, notified, hot, viewers, promised, shown,
                   errors, absences>>

(***************************************************************************)
(* Viewers: the last visible one hides or leaves, or one appears, which    *)
(* fetches totals of its own; its rates wait for the next publication.     *)
(***************************************************************************)
Hide ==
    /\ viewers /\ absences < MaxAbsences
    /\ viewers' = FALSE /\ absences' = absences + 1
    /\ UNCHANGED <<received, stored, notified, hot, timer, due, pub, promised,
                   shown, errors>>

Appear ==
    /\ ~viewers
    /\ viewers' = TRUE /\ shown' = [stats |-> stored, hot |-> FALSE]
    /\ UNCHANGED <<received, stored, notified, hot, timer, due, pub, promised,
                   errors, absences>>

Publish(c) ==
    \/ Fire(c) \/ Begin(c) \/ LeaveEarly(c) \/ ReadStats(c)
    \/ ReadRates(c) \/ Broadcast(c) \/ Finish(c)

Next ==
    \/ Receive \/ Store \/ Cool \/ Notify \/ Hide \/ Appear
    \/ \E c \in Callbacks : Publish(c)

Spec == Init /\ [][Next]_vars

\* Started exports complete, timers fire, queries return, and a window without
\* an export passes; nothing says that exports arrive or that viewers move.
FairSpec ==
    /\ Spec
    /\ WF_vars(Store) /\ WF_vars(Notify) /\ WF_vars(Cool)
    /\ \A c \in Callbacks : WF_vars(Publish(c))

-----------------------------------------------------------------------------
TypeOK ==
    /\ received \in 0..MaxExports /\ stored \in 0..received /\ notified \in 0..stored
    /\ promised \in 0..notified
    /\ hot \in BOOLEAN /\ viewers \in BOOLEAN /\ timer \in BOOLEAN
    /\ due \in 0..Cardinality(Callbacks)
    /\ pub \in [Callbacks -> [at : {"idle", "called", "leaving", "stats", "rates", "sources", "finish"},
                              err : BOOLEAN, stats : 0..MaxExports, hot : BOOLEAN]]
    /\ shown \in Snapshot
    /\ errors \in 0..MaxErrors /\ absences \in 0..MaxAbsences

(* There is one publisher at most: p.timer is set from the moment a timer  *)
(* is started until its callback has ended, so no second one can start and *)
(* the queries of two publications never run side by side.                 *)
OnePublication == due + Cardinality(Running) = IF timer THEN 1 ELSE 0

(* Totals are of exports that were stored: what a publication has read, or *)
(* a viewer is shown, never runs ahead of the store.                       *)
TotalsStored == shown.stats <= stored /\ \A c \in Callbacks : pub[c].stats <= stored

(* The publisher's state: one chain of timer and publication, its totals   *)
(* never ahead of the store (Publisher.timer).                             *)
PublisherInv == TypeOK /\ OnePublication /\ TotalsStored

(* A notification that starts a timer is shown: the viewers get totals     *)
(* that include its export, unless they go away or a query fails.          *)
AcceptedIsShown ==
    \A n \in 1..MaxExports :
        (promised = n) ~> (shown.stats >= n \/ ~viewers \/ errors > 0)

(* After traffic stops the publisher stops querying the database, and the  *)
(* indicator has returned to idle by then, unless a query has failed.      *)
ComesToRest == <>[](~timer /\ (shown.hot => ~viewers \/ errors > 0))

=============================================================================
