----------------------------- MODULE StorageGuard -----------------------------
(***************************************************************************)
(* The storage guard of cmd/spaniel/retention.go: every five seconds one   *)
(* pass either checkpoints a large WAL or compares the file size with the  *)
(* policy, pauses or resumes ingestion, and prunes.  The settings API      *)
(* replaces the policy, ingestion grows the file and may report a full     *)
(* disk, and an operator may prune or clear by hand, all while a pass is   *)
(* running: an update in the middle of a pass meets the cap the pass read  *)
(* before, and the latches it is about to write.                           *)
(*                                                                         *)
(* The policy's fields are separate atomics.  A pass is split where it     *)
(* waits (the prune, the checkpoint) and between its read of the cap and   *)
(* the rest; an update is split between its values and its latches.        *)
(* PrunePhysical is abstracted to its outcomes.                            *)
(***************************************************************************)
EXTENDS Integers

CONSTANTS
    Caps,            \* caps of the policy; 0 stands for no cap
    Sizes,           \* sizes of the database file and its WAL
    MaxUpdates,      \* bound: updates of the policy
    MaxGrowth,       \* bound: steps of ingestion
    MaxNoSpace,      \* bound: writes that fail for lack of space
    MaxOperated      \* bound: prunes and deletions of all data by the settings API

ASSUME GuardAssumption ==
    /\ Caps \subseteq Nat /\ Caps # {}
    /\ Sizes \subseteq Nat /\ Sizes # {}
    /\ MaxUpdates \in Nat /\ MaxGrowth \in Nat /\ MaxNoSpace \in Nat
    /\ MaxOperated \in Nat

VARIABLES
    cap, auto,               \* policy.maxBytes, policy.autoPrune
    pruning, recovering,     \* the latches of the policy
    cooling,                 \* now is before policy.nextPruneAfter
    backoff,                 \* store.RetentionBackingOff
    full,                    \* store.Full: ingestion is paused
    size, wal,               \* the file's size; the WAL has reached its threshold
    guard,                   \* the pass: place, cap it read, error of the prune
    update,                  \* an update has stored its values, not yet the latches
    manual,                  \* cap of the operator's prune that is running, or -1
    reason,                  \* history: why ingestion is paused
    crossed,                 \* history: high water was measured since low water was
    judged,                  \* history: a pass begun under this policy has ended
    raced,                   \* history: the latest update met a pass, whose latches may remain
    updates, growth, noSpace, operated

policy == <<cap, auto, pruning, recovering, cooling, update>>
history == <<reason, crossed, judged, raced>>
bounds == <<updates, growth, noSpace, operated>>
vars == <<policy, backoff, full, size, wal, guard, manual, history, bounds>>

NoManual == -1
Waiting == [at |-> "wait", cap |-> 0, err |-> "nil", fresh |-> TRUE]

-----------------------------------------------------------------------------
(* Thresholds: 80 and 70 per cent in whole bytes, corrected for tiny caps. *)
High(c) == IF (c * 80) \div 100 <= 0 THEN c ELSE (c * 80) \div 100
Low(c) == LET target == (c * 70) \div 100
          IN  IF target \notin 1..(High(c) - 1) THEN High(c) - 1 ELSE target

AtCap(c, s) == c > 0 /\ s >= c

Init ==
    /\ cap \in Caps /\ auto \in BOOLEAN
    /\ pruning = FALSE /\ recovering = FALSE /\ cooling = FALSE /\ update = FALSE
    /\ backoff = FALSE /\ full = FALSE
    /\ size \in Sizes /\ wal = FALSE
    /\ guard = Waiting /\ manual = NoManual
    /\ reason = "none" /\ crossed = FALSE /\ judged = FALSE /\ raced = FALSE
    /\ updates = 0 /\ growth = 0 /\ noSpace = 0 /\ operated = 0

\* SetFull(f), with the reason for it that this step has seen.
SetFull(f, why) ==
    /\ full' = f
    /\ reason' = IF ~f THEN "none" ELSE IF reason = "none" \/ why = "cap" THEN why ELSE reason

\* The end of a pass.
Rest == guard' = Waiting /\ judged' = (judged \/ guard.fresh)

\* What a pass measures counts as a reason under the policy it began with.
Measured(c, s) == IF guard.fresh /\ AtCap(c, s) THEN "cap" ELSE "none"
Filled(c, s) == IF guard.fresh /\ AtCap(c, s) THEN "filled" ELSE "none"

-----------------------------------------------------------------------------
(* checkStorageWAL.                                                        *)
EvictionFirstNever == FALSE
EvictionFirst ==
    /\ cap > 0 /\ auto /\ ~backoff
    /\ \/ size >= (cap * 80) \div 100
       \/ pruning /\ size > (cap * 70) \div 100

\* A pass begins; one that begins in the middle of an update races with it.
Begins == guard.at = "wait" /\ raced' = (raced \/ update)

\* The WAL is small, or high water gives eviction priority over it.
SkipCheckpoint ==
    /\ Begins /\ (~wal \/ EvictionFirst)
    /\ guard' = [Waiting EXCEPT !.at = "check", !.fresh = ~update]
    /\ UNCHANGED <<policy, backoff, full, size, wal, manual, reason, crossed, judged, bounds>>

StartCheckpoint ==
    /\ Begins /\ wal /\ ~EvictionFirst
    /\ guard' = [Waiting EXCEPT !.at = "checkpoint", !.cap = cap, !.fresh = ~update]
    /\ SetFull(recovering \/ AtCap(cap, size), Filled(cap, size))
    /\ UNCHANGED <<policy, backoff, size, wal, manual, crossed, judged, bounds>>

PausedAfterCheckpointForgetful(failed, s) == failed \/ AtCap(guard.cap, s)
PausedAfterCheckpoint(failed, s) == failed \/ recovering \/ AtCap(guard.cap, s)

\* The checkpoint returns with or without an error that counts as a failure.
CheckpointReturns(failed, s) ==
    /\ guard.at = "checkpoint"
    /\ size' = s
    /\ SetFull(PausedAfterCheckpoint(failed, s),
               IF failed THEN "failure" ELSE Filled(guard.cap, s))
    /\ Rest
    /\ UNCHANGED <<policy, backoff, manual, crossed, raced, updates, growth, operated>>

\* It has emptied the WAL, which ingestion, unless it is paused, may have
\* filled again by the next pass.
CheckpointDone ==
    /\ \E s \in {t \in Sizes : t <= size} : CheckpointReturns(FALSE, s)
    /\ wal' \in {FALSE, ~full'} /\ noSpace' = noSpace

\* It leaves the WAL as it was: out of its budget before it began, which does
\* not count as a failure, or failed.
CheckpointTimesOut == CheckpointReturns(FALSE, size) /\ UNCHANGED <<wal, noSpace>>
CheckpointFails ==
    /\ noSpace < MaxNoSpace /\ noSpace' = noSpace + 1
    /\ CheckpointReturns(TRUE, size) /\ wal' = wal

EndCheckpoint == CheckpointDone \/ CheckpointTimesOut \/ CheckpointFails

-----------------------------------------------------------------------------
(* checkStorageGuard.                                                      *)
CheckUncapped ==
    /\ guard.at = "check" /\ cap = 0
    /\ SetFull(FALSE, "none") /\ Rest
    /\ UNCHANGED <<policy, backoff, size, wal, manual, crossed, raced, bounds>>

CheckCap ==
    /\ guard.at = "check" /\ cap > 0
    /\ guard' = [guard EXCEPT !.at = "decide", !.cap = cap]
    /\ UNCHANGED <<policy, backoff, full, size, wal, manual, history, bounds>>

\* Preserve mode: full exactly when the cap is reached.
Preserve ==
    /\ guard.at = "decide" /\ ~auto
    /\ SetFull(size >= guard.cap, Measured(guard.cap, size)) /\ Rest
    /\ UNCHANGED <<policy, backoff, size, wal, manual, crossed, raced, bounds>>

\* At low water the cycle is over, and with it what an update's race has left.
Settles == raced' = (raced /\ ~guard.fresh)

LowWater ==
    /\ guard.at = "decide" /\ auto /\ size <= Low(guard.cap)
    /\ pruning' = FALSE /\ recovering' = FALSE /\ crossed' = FALSE
    /\ SetFull(FALSE, "none") /\ Rest /\ Settles
    /\ UNCHANGED <<cap, auto, cooling, update, backoff, size, wal, manual, bounds>>

\* Between the waters without a cycle, or in its cooldown, nothing is pruned.
BetweenWaters ==
    /\ guard.at = "decide" /\ auto /\ size > Low(guard.cap)
    /\ pruning' = (pruning \/ size >= High(guard.cap))
    /\ crossed' = (crossed \/ size >= High(guard.cap))
    /\ recovering' = (recovering \/ (pruning' /\ size >= guard.cap))
    /\ ~pruning' \/ (~recovering' /\ cooling)
    /\ SetFull(FALSE, "none") /\ Rest
    /\ UNCHANGED <<cap, auto, cooling, update, backoff, size, wal, manual, raced, bounds>>

\* A phase of pruning starts; only an emergency pauses ingestion for it.
StartPrune ==
    /\ guard.at = "decide" /\ auto /\ size > Low(guard.cap)
    /\ pruning' = (pruning \/ size >= High(guard.cap)) /\ pruning'
    /\ crossed' = (crossed \/ size >= High(guard.cap))
    /\ recovering' = (recovering \/ size >= guard.cap)
    /\ recovering' \/ ~cooling
    /\ SetFull(recovering', Measured(guard.cap, size))
    /\ guard' = [guard EXCEPT !.at = "prune"]
    /\ UNCHANGED <<cap, auto, cooling, update, backoff, size, wal, manual, judged, raced, bounds>>

(***************************************************************************)
(* PrunePhysical under a budget: at the target already, or after one copy  *)
(* that may or may not have reached it, it returns nil; backing off, on a  *)
(* floor, or out of time it returns ErrRetentionTargetUnreached ("soft"),  *)
(* which starts a backoff; anything else is a failure ("hard").            *)
(***************************************************************************)
Pruned(err, s) ==
    /\ guard.at = "prune"
    /\ size' = s /\ guard' = [guard EXCEPT !.at = "conclude", !.err = err]
    /\ UNCHANGED <<policy, full, manual, history>>

PruneFrees ==
    /\ \E s \in Sizes : s <= Low(guard.cap) /\ s <= size /\ Pruned("nil", s)
    /\ ~backoff \/ size <= Low(guard.cap)
    /\ wal' = FALSE
    /\ UNCHANGED <<backoff, bounds>>

PruneShort ==
    /\ ~backoff
    /\ \E s \in Sizes : s > Low(guard.cap) /\ s <= size /\ Pruned("nil", s)
    /\ UNCHANGED <<backoff, wal, bounds>>

PruneUnreached ==
    /\ size > Low(guard.cap)
    /\ \E s \in Sizes : s <= size /\ (backoff => s = size) /\ Pruned("soft", s)
    /\ backoff' = TRUE
    /\ UNCHANGED <<wal, bounds>>

PruneFails ==
    /\ ~backoff /\ noSpace < MaxNoSpace /\ noSpace' = noSpace + 1
    /\ Pruned("hard", size)
    /\ UNCHANGED <<backoff, wal, updates, growth, operated>>

\* The latches after the prune, from the size after it.
ReleasedNever == FALSE
Released == guard.err = "soft" /\ size < High(guard.cap)
RecoveringAfter ==
    /\ size > Low(guard.cap)
    /\ ~Released
    /\ \/ recovering
       \/ size >= guard.cap
       \/ guard.err = "hard"

Conclude ==
    /\ guard.at = "conclude"
    /\ recovering' = RecoveringAfter
    /\ pruning' = (pruning /\ size > Low(guard.cap))
    /\ crossed' = (crossed /\ size > Low(guard.cap))
    /\ cooling' = (cooling \/ (~recovering' /\ size > Low(guard.cap)))
    /\ IF guard.err = "hard" /\ ~recovering'
       THEN full' = TRUE /\ reason' = "failure"
       ELSE SetFull(recovering', IF guard.err = "hard" THEN "failure"
                                                      ELSE Measured(guard.cap, size))
    /\ Rest
    /\ IF size <= Low(guard.cap) THEN Settles ELSE UNCHANGED raced
    /\ UNCHANGED <<cap, auto, update, backoff, size, wal, manual, bounds>>

-----------------------------------------------------------------------------

(* storageGuardPolicy.Update, called by the settings API.                  *)
UpdateValues(c, a) ==
    /\ updates < MaxUpdates /\ ~update
    /\ cap' = c /\ auto' = a /\ update' = TRUE /\ updates' = updates + 1
    /\ reason' = "none" /\ judged' = FALSE /\ raced' = (guard.at # "wait")
    /\ guard' = [guard EXCEPT !.fresh = FALSE]
    /\ UNCHANGED <<pruning, recovering, cooling, backoff, full, size, wal, manual,
                   crossed, growth, noSpace, operated>>

UpdateLatchesKept ==
    /\ update /\ update' = FALSE
    /\ cooling' = FALSE /\ crossed' = FALSE
    /\ guard' = [guard EXCEPT !.fresh = (guard.at = "wait")]
    /\ UNCHANGED <<cap, auto, pruning, recovering, backoff, full, size, wal, manual, reason, judged, raced, bounds>>

UpdateLatches ==
    /\ update /\ update' = FALSE
    /\ cooling' = FALSE /\ pruning' = FALSE /\ recovering' = FALSE /\ crossed' = FALSE
    /\ guard' = [guard EXCEPT !.fresh = (guard.at = "wait")]
    /\ UNCHANGED <<cap, auto, backoff, full, size, wal, manual, reason, judged, raced, bounds>>

\* The operator's prune: it reads the configured cap, runs without a budget,
\* and lifts the pause when the file is below the cap.
StartManual ==
    /\ manual = NoManual /\ operated < MaxOperated /\ operated' = operated + 1
    /\ manual' = cap
    /\ UNCHANGED <<policy, backoff, full, size, wal, guard, history, updates, growth, noSpace>>

ManualReturns(s) ==
    /\ manual # NoManual /\ manual' = NoManual
    /\ size' = s /\ wal' \in {wal, FALSE}
    /\ UNCHANGED <<policy, backoff, guard, history, bounds>>

ManualSucceeds ==
    \E s \in {t \in Sizes : t <= size} :
        /\ manual > 0 => s <= manual
        /\ full' = (full /\ ~(manual > 0 /\ s < manual))
        /\ ManualReturns(s)

\* On an error, after batches that freed some space or none, the pause stays.
ManualFails == full' = full /\ \E s \in {t \in Sizes : t <= size} : ManualReturns(s)

EndManual == ManualSucceeds \/ ManualFails

\* Deleting all sessions or resetting the database lifts the pause, if it does
\* not fail half way; neither ends the guard's cycle, which may pause again for
\* the reason it had.
Clear ==
    /\ operated < MaxOperated /\ operated' = operated + 1
    /\ \E s \in {t \in Sizes : t <= size} : size' = s
    /\ full' \in {FALSE, full}
    /\ UNCHANGED <<policy, backoff, wal, guard, manual, history, updates, growth, noSpace>>

-----------------------------------------------------------------------------
(* Ingestion.  Exports admitted before a pause and the process's own       *)
(* telemetry are stored during it too.                                     *)
Grow ==
    /\ growth < MaxGrowth /\ growth' = growth + 1
    /\ \E s \in {t \in Sizes : t > size} : size' = s
    /\ wal' \in {wal, TRUE}
    /\ UNCHANGED <<policy, backoff, full, guard, manual, history, updates, noSpace, operated>>

\* classifyFlush: a write failed for lack of space.
NoSpace ==
    /\ noSpace < MaxNoSpace /\ noSpace' = noSpace + 1
    /\ SetFull(TRUE, "failure")
    /\ UNCHANGED <<policy, backoff, size, wal, guard, manual, crossed, judged, raced, updates, growth, operated>>

CooldownEnds ==
    /\ cooling /\ cooling' = FALSE
    /\ UNCHANGED <<cap, auto, pruning, recovering, update, backoff, full, size, wal,
                   guard, manual, history, bounds>>

BackoffEnds ==
    /\ backoff /\ backoff' = FALSE
    /\ UNCHANGED <<policy, full, size, wal, guard, manual, history, bounds>>

Prune == PruneFrees \/ PruneShort \/ PruneUnreached \/ PruneFails

Pass ==
    \/ SkipCheckpoint \/ StartCheckpoint \/ EndCheckpoint
    \/ CheckUncapped \/ CheckCap \/ Preserve \/ LowWater \/ BetweenWaters
    \/ StartPrune \/ Prune \/ Conclude

Next ==
    \/ Pass
    \/ \E c \in Caps, a \in BOOLEAN : UpdateValues(c, a)
    \/ UpdateLatches \/ StartManual \/ EndManual \/ Clear
    \/ Grow \/ NoSpace \/ CooldownEnds \/ BackoffEnds

Spec == Init /\ [][Next]_vars

\* A prune that leaves the file below high water: at its target, or stopped
\* for safety above it.
GetsBelowHigh == PruneFrees \/ (PruneUnreached /\ size' < High(guard.cap))

\* Passes go on and end, updates complete, deadlines pass; of checkpoints, and
\* of prunes, that are tried again and again one succeeds at some time, a prune
\* in the weakest sense: below high water.
FairSpec ==
    /\ Spec
    /\ WF_vars(Pass) /\ WF_vars(UpdateLatches)
    /\ WF_vars(CooldownEnds) /\ WF_vars(BackoffEnds)
    /\ SF_vars(CheckpointDone) /\ SF_vars(GetsBelowHigh)

-----------------------------------------------------------------------------
TypeOK ==
    /\ cap \in Caps /\ auto \in BOOLEAN
    /\ pruning \in BOOLEAN /\ recovering \in BOOLEAN /\ cooling \in BOOLEAN
    /\ update \in BOOLEAN /\ backoff \in BOOLEAN /\ full \in BOOLEAN
    /\ size \in Sizes /\ wal \in BOOLEAN
    /\ guard \in [at : {"wait", "check", "checkpoint", "decide", "prune", "conclude"},
                  cap : Caps \cup {0}, err : {"nil", "soft", "hard"}, fresh : BOOLEAN]
    /\ manual \in Caps \cup {NoManual}
    /\ reason \in {"none", "cap", "filled", "failure"}
    /\ crossed \in BOOLEAN /\ judged \in BOOLEAN /\ raced \in BOOLEAN
    /\ updates \in 0..MaxUpdates /\ growth \in 0..MaxGrowth
    /\ noSpace \in 0..MaxNoSpace /\ operated \in 0..MaxOperated

(* Once a pass has found the cap reached with pruning on, the guard        *)
(* resumes ingestion only at low water, or at a safety stop below high     *)
(* water: neither a phase that ended below the cap nor a WAL checkpoint    *)
(* reopens it early.  An operator's prune or deletion may, and so may an   *)
(* update that met a running pass, until the next low water.               *)
RecoveryStaysPaused ==
    [][auto /\ ~raced /\ reason = "cap" /\ full /\ ~full' =>
          \/ size' <= Low(cap)
          \/ guard.at = "conclude" /\ guard.err = "soft" /\ size' < High(cap)
          \/ manual' # manual \/ operated' # operated]_vars

(* Between passes, and once a pass has seen the current policy, ingestion  *)
(* is paused only because the cap was reached or the storage failed, never *)
(* because a latch of an earlier policy or cycle was left behind.  The     *)
(* latches of a pass that an update met are gone at the next low water.    *)
PausedForAReason ==
    guard.at = "wait" /\ judged /\ ~update /\ ~raced /\ full => reason # "none"

(* Live telemetry is pruned only in a cycle that began at high water: a    *)
(* file that hovers between the waters is left alone, unless an update met *)
(* the pass and replaced the cap under it.                                 *)
PrunesInACycle == guard.at \in {"prune", "conclude"} /\ ~raced => crossed

(* The guard's state between and within passes: no pause without a reason, *)
(* no prune without high water.                                            *)
GuardInv == TypeOK /\ PausedForAReason /\ PrunesInACycle

(* With pruning on, ingestion does not stay paused for ever, whatever      *)
(* phases stop short, back off, fail or sit on a floor below high water,   *)
(* whatever checkpoints fail on the way, and whichever pass an update met. *)
IngestionResumes == <>[](auto /\ cap > 0) => []<>(~full)

(* At high water pruning starts at last: a WAL that fills again before     *)
(* every pass cannot starve reclamation.                                   *)
ReclamationStarts ==
    auto /\ cap > 0 /\ size >= High(cap) ~>
        guard.at = "prune" \/ ~auto \/ cap = 0 \/ size < High(cap)
=============================================================================
