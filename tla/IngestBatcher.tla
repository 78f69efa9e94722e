--------------------------- MODULE IngestBatcher ---------------------------
(***************************************************************************)
(* The shared export coordinator of internal/ingestion/batch.go.           *)
(*                                                                         *)
(* Exporters (gRPC and HTTP handlers) submit work; one lazy goroutine, the *)
(* loop, collects it for a window, takes a group from the head of the      *)
(* queue, runs each member's callback, crosses one flush barrier for the   *)
(* whole group, runs the deferred effects and wakes the exporters.         *)
(* Exporters may cancel at any time and shutdown may begin at any time.    *)
(*                                                                         *)
(* One action is one critical section of ingestBatcher.mu, or one stretch  *)
(* of the loop's private work between two of them.  The storage behind the *)
(* flush barrier is reduced to its promise: a successful flush makes what  *)
(* the group appended durable, a failed one promises nothing.  Module      *)
(* IngestStorage puts the real one behind it.                              *)
(***************************************************************************)
EXTENDS Integers, Sequences, FiniteSets, SequencesExt

CONSTANTS
  Exports,          \* the exports that may be submitted, each once
  Rows,             \* Rows[w]: signal records left in w after filtering
  Bytes,            \* Bytes[w]: its protobuf size before filtering
  BatchRows,        \* batchRows: a group's target of records
  BatchBytes,       \* batchBytes: a group's target of payload
  MaxRequestBytes,  \* ingestion_max_request_mb
  RequestLimits,    \* the values Configure may give limitRequests ...
  ByteLimits,       \* ... and limitBytes
  Closers,          \* the callers of Close
  None              \* no export

ASSUME IngestConstants ==
  /\ IsFiniteSet(Exports)
  /\ Rows \in [Exports -> Nat]
  /\ Bytes \in [Exports -> Nat]
  /\ BatchRows \in Nat \ {0}
  /\ BatchBytes \in Nat \ {0}
  /\ MaxRequestBytes \in Nat
  /\ RequestLimits \subseteq Nat \ {0} /\ RequestLimits # {}
  /\ ByteLimits \subseteq Nat \ {0} /\ ByteLimits # {}
  /\ None \notin Exports

VARIABLES
  \* ingestBatcher
  pending,        \* the queue, oldest first
  requests,       \* admitted and unreleased exports ...
  bytes,          \* ... and their payload
  limitRequests, limitBytes,
  closed,
  wake,           \* the one-slot wake channel holds a token
  \* the loop goroutine and the locals of execute
  phase,          \* where it is; "off" stands for running = false
  timer,          \* the export whose deadline its timer waits for
  group,          \* the group being executed
  index,          \* the member of the group it is at
  writeErr,       \* the first error a callback of the group returned
  flushErr,       \* the group's shared error after the barrier
  \* batchWork
  started, finished, err,
  \* the exporters, shutdown, time and storage
  caller,         \* where each exporter is
  ctxDone,        \* the exports whose context is done
  aged,           \* the queued exports whose collection window is over
  closer,         \* where each caller of Close is
  appended,       \* exports of the group whose rows are in the appenders
  durable,        \* exports all of whose rows a flush has written
  published,      \* exports whose deferred effects have run
  arrivals        \* history: the exports in order of admission

queueVars  == <<pending, requests, bytes, closed, wake>>
limitVars  == <<limitRequests, limitBytes>>
loopVars   == <<phase, timer, group, index, writeErr, flushErr>>
workVars   == <<started, finished, err>>
callerVars == <<caller, ctxDone, closer, arrivals>>
storeVars  == <<appended, durable, published>>
vars == <<queueVars, limitVars, loopVars, workVars, callerVars, storeVars, aged>>

Phases  == {"off", "collect", "sleep", "pick", "check", "work", "flush", "complete", "release"}
Errors  == {"nil", "ctx", "write", "flush"}
Callers == {"idle", "waiting", "returned", "refused"}

TypeOK ==
  /\ pending \in Seq(Exports)
  /\ requests \in Nat
  /\ bytes \in Nat
  /\ limitRequests \in RequestLimits
  /\ limitBytes \in ByteLimits
  /\ closed \in BOOLEAN
  /\ wake \in BOOLEAN
  /\ phase \in Phases
  /\ timer \in Exports \cup {None}
  /\ group \in Seq(Exports)
  /\ index \in Nat \ {0}
  /\ writeErr \in {"nil", "write"}
  /\ flushErr \in {"nil", "write", "flush"}
  /\ started \subseteq Exports
  /\ finished \subseteq Exports
  /\ err \in [Exports -> Errors]
  /\ caller \in [Exports -> Callers]
  /\ ctxDone \subseteq Exports
  /\ aged \subseteq Exports
  /\ closer \in [Closers -> {"open", "draining", "drained", "gaveUp"}]
  /\ appended \subseteq Exports
  /\ durable \subseteq Exports
  /\ published \subseteq Exports
  /\ arrivals \in Seq(Exports)

Init ==
  /\ pending = <<>>
  /\ requests = 0
  /\ bytes = 0
  /\ limitRequests \in RequestLimits
  /\ limitBytes \in ByteLimits
  /\ closed = FALSE
  /\ wake = FALSE
  /\ phase = "off"
  /\ timer = None
  /\ group = <<>>
  /\ index = 1
  /\ writeErr = "nil"
  /\ flushErr = "nil"
  /\ started = {}
  /\ finished = {}
  /\ err = [w \in Exports |-> "nil"]
  /\ caller = [w \in Exports |-> "idle"]
  /\ ctxDone = {}
  /\ aged = {}
  /\ closer = [c \in Closers |-> "open"]
  /\ appended = {}
  /\ durable = {}
  /\ published = {}
  /\ arrivals = <<>>

-----------------------------------------------------------------------------
(* Sums and group formation.                                               *)

Total(f, s) == FoldLeft(LAMBDA acc, w : acc + f[w], 0, s)

\* The payload of a set of exports, as the number of its (export, byte) pairs.
Payload(S) == Cardinality(UNION {{w} \X (1..Bytes[w]) : w \in S})

\* A group that has reached a target takes no further member.
ReachesTarget(s) == Total(Rows, s) >= BatchRows \/ Total(Bytes, s) >= BatchBytes

WithinTarget(s) == Total(Rows, s) <= BatchRows /\ Total(Bytes, s) <= BatchBytes

\* The loop's scan of the queue can come as far as its n-th export.
CanTake(s, n) ==
  \A k \in 1..n : /\ k > 1 => WithinTarget(SubSeq(s, 1, k))
                  /\ k < n => ~ReachesTarget(SubSeq(s, 1, k))

IsGroup(s, n) ==
  /\ n \in 1..Len(s)
  /\ CanTake(s, n)
  /\ n < Len(s) => ~CanTake(s, n + 1)

\* Why the loop need not wait for the rest of the window.
ReadyEarly(n) ==
  \/ closed
  \/ ReachesTarget(SubSeq(pending, 1, n))
  \/ n < Len(pending)
  \/ requests >= limitRequests

Ready(n) == ReadyEarly(n) \/ Head(pending) \in aged

\* errors.Join, as far as "nil or not" and the first cause go.
JoinErr(first, second) == IF first # "nil" THEN first ELSE second

-----------------------------------------------------------------------------
(* Exporters.                                                              *)

\* enqueue has room for an export.
Fits(w) ==
  /\ ~closed
  /\ requests < limitRequests
  /\ Bytes[w] <= limitBytes - bytes

\* submit and enqueue: admission.
Submit(w) ==
  /\ caller[w] = "idle"
  /\ Bytes[w] <= MaxRequestBytes
  /\ Fits(w)
  /\ pending' = Append(pending, w)
  /\ requests' = requests + 1
  /\ bytes' = bytes + Bytes[w]
  /\ wake' = TRUE
  /\ phase' = IF phase = "off" THEN "collect" ELSE phase
  /\ caller' = [caller EXCEPT ![w] = "waiting"]
  /\ arrivals' = Append(arrivals, w)
  /\ UNCHANGED <<closed, limitVars, timer, group, index, writeErr, flushErr,
                 workVars, ctxDone, closer, storeVars, aged>>

\* submit and enqueue: too large, closed or busy.
Refuse(w) ==
  /\ caller[w] = "idle"
  /\ Bytes[w] > MaxRequestBytes \/ ~Fits(w)
  /\ caller' = [caller EXCEPT ![w] = "refused"]
  /\ UNCHANGED <<queueVars, limitVars, loopVars, workVars, ctxDone, closer,
                 arrivals, storeVars, aged>>

\* submit and enqueue: the context is done before the export is admitted.
RefuseDone(w) ==
  /\ caller[w] = "idle"
  /\ caller' = [caller EXCEPT ![w] = "refused"]
  /\ UNCHANGED <<queueVars, limitVars, loopVars, workVars, ctxDone, closer,
                 arrivals, storeVars, aged>>

\* The exporter's deadline passes or its connection goes away.
Cancel(w) ==
  /\ caller[w] = "waiting"
  /\ w \notin ctxDone \cup finished
  /\ ctxDone' = ctxDone \cup {w}
  /\ UNCHANGED <<queueVars, limitVars, loopVars, workVars, caller, closer,
                 arrivals, storeVars, aged>>

MayWithdrawAnyTime(w) ==   \* mutant: forgets that the loop owns started work
  caller[w] = "waiting" /\ w \in ctxDone /\ w \notin finished

\* wait, under the lock: the work is neither started nor finished.
MayWithdraw(w) ==
  caller[w] = "waiting" /\ w \in ctxDone /\ w \notin started /\ w \notin finished

SwapOut(s, i) ==   \* mutant: fills the gap with the newest export
  SubSeq([s EXCEPT ![i] = s[Len(s)]], 1, Len(s) - 1)

CutOut(s, i) == RemoveAt(s, i)

\* wait, ctx.Done branch, work not started: withdraw and release it.
Withdraw(w) ==
  /\ MayWithdraw(w)
  /\ IF w \in ToSet(pending)
     THEN \E i \in 1..Len(pending) : pending[i] = w /\ pending' = CutOut(pending, i)
     ELSE pending' = pending
  /\ err' = [err EXCEPT ![w] = "ctx"]
  /\ finished' = finished \cup {w}
  /\ requests' = requests - 1
  /\ bytes' = bytes - Bytes[w]
  /\ wake' = TRUE
  /\ aged' = aged \ {w}
  /\ UNCHANGED <<closed, limitVars, loopVars, started, callerVars, storeVars>>

\* wait: done is closed.  An exporter whose context ended after its work was
\* started also waits here: the loop owns the data.
Return(w) ==
  /\ caller[w] = "waiting"
  /\ w \in finished
  /\ caller' = [caller EXCEPT ![w] = "returned"]
  /\ ctxDone' = ctxDone \ {w}
  /\ UNCHANGED <<queueVars, limitVars, loopVars, workVars, closer, arrivals,
                 storeVars, aged>>

-----------------------------------------------------------------------------
(* Shutdown, settings and time.                                            *)

CloseSilently(c) ==   \* mutant: does not signal the loop
  /\ closer[c] = "open"
  /\ closed' = TRUE
  /\ closer' = [closer EXCEPT ![c] = IF phase = "off" THEN "drained" ELSE "draining"]
  /\ UNCHANGED <<pending, requests, bytes, wake, limitVars, loopVars, workVars,
                 caller, ctxDone, arrivals, storeVars, aged>>

Close(c) ==
  /\ closer[c] = "open"
  /\ closed' = TRUE
  /\ wake' = TRUE
  /\ closer' = [closer EXCEPT ![c] = IF phase = "off" THEN "drained" ELSE "draining"]
  /\ UNCHANGED <<pending, requests, bytes, limitVars, loopVars, workVars,
                 caller, ctxDone, arrivals, storeVars, aged>>

\* The loop that Close saw running has closed its idle channel.
CloseReturn(c) ==
  /\ closer[c] = "draining"
  /\ phase = "off"
  /\ closer' = [closer EXCEPT ![c] = "drained"]
  /\ UNCHANGED <<queueVars, limitVars, loopVars, workVars, caller, ctxDone,
                 arrivals, storeVars, aged>>

\* Close's own context ends first; accepted work stays with the loop.
CloseGiveUp(c) ==
  /\ closer[c] = "draining"
  /\ closer' = [closer EXCEPT ![c] = "gaveUp"]
  /\ UNCHANGED <<queueVars, limitVars, loopVars, workVars, caller, ctxDone,
                 arrivals, storeVars, aged>>

\* Pipeline.Configure: the limits change under the loop, without a token.
Configure ==
  /\ limitRequests' \in RequestLimits
  /\ limitBytes' \in ByteLimits
  /\ limitVars' # limitVars
  /\ UNCHANGED <<queueVars, loopVars, workVars, callerVars, storeVars, aged>>

\* Windows end in the order the exports were queued.
Elapse ==
  /\ \E i \in 1..Len(pending) :
       /\ pending[i] \notin aged
       /\ \A j \in 1..(i - 1) : pending[j] \in aged
       /\ aged' = aged \cup {pending[i]}
  /\ UNCHANGED <<queueVars, limitVars, loopVars, workVars, callerVars, storeVars>>

-----------------------------------------------------------------------------
(* The loop.                                                               *)

GoIdleAnyway ==   \* mutant: ends without looking at the queue
  /\ phase = "collect"
  /\ phase' = "off"
  /\ UNCHANGED <<queueVars, limitVars, timer, group, index, writeErr, flushErr,
                 workVars, callerVars, storeVars, aged>>

SpinIdle ==   \* mutant: keeps running on an empty queue
  /\ phase = "collect"
  /\ pending = <<>>
  /\ wake' = ~wake
  /\ UNCHANGED <<pending, requests, bytes, closed, limitVars, loopVars,
                 workVars, callerVars, storeVars, aged>>

\* Nothing is queued: running = false, close(idle), the goroutine ends.
GoIdle ==
  /\ phase = "collect"
  /\ pending = <<>>
  /\ phase' = "off"
  /\ UNCHANGED <<queueVars, limitVars, timer, group, index, writeErr, flushErr,
                 workVars, callerVars, storeVars, aged>>

\* The group may still grow: wait for the oldest deadline or a token.
Sleep ==
  /\ phase = "collect"
  /\ pending # <<>>
  /\ \E n \in 1..Len(pending) : IsGroup(pending, n) /\ ~Ready(n)
  /\ timer' = Head(pending)
  /\ phase' = "sleep"
  /\ UNCHANGED <<queueVars, limitVars, group, index, writeErr, flushErr,
                 workVars, callerVars, storeVars, aged>>

TimerFires ==
  /\ phase = "sleep"
  /\ \/ timer \in aged
     \/ timer \notin ToSet(pending)
  /\ phase' = "collect"
  /\ timer' = None
  /\ UNCHANGED <<queueVars, limitVars, group, index, writeErr, flushErr,
                 workVars, callerVars, storeVars, aged>>

WakeUp ==
  /\ phase = "sleep"
  /\ wake
  /\ wake' = FALSE
  /\ phase' = "collect"
  /\ timer' = None
  /\ UNCHANGED <<pending, requests, bytes, closed, limitVars, group, index,
                 writeErr, flushErr, workVars, callerVars, storeVars, aged>>

\* The queue behind its first n exports.
After(s, n) == SubSeq(s, n + 1, Len(s))

TakeGroup ==
  /\ phase = "collect"
  /\ pending # <<>>
  /\ \E n \in 1..Len(pending) :
       /\ IsGroup(pending, n)
       /\ Ready(n)
       /\ group' = SubSeq(pending, 1, n)
       /\ pending' = After(pending, n)
       /\ aged' = aged \ {pending[i] : i \in 1..n}
  /\ phase' = "pick"
  /\ UNCHANGED <<requests, bytes, closed, wake, limitVars, timer, index,
                 writeErr, flushErr, workVars, callerVars, storeVars>>

\* execute, locked: a member withdrawn after selection is passed over.
Skip ==
  /\ phase = "pick"
  /\ index <= Len(group)
  /\ group[index] \in finished
  /\ index' = index + 1
  /\ UNCHANGED <<queueVars, limitVars, phase, timer, group, writeErr, flushErr,
                 workVars, callerVars, storeVars, aged>>

\* execute, locked: from here the loop owns the exporter's data.
Start ==
  /\ phase = "pick"
  /\ index <= Len(group)
  /\ group[index] \notin finished
  /\ started' = started \cup {group[index]}
  /\ phase' = "check"
  /\ UNCHANGED <<queueVars, limitVars, timer, group, index, writeErr, flushErr,
                 finished, err, callerVars, storeVars, aged>>

\* execute: the context ended before the loop looked at it.
StartedLate ==
  /\ phase = "check"
  /\ group[index] \in ctxDone
  /\ err' = [err EXCEPT ![group[index]] = "ctx"]
  /\ index' = index + 1
  /\ phase' = "pick"
  /\ UNCHANGED <<queueVars, limitVars, timer, group, writeErr, flushErr,
                 started, finished, callerVars, storeVars, aged>>

\* execute: the context is alive, the callback is entered.
Enter ==
  /\ phase = "check"
  /\ group[index] \notin ctxDone
  /\ phase' = "work"
  /\ UNCHANGED <<queueVars, limitVars, timer, group, index, writeErr, flushErr,
                 workVars, callerVars, storeVars, aged>>

\* execute: the callback appends the export's rows, whatever becomes of the
\* exporter's context meanwhile.
RunAppends ==
  /\ phase = "work"
  /\ appended' = appended \cup {group[index]}
  /\ index' = index + 1
  /\ phase' = "pick"
  /\ UNCHANGED <<queueVars, limitVars, timer, group, writeErr, flushErr,
                 workVars, callerVars, durable, published, aged>>

\* execute: the callback fails (storage full, or an append error midway).
RunFails ==
  /\ phase = "work"
  /\ err' = [err EXCEPT ![group[index]] = "write"]
  /\ writeErr' = JoinErr(writeErr, "write")
  /\ index' = index + 1
  /\ phase' = "pick"
  /\ UNCHANGED <<queueVars, limitVars, timer, group, flushErr, started,
                 finished, callerVars, storeVars, aged>>

AllRun ==
  /\ phase = "pick"
  /\ index > Len(group)
  /\ phase' = "flush"
  /\ UNCHANGED <<queueVars, limitVars, timer, group, index, writeErr, flushErr,
                 workVars, callerVars, storeVars, aged>>

\* The barrier holds: everything the group appended is written.
FlushHolds ==
  /\ phase = "flush"
  /\ durable' = durable \cup appended
  /\ appended' = {}
  /\ flushErr' = writeErr
  /\ phase' = "complete"
  /\ UNCHANGED <<queueVars, limitVars, timer, group, index, writeErr, workVars,
                 callerVars, published, aged>>

FlushFailsQuietly ==   \* mutant: the barrier's own error is dropped
  /\ phase = "flush"
  /\ \E S \in SUBSET appended : durable' = durable \cup S
  /\ appended' = {}
  /\ flushErr' = writeErr
  /\ phase' = "complete"
  /\ UNCHANGED <<queueVars, limitVars, timer, group, index, writeErr, workVars,
                 callerVars, published, aged>>

\* The barrier fails: some exports may be complete on disk, none is promised.
FlushFails ==
  /\ phase = "flush"
  /\ \E S \in SUBSET appended : durable' = durable \cup S
  /\ appended' = {}
  /\ flushErr' = JoinErr(writeErr, "flush")
  /\ phase' = "complete"
  /\ UNCHANGED <<queueVars, limitVars, timer, group, index, writeErr, workVars,
                 callerVars, published, aged>>

Members == ToSet(group)

\* The group's members whose callback was reached: their stage is not nil.
Staged == Members \cap started

\* Every staged member takes the shared error; those without one publish
\* their broadcasts, lint and detectors and the group notifies live state.
Complete ==
  /\ phase = "complete"
  /\ err' = [w \in Exports |-> IF w \in Staged THEN JoinErr(err[w], flushErr) ELSE err[w]]
  /\ published' = published \cup {w \in Staged : err'[w] = "nil"}
  /\ phase' = "release"
  /\ UNCHANGED <<queueVars, limitVars, timer, group, index, writeErr, flushErr,
                 started, finished, callerVars, appended, durable, aged>>

ReleaseAll == Members   \* mutant: releases withdrawn members a second time

Unreleased == Members \ finished

Release ==
  /\ phase = "release"
  /\ finished' = finished \cup Unreleased
  /\ requests' = requests - Cardinality(Unreleased)
  /\ bytes' = bytes - Payload(Unreleased)
  /\ group' = <<>>
  /\ index' = 1
  /\ writeErr' = "nil"
  /\ flushErr' = "nil"
  /\ phase' = "collect"
  /\ UNCHANGED <<pending, closed, wake, limitVars, timer, started, err,
                 callerVars, storeVars, aged>>

-----------------------------------------------------------------------------

Loop ==
  \/ GoIdle \/ Sleep \/ TimerFires \/ WakeUp \/ TakeGroup
  \/ Skip \/ Start \/ StartedLate \/ Enter \/ RunAppends \/ RunFails \/ AllRun
  \/ FlushHolds \/ FlushFails \/ Complete \/ Release

Exporter(w) ==
  Submit(w) \/ Refuse(w) \/ RefuseDone(w) \/ Withdraw(w) \/ Return(w)

Next ==
  \/ Loop
  \/ \E w \in Exports : Exporter(w) \/ Cancel(w)
  \/ \E c \in Closers : Close(c) \/ CloseReturn(c) \/ CloseGiveUp(c)
  \/ Configure
  \/ Elapse

Spec == Init /\ [][Next]_vars

\* The Go scheduler runs a runnable goroutine eventually, callbacks and
\* flushes return, clocks advance.  Nobody is obliged to submit, cancel,
\* reconfigure, give up or shut down.
Fairness ==
  /\ WF_vars(Loop)
  /\ WF_vars(Elapse)
  /\ \A w \in Exports : WF_vars(Withdraw(w)) /\ WF_vars(Return(w))
  /\ \A c \in Closers : WF_vars(CloseReturn(c))

FairSpec == Spec /\ Fairness

-----------------------------------------------------------------------------
(* Correctness.                                                            *)

Admitted == {w \in Exports : caller[w] \in {"waiting", "returned"}}

Live == Admitted \ finished

Told(w, e) == caller[w] = "returned" /\ err[w] = e

\* Admission counts exactly the exports queued or executing, however
\* cancellation races selection, execution and the release of a group: none
\* is released twice or not at all (requests and bytes of ingestBatcher,
\* release called by both wait and execute).
CapacityAccounted ==
  /\ requests = Cardinality(Live)
  /\ bytes = Payload(Live)

\* An export is answered with success only if its rows are durable ("No
\* export is acknowledged before this barrier", execute).
SuccessIsDurable == \A w \in Exports : Told(w, "nil") => w \in durable

\* Deferred effects are seen only for durable rows whose exporter is not told
\* to retry (afterPersist, broadcast, notifyPersisted).
PublishedOnce == \A w \in published :
  /\ w \in durable
  /\ w \in finished => err[w] = "nil"

\* An export the loop has started cannot return to its exporter, which would
\* reuse the records the callback is reading, before the group is released
\* (wait: "Do not let cancellation return it to an exporter while still in
\* use").
LoopOwnsStarted ==
  \A w \in started \ finished : caller[w] = "waiting"

\* An export answered as cancelled stored nothing, even when it was already
\* selected into a group ("Cancellation removes work immediately until its
\* processing callback starts, including work already selected into a group").
CancelledStoresNothing ==
  \A w \in Exports : err[w] = "ctx" => w \notin appended \cup durable

\* Every unreleased export is in the queue or in the group being executed,
\* and in one place only.
LivePlaced ==
  /\ \A w \in Live : (w \in ToSet(pending)) # (w \in Members)
  /\ \A i, j \in 1..Len(pending) : i # j => pending[i] # pending[j]

\* Exports start in the order they were admitted: an export overtakes only
\* those that were withdrawn.
FirstComeFirstRun ==
  \A i, j \in 1..Len(arrivals) :
    i < j /\ arrivals[j] \in started => arrivals[i] \in started \cup finished

\* A group exceeds a target only when it is a single oversized export
\* (batchRows and batchBytes in loop).
GroupWithinTarget == Len(group) > 1 => WithinTarget(group)

\* The loop never sleeps on a group that need not wait unless a token is on
\* its way: enqueue, a withdrawal and Close all signal.
NoLostWakeup ==
  phase = "sleep" /\ ~wake /\ pending # <<>> =>
    \A n \in 1..Len(pending) : IsGroup(pending, n) => ~ReadyEarly(n)

\* Once a Close has returned without error nothing is executing or queued, so
\* storage can be closed behind it (main.go closes it next).
DrainedIsQuiet ==
  (\E c \in Closers : closer[c] = "drained") => phase = "off" /\ Live = {}

\* Nobody lets go of an export while another works on it: its exporter while
\* the loop runs it, the loop after its exporter left, shutdown before either.
ExecutionSafe == LoopOwnsStarted /\ CancelledStoresNothing /\ DrainedIsQuiet

\* Admission never takes the coordinator past its limits, executing exports
\* included ("These limits cover queued AND executing exports").
AdmissionWithinLimits ==
  [][requests' > requests => requests' <= limitRequests /\ bytes' <= limitBytes]_vars

\* Every admitted export is answered.
EveryExportAnswered == \A w \in Exports : caller[w] = "waiting" ~> caller[w] = "returned"

\* Close returns: once closed, the loop drains without new work keeping it.
CloseEnds == \A c \in Closers : closer[c] = "draining" ~> closer[c] \in {"drained", "gaveUp"}

-----------------------------------------------------------------------------
(* The inductive invariant behind the safety properties.                   *)

\* Where work is: queue and group hold distinct exports, queued ones are
\* untouched, and whatever is unreleased or started but unfinished is held.
PlaceInv ==
  /\ \A i, j \in 1..Len(pending) : i # j => pending[i] # pending[j]
  /\ \A i, j \in 1..Len(group) : i # j => group[i] # group[j]
  /\ \A w \in ToSet(pending) : w \in Live /\ w \notin started /\ w \notin Members
  /\ Live \subseteq ToSet(pending) \cup Members
  /\ Members \subseteq Admitted
  /\ started \subseteq finished \cup Members
  /\ finished \subseteq Admitted
  /\ \A w \in Exports : caller[w] = "returned" => w \in finished

\* How far the loop has come through its group.
LoopInv ==
  /\ phase \in {"off", "collect", "sleep"} => group = <<>>
  /\ phase = "off" => pending = <<>>
  /\ index <= Len(group) + 1
  /\ phase \in {"check", "work"} =>
       index <= Len(group) /\ group[index] \in started /\ err[group[index]] = "nil"
  /\ phase \in {"flush", "complete", "release"} => index = Len(group) + 1
  /\ \A i \in 1..Len(group) :
       /\ i < index => group[i] \in started \cup finished
       /\ i > index => group[i] \notin started
       /\ i = index /\ phase = "pick" => group[i] \notin started
       /\ group[i] \in started => group[i] \notin finished
  /\ \A w \in Exports : w \notin started \cup finished => err[w] = "nil"

\* What has been written, promised and shown.
StoreInv ==
  /\ appended \subseteq Staged
  /\ durable \subseteq started
  /\ phase \in {"check", "work"} => group[index] \notin appended \cup durable
  /\ phase \in {"complete", "release"} => appended = {}
  /\ phase \in {"pick", "check", "work", "flush"} =>
       \A i \in 1..Len(group) :
         i < index /\ group[i] \in started /\ err[group[i]] = "nil" => group[i] \in appended
  /\ phase = "complete" =>
       \A w \in Staged : err[w] = "nil" /\ flushErr = "nil" => w \in durable
  /\ phase = "release" => \A w \in Staged : err[w] = "nil" => w \in durable
  /\ \A w \in finished : err[w] = "nil" => w \in durable
  /\ \A w \in published :
       /\ w \in durable
       /\ err[w] = "nil"
       /\ w \in finished \/ (phase = "release" /\ w \in Staged)
  /\ CancelledStoresNothing

CloseInv == \A c \in Closers :
  /\ closer[c] # "open" => closed
  /\ closer[c] = "drained" => phase = "off"

\* Together with CapacityAccounted it is preserved by every step and implies
\* the properties above it (module IngestBatcherProofs).
IInv == TypeOK /\ PlaceInv /\ LoopInv /\ StoreInv /\ CloseInv

-----------------------------------------------------------------------------
(* The coordinator keeps the contract.                                     *)

\* What an export's exporter is told; done is closed when it is finished.
Verdict(w) ==
  CASE caller[w] = "idle"    -> "none"
    [] caller[w] = "refused" -> "error"
    [] caller[w] \in {"waiting", "returned"} ->
         IF w \notin finished THEN "pending" ELSE IF err[w] = "nil" THEN "ok" ELSE "error"

verdict == [w \in Exports |-> Verdict(w)]

Contract == INSTANCE ExportContract WITH answer <- verdict

\* The coordinator implements ExportContract, an export being answered when
\* its done channel is closed: refused or admitted once, answered once, with
\* success only for durable rows and with an error only for rows nobody was
\* shown (docs/ingestion-batching.md, "Admission and acknowledgments").
ImplementsContract == Contract!Spec

=============================================================================
