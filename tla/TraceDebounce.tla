--------------------------- MODULE TraceDebounce ---------------------------
(***************************************************************************)
(* What happens to the spans of a trace around and after the barrier       *)
(* (ingestion/pipeline.go, detector_queue.go, detector.go).  With tail     *)
(* sampling on, the ingest callback puts spans in a buffer per trace and   *)
(* session before its group is flushed.  Once the group has succeeded each *)
(* span re-arms a 500 ms timer of its trace; the timer that is not         *)
(* re-armed decides the buffered trace, or, without tail sampling, queues  *)
(* it for the detectors.  Two detector workers drain a coalescing queue    *)
(* and analyse a trace under a striped lock.                               *)
(*                                                                         *)
(* Actors: the executor, timer callbacks (a timer is named by the span     *)
(* that armed it) and detector workers.                                    *)
(***************************************************************************)
EXTENDS Integers, FiniteSets

CONSTANTS
  Exports,         \* exports of spans, each run once
  Spans,
  SpansOf,         \* the spans of an export, no two sharing one
  Keys,            \* detectorKey: a trace in a session
  KeyOf,           \* the key of a span
  StripeOf,        \* the detectorTraceLocks entry of a key
  Workers,         \* as many as maxConcurrentDetectors
  MaxBufferSpans,  \* maxBufferSpansPerTrace
  MaxReadErrors,   \* bound on failed reads of a trace
  None

ASSUME DebounceConstants ==
  /\ SpansOf \in [Exports -> SUBSET Spans]
  /\ \A d, e \in Exports : d # e => SpansOf[d] \cap SpansOf[e] = {}
  /\ KeyOf \in [Spans -> Keys]
  /\ IsFiniteSet(Spans) /\ IsFiniteSet(Workers)
  /\ MaxBufferSpans \in Nat /\ MaxReadErrors \in Nat
  /\ None \notin Spans \cup Keys
  /\ "off" \notin Keys /\ "free" \notin Keys

VARIABLES
  needsBuffer, \* the sampler buffers traces; fixed when it is created
  waiting,     \* exports not run
  todo,        \* spans of the running export not reached
  staged,      \* spans whose scheduleDetectors the current group has deferred
  spoiled,     \* a callback of the group failed
  toSchedule,  \* deferred effects still to run, after a successful barrier
  acked,       \* history: spans whose effects a successful group ran
  buffer,      \* traceBuffers: the spans buffered under a key
  timer,       \* the timer of a span
  debounce,    \* a key's timer, or None
  hand,        \* the entries a callback took out of the buffer
  appended,    \* spans in the appenders, not yet in their table
  stored, dropped,
  shown,       \* history: spans a callback broadcast after its flush
  pending,     \* detectorQueue.pending
  worker,      \* "off", "free", or the key it runs
  seen,        \* the stored spans a run has read; None before the read
  findings,    \* the spans a key's recorded findings are about
  missed       \* keys a run could not read

execVars == <<waiting, todo, staged, spoiled, toSchedule, acked>>
timerVars == <<timer, debounce>>
placeVars == <<appended, stored, dropped, shown>>
workVars == <<pending, worker>>
runVars == <<seen, findings, missed>>
vars == <<execVars, buffer, hand, timerVars, placeVars, workVars, runVars>>

Of(k) == {s \in Spans : KeyOf[s] = k}

TypeOK ==
  /\ needsBuffer \in BOOLEAN
  /\ waiting \subseteq Exports
  /\ todo \subseteq Spans /\ staged \subseteq Spans /\ toSchedule \subseteq staged
  /\ spoiled \in BOOLEAN
  /\ acked \subseteq Spans
  /\ buffer \in [Keys -> SUBSET Spans]
  /\ timer \in [Spans -> {"none", "ticking", "stopped", "fired", "passed", "deciding", "done"}]
  /\ debounce \in [Keys -> Spans \cup {None}]
  /\ hand \in [Spans -> SUBSET Spans]
  /\ appended \subseteq Spans /\ stored \subseteq Spans /\ dropped \subseteq Spans /\ shown \subseteq stored
  /\ pending \subseteq Keys
  /\ worker \in [Workers -> {"off", "free"} \cup Keys]
  /\ seen \in [Workers -> {None} \cup SUBSET Spans]
  /\ findings \in [Keys -> SUBSET Spans]
  /\ missed \subseteq Keys

Init ==
  /\ needsBuffer \in BOOLEAN
  /\ waiting = Exports
  /\ todo = {} /\ staged = {} /\ spoiled = FALSE /\ toSchedule = {} /\ acked = {}
  /\ buffer = [k \in Keys |-> {}]
  /\ timer = [s \in Spans |-> "none"]
  /\ debounce = [k \in Keys |-> None]
  /\ hand = [s \in Spans |-> {}]
  /\ appended = {} /\ stored = {} /\ dropped = {} /\ shown = {}
  /\ pending = {}
  /\ worker = [w \in Workers |-> "off"]
  /\ seen = [w \in Workers |-> None]
  /\ findings = [k \in Keys |-> {}]
  /\ missed = {}

-----------------------------------------------------------------------------
(* The executor.                                                           *)

Run(e) ==
  /\ e \in waiting /\ todo = {} /\ toSchedule = {}
  /\ waiting' = waiting \ {e}
  /\ todo' = SpansOf[e]
  /\ UNCHANGED <<staged, spoiled, toSchedule, acked, buffer, hand, timerVars, placeVars, workVars, runVars>>

\* bufferSpan keeps a span only below its cap.
FitsBuffer(s) == Cardinality(buffer[KeyOf[s]]) < MaxBufferSpans

\* bufferSpan, before the barrier; a full buffer drops the span, uncounted.
BufferSpan(s) ==
  /\ needsBuffer
  /\ s \in todo
  /\ todo' = todo \ {s}
  /\ staged' = staged \cup {s}
  /\ \/ FitsBuffer(s) /\ buffer' = [buffer EXCEPT ![KeyOf[s]] = @ \cup {s}] /\ UNCHANGED dropped
     \/ ~FitsBuffer(s) /\ dropped' = dropped \cup {s} /\ UNCHANGED buffer
  /\ UNCHANGED <<waiting, spoiled, toSchedule, acked, hand, timerVars, appended, stored, shown, workVars, runVars>>

\* Without tail sampling a span is appended, dropped by the rate, or fails its
\* export.
PassSpan(s) ==
  /\ ~needsBuffer
  /\ s \in todo
  /\ \/ /\ appended' = appended \cup {s} /\ staged' = staged \cup {s} /\ todo' = todo \ {s}
        /\ UNCHANGED <<dropped, spoiled>>
     \/ /\ dropped' = dropped \cup {s} /\ todo' = todo \ {s}
        /\ UNCHANGED <<appended, staged, spoiled>>
     \/ /\ todo' = {} /\ spoiled' = TRUE
        /\ UNCHANGED <<appended, dropped, staged>>
  /\ UNCHANGED <<waiting, toSchedule, acked, stored, shown, buffer, hand, timerVars, workVars, runVars>>

\* A threshold or interval flush stores what has been appended.
FlushEarly ==
  /\ appended # {}
  /\ stored' = stored \cup appended
  /\ appended' = {}
  /\ UNCHANGED <<execVars, buffer, hand, timerVars, dropped, shown, workVars, runVars>>

\* The barrier of the group succeeds, and releases its deferred effects.
Succeed ==
  /\ todo = {} /\ toSchedule = {} /\ staged # {} /\ ~spoiled
  /\ toSchedule' = staged
  /\ acked' = acked \cup staged
  /\ stored' = stored \cup appended
  /\ appended' = {}
  /\ UNCHANGED <<waiting, todo, staged, spoiled, buffer, hand, timerVars, dropped, shown, workVars, runVars>>

\* The barrier or a callback failed: some of the rows may be stored, and no
\* effect of the group runs.
Fail ==
  /\ todo = {} /\ toSchedule = {}
  /\ staged # {} \/ spoiled
  /\ \E A \in SUBSET appended : stored' = stored \cup A
  /\ appended' = {}
  /\ staged' = {} /\ spoiled' = FALSE
  /\ UNCHANGED <<waiting, todo, toSchedule, acked, buffer, hand, timerVars, dropped, shown, workVars, runVars>>

\* scheduleDetectors: stop the timer of the trace, if it has not fired, and
\* arm another.
Schedule(s) == LET old == debounce[KeyOf[s]] IN
  /\ s \in toSchedule
  /\ timer' = [u \in Spans |-> IF u = s THEN "ticking"
                 ELSE IF u = old /\ timer[u] = "ticking" THEN "stopped" ELSE timer[u]]
  /\ debounce' = [debounce EXCEPT ![KeyOf[s]] = s]
  /\ toSchedule' = toSchedule \ {s}
  /\ staged' = staged \ {s}
  /\ UNCHANGED <<waiting, todo, spoiled, acked, buffer, hand, placeVars, workVars, runVars>>

-----------------------------------------------------------------------------
(* Timer callbacks.                                                        *)

\* 500 ms have passed: the callback's goroutine starts.
Fire(s) ==
  /\ timer[s] = "ticking"
  /\ timer' = [timer EXCEPT ![s] = "fired"]
  /\ UNCHANGED <<execVars, buffer, hand, debounce, placeVars, workVars, runVars>>

CheckDeletesAnyway(s) ==   \* mutant: a superseded callback deletes the newer timer
  /\ timer[s] = "fired"
  /\ debounce' = [debounce EXCEPT ![KeyOf[s]] = None]
  /\ timer' = [timer EXCEPT ![s] = IF debounce[KeyOf[s]] = s THEN "passed" ELSE "done"]
  /\ UNCHANGED <<execVars, buffer, hand, placeVars, workVars, runVars>>

\* "A timer that has already fired must not delete or run a newer timer."
Check(s) ==
  /\ timer[s] = "fired"
  /\ IF debounce[KeyOf[s]] = s
       THEN /\ debounce' = [debounce EXCEPT ![KeyOf[s]] = None]
            /\ timer' = [timer EXCEPT ![s] = "passed"]
       ELSE timer' = [timer EXCEPT ![s] = "done"] /\ UNCHANGED debounce
  /\ UNCHANGED <<execVars, buffer, hand, placeVars, workVars, runVars>>

EnqueueUnlessBusy(k) ==   \* mutant: a key that finds the workers busy is dropped
  IF \E w \in Workers : worker[w] = "off"
    THEN /\ pending' = pending \cup {k}
         /\ \E w \in Workers : worker[w] = "off" /\ worker' = [worker EXCEPT ![w] = "free"]
    ELSE UNCHANGED workVars

\* detectorQueue.enqueue: remember the key, and start a worker if one is left.
Enqueue(k) ==
  /\ pending' = pending \cup {k}
  /\ IF \E w \in Workers : worker[w] = "off"
       THEN \E w \in Workers : worker[w] = "off" /\ worker' = [worker EXCEPT ![w] = "free"]
       ELSE UNCHANGED worker

\* The callback of a trace that is not buffered: scheduleDetectorRun.
QueueRun(s) ==
  /\ timer[s] = "passed" /\ ~needsBuffer
  /\ timer' = [timer EXCEPT ![s] = "done"]
  /\ Enqueue(KeyOf[s])
  /\ UNCHANGED <<execVars, buffer, hand, debounce, placeVars, runVars>>

TakeCopy(s) ==   \* mutant: Load in place of LoadAndDelete
  /\ timer[s] = "passed" /\ needsBuffer
  /\ hand' = [hand EXCEPT ![s] = buffer[KeyOf[s]]]
  /\ timer' = [timer EXCEPT ![s] = IF buffer[KeyOf[s]] = {} THEN "done" ELSE "deciding"]
  /\ UNCHANGED <<execVars, buffer, debounce, placeVars, workVars, runVars>>

\* flushBuffer takes the buffered trace out, if there is one.
TakeBuffer(s) ==
  /\ timer[s] = "passed" /\ needsBuffer
  /\ hand' = [hand EXCEPT ![s] = buffer[KeyOf[s]]]
  /\ buffer' = [buffer EXCEPT ![KeyOf[s]] = {}]
  /\ timer' = [timer EXCEPT ![s] = IF buffer[KeyOf[s]] = {} THEN "done" ELSE "deciding"]
  /\ UNCHANGED <<execVars, debounce, placeVars, workVars, runVars>>

Decided(s) ==
  /\ timer[s] = "deciding"
  /\ timer' = [timer EXCEPT ![s] = "done"]
  /\ hand' = [hand EXCEPT ![s] = {}]
  /\ UNCHANGED <<execVars, buffer, debounce, runVars>>

\* The sampler drops the trace.
Drop(s) ==
  /\ Decided(s)
  /\ dropped' = dropped \cup hand[s]
  /\ UNCHANGED <<appended, stored, shown, workVars>>

\* The sampler keeps it: the spans that reach their table are stored, the rest
\* is lost; unless the flush fails they are shown and the trace is queued for
\* the detectors.
Keep(s) == \E A \in SUBSET hand[s] :
  /\ Decided(s)
  /\ dropped' = dropped \cup (hand[s] \ A)
  /\ stored' = stored \cup A
  /\ \/ shown' = shown \cup A /\ IF A = {} THEN UNCHANGED workVars ELSE Enqueue(KeyOf[s])
     \/ UNCHANGED <<shown, workVars>>
  /\ UNCHANGED appended

-----------------------------------------------------------------------------
(* Detector workers.                                                       *)

\* A worker takes any pending key, or ends.
Pick(w) ==
  /\ worker[w] = "free"
  /\ IF pending = {} THEN worker' = [worker EXCEPT ![w] = "off"] /\ UNCHANGED pending
     ELSE \E k \in pending : pending' = pending \ {k} /\ worker' = [worker EXCEPT ![w] = k]
  /\ UNCHANGED <<execVars, buffer, hand, timerVars, placeVars, runVars>>

Busy(w) == worker[w] \in Keys /\ seen[w] # None

ReadUnlocked(w) ==   \* mutant: no lock around the run
  /\ worker[w] \in Keys /\ seen[w] = None
  /\ seen' = [seen EXCEPT ![w] = stored \cap Of(worker[w])]
  /\ UNCHANGED <<execVars, buffer, hand, timerVars, placeVars, workVars, findings, missed>>

\* runDetectors holds the stripe of its trace from the read to the last write.
Read(w) ==
  /\ worker[w] \in Keys /\ seen[w] = None
  /\ \A v \in Workers : Busy(v) => StripeOf[worker[v]] # StripeOf[worker[w]]
  /\ seen' = [seen EXCEPT ![w] = stored \cap Of(worker[w])]
  /\ UNCHANGED <<execVars, buffer, hand, timerVars, placeVars, workVars, findings, missed>>

\* The trace cannot be read: the run ends.
ReadFails(w) ==
  /\ worker[w] \in Keys /\ seen[w] = None
  /\ \A v \in Workers : Busy(v) => StripeOf[worker[v]] # StripeOf[worker[w]]
  /\ Cardinality(missed) < MaxReadErrors
  /\ missed' = missed \cup {worker[w]}
  /\ worker' = [worker EXCEPT ![w] = "free"]
  /\ UNCHANGED <<execVars, buffer, hand, timerVars, placeVars, pending, seen, findings>>

\* The findings of the run are written and the obsolete ones deleted.
Write(w) ==
  /\ Busy(w)
  /\ findings' = [findings EXCEPT ![worker[w]] = IF seen[w] = {} THEN @ ELSE seen[w]]
  /\ seen' = [seen EXCEPT ![w] = None]
  /\ worker' = [worker EXCEPT ![w] = "free"]
  /\ UNCHANGED <<execVars, buffer, hand, timerVars, placeVars, pending, missed>>

-----------------------------------------------------------------------------

Effects(s) == Schedule(s) \/ Fire(s) \/ Check(s) \/ QueueRun(s) \/ TakeBuffer(s) \/ Drop(s) \/ Keep(s)

Step ==
  \/ \E e \in Exports : Run(e)
  \/ \E s \in Spans : BufferSpan(s) \/ PassSpan(s)
  \/ FlushEarly \/ Succeed \/ Fail
  \/ \E s \in Spans : Effects(s)
  \/ \E w \in Workers : Pick(w) \/ Read(w) \/ ReadFails(w) \/ Write(w)

Next == Step /\ UNCHANGED needsBuffer

Spec == Init /\ [][Next]_<<vars, needsBuffer>>

\* Timers fire, and goroutines that can run do; the stripe locks are Go
\* mutexes, which no waiter waits for for ever.
FairSpec ==
  /\ Spec
  /\ \A s \in Spans : WF_vars(Effects(s))
  /\ \A w \in Workers : WF_vars(Pick(w)) /\ SF_vars(Read(w) \/ ReadFails(w)) /\ WF_vars(Write(w))

-----------------------------------------------------------------------------
(* Correctness.                                                            *)

\* A buffered span is in one place (bufferSpan, flushBuffer): the buffer of its trace, the hands of one
\* callback, or decided one way.
DecidedOnce ==
  /\ \A k \in Keys : buffer[k] \subseteq Of(k) \ (stored \cup dropped)
  /\ \A s \in Spans : hand[s] \cap (buffer[KeyOf[s]] \cup stored \cup dropped) = {}
  /\ \A s, u \in Spans : s # u => hand[s] \cap hand[u] = {}
  /\ stored \cap dropped = {}

\* A trace has one running timer, the one the debounce map holds, however its
\* callback and scheduleDetectors interleave.
OneTimer == \A s \in Spans : timer[s] = "ticking" => debounce[KeyOf[s]] = s

\* Between them: no span of the buffer is lost or decided twice, whichever of
\* several timers, callbacks and exports of its trace come first.
DebounceInv == TypeOK /\ DecidedOnce /\ OneTimer

\* Two runs of a trace do not overlap, so no run replaces a trace's findings by
\* those of an older read (detectorTraceLocks).
FindingsNeverRegress ==
  [][\A k \in Keys : findings[k] \subseteq findings'[k]]_vars

\* The spans of an acknowledged export do not stay in the buffer: some timer
\* callback decides them.
AckedAreDecided == \A s \in Spans : (s \in acked) ~> (s \in stored \cup dropped)

\* A span that was stored and acknowledged, and shown if it was sampled by
\* trace, is in its trace's findings, unless a read failed.
StoredAreAnalysed ==
  \A s \in Spans :
    (s \in acked \cap stored /\ (needsBuffer => s \in shown))
      ~> (s \in findings[KeyOf[s]] \/ KeyOf[s] \in missed)

=============================================================================
