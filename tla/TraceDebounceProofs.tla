-------------------------- MODULE TraceDebounceProofs --------------------------
(***************************************************************************)
(* DebounceInv and FindingsNeverRegress for any exports, spans, traces,     *)
(* stripes of locks and workers, and any size of the buffer.                *)
(*                                                                          *)
(* That a span is decided once needs to know that a span the executor has   *)
(* not reached is nowhere yet (NotYetPlaced) and which places are used with *)
(* and without a buffer (OnePlace).  That findings grow needs to know what  *)
(* a run has read: everything the findings of its trace are about, until    *)
(* its write, because no other run has a lock of the same stripe (RunInv).  *)
(***************************************************************************)
EXTENDS TraceDebounce, FiniteSetTheorems, TLAPS

\* The span is in no appender, table, buffer or callback.
Nowhere(s) ==
  /\ s \notin appended /\ s \notin stored /\ s \notin dropped
  /\ \A k \in Keys : s \notin buffer[k]
  /\ \A u \in Spans : s \notin hand[u]

NotYetPlaced ==
  /\ \A s \in todo : Nowhere(s)
  /\ \A e \in waiting : \A s \in SpansOf[e] : s \notin todo /\ Nowhere(s)

OnePlace ==
  /\ appended \cap (stored \cup dropped) = {}
  /\ needsBuffer => appended = {}
  /\ ~needsBuffer => (\A k \in Keys : buffer[k] = {}) /\ (\A s \in Spans : hand[s] = {})
  /\ \A s \in Spans : hand[s] \subseteq Of(KeyOf[s])

PlaceInv == DecidedOnce /\ NotYetPlaced /\ OnePlace

RunInv ==
  /\ \A w \in Workers : worker[w] \notin Keys => seen[w] = None
  /\ \A v, w \in Workers : v # w /\ Busy(v) /\ Busy(w) => StripeOf[worker[v]] # StripeOf[worker[w]]
  /\ \A k \in Keys : findings[k] \subseteq stored \cap Of(k)
  /\ \A w \in Workers : Busy(w) =>
       /\ findings[worker[w]] \subseteq seen[w]
       /\ seen[w] \subseteq stored \cap Of(worker[w])

IInv == TypeOK /\ PlaceInv /\ OneTimer /\ RunInv

-----------------------------------------------------------------------------
\* The invariant holds before the first export.
LEMMA InitInv == Init => IInv
  <1> SUFFICES ASSUME Init PROVE IInv
    OBVIOUS
  <1>1. TypeOK
    BY DebounceConstants DEF Init, TypeOK
  <1>2. PlaceInv
    BY DebounceConstants DEF Init, PlaceInv, DecidedOnce, NotYetPlaced, Nowhere, OnePlace, Of
  <1>3. OneTimer
    BY DEF Init, OneTimer
  <1>4. RunInv
    BY DebounceConstants DEF Init, RunInv, Busy
  <1> QED
    BY <1>1, <1>2, <1>3, <1>4 DEF IInv

-----------------------------------------------------------------------------
(* Types.                                                                  *)

\* Steps of the executor keep the types.
LEMMA ExecTypes ==
  ASSUME TypeOK, needsBuffer' = needsBuffer,
         \/ \E e \in Exports : Run(e)
         \/ \E s \in Spans : BufferSpan(s) \/ PassSpan(s)
         \/ FlushEarly \/ Succeed \/ Fail
         \/ \E s \in Spans : Schedule(s)
  PROVE  TypeOK'
  <1> USE DEF TypeOK, execVars, timerVars, placeVars, workVars, runVars
  <1>1. ASSUME NEW e \in Exports, Run(e) PROVE TypeOK'
    BY <1>1, DebounceConstants DEF Run
  <1>2. ASSUME NEW s \in Spans, BufferSpan(s) PROVE TypeOK'
    BY <1>2, DebounceConstants DEF BufferSpan
  <1>3. ASSUME NEW s \in Spans, PassSpan(s) PROVE TypeOK'
    BY <1>3 DEF PassSpan
  <1>4. CASE FlushEarly
    BY <1>4 DEF FlushEarly
  <1>5. CASE Succeed
    BY <1>5 DEF Succeed
  <1>6. CASE Fail
    BY <1>6 DEF Fail
  <1>7. ASSUME NEW s \in Spans, Schedule(s) PROVE TypeOK'
    BY <1>7, DebounceConstants DEF Schedule
  <1> QED
    BY <1>1, <1>2, <1>3, <1>4, <1>5, <1>6, <1>7

\* enqueue keeps the types of the queue and its workers.
LEMMA EnqueueTypes ==
  ASSUME TypeOK, NEW k \in Keys, Enqueue(k)
  PROVE  pending' \subseteq Keys /\ worker' \in [Workers -> {"off", "free"} \cup Keys]
  BY DEF Enqueue, TypeOK

\* Timer callbacks keep the types.
LEMMA TimerTypes ==
  ASSUME TypeOK, needsBuffer' = needsBuffer, NEW s \in Spans,
         Fire(s) \/ Check(s) \/ QueueRun(s) \/ TakeBuffer(s) \/ Drop(s) \/ Keep(s)
  PROVE  TypeOK'
  <1> USE DEF TypeOK, execVars, timerVars, placeVars, workVars, runVars
  <1>0. KeyOf[s] \in Keys
    BY DebounceConstants
  <1>1. CASE Fire(s)
    BY <1>1 DEF Fire
  <1>2. CASE Check(s)
    BY <1>0, <1>2 DEF Check
  <1>3. CASE QueueRun(s)
    <2>1. pending' \subseteq Keys /\ worker' \in [Workers -> {"off", "free"} \cup Keys]
      BY <1>0, <1>3, EnqueueTypes DEF QueueRun
    <2> QED
      BY <1>3, <2>1 DEF QueueRun
  <1>4. CASE TakeBuffer(s)
    BY <1>0, <1>4 DEF TakeBuffer
  <1>5. CASE Drop(s)
    BY <1>5 DEF Drop, Decided
  <1>6. ASSUME Keep(s) PROVE TypeOK'
    <2>1. PICK A \in SUBSET hand[s] :
            /\ Decided(s)
            /\ dropped' = dropped \cup (hand[s] \ A)
            /\ stored' = stored \cup A
            /\ \/ shown' = shown \cup A /\ IF A = {} THEN UNCHANGED workVars ELSE Enqueue(KeyOf[s])
               \/ UNCHANGED <<shown, workVars>>
            /\ UNCHANGED appended
      BY <1>6 DEF Keep
    <2>2. pending' \subseteq Keys /\ worker' \in [Workers -> {"off", "free"} \cup Keys]
      BY <1>0, <2>1, EnqueueTypes
    <2>3. shown' \subseteq stored'
      BY <2>1
    <2> QED
      BY <2>1, <2>2, <2>3 DEF Decided
  <1> QED
    BY <1>1, <1>2, <1>3, <1>4, <1>5, <1>6

\* Steps of a detector worker keep the types.
LEMMA WorkerTypes ==
  ASSUME TypeOK, needsBuffer' = needsBuffer, NEW w \in Workers,
         Pick(w) \/ Read(w) \/ ReadFails(w) \/ Write(w)
  PROVE  TypeOK'
  <1> USE DEF TypeOK, execVars, timerVars, placeVars, workVars, runVars
  <1>1. CASE Pick(w)
    BY <1>1 DEF Pick
  <1>2. CASE Read(w)
    BY <1>2 DEF Read
  <1>3. CASE ReadFails(w)
    BY <1>3 DEF ReadFails
  <1>4. CASE Write(w)
    BY <1>4 DEF Write, Busy
  <1> QED
    BY <1>1, <1>2, <1>3, <1>4

-----------------------------------------------------------------------------
(* Places.                                                                 *)

placeState == <<waiting, todo, appended, stored, dropped, buffer, hand, needsBuffer>>

\* PlaceInv reads nothing else.
LEMMA PlaceFrame ==
  ASSUME PlaceInv, UNCHANGED placeState
  PROVE  PlaceInv'
  BY DEF PlaceInv, DecidedOnce, NotYetPlaced, Nowhere, OnePlace, placeState, Of

\* An export that starts brings spans that are nowhere and in no other export.
LEMMA PlaceRun ==
  ASSUME PlaceInv, needsBuffer' = needsBuffer, NEW e \in Exports, Run(e), waiting \subseteq Exports
  PROVE  PlaceInv'
  <1> USE DEF Run, timerVars, placeVars, workVars, runVars
  <1>1. DecidedOnce'
    BY DEF PlaceInv, DecidedOnce, Of
  <1>2. NotYetPlaced'
    <2>1. \A s \in todo' : Nowhere(s)'
      BY DEF PlaceInv, NotYetPlaced, Nowhere
    <2>2. ASSUME NEW d \in waiting', NEW s \in SpansOf[d] PROVE s \notin todo' /\ Nowhere(s)'
      <3>1. d \in waiting /\ d # e
        OBVIOUS
      <3>2. s \notin SpansOf[e]
        BY <3>1, DebounceConstants
      <3> QED
        BY <3>1, <3>2 DEF PlaceInv, NotYetPlaced, Nowhere
    <2> QED
      BY <2>1, <2>2 DEF NotYetPlaced
  <1>3. OnePlace'
    BY DEF PlaceInv, OnePlace, Of
  <1> QED
    BY <1>1, <1>2, <1>3 DEF PlaceInv

\* A span that is buffered, or dropped by a full buffer, was nowhere before.
LEMMA PlaceBuffer ==
  ASSUME TypeOK, PlaceInv, needsBuffer' = needsBuffer, NEW s \in Spans, BufferSpan(s)
  PROVE  PlaceInv'
  <1> USE DEF BufferSpan, timerVars, workVars, runVars
  <1>0. /\ KeyOf[s] \in Keys /\ s \in todo /\ Nowhere(s) /\ needsBuffer
        /\ hand' = hand /\ appended' = appended /\ stored' = stored
        /\ buffer \in [Keys -> SUBSET Spans]
        /\ \A k \in Keys : buffer[k] \subseteq buffer'[k]
        /\ \A k \in Keys : buffer'[k] \subseteq buffer[k] \cup {s}
        /\ dropped' \subseteq dropped \cup {s}
        /\ \A k \in Keys : s \in buffer'[k] => KeyOf[s] = k /\ s \notin dropped'
    BY DebounceConstants DEF PlaceInv, NotYetPlaced, Nowhere, TypeOK
  <1>1. DecidedOnce'
    <2>1. \A k \in Keys : buffer'[k] \subseteq Of(k) \ (stored' \cup dropped')
      BY <1>0 DEF PlaceInv, DecidedOnce, Of, Nowhere
    <2>2. \A u \in Spans : hand'[u] \cap (buffer'[KeyOf[u]] \cup stored' \cup dropped') = {}
      BY <1>0, DebounceConstants DEF PlaceInv, DecidedOnce, Nowhere
    <2>3. \A t, u \in Spans : t # u => hand'[t] \cap hand'[u] = {}
      BY <1>0 DEF PlaceInv, DecidedOnce
    <2>4. stored' \cap dropped' = {}
      BY <1>0 DEF PlaceInv, DecidedOnce, Nowhere
    <2> QED
      BY <2>1, <2>2, <2>3, <2>4 DEF DecidedOnce, Of
  <1>2. NotYetPlaced'
    <2>1. ASSUME NEW u, Nowhere(u), u # s PROVE Nowhere(u)'
      BY <1>0, <2>1 DEF Nowhere
    <2>2. \A u \in todo' : Nowhere(u)'
      BY <2>1 DEF PlaceInv, NotYetPlaced
    <2>3. \A e \in waiting' : \A u \in SpansOf[e] : u \notin todo' /\ Nowhere(u)'
      BY <2>1 DEF PlaceInv, NotYetPlaced
    <2> QED
      BY <2>2, <2>3 DEF NotYetPlaced
  <1>3. OnePlace'
    BY <1>0 DEF PlaceInv, OnePlace, Of, Nowhere
  <1> QED
    BY <1>1, <1>2, <1>3 DEF PlaceInv

\* Without a buffer a span is appended or dropped, and was nowhere before.
LEMMA PlacePass ==
  ASSUME PlaceInv, needsBuffer' = needsBuffer, NEW s \in Spans, PassSpan(s)
  PROVE  PlaceInv'
  <1> USE DEF PassSpan, timerVars, workVars, runVars
  <1>0. /\ s \in todo /\ Nowhere(s) /\ ~needsBuffer
        /\ hand' = hand /\ buffer' = buffer /\ stored' = stored
        /\ appended' \subseteq appended \cup {s} /\ dropped' \subseteq dropped \cup {s}
        /\ s \in appended' => s \notin dropped'
    BY DEF PlaceInv, NotYetPlaced, Nowhere
  <1>0a. (\A k \in Keys : buffer[k] = {}) /\ (\A u \in Spans : hand[u] = {})
    BY <1>0 DEF PlaceInv, OnePlace
  <1>1. DecidedOnce'
    BY <1>0, <1>0a DEF PlaceInv, DecidedOnce, Nowhere
  <1>2. NotYetPlaced'
    <2>1. ASSUME NEW u, Nowhere(u), u # s PROVE Nowhere(u)'
      BY <1>0, <2>1 DEF Nowhere
    <2>2. \A u \in todo' : Nowhere(u)'
      BY <2>1 DEF PlaceInv, NotYetPlaced
    <2>3. \A e \in waiting' : \A u \in SpansOf[e] : u \notin todo' /\ Nowhere(u)'
      BY <1>0, <2>1 DEF PlaceInv, NotYetPlaced
    <2> QED
      BY <2>2, <2>3 DEF NotYetPlaced
  <1>3. OnePlace'
    BY <1>0, <1>0a DEF PlaceInv, OnePlace, Nowhere, Of
  <1> QED
    BY <1>1, <1>2, <1>3 DEF PlaceInv

\* A flush moves spans from the appenders to their table, or loses them.
LEMMA PlaceFlush ==
  ASSUME PlaceInv, needsBuffer' = needsBuffer, FlushEarly \/ Succeed \/ Fail
  PROVE  PlaceInv'
  <1>0. /\ UNCHANGED <<waiting, todo, buffer, hand, dropped>> /\ appended' = {}
        /\ stored \subseteq stored' /\ stored' \subseteq stored \cup appended
    BY DEF FlushEarly, Succeed, Fail, execVars
  <1>1. DecidedOnce'
    BY <1>0 DEF PlaceInv, DecidedOnce, OnePlace, Of
  <1>2. NotYetPlaced'
    BY <1>0 DEF PlaceInv, NotYetPlaced, Nowhere
  <1>3. OnePlace'
    BY <1>0 DEF PlaceInv, OnePlace, Of
  <1> QED
    BY <1>1, <1>2, <1>3 DEF PlaceInv

\* A callback takes its trace out of the buffer.
LEMMA PlaceTake ==
  ASSUME TypeOK, PlaceInv, needsBuffer' = needsBuffer, NEW s \in Spans, TakeBuffer(s)
  PROVE  PlaceInv'
  <1> USE DEF TakeBuffer, execVars, placeVars
  <1>0. /\ KeyOf[s] \in Keys /\ UNCHANGED <<waiting, todo, appended, stored, dropped>> /\ needsBuffer
        /\ buffer'[KeyOf[s]] = {} /\ \A k \in Keys : k # KeyOf[s] => buffer'[k] = buffer[k]
        /\ hand'[s] = buffer[KeyOf[s]] /\ \A u \in Spans : u # s => hand'[u] = hand[u]
    BY DebounceConstants DEF TypeOK
  <1>1. DecidedOnce'
    <2>1. \A k \in Keys : buffer'[k] \subseteq Of(k) \ (stored' \cup dropped')
      BY <1>0 DEF PlaceInv, DecidedOnce
    <2>2. \A u \in Spans : hand'[u] \cap (buffer'[KeyOf[u]] \cup stored' \cup dropped') = {}
      <3> TAKE u \in Spans
      <3>1. KeyOf[u] \in Keys
        BY DebounceConstants
      <3>2. CASE u = s
        BY <1>0, <3>2 DEF PlaceInv, DecidedOnce
      <3>3. CASE u # s
        <4>1. hand[u] \cap (buffer[KeyOf[u]] \cup stored \cup dropped) = {}
          BY DEF PlaceInv, DecidedOnce
        <4>2. buffer'[KeyOf[u]] \subseteq buffer[KeyOf[u]]
          BY <1>0, <3>1
        <4> QED
          BY <1>0, <3>3, <4>1, <4>2
      <3> QED
        BY <3>2, <3>3
    <2>3. ASSUME NEW u \in Spans, u # s PROVE hand[u] \cap buffer[KeyOf[s]] = {}
      <3>1. hand[u] \subseteq Of(KeyOf[u]) /\ buffer[KeyOf[s]] \subseteq Of(KeyOf[s])
        BY <1>0 DEF PlaceInv, OnePlace, DecidedOnce
      <3>2. hand[u] \cap buffer[KeyOf[u]] = {}
        BY DEF PlaceInv, DecidedOnce
      <3> QED
        BY <3>1, <3>2 DEF Of
    <2>4. \A t, u \in Spans : t # u => hand'[t] \cap hand'[u] = {}
      BY <1>0, <2>3 DEF PlaceInv, DecidedOnce
    <2>5. stored' \cap dropped' = {}
      BY <1>0 DEF PlaceInv, DecidedOnce
    <2> QED
      BY <2>1, <2>2, <2>4, <2>5 DEF DecidedOnce, Of
  <1>2. NotYetPlaced'
    <2>1. ASSUME NEW u, Nowhere(u) PROVE Nowhere(u)'
      BY <1>0, <2>1 DEF Nowhere
    <2> QED
      BY <1>0, <2>1 DEF PlaceInv, NotYetPlaced
  <1>3. OnePlace'
    BY <1>0, DebounceConstants DEF PlaceInv, OnePlace, DecidedOnce, Of
  <1> QED
    BY <1>1, <1>2, <1>3 DEF PlaceInv

\* What a callback decides leaves its hands.
LEMMA PlaceDecide ==
  ASSUME TypeOK, PlaceInv, needsBuffer' = needsBuffer, NEW s \in Spans, Drop(s) \/ Keep(s)
  PROVE  PlaceInv'
  <1>0. PICK A \in SUBSET hand[s] :
          /\ stored' = stored \cup A /\ dropped' = dropped \cup (hand[s] \ A) /\ Decided(s)
          /\ appended' = appended
    <2>1. CASE Drop(s)
      <3>1. stored' = stored \cup {} /\ dropped' = dropped \cup (hand[s] \ {}) /\ Decided(s) /\ appended' = appended
        BY <2>1 DEF Drop
      <3> QED
        BY <3>1
    <2>2. CASE Keep(s)
      BY <2>2 DEF Keep
    <2> QED
      BY <2>1, <2>2
  <1>1. /\ UNCHANGED <<waiting, todo, buffer>>
        /\ hand'[s] = {} /\ \A u \in Spans : u # s => hand'[u] = hand[u]
    BY <1>0 DEF Decided, execVars, TypeOK
  <1>2. \A k \in Keys : hand[s] \cap buffer[k] = {}
    <2> TAKE k \in Keys
    <2>1. hand[s] \subseteq Of(KeyOf[s]) /\ buffer[k] \subseteq Of(k) /\ hand[s] \cap buffer[KeyOf[s]] = {}
      BY DEF PlaceInv, OnePlace, DecidedOnce
    <2> QED
      BY <2>1 DEF Of
  <1>3. hand[s] \cap (stored \cup dropped) = {} /\ \A u \in Spans : u # s => hand[u] \cap hand[s] = {}
    BY DEF PlaceInv, DecidedOnce
  <1>4. stored' \cup dropped' = stored \cup dropped \cup hand[s]
    BY <1>0
  <1>5. DecidedOnce'
    <2>1. \A k \in Keys : buffer'[k] \subseteq Of(k) \ (stored' \cup dropped')
      BY <1>1, <1>2, <1>4 DEF PlaceInv, DecidedOnce
    <2>2. \A u \in Spans : hand'[u] \cap (buffer'[KeyOf[u]] \cup stored' \cup dropped') = {}
      BY <1>1, <1>3, <1>4 DEF PlaceInv, DecidedOnce
    <2>3. \A t, u \in Spans : t # u => hand'[t] \cap hand'[u] = {}
      BY <1>1 DEF PlaceInv, DecidedOnce
    <2>4. stored' \cap dropped' = {}
      BY <1>0, <1>3 DEF PlaceInv, DecidedOnce
    <2> QED
      BY <2>1, <2>2, <2>3, <2>4 DEF DecidedOnce, Of
  <1>6. NotYetPlaced'
    <2>1. ASSUME NEW u, Nowhere(u) PROVE Nowhere(u)'
      BY <1>0, <1>1, <2>1 DEF Nowhere
    <2> QED
      BY <1>1, <2>1 DEF PlaceInv, NotYetPlaced
  <1>7. OnePlace'
    <2>1. needsBuffer \/ hand[s] = {}
      BY DEF PlaceInv, OnePlace
    <2>2. appended \cap hand[s] = {}
      BY <2>1 DEF PlaceInv, OnePlace
    <2> QED
      BY <1>0, <1>1, <1>4, <2>1, <2>2 DEF PlaceInv, OnePlace, Of
  <1> QED
    BY <1>5, <1>6, <1>7 DEF PlaceInv

\* Every step keeps a span in one place.
LEMMA PlaceStep ==
  ASSUME TypeOK, PlaceInv, needsBuffer' = needsBuffer, Step
  PROVE  PlaceInv'
  <1>1. ASSUME NEW e \in Exports, Run(e) PROVE PlaceInv'
    BY <1>1, PlaceRun DEF TypeOK
  <1>2. ASSUME NEW s \in Spans, BufferSpan(s) \/ PassSpan(s) PROVE PlaceInv'
    BY <1>2, PlaceBuffer, PlacePass
  <1>3. CASE FlushEarly \/ Succeed \/ Fail
    BY <1>3, PlaceFlush
  <1>4. ASSUME NEW s \in Spans, Effects(s) PROVE PlaceInv'
    <2>1. CASE Schedule(s) \/ Fire(s) \/ Check(s) \/ QueueRun(s)
      <3>1. UNCHANGED placeState
        BY <2>1 DEF Schedule, Fire, Check, QueueRun, placeState, placeVars, execVars
      <3> QED
        BY <3>1, PlaceFrame
    <2>2. CASE TakeBuffer(s)
      BY <2>2, PlaceTake
    <2>3. CASE Drop(s) \/ Keep(s)
      BY <2>3, PlaceDecide
    <2> QED
      BY <1>4, <2>1, <2>2, <2>3 DEF Effects
  <1>5. ASSUME NEW w \in Workers, Pick(w) \/ Read(w) \/ ReadFails(w) \/ Write(w) PROVE PlaceInv'
    <2>1. UNCHANGED placeState
      BY <1>5 DEF Pick, Read, ReadFails, Write, placeState, placeVars, execVars
    <2> QED
      BY <2>1, PlaceFrame
  <1> QED
    BY <1>1, <1>2, <1>3, <1>4, <1>5 DEF Step

-----------------------------------------------------------------------------
(* Timers.                                                                 *)

\* Arming a timer stops the one it replaces; a callback removes only itself.
LEMMA TimerStep ==
  ASSUME TypeOK, OneTimer, needsBuffer' = needsBuffer, Step
  PROVE  OneTimer'
  <1> USE DEF OneTimer, TypeOK, timerVars
  <1>1. ASSUME NEW s \in Spans, Schedule(s) PROVE OneTimer'
    BY <1>1, DebounceConstants DEF Schedule
  <1>2. ASSUME NEW s \in Spans, Fire(s) PROVE OneTimer'
    BY <1>2 DEF Fire
  <1>3. ASSUME NEW s \in Spans, Check(s) PROVE OneTimer'
    BY <1>3, DebounceConstants DEF Check
  <1>4. ASSUME NEW s \in Spans, QueueRun(s) \/ TakeBuffer(s) \/ Drop(s) \/ Keep(s) PROVE OneTimer'
    <2>1. /\ debounce' = debounce
          /\ \A u \in Spans : timer'[u] = "ticking" => timer[u] = "ticking"
      BY <1>4 DEF QueueRun, TakeBuffer, Drop, Keep, Decided
    <2> QED
      BY <2>1
  <1>5. CASE \/ \E e \in Exports : Run(e)
             \/ \E s \in Spans : BufferSpan(s) \/ PassSpan(s)
             \/ FlushEarly \/ Succeed \/ Fail
             \/ \E w \in Workers : Pick(w) \/ Read(w) \/ ReadFails(w) \/ Write(w)
    <2>1. UNCHANGED <<timer, debounce>>
      BY <1>5 DEF Run, BufferSpan, PassSpan, FlushEarly, Succeed, Fail, Pick, Read, ReadFails, Write
    <2> QED
      BY <2>1
  <1> QED
    BY <1>1, <1>2, <1>3, <1>4, <1>5 DEF Step, Effects

-----------------------------------------------------------------------------
(* Detector runs.                                                          *)

\* A step that touches no run and forgets nothing stored.
LEMMA RunFrame ==
  ASSUME RunInv, UNCHANGED <<seen, findings>>, stored \subseteq stored',
         \/ worker' = worker
         \/ \E w \in Workers : worker[w] = "off" /\ worker' = [worker EXCEPT ![w] = "free"],
         TypeOK
  PROVE  RunInv'
  <1>1. \A w \in Workers : worker'[w] = worker[w] \/ (worker[w] \notin Keys /\ worker'[w] \notin Keys)
    BY DebounceConstants DEF TypeOK
  <1>2. ASSUME NEW w \in Workers PROVE (Busy(w)' <=> Busy(w)) /\ (Busy(w) => worker'[w] = worker[w])
    BY <1>1 DEF Busy
  <1>3. \A w \in Workers : worker'[w] \notin Keys => seen'[w] = None
    BY <1>1 DEF RunInv
  <1>4. \A v, w \in Workers : v # w /\ Busy(v)' /\ Busy(w)' => StripeOf[worker'[v]] # StripeOf[worker'[w]]
    BY <1>2 DEF RunInv
  <1>5. \A k \in Keys : findings'[k] \subseteq stored' \cap Of(k)
    BY DEF RunInv
  <1>6. \A w \in Workers : Busy(w)' =>
          findings'[worker'[w]] \subseteq seen'[w] /\ seen'[w] \subseteq stored' \cap Of(worker'[w])
    BY <1>2 DEF RunInv
  <1> QED
    BY <1>3, <1>4, <1>5, <1>6 DEF RunInv, Of

\* enqueue starts a worker that is off, or none.
LEMMA EnqueueWorker ==
  ASSUME NEW k, Enqueue(k)
  PROVE  \/ worker' = worker
         \/ \E w \in Workers : worker[w] = "off" /\ worker' = [worker EXCEPT ![w] = "free"]
  BY DEF Enqueue

\* A worker that picks a key, or ends, has read nothing.
LEMMA RunPick ==
  ASSUME TypeOK, RunInv, NEW w \in Workers, Pick(w)
  PROVE  RunInv'
  <1> USE DEF Pick, placeVars, runVars
  <1>1. seen[w] = None
    BY DebounceConstants DEF RunInv, TypeOK
  <1>2. \A v \in Workers : v # w => worker'[v] = worker[v]
    BY DEF TypeOK
  <1>3. \A v \in Workers : Busy(v)' => v # w /\ Busy(v)
    BY <1>1, <1>2 DEF Busy
  <1>4. \A v \in Workers : worker'[v] \notin Keys => seen'[v] = None
    BY <1>1, <1>2 DEF RunInv
  <1>5. \A v, u \in Workers : v # u /\ Busy(v)' /\ Busy(u)' => StripeOf[worker'[v]] # StripeOf[worker'[u]]
    BY <1>2, <1>3 DEF RunInv
  <1>6. \A v \in Workers : Busy(v)' =>
          findings'[worker'[v]] \subseteq seen'[v] /\ seen'[v] \subseteq stored' \cap Of(worker'[v])
    BY <1>2, <1>3 DEF RunInv
  <1> QED
    BY <1>4, <1>5, <1>6 DEF RunInv, Of

\* A read sees everything the trace's findings are about, and takes a stripe
\* that no other run has.
LEMMA RunRead ==
  ASSUME TypeOK, RunInv, NEW w \in Workers, Read(w)
  PROVE  RunInv'
  <1> USE DEF Read, placeVars, workVars
  <1>1. /\ seen'[w] = stored \cap Of(worker[w])
        /\ \A v \in Workers : v # w => seen'[v] = seen[v] /\ (Busy(v)' <=> Busy(v))
    BY DEF TypeOK, Busy
  <1>2. \A v, u \in Workers : v # u /\ Busy(v)' /\ Busy(u)' => StripeOf[worker'[v]] # StripeOf[worker'[u]]
    BY <1>1 DEF RunInv
  <1>3. \A v \in Workers : worker'[v] \notin Keys => seen'[v] = None
    BY <1>1 DEF RunInv
  <1>4. \A v \in Workers : Busy(v)' =>
          findings'[worker'[v]] \subseteq seen'[v] /\ seen'[v] \subseteq stored' \cap Of(worker'[v])
    BY <1>1 DEF RunInv
  <1> QED
    BY <1>2, <1>3, <1>4 DEF RunInv, Of

\* A worker whose run has ended has nothing in hand.
LEMMA RunReadFails ==
  ASSUME TypeOK, RunInv, NEW w \in Workers, ReadFails(w)
  PROVE  RunInv'
  <1> USE DEF ReadFails, placeVars
  <1>1. \A v \in Workers : v # w => worker'[v] = worker[v]
    BY DEF TypeOK
  <1>2. \A v \in Workers : Busy(v)' => v # w /\ Busy(v)
    BY <1>1 DEF Busy
  <1>3. \A v \in Workers : worker'[v] \notin Keys => seen'[v] = None
    BY <1>1 DEF RunInv
  <1>4. \A v, u \in Workers : v # u /\ Busy(v)' /\ Busy(u)' => StripeOf[worker'[v]] # StripeOf[worker'[u]]
    BY <1>1, <1>2 DEF RunInv
  <1>5. \A v \in Workers : Busy(v)' =>
          findings'[worker'[v]] \subseteq seen'[v] /\ seen'[v] \subseteq stored' \cap Of(worker'[v])
    BY <1>1, <1>2 DEF RunInv
  <1> QED
    BY <1>3, <1>4, <1>5 DEF RunInv, Of

\* What the write of a run does to the findings of its trace and of others.
LEMMA WriteFacts ==
  ASSUME TypeOK, RunInv, NEW w \in Workers, Write(w)
  PROVE  /\ findings[worker[w]] \subseteq findings'[worker[w]]
         /\ findings'[worker[w]] \subseteq stored \cap Of(worker[w])
         /\ \A k \in Keys : k # worker[w] => findings'[k] = findings[k]
  <1>1. worker[w] \in Keys /\ findings[worker[w]] \subseteq seen[w] /\ seen[w] \subseteq stored \cap Of(worker[w])
    BY DEF Write, Busy, RunInv
  <1>2. findings[worker[w]] \subseteq stored \cap Of(worker[w])
    BY <1>1 DEF RunInv
  <1>3. /\ findings'[worker[w]] = IF seen[w] = {} THEN findings[worker[w]] ELSE seen[w]
        /\ \A k \in Keys : k # worker[w] => findings'[k] = findings[k]
    BY <1>1 DEF Write, TypeOK
  <1> QED
    BY <1>1, <1>2, <1>3

\* The write of a run leaves the reads of the others at least what their
\* traces' findings are about.
LEMMA RunWrite ==
  ASSUME TypeOK, RunInv, NEW w \in Workers, Write(w)
  PROVE  RunInv'
  <1> USE DEF Write, placeVars
  <1>1. \A v \in Workers : v # w => worker'[v] = worker[v] /\ seen'[v] = seen[v]
    BY DEF TypeOK
  <1>2. seen'[w] = None
    BY DEF TypeOK
  <1>3. \A v \in Workers : Busy(v)' => v # w /\ Busy(v)
    BY <1>1, <1>2 DEF Busy
  <1>4. \A v \in Workers : worker'[v] \notin Keys => seen'[v] = None
    BY <1>1, <1>2 DEF RunInv
  <1>5. \A v, u \in Workers : v # u /\ Busy(v)' /\ Busy(u)' => StripeOf[worker'[v]] # StripeOf[worker'[u]]
    BY <1>1, <1>3 DEF RunInv
  <1>6. \A k \in Keys : findings'[k] \subseteq stored' \cap Of(k)
    BY WriteFacts DEF RunInv
  <1>7. ASSUME NEW v \in Workers, Busy(v)'
        PROVE  findings'[worker'[v]] \subseteq seen'[v] /\ seen'[v] \subseteq stored' \cap Of(worker'[v])
    <2>1. v # w /\ Busy(v)
      BY <1>3, <1>7
    <2>2. worker[v] # worker[w] /\ worker[v] \in Keys
      BY <2>1 DEF RunInv, Busy
    <2>3. findings'[worker[v]] = findings[worker[v]]
      BY <2>2, WriteFacts
    <2> QED
      BY <1>1, <2>1, <2>3 DEF RunInv
  <1> QED
    BY <1>4, <1>5, <1>6, <1>7 DEF RunInv, Of

\* Every step keeps the runs of a trace apart.
LEMMA RunStep ==
  ASSUME TypeOK, RunInv, needsBuffer' = needsBuffer, Step
  PROVE  RunInv'
  <1>1. CASE \/ \E e \in Exports : Run(e)
             \/ \E s \in Spans : BufferSpan(s) \/ PassSpan(s)
             \/ FlushEarly \/ Succeed \/ Fail
             \/ \E s \in Spans : Schedule(s) \/ Fire(s) \/ Check(s) \/ TakeBuffer(s) \/ Drop(s)
    <2>1. UNCHANGED <<seen, findings, worker>> /\ stored \subseteq stored'
      BY <1>1 DEF Run, BufferSpan, PassSpan, FlushEarly, Succeed, Fail, Schedule, Fire, Check, TakeBuffer,
                  Drop, Decided, runVars, workVars, placeVars
    <2> QED
      BY <2>1, RunFrame
  <1>2. ASSUME NEW s \in Spans, QueueRun(s) \/ Keep(s) PROVE RunInv'
    <2>1. UNCHANGED <<seen, findings>> /\ stored \subseteq stored'
      BY <1>2 DEF QueueRun, Keep, Decided, runVars, placeVars
    <2>2. worker' = worker \/ Enqueue(KeyOf[s])
      BY <1>2 DEF QueueRun, Keep, workVars
    <2> QED
      BY <2>1, <2>2, EnqueueWorker, RunFrame
  <1>3. ASSUME NEW w \in Workers, Pick(w) \/ Read(w) \/ ReadFails(w) \/ Write(w) PROVE RunInv'
    BY <1>3, RunPick, RunRead, RunReadFails, RunWrite
  <1> QED
    BY <1>1, <1>2, <1>3 DEF Step, Effects

-----------------------------------------------------------------------------

\* The invariant reads only the variables of the specification.
LEMMA InvStutter ==
  ASSUME IInv, UNCHANGED <<vars, needsBuffer>>
  PROVE  IInv'
  <1> USE DEF vars, execVars, timerVars, placeVars, workVars, runVars
  <1>1. TypeOK'
    BY DEF IInv, TypeOK
  <1>2. PlaceInv'
    BY PlaceFrame DEF IInv, placeState
  <1>3. OneTimer'
    BY DEF IInv, OneTimer
  <1>4. RunInv'
    BY RunFrame DEF IInv
  <1> QED
    BY <1>1, <1>2, <1>3, <1>4 DEF IInv

\* IInv holds in every state.
THEOREM Invariant == Spec => []IInv
  <1>1. ASSUME IInv, Next PROVE IInv'
    <2>1. needsBuffer' = needsBuffer /\ Step
      BY <1>1 DEF Next
    <2>2. TypeOK'
      BY <1>1, <2>1, ExecTypes, TimerTypes, WorkerTypes DEF Step, Effects, IInv
    <2>3. PlaceInv' /\ OneTimer' /\ RunInv'
      BY <1>1, <2>1, PlaceStep, TimerStep, RunStep DEF IInv
    <2> QED
      BY <2>2, <2>3 DEF IInv
  <1>2. IInv /\ [Next]_<<vars, needsBuffer>> => IInv'
    BY <1>1, InvStutter
  <1> QED
    BY InitInv, <1>2, PTL DEF Spec

\* With any number of traces, exports and callbacks at once, a buffered span is
\* in one place and decided one way, and a trace has one running timer
\* (bufferSpan, flushBuffer, scheduleDetectors).
THEOREM DebounceSafe == Spec => []DebounceInv
  <1>1. IInv => DebounceInv
    BY DEF IInv, PlaceInv, DebounceInv
  <1> QED
    BY Invariant, <1>1, PTL

\* No step takes a span out of the findings of its trace, whatever runs at the
\* same time (detectorTraceLocks).
THEOREM FindingsGrow == Spec => FindingsNeverRegress
  <1> DEFINE Grow == \A k \in Keys : findings[k] \subseteq findings'[k]
  <1>1. ASSUME IInv, Next PROVE Grow
    <2>1. CASE findings' = findings
      BY <2>1
    <2>2. ASSUME NEW w \in Workers, Write(w) PROVE Grow
      <3>1. /\ findings[worker[w]] \subseteq findings'[worker[w]]
            /\ \A k \in Keys : k # worker[w] => findings'[k] = findings[k]
        BY <1>1, <2>2, WriteFacts DEF IInv
      <3> QED
        BY <3>1
    <2>3. findings' = findings \/ \E w \in Workers : Write(w)
      BY <1>1 DEF Next, Step, Effects, Run, BufferSpan, PassSpan, FlushEarly, Succeed, Fail, Schedule, Fire,
                  Check, QueueRun, TakeBuffer, Drop, Keep, Decided, Pick, Read, ReadFails, runVars
    <2> QED
      BY <2>1, <2>2, <2>3
  <1>2. IInv /\ [Next]_<<vars, needsBuffer>> => [Grow]_vars
    BY <1>1
  <1> QED
    BY Invariant, <1>2, PTL DEF Spec, FindingsNeverRegress

=============================================================================
