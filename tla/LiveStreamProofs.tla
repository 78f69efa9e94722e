--------------------------- MODULE LiveStreamProofs ---------------------------
(***************************************************************************)
(* The safety properties of the live stream for any rows and sessions and  *)
(* any size of its buffers.  Every snapshot under way has its own sequence *)
(* (WorksInv); a list never holds what its scope excludes (ViewInv); and   *)
(* whatever the viewer does not see yet is on its way: as a frame, as a    *)
(* resynchronization, as a refresh that is due, or as a snapshot under way *)
(* that will show it (RowsInv, SessionInv).                                *)
(***************************************************************************)
EXTENDS LiveStream, FiniteSetTheorems, TLAPS

ServerOK ==
  /\ DOMAIN stored \subseteq Rows /\ \A r \in DOMAIN stored : stored[r] \in Sessions
  /\ active \in Sessions /\ outbox \subseteq Events

Updates == Events \cup {Connection(c) : c \in BOOLEAN}

NetOK ==
  /\ link \in {"down", "accepted", "registered", "closed"} /\ cancelled \in BOOLEAN
  /\ sendq \in Seq(Events) /\ Len(sendq) <= SendBuffer
  /\ reader \in {"dialing", "reading", "failed"} /\ connected \in BOOLEAN
  /\ out \in Seq(Updates) /\ Len(out) <= Queue

EntriesOK(e) == e \in [Keys -> Entry] /\ \A k \in Keys : Len(e[k].replay) <= ReplayLimit

ScopeOK ==
  /\ up \in BOOLEAN /\ epoch \in Generations /\ session \in Sessions \cup {NoSession}
  /\ filtered \in BOOLEAN /\ view \subseteq Rows /\ missed \subseteq Rows

\* The snapshots under way w that the entries e wait for.
OwnOf(e, w, k) == {x \in w : x.key = k /\ x.sequence = e[k].sequence}

\* The snapshots w under way are those of n slots, each has a sequence of its
\* own, and an entry of e is running exactly if one of them is its own.
WorksOK(e, n, w) ==
  /\ w \subseteq Work /\ IsFiniteSet(w) /\ n = Cardinality(w) /\ n \in 0..MaxRunning
  /\ \A x, y \in w : x.key = y.key /\ x.sequence = y.sequence => x = y
  /\ \A x \in w : x.sequence # 0
  /\ \A k \in Keys : e[k].running <=> OwnOf(e, w, k) # {}

ShellOK == ScopeOK /\ EntriesOK(entries) /\ WorksOK(entries, running, works)

-----------------------------------------------------------------------------
(* Sequences and sets.                                                     *)

Items(s) == {s[i] : i \in 1..Len(s)}

\* The items of a queue, at its two ends.
LEMMA ItemsFacts ==
  ASSUME NEW S, NEW s \in Seq(S)
  PROVE  /\ Items(s) \subseteq S
         /\ \A x \in S : /\ Append(s, x) \in Seq(S) /\ Len(Append(s, x)) = Len(s) + 1
                         /\ Items(Append(s, x)) = Items(s) \cup {x}
         /\ s # <<>> => /\ Tail(s) \in Seq(S) /\ Len(Tail(s)) = Len(s) - 1 /\ Len(s) > 0
                        /\ Head(s) \in S /\ Items(s) = {Head(s)} \cup Items(Tail(s))
<1>1. Items(s) \subseteq S
  BY DEF Items
<1>2. ASSUME NEW x \in S
      PROVE  /\ Append(s, x) \in Seq(S) /\ Len(Append(s, x)) = Len(s) + 1
             /\ Items(Append(s, x)) = Items(s) \cup {x}
  <2> DEFINE a == Append(s, x)
  <2>1. a \in Seq(S) /\ Len(a) = Len(s) + 1 /\ Len(s) \in Nat
        /\ (\A i \in 1..Len(s) : a[i] = s[i]) /\ a[Len(s) + 1] = x
    OBVIOUS
  <2> HIDE DEF a
  <2>2. 1..Len(a) = 1..Len(s) \cup {Len(s) + 1}
    BY <2>1
  <2>3. Items(a) = Items(s) \cup {x}
    BY <2>1, <2>2 DEF Items
  <2> QED BY <2>1, <2>3 DEF a
<1>3. ASSUME s # <<>>
      PROVE  /\ Tail(s) \in Seq(S) /\ Len(Tail(s)) = Len(s) - 1 /\ Len(s) > 0
             /\ Head(s) \in S /\ Items(s) = {Head(s)} \cup Items(Tail(s))
  <2> DEFINE t == Tail(s)
  <2>1. t \in Seq(S) /\ Len(t) = Len(s) - 1 /\ Len(s) \in Nat /\ Len(s) > 0
        /\ (\A i \in 1..(Len(s) - 1) : t[i] = s[i + 1]) /\ Head(s) = s[1] /\ Head(s) \in S
    BY <1>3
  <2> HIDE DEF t
  <2>2. ASSUME NEW y \in Items(s) PROVE y \in {Head(s)} \cup Items(t)
    <3>1. PICK i \in 1..Len(s) : s[i] = y
      BY DEF Items
    <3>2. CASE i = 1
      BY <2>1, <3>1, <3>2
    <3>3. CASE i > 1
      <4>1. i - 1 \in 1..Len(t) /\ t[i - 1] = s[i - 1 + 1] /\ i - 1 + 1 = i
        BY <2>1, <3>3
      <4> QED BY <3>1, <4>1 DEF Items
    <3> QED BY <3>2, <3>3
  <2>3. ASSUME NEW y \in Items(t) PROVE y \in Items(s)
    <3>1. PICK i \in 1..Len(t) : t[i] = y
      BY DEF Items
    <3>2. i + 1 \in 1..Len(s) /\ s[i + 1] = y
      BY <2>1, <3>1
    <3> QED BY <3>2 DEF Items
  <2>4. Head(s) \in Items(s)
    BY <2>1 DEF Items
  <2> QED BY <2>1, <2>2, <2>3, <2>4 DEF t
<1> QED BY <1>1, <1>2, <1>3

\* What an update is, by its type.
LEMMA UpdateFacts ==
  /\ \A ev \in Updates :
       /\ ev.type = "row" => ev.of \in Rows /\ ev = RowEvent(ev.of) /\ ev \in Events
       /\ ev.type = "active_session" => ev.of \in Sessions /\ ev = SessionEvent(ev.of) /\ ev \in Events
       /\ ev.type = "status" => ev.connected \in BOOLEAN /\ ev = Connection(ev.connected)
       /\ ev.type \in {"row", "active_session", "status"}
  /\ \A ev \in Events : ev \in Updates /\ ev.type \in {"row", "active_session"}
  /\ \A r \in Rows : RowEvent(r) \in Events /\ RowEvent(r).type = "row" /\ RowEvent(r).of = r
  /\ \A s \in Sessions : SessionEvent(s) \in Events /\ SessionEvent(s).type = "active_session" /\ SessionEvent(s).of = s
  /\ \A c \in BOOLEAN : Connection(c) \in Updates /\ Connection(c).type = "status" /\ Connection(c).connected = c
BY DEF Updates, Events, RowEvent, SessionEvent, Connection

\* A row is replayed exactly if its event was observed.
LEMMA ReplayFacts ==
  ASSUME NEW e \in Entry, NEW r
  PROVE  r \in ReplayOf(e) <=> r \in Rows /\ RowEvent(r) \in Items(e.replay)
<1>1. e.replay \in Seq(Events)
  BY DEF Entry
<1>2. DOMAIN e.replay = 1..Len(e.replay) /\ \A i \in 1..Len(e.replay) : e.replay[i] \in Events
  BY <1>1
<1>3. \A i \in 1..Len(e.replay) :
        e.replay[i].type = "row" => e.replay[i].of \in Rows /\ e.replay[i] = RowEvent(e.replay[i].of)
  BY <1>2, UpdateFacts
<1>4. \A q \in Rows : RowEvent(q).type = "row" /\ RowEvent(q).of = q
  BY UpdateFacts
<1>5. ASSUME r \in ReplayOf(e) PROVE r \in Rows /\ RowEvent(r) \in Items(e.replay)
  <2>1. PICK i \in DOMAIN e.replay : e.replay[i].type = "row" /\ e.replay[i].of = r
    BY <1>5 DEF ReplayOf
  <2> QED BY <1>2, <1>3, <2>1 DEF Items
<1>6. ASSUME r \in Rows, RowEvent(r) \in Items(e.replay) PROVE r \in ReplayOf(e)
  <2>1. PICK i \in 1..Len(e.replay) : e.replay[i] = RowEvent(r)
    BY <1>6 DEF Items
  <2> QED BY <1>2, <1>4, <1>6, <2>1 DEF ReplayOf
<1> QED BY <1>5, <1>6

\* The parts of the type invariant.
LEMMA TypeParts ==
  /\ ServerOK /\ NetOK /\ ShellOK /\ disturbed \in 0..MaxDisturbed => TypeOK
  /\ TypeOK => ServerOK /\ NetOK /\ ScopeOK /\ EntriesOK(entries) /\ disturbed \in 0..MaxDisturbed
  BY DEF TypeOK, ServerOK, NetOK, ShellOK, ScopeOK, EntriesOK, WorksOK, Updates

-----------------------------------------------------------------------------
(* Sequences, epochs and slots.                                            *)

\* A number out of use: there are more of them than snapshots under way.
LEMMA UnusedFacts ==
  ASSUME NEW U, IsFiniteSet(U), Cardinality(U) <= MaxRunning + 1
  PROVE  Unused(U) \in Generations /\ Unused(U) # 0 /\ Unused(U) \notin U
<1>1. MaxRunning \in Nat /\ Generations \ {0} = 1..(MaxRunning + 2)
  BY StreamAssumption DEF Generations
<1>2. IsFiniteSet(1..(MaxRunning + 2)) /\ Cardinality(1..(MaxRunning + 2)) = MaxRunning + 2
  <2> DEFINE b == MaxRunning + 2
  <2>1. 1 \in Int /\ b \in Int /\ ~(1 > b) /\ b - 1 + 1 = b
    BY <1>1
  <2> HIDE DEF b
  <2>2. IsFiniteSet(1..b) /\ Cardinality(1..b) = IF 1 > b THEN 0 ELSE b - 1 + 1
    BY <2>1, FS_Interval
  <2>3. IsFiniteSet(1..b) /\ Cardinality(1..b) = b
    BY <2>1, <2>2
  <2> QED BY <2>3 DEF b
<1>3. Cardinality(U) \in Nat
  BY FS_CardinalityType
<1>4. ~(1..(MaxRunning + 2) \subseteq U)
  <2>1. ASSUME 1..(MaxRunning + 2) \subseteq U PROVE FALSE
    <3>1. Cardinality(1..(MaxRunning + 2)) <= Cardinality(U)
      BY <2>1, FS_Subset
    <3> QED BY <1>1, <1>2, <1>3, <3>1
  <2> QED BY <2>1
<1>5. \E m \in Generations \ {0} : m \notin U
  BY <1>1, <1>4
<1> QED BY <1>5 DEF Unused

\* The numbers in use by the snapshots under way.
LEMMA UsedFacts ==
  ASSUME NEW w, IsFiniteSet(w), Cardinality(w) <= MaxRunning
  PROVE  /\ \A k : /\ IsFiniteSet({x.sequence : x \in {y \in w : y.key = k}})
                   /\ Cardinality({x.sequence : x \in {y \in w : y.key = k}}) <= MaxRunning
         /\ IsFiniteSet({x.epoch : x \in w}) /\ Cardinality({x.epoch : x \in w}) <= MaxRunning
<1>0. MaxRunning \in Nat /\ Cardinality(w) \in Nat
  BY StreamAssumption, FS_CardinalityType
<1>1. ASSUME NEW k
      PROVE  /\ IsFiniteSet({x.sequence : x \in {y \in w : y.key = k}})
             /\ Cardinality({x.sequence : x \in {y \in w : y.key = k}}) <= MaxRunning
  <2> DEFINE S == {y \in w : y.key = k}
             T == {x.sequence : x \in S}
             f == [x \in S |-> x.sequence]
  <2>1. IsFiniteSet(S) /\ Cardinality(S) <= Cardinality(w)
    BY FS_Subset
  <2>2. f \in Surjection(S, T)
    BY DEF Surjection
  <2>3. IsFiniteSet(T) /\ Cardinality(T) <= Cardinality(S)
    BY <2>1, <2>2, FS_Surjection
  <2>4. Cardinality(S) \in Nat /\ Cardinality(T) \in Nat
    BY <2>1, <2>3, FS_CardinalityType
  <2> HIDE DEF S, T
  <2>5. IsFiniteSet(T) /\ Cardinality(T) <= MaxRunning
    BY <1>0, <2>1, <2>3, <2>4
  <2> QED BY <2>5 DEF S, T
<1>2. IsFiniteSet({x.epoch : x \in w}) /\ Cardinality({x.epoch : x \in w}) <= MaxRunning
  <2> DEFINE T == {x.epoch : x \in w}
             f == [x \in w |-> x.epoch]
  <2>1. f \in Surjection(w, T)
    BY DEF Surjection
  <2>2. IsFiniteSet(T) /\ Cardinality(T) <= Cardinality(w)
    BY <2>1, FS_Surjection
  <2>3. Cardinality(T) \in Nat
    BY <2>2, FS_CardinalityType
  <2> HIDE DEF T
  <2>4. IsFiniteSet(T) /\ Cardinality(T) <= MaxRunning
    BY <1>0, <2>2, <2>3
  <2> QED BY <2>4 DEF T
<1> QED BY <1>1, <1>2

\* A connection or a session begins an epoch that no snapshot under way has.
LEMMA EpochFacts ==
  ASSUME ShellOK
  PROVE  NextEpoch \in Generations /\ NextEpoch # epoch /\ \A x \in works : x.epoch # NextEpoch
<1>1. IsFiniteSet(works) /\ Cardinality(works) <= MaxRunning /\ MaxRunning \in Nat
  BY StreamAssumption DEF ShellOK, WorksOK
<1> DEFINE T == {x.epoch : x \in works}
<1>2. IsFiniteSet(T) /\ Cardinality(T) <= MaxRunning
  BY <1>1, UsedFacts
<1>3. IsFiniteSet(T \cup {epoch})
      /\ Cardinality(T \cup {epoch}) = IF epoch \in T THEN Cardinality(T) ELSE Cardinality(T) + 1
  BY <1>2, FS_AddElement
<1>4. Cardinality(T) \in Nat
  BY <1>2, FS_CardinalityType
<1>5. Cardinality(T \cup {epoch}) <= MaxRunning + 1
  BY <1>1, <1>2, <1>3, <1>4
<1>6. NextEpoch = Unused(T \cup {epoch})
  BY DEF NextEpoch
<1>7. NextEpoch \in Generations /\ NextEpoch \notin T \cup {epoch}
  BY <1>3, <1>5, <1>6, UnusedFacts
<1> QED BY <1>7

\* A flush leaves an entry as it was or starts the snapshot it waits for.
Flushed(e, w, s, ep) ==
  /\ w \subseteq works'
  /\ \A x \in works' \ w : /\ x.state = "pending" /\ x.filtered = filtered
                           /\ x.session = s /\ x.epoch = ep /\ x.rows = {}
  /\ \A k \in Keys :
       \/ entries'[k] = e[k] /\ OwnOf(entries', works', k) = OwnOf(e, w, k)
       \/ /\ e[k].dirty /\ ~e[k].running /\ entries'[k].running
          /\ \A x \in OwnOf(entries', works', k) : x \in works' \ w

\* What flush starts: at most one snapshot for each entry that waits, with a
\* sequence of its own; every other entry keeps what it had.
LEMMA FlushFacts ==
  ASSUME NEW e, NEW n, NEW w, NEW s \in Sessions \cup {NoSession}, NEW ep \in Generations, NEW online,
         EntriesOK(e), WorksOK(e, n, w), filtered \in BOOLEAN, Flush(e, n, w, s, ep, online)
  PROVE  /\ EntriesOK(entries') /\ WorksOK(entries', running', works')
         /\ Flushed(e, w, s, ep)
<1>1. PICK K \in SUBSET Waiting(e) :
        /\ K # {} => online /\ Cardinality(K) <= MaxRunning - n
        /\ running' = n + Cardinality(K)
        /\ works' = w \cup {Started(k, w, s, ep) : k \in K}
        /\ entries' = [k \in Keys |->
             IF k \notin K THEN e[k]
             ELSE [e[k] EXCEPT !.sequence = Started(k, w, s, ep).sequence,
                               !.running = TRUE, !.dirty = FALSE, !.replay = <<>>, !.dropped = {}]]
  BY Zenon DEF Flush
<1>2. K \subseteq Keys /\ \A k \in K : e[k].dirty /\ ~e[k].running
  BY DEF Waiting
<1>3. /\ IsFiniteSet(w) /\ n = Cardinality(w) /\ n \in Nat /\ n <= MaxRunning /\ MaxRunning \in Nat
      /\ w \subseteq Work
      /\ \A x, y \in w : x.key = y.key /\ x.sequence = y.sequence => x = y
      /\ \A x \in w : x.sequence # 0
      /\ \A k \in Keys : e[k].running <=> OwnOf(e, w, k) # {}
  BY StreamAssumption DEF WorksOK
<1> DEFINE new(k) == Started(k, w, s, ep)
           N == {new(k) : k \in K}
<1>4. ASSUME NEW k \in Keys
      PROVE  /\ new(k) \in Work /\ new(k).key = k /\ new(k).state = "pending" /\ new(k).filtered = filtered
             /\ new(k).session = s /\ new(k).epoch = ep /\ new(k).rows = {}
             /\ new(k).sequence \in Generations /\ new(k).sequence # 0
             /\ \A x \in w : x.key = k => x.sequence # new(k).sequence
  <2> DEFINE U == {x.sequence : x \in {y \in w : y.key = k}}
  <2>1. IsFiniteSet(U) /\ Cardinality(U) <= MaxRunning /\ Cardinality(U) \in Nat
    <3>1. IsFiniteSet(U) /\ Cardinality(U) <= MaxRunning
      BY <1>3, UsedFacts
    <3> QED BY <3>1, FS_CardinalityType
  <2>2. Cardinality(U) <= MaxRunning + 1
    BY <1>3, <2>1
  <2>3. Unused(U) \in Generations /\ Unused(U) # 0 /\ Unused(U) \notin U
    BY <2>1, <2>2, UnusedFacts
  <2>4. new(k) = [key |-> k, sequence |-> Unused(U), epoch |-> ep, session |-> s, filtered |-> filtered,
                  state |-> "pending", rows |-> {}, answer |-> NoSession]
    BY DEF Started
  <2>5. \A x \in w : x.key = k => x.sequence \in U
    OBVIOUS
  <2> HIDE DEF U, new
  <2>6. new(k) \in Work
    BY <2>3, <2>4 DEF Work
  <2> QED BY <2>3, <2>4, <2>5, <2>6
<1> HIDE DEF new
<1>5. works' = w \cup N /\ \A k \in K : entries'[k].sequence = new(k).sequence
  <2>1. works' = w \cup N
    BY <1>1 DEF new
  <2>2. \A k \in K : e[k] \in Entry
    BY <1>2 DEF EntriesOK
  <2>3. \A k \in K : entries'[k] = [e[k] EXCEPT !.sequence = new(k).sequence,
                               !.running = TRUE, !.dirty = FALSE, !.replay = <<>>, !.dropped = {}]
    BY <1>1, <1>2 DEF new
  <2> QED BY <2>1, <2>2, <2>3 DEF Entry
<1>6. /\ \A k \in K : entries'[k].running /\ entries'[k] \in Entry /\ entries'[k].replay = <<>>
      /\ \A k \in Keys \ K : entries'[k] = e[k]
      /\ DOMAIN entries' = Keys /\ entries' = [k \in Keys |-> entries'[k]]
  <2>1. \A k \in K : entries'[k] = [e[k] EXCEPT !.sequence = new(k).sequence,
                               !.running = TRUE, !.dirty = FALSE, !.replay = <<>>, !.dropped = {}]
    BY <1>1, <1>2 DEF new
  <2>2. \A k \in Keys : e[k] \in Entry
    BY DEF EntriesOK
  <2>3. <<>> \in Seq(Events)
    OBVIOUS
  <2>4. ASSUME NEW k \in K PROVE entries'[k].running /\ entries'[k] \in Entry /\ entries'[k].replay = <<>>
    <3>1. entries'[k] = [sequence |-> new(k).sequence, dirty |-> FALSE, running |-> TRUE, replay |-> <<>>,
                        dropped |-> {}]
      BY <1>2, <2>1, <2>2 DEF Entry
    <3>2. new(k).sequence \in Generations
      BY <1>2, <1>4
    <3> QED BY <2>3, <3>1, <3>2 DEF Entry
  <2> QED BY <1>1, <2>4
<1>7. EntriesOK(entries')
  <2>1. ReplayLimit \in Nat
    BY StreamAssumption
  <2>2. \A k \in Keys : entries'[k] \in Entry /\ Len(entries'[k].replay) <= ReplayLimit
    BY <1>6, <2>1 DEF EntriesOK
  <2> QED BY <1>6, <2>2 DEF EntriesOK
<1>8. N \cap w = {}
  BY <1>2, <1>4
<1>9. IsFiniteSet(N) /\ Cardinality(N) = Cardinality(K) /\ IsFiniteSet(K) /\ Cardinality(K) \in Nat
  <2>1. IsFiniteSet(Keys)
    <3>1. IsFiniteSet({"list"}) /\ Keys = {"list"} \cup {"active-session"}
      BY FS_Singleton DEF Keys
    <3> QED BY <3>1, FS_AddElement
  <2>2. IsFiniteSet(K)
    BY <1>2, <2>1, FS_Subset
  <2> DEFINE f == [k \in K |-> new(k)]
  <2>3. f \in Bijection(K, N)
    <3>1. \A j, k \in K : new(j) = new(k) => j = k
      BY <1>2, <1>4
    <3>2. f \in [K -> N] /\ \A j, k \in K : f[j] = f[k] => j = k
      BY <3>1
    <3>a. f \in Injection(K, N)
      BY <3>2 DEF Injection, IsInjective
    <3>3. f \in Surjection(K, N)
      BY DEF Surjection
    <3> QED BY <3>a, <3>3, Zenon DEF Bijection
  <2>4. ExistsBijection(K, N)
    BY <2>3 DEF ExistsBijection
  <2>5. IsFiniteSet(N) /\ Cardinality(N) = Cardinality(K)
    BY <2>2, <2>4, FS_Bijection
  <2> QED BY <2>2, <2>5, FS_CardinalityType
<1>10. IsFiniteSet(works') /\ running' = Cardinality(works') /\ running' \in 0..MaxRunning
  <2>1. Cardinality(w \cap N) = 0
    BY <1>8, FS_EmptySet
  <2>2. IsFiniteSet(w \cup N) /\ Cardinality(w \cup N) = Cardinality(w) + Cardinality(N) - Cardinality(w \cap N)
    BY <1>3, <1>9, FS_Union
  <2> DEFINE c == Cardinality(K)
  <2>3. K = {} => c = 0
    BY FS_EmptySet
  <2>4. K # {} => c <= MaxRunning - n
    BY <1>1
  <2>5. Cardinality(w \cup N) = n + c - 0 /\ c \in Nat
    BY <1>3, <1>9, <2>1, <2>2
  <2>6. running' = n + c
    BY <1>1
  <2> HIDE DEF c
  <2>7. n + c - 0 = running' /\ running' \in 0..MaxRunning
    BY <1>3, <2>3, <2>4, <2>5, <2>6
  <2> QED BY <1>5, <2>2, <2>5, <2>7
<1>11. /\ works' \subseteq Work /\ (\A x \in works' : x.sequence # 0)
       /\ \A x, y \in works' : x.key = y.key /\ x.sequence = y.sequence => x = y
  BY <1>2, <1>3, <1>4, <1>5
<1>12. ASSUME NEW k \in Keys
       PROVE  \/ entries'[k] = e[k] /\ OwnOf(entries', works', k) = OwnOf(e, w, k)
              \/ /\ e[k].dirty /\ ~e[k].running /\ entries'[k].running
                 /\ OwnOf(entries', works', k) = {new(k)} /\ new(k) \in works' \ w
  <2>1. CASE k \notin K
    <3>1. entries'[k] = e[k]
      BY <1>6, <2>1
    <3>2. \A x \in N : x.key # k
      BY <1>2, <1>4, <2>1
    <3> QED BY <1>5, <3>1, <3>2 DEF OwnOf
  <2>2. CASE k \in K
    <3>1. new(k) \in works' \ w
      BY <1>5, <1>8, <2>2
    <3>2. new(k) \in OwnOf(entries', works', k)
      BY <1>4, <1>5, <2>2, <3>1 DEF OwnOf
    <3>3. OwnOf(entries', works', k) = {new(k)}
      BY <1>11, <3>2 DEF OwnOf
    <3> QED BY <1>2, <1>6, <2>2, <3>1, <3>3
  <2> QED BY <2>1, <2>2
<1>13. \A k \in Keys : entries'[k].running <=> OwnOf(entries', works', k) # {}
  BY <1>3, <1>12
<1>14. WorksOK(entries', running', works')
  BY <1>10, <1>11, <1>13 DEF WorksOK
<1>15. w \subseteq works' /\ \A x \in works' \ w : /\ x.state = "pending" /\ x.filtered = filtered
                                  /\ x.session = s /\ x.epoch = ep /\ x.rows = {}
  BY <1>2, <1>4, <1>5
<1>16. \A k \in Keys :
              \/ entries'[k] = e[k] /\ OwnOf(entries', works', k) = OwnOf(e, w, k)
              \/ /\ e[k].dirty /\ ~e[k].running /\ entries'[k].running
                 /\ \A x \in OwnOf(entries', works', k) : x \in works' \ w
  BY <1>12
<1> QED BY <1>7, <1>14, <1>15, <1>16 DEF Flushed

-----------------------------------------------------------------------------
(* The way of a frame.                                                     *)

\* A connection under way has not been announced.
LinkInv ==
  /\ reader = "dialing" => ~connected
  /\ link = "accepted" => ~connected

\* The shell is going to be told to resynchronize.
Resync ==
  \/ ~connected \/ link # "registered" \/ cancelled \/ reader # "reading"
  \/ Connection(TRUE) \in Items(out)

Coming(e) == e \in outbox \cup Items(sendq) \cup Items(out)

\* The shell is going to hear of an event, or that it may have missed it.
Reaches(e) == Resync \/ Coming(e)

\* The shell takes an update off its channel.
Handles(u) == out # <<>> /\ Head(out) = u /\ out' = Tail(out)

\* The hub and the client lose a frame only together with the connection, and
\* no connection ends without an update that says so.
LEMMA FrameStep ==
  ASSUME ServerOK, NetOK, LinkInv, Hub \/ Reader \/ Break \/ DialFails
  PROVE  NetOK' /\ LinkInv' /\ \A e \in Events : Reaches(e) => Reaches(e)'
<1>0. /\ sendq \in Seq(Events) /\ out \in Seq(Updates) /\ Len(sendq) \in Nat /\ Len(out) \in Nat
      /\ Len(sendq) <= SendBuffer /\ Len(out) <= Queue /\ SendBuffer \in Nat /\ Queue \in Nat
      /\ link \in {"down", "accepted", "registered", "closed"} /\ cancelled \in BOOLEAN
      /\ reader \in {"dialing", "reading", "failed"} /\ connected \in BOOLEAN
  BY StreamAssumption DEF NetOK
<1>1. /\ \A x \in Events : /\ Append(sendq, x) \in Seq(Events) /\ Len(Append(sendq, x)) = Len(sendq) + 1
                           /\ Items(Append(sendq, x)) = Items(sendq) \cup {x}
      /\ sendq # <<>> => /\ Tail(sendq) \in Seq(Events) /\ Len(Tail(sendq)) = Len(sendq) - 1 /\ Len(sendq) > 0
                         /\ Head(sendq) \in Events /\ Items(sendq) = {Head(sendq)} \cup Items(Tail(sendq))
  BY <1>0, ItemsFacts
<1>2. \A x \in Updates : /\ Append(out, x) \in Seq(Updates) /\ Len(Append(out, x)) = Len(out) + 1
                         /\ Items(Append(out, x)) = Items(out) \cup {x}
  BY <1>0, ItemsFacts
<1>3. /\ Events \subseteq Updates /\ Connection(TRUE) \in Updates /\ Connection(FALSE) \in Updates
      /\ <<>> \in Seq(Events) /\ Len(<<>>) = 0
  <2>1. TRUE \in BOOLEAN /\ FALSE \in BOOLEAN
    BY Zenon
  <2>2. Events \subseteq Updates /\ \A c \in BOOLEAN : Connection(c) \in Updates
    BY UpdateFacts
  <2>3. <<>> \in Seq(Events) /\ Len(<<>>) = 0
    OBVIOUS
  <2> QED BY <2>1, <2>2, <2>3, Zenon
<1>a. \A x \in Updates :
        out' = Append(out, x) /\ Len(out) < Queue => out' \in Seq(Updates) /\ Len(out') <= Queue
  BY <1>0, <1>2
<1>4. ASSUME NEW f \in outbox, Broadcast(f)
      PROVE  NetOK' /\ LinkInv' /\ \A e \in Events : Reaches(e) => Reaches(e)'
  <2>1. /\ UNCHANGED <<link, reader, connected, out>> /\ outbox' = outbox \ {f} /\ f \in Events
        /\ \/ link # "registered" /\ sendq' = sendq /\ cancelled' = cancelled
           \/ Len(sendq) < SendBuffer /\ sendq' = Append(sendq, f) /\ cancelled' = cancelled
           \/ cancelled' = TRUE /\ sendq' = sendq
    BY <1>4 DEF Broadcast, client, ServerOK
  <2>2. cancelled' \in BOOLEAN
    BY <1>0, <2>1, Zenon
  <2>3. NetOK'
    BY <1>0, <1>1, <2>1, <2>2 DEF NetOK
  <2>4. LinkInv'
    BY <2>1 DEF LinkInv
  <2>5. ASSUME NEW e \in Events, Reaches(e) PROVE Reaches(e)'
    <3>1. CASE Resync
      <4>1. cancelled => cancelled'
        BY <2>1, Zenon
      <4> QED BY <2>1, <3>1, <4>1 DEF Resync, Reaches
    <3>2. CASE Coming(e) /\ link = "registered"
      BY <1>1, <2>1, <3>2 DEF Coming, Reaches, Resync
    <3>3. CASE link # "registered"
      BY <2>1, <3>3 DEF Reaches, Resync
    <3> QED BY <2>5, <3>1, <3>2, <3>3 DEF Reaches
  <2> QED BY <2>3, <2>4, <2>5
<1>5. CASE Connect
  <2>1. /\ UNCHANGED <<connected, out, outbox>> /\ reader = "dialing" /\ reader' = "reading"
        /\ link' = "accepted" /\ sendq' = <<>> /\ cancelled' = FALSE
    BY <1>5 DEF Connect, server
  <2>a. cancelled' \in BOOLEAN /\ connected' \in BOOLEAN
    BY <1>0, <2>1, Zenon
  <2>2. NetOK'
    BY <1>0, <1>3, <2>1, <2>a DEF NetOK
  <2>3. LinkInv' /\ ~connected'
    BY <2>1 DEF LinkInv
  <2> QED BY <2>2, <2>3 DEF Reaches, Resync
<1>6. CASE Register
  <2>1. UNCHANGED <<reader, connected, out, outbox, sendq, cancelled>> /\ link = "accepted" /\ link' = "registered"
    BY <1>6 DEF Register, server, client
  <2>2. NetOK'
    BY <1>0, <2>1 DEF NetOK
  <2>3. LinkInv' /\ ~connected'
    BY <2>1 DEF LinkInv
  <2> QED BY <2>2, <2>3 DEF Reaches, Resync
<1>7. CASE Teardown \/ Break
  <2>1. /\ UNCHANGED <<reader, connected, out, outbox, sendq>> /\ cancelled' = FALSE
        /\ link' \in {"closed", "down"}
    BY <1>7 DEF Teardown, Break, server, client
  <2>2. NetOK'
    BY <1>0, <2>1 DEF NetOK
  <2>3. LinkInv'
    BY <2>1 DEF LinkInv
  <2> QED BY <2>1, <2>2, <2>3 DEF Reaches, Resync
<1>8. CASE Announce
  <2>1. /\ UNCHANGED <<link, sendq, cancelled, reader, outbox>> /\ link # "accepted" /\ reader = "reading"
        /\ Len(out) < Queue /\ connected' = TRUE /\ out' = Append(out, Connection(TRUE))
    BY <1>8 DEF Announce, server, socket
  <2>a. cancelled' \in BOOLEAN /\ connected' \in BOOLEAN
    BY <1>0, <2>1, Zenon
  <2>b. out' \in Seq(Updates) /\ Len(out') <= Queue
    BY <1>3, <1>a, <2>1, Zenon
  <2>2. NetOK'
    BY <1>0, <1>1, <1>3, <2>1, <2>a, <2>b DEF NetOK
  <2>3. LinkInv'
    BY <2>1 DEF LinkInv
  <2>4. Connection(TRUE) \in Items(out')
    BY <1>2, <1>3, <2>1
  <2> QED BY <2>2, <2>3, <2>4 DEF Reaches, Resync
<1>9. CASE Receive
  <2>1. /\ UNCHANGED <<link, cancelled, connected, outbox>> /\ sendq # <<>> /\ sendq' = Tail(sendq)
        /\ reader = "reading"
        /\ \/ Len(out) < Queue /\ out' = Append(out, Head(sendq)) /\ reader' = reader
           \/ reader' = "failed" /\ out' = out
    BY <1>9 DEF Receive, server
  <2>a. cancelled' \in BOOLEAN /\ connected' \in BOOLEAN
    BY <1>0, <2>1, Zenon
  <2>b. out' \in Seq(Updates) /\ Len(out') <= Queue
    <3>1. Head(sendq) \in Updates
      BY <1>1, <1>3, <2>1, Zenon
    <3> QED BY <1>0, <1>a, <2>1, <3>1, Zenon
  <2>2. NetOK'
    BY <1>0, <1>1, <1>3, <2>1, <2>a, <2>b DEF NetOK
  <2>3. LinkInv'
    BY <2>1 DEF LinkInv
  <2>4. ASSUME NEW e \in Events, Reaches(e) PROVE Reaches(e)'
    <3>1. CASE reader' = "failed"
      BY <3>1 DEF Reaches, Resync
    <3>2. CASE out' = Append(out, Head(sendq)) /\ reader' = reader
      <4>1. Items(out') = Items(out) \cup {Head(sendq)} /\ Items(sendq) = {Head(sendq)} \cup Items(sendq')
        BY <1>1, <1>2, <1>3, <2>1, <3>2
      <4> QED BY <2>1, <2>4, <3>2, <4>1 DEF Reaches, Resync, Coming
    <3> QED BY <2>1, <3>1, <3>2
  <2> QED BY <2>2, <2>3, <2>4
<1>10. CASE ReadFails
  <2>1. UNCHANGED <<link, cancelled, connected, outbox, sendq, out>> /\ reader' = "failed"
    BY <1>10 DEF ReadFails, server, socket
  <2> QED BY <1>0, <2>1 DEF NetOK, LinkInv, Reaches, Resync
<1>11. CASE DialFails
  <2>1. UNCHANGED <<link, cancelled, connected, outbox, sendq, out>> /\ reader' = "failed"
    BY <1>11 DEF DialFails, server, socket
  <2> QED BY <1>0, <2>1 DEF NetOK, LinkInv, Reaches, Resync
<1>12. CASE Report
  <2>1. /\ Len(out) < Queue /\ reader' = "dialing" /\ connected' = FALSE /\ out' = Append(out, Connection(FALSE))
        /\ link' = "down" /\ sendq' = <<>> /\ cancelled' = FALSE
    BY <1>12 DEF Report
  <2>a. cancelled' \in BOOLEAN /\ connected' \in BOOLEAN
    BY <1>0, <2>1, Zenon
  <2>b. out' \in Seq(Updates) /\ Len(out') <= Queue
    BY <1>3, <1>a, <2>1, Zenon
  <2>c. sendq' \in Seq(Events) /\ Len(sendq') <= SendBuffer
    <3>1. 0 <= SendBuffer
      BY <1>0
    <3> QED BY <1>3, <2>1, <3>1, Zenon
  <2>d. link' \in {"down", "accepted", "registered", "closed"} /\ reader' \in {"dialing", "reading", "failed"}
    BY <2>1
  <2>2. NetOK'
    BY <2>a, <2>b, <2>c, <2>d, Zenon DEF NetOK
  <2>3. LinkInv'
    BY <2>1 DEF LinkInv
  <2> QED BY <2>1, <2>2, <2>3 DEF Reaches, Resync
<1> QED
  BY <1>4, <1>5, <1>6, <1>7, <1>8, <1>9, <1>10, <1>11, <1>12 DEF Hub, Reader

\* The shell takes updates off its channel one at a time.
LEMMA HandleStep ==
  ASSUME NetOK, LinkInv, OnStatus \/ OnSession \/ OnRow
  PROVE  /\ NetOK' /\ LinkInv' /\ ServerOK' = ServerOK
         /\ Head(out) \in Updates /\ Handles(Head(out))
         /\ \A e \in Events : Reaches(e) => Reaches(e)' \/ Handles(e) \/ Handles(Connection(TRUE))
<1>1. /\ UNCHANGED <<stored, active, outbox, link, sendq, cancelled, reader, connected>>
      /\ out # <<>> /\ out' = Tail(out)
  BY DEF OnStatus, OnSession, OnRow, server, socket
<1>2. out \in Seq(Updates) /\ Len(out) \in Nat /\ Len(out) <= Queue /\ Queue \in Nat
  BY StreamAssumption DEF NetOK
<1>3. /\ Tail(out) \in Seq(Updates) /\ Len(Tail(out)) = Len(out) - 1
      /\ Head(out) \in Updates /\ Items(out) = {Head(out)} \cup Items(Tail(out))
  BY <1>1, <1>2, ItemsFacts
<1>4. NetOK'
  BY <1>1, <1>2, <1>3 DEF NetOK
<1>5. LinkInv'
  BY <1>1 DEF LinkInv
<1>6. \A e \in Events : Reaches(e) => Reaches(e)' \/ Handles(e) \/ Handles(Connection(TRUE))
  BY <1>1, <1>3 DEF Reaches, Resync, Coming, Handles
<1>7. ServerOK' = ServerOK
  BY <1>1 DEF ServerOK
<1> QED BY <1>1, <1>3, <1>4, <1>5, <1>6, <1>7 DEF Handles

\* The rest of the shell and the collector's writes leave the connection alone.
LEMMA QuietNet ==
  ASSUME NetOK, LinkInv, UNCHANGED <<socket, client>>, outbox \subseteq outbox'
  PROVE  NetOK' /\ LinkInv' /\ \A e : Reaches(e) => Reaches(e)'
<1>1. UNCHANGED <<link, sendq, cancelled, reader, connected, out>>
  BY DEF socket, client
<1> QED BY <1>1 DEF NetOK, LinkInv, Reaches, Resync, Coming

-----------------------------------------------------------------------------
(* The registry of snapshots.                                              *)

\* Marking every subscription dirty (Refreshes.Resync).
LEMMA DirtiedFacts ==
  ASSUME NEW e, NEW n, NEW w, EntriesOK(e), WorksOK(e, n, w)
  PROVE  /\ EntriesOK(Dirtied(e)) /\ WorksOK(Dirtied(e), n, w)
         /\ \A k \in Keys : /\ Dirtied(e)[k].dirty /\ Dirtied(e)[k].running = e[k].running
                            /\ Dirtied(e)[k].replay = e[k].replay
                            /\ OwnOf(Dirtied(e), w, k) = OwnOf(e, w, k)
<1> DEFINE d == Dirtied(e)
<1>1. \A k \in Keys : d[k] = [e[k] EXCEPT !.dirty = TRUE] /\ e[k] \in Entry
  BY DEF Dirtied, EntriesOK
<1>2. \A k \in Keys : /\ d[k] \in Entry /\ d[k].dirty /\ d[k].running = e[k].running
                      /\ d[k].replay = e[k].replay /\ d[k].sequence = e[k].sequence
  BY <1>1 DEF Entry
<1>3. d \in [Keys -> Entry]
  BY <1>2 DEF Dirtied
<1> HIDE DEF d
<1>4. \A k \in Keys : OwnOf(d, w, k) = OwnOf(e, w, k)
  BY <1>2 DEF OwnOf
<1>5. EntriesOK(d)
  BY <1>2, <1>3 DEF EntriesOK
<1>6. WorksOK(d, n, w)
  BY <1>2, <1>4 DEF WorksOK
<1> QED BY <1>2, <1>4, <1>5, <1>6 DEF d

\* Registering the list anew: no snapshot under way is its own.
LEMMA ReregisteredFacts ==
  ASSUME NEW e, NEW n, NEW w, EntriesOK(e), WorksOK(e, n, w)
  PROVE  /\ EntriesOK(Reregistered(e)) /\ WorksOK(Reregistered(e), n, w)
         /\ Reregistered(e)["list"].dirty /\ ~Reregistered(e)["list"].running
         /\ OwnOf(Reregistered(e), w, "list") = {}
         /\ Reregistered(e)["active-session"] = e["active-session"]
         /\ OwnOf(Reregistered(e), w, "active-session") = OwnOf(e, w, "active-session")
<1> DEFINE d == Reregistered(e)
<1>1. e \in [Keys -> Entry] /\ "list" \in Keys /\ "active-session" \in Keys
  BY DEF EntriesOK, Keys
<1>2. NewEntry \in Entry /\ NewEntry.dirty /\ ~NewEntry.running /\ NewEntry.sequence = 0 /\ Len(NewEntry.replay) = 0
  BY StreamAssumption DEF NewEntry, Entry, Generations
<1>3. d["list"] = NewEntry /\ d["active-session"] = e["active-session"] /\ d \in [Keys -> Entry]
  BY <1>1, <1>2 DEF Reregistered, Keys
<1> HIDE DEF d
<1>4. OwnOf(d, w, "list") = {} /\ OwnOf(d, w, "active-session") = OwnOf(e, w, "active-session")
  BY <1>2, <1>3 DEF OwnOf, WorksOK
<1>5. EntriesOK(d)
  <2>1. 0 <= ReplayLimit
    BY StreamAssumption
  <2> QED BY <1>2, <1>3, <2>1 DEF EntriesOK, Keys
<1>6. WorksOK(d, n, w)
  BY <1>2, <1>3, <1>4 DEF WorksOK, Keys
<1> QED BY <1>2, <1>3, <1>4, <1>5, <1>6 DEF d

\* What an event does to the replay of a snapshot under way.
LEMMA ReplayedFacts ==
  ASSUME NEW en \in Entry, NEW ev \in Events, Len(en.replay) <= ReplayLimit
  PROVE  /\ Replayed(en, ev) \in Seq(Events) /\ Len(Replayed(en, ev)) <= ReplayLimit
         /\ ~en.running => Replayed(en, ev) = en.replay
         /\ en.running => ev \in Items(Replayed(en, ev))
         /\ \A x \in Items(en.replay) :
              x \in Items(Replayed(en, ev)) \/ (Overflowing(en) /\ x = Head(en.replay))
<1> DEFINE s == en.replay
           t == Tail(s)
<1>1. s \in Seq(Events) /\ Len(s) \in Nat /\ ReplayLimit \in Nat /\ ReplayLimit > 0 /\ Len(s) <= ReplayLimit
  BY StreamAssumption DEF Entry
<1>2. CASE ~en.running
  <2>1. Replayed(en, ev) = s
    BY <1>2 DEF Replayed
  <2> QED BY <1>1, <1>2, <2>1
<1>3. CASE en.running /\ Len(s) < ReplayLimit
  <2>1. Replayed(en, ev) = Append(s, ev)
    BY <1>3 DEF Replayed
  <2>2. Append(s, ev) \in Seq(Events) /\ Len(Append(s, ev)) = Len(s) + 1
        /\ Items(Append(s, ev)) = Items(s) \cup {ev}
    BY <1>1, ItemsFacts
  <2> QED BY <1>1, <1>3, <2>1, <2>2
<1>4. CASE en.running /\ ~(Len(s) < ReplayLimit)
  <2>1. Replayed(en, ev) = Append(t, ev)
    BY <1>4 DEF Replayed
  <2>2. Len(s) = ReplayLimit /\ s # <<>>
    BY <1>1, <1>4
  <2>3. t \in Seq(Events) /\ Len(t) = Len(s) - 1 /\ Items(s) = {Head(s)} \cup Items(t)
    BY <1>1, <2>2, ItemsFacts
  <2> HIDE DEF t, s
  <2>4. Append(t, ev) \in Seq(Events) /\ Len(Append(t, ev)) = Len(t) + 1
        /\ Items(Append(t, ev)) = Items(t) \cup {ev}
    BY <2>3, ItemsFacts
  <2>5. Overflowing(en)
    BY <1>4, <2>2 DEF Overflowing, s
  <2>6. Len(Replayed(en, ev)) = ReplayLimit
    BY <1>1, <2>1, <2>2, <2>3, <2>4
  <2>7. /\ Replayed(en, ev) \in Seq(Events) /\ ev \in Items(Replayed(en, ev))
        /\ \A x \in Items(s) : x \in Items(Replayed(en, ev)) \/ (Overflowing(en) /\ x = Head(s))
    BY <2>1, <2>3, <2>4, <2>5
  <2> QED BY <1>1, <1>4, <2>6, <2>7 DEF s
<1> QED BY <1>2, <1>3, <1>4

\* Only a row is pushed out of a replay.
LEMMA PushedOutFacts ==
  ASSUME NEW en \in Entry
  PROVE  PushedOut(en) \subseteq Rows
<1> SUFFICES ASSUME Overflowing(en), Head(en.replay).type = "row" PROVE Head(en.replay).of \in Rows
  BY DEF PushedOut
<1>1. en.replay \in Seq(Events) /\ en.replay # <<>>
  BY StreamAssumption DEF Overflowing, Entry
<1>2. Head(en.replay) \in Events
  BY <1>1, ItemsFacts
<1> QED BY <1>2, UpdateFacts

\* Observing an event changes what the list's entry says, not whose snapshot
\* is under way (Refreshes.Observe).
LEMMA ObservedFacts ==
  ASSUME NEW e, NEW n, NEW w, NEW ev \in Events, EntriesOK(e), WorksOK(e, n, w)
  PROVE  /\ EntriesOK(Observed(e, ev)) /\ WorksOK(Observed(e, ev), n, w)
         /\ (Observed(e, ev)["list"].dirty <=> e["list"].dirty \/ Invalidates(ev))
         /\ Observed(e, ev)["list"].running = e["list"].running
         /\ Observed(e, ev)["list"].replay = Replayed(e["list"], ev)
         /\ Observed(e, ev)["active-session"] = e["active-session"]
         /\ \A k \in Keys : OwnOf(Observed(e, ev), w, k) = OwnOf(e, w, k)
<1> DEFINE d == Observed(e, ev)
           l == e["list"]
           m == [l EXCEPT !.dirty = l.dirty \/ Invalidates(ev), !.replay = Replayed(l, ev),
                      !.dropped = l.dropped \cup PushedOut(l)]
<1>1. e \in [Keys -> Entry] /\ "list" \in Keys /\ "active-session" \in Keys /\ l \in Entry
      /\ Len(l.replay) <= ReplayLimit
  BY DEF EntriesOK, Keys
<1>2. Replayed(l, ev) \in Seq(Events) /\ Len(Replayed(l, ev)) <= ReplayLimit
  BY <1>1, ReplayedFacts
<1>3. (l.dirty \/ Invalidates(ev)) \in BOOLEAN
  BY Zenon
<1>4. m \in Entry /\ m.running = l.running /\ m.sequence = l.sequence /\ m.replay = Replayed(l, ev)
      /\ m.dropped = l.dropped \cup PushedOut(l) /\ (m.dirty <=> l.dirty \/ Invalidates(ev))
  <2> DEFINE b == l.dirty \/ Invalidates(ev)
             p == Replayed(l, ev)
             o == l.dropped \cup PushedOut(l)
  <2>1. b \in BOOLEAN /\ p \in Seq(Events) /\ o \subseteq Rows
    BY <1>1, <1>2, <1>3, PushedOutFacts DEF Entry
  <2>2. m = [l EXCEPT !.dirty = b, !.replay = p, !.dropped = o]
    OBVIOUS
  <2> HIDE DEF b, p, o, l, m
  <2>3. m \in Entry /\ m.running = l.running /\ m.sequence = l.sequence /\ m.replay = p /\ m.dirty = b
        /\ m.dropped = o
    BY <1>1, <2>1, <2>2 DEF Entry
  <2> QED BY <2>3 DEF b, p, o
<1>5. d = [e EXCEPT !["list"] = m]
  BY <1>1 DEF Observed, Entry
<1> HIDE DEF d, l, m
<1>6. d["list"] = m /\ d["active-session"] = e["active-session"] /\ d \in [Keys -> Entry]
  BY <1>1, <1>4, <1>5
<1>7. \A k \in Keys : OwnOf(d, w, k) = OwnOf(e, w, k)
  BY <1>4, <1>6 DEF OwnOf, Keys, l
<1>8. EntriesOK(d)
  BY <1>1, <1>2, <1>4, <1>6 DEF EntriesOK, Keys
<1>9. WorksOK(d, n, w)
  BY <1>4, <1>6, <1>7 DEF WorksOK, Keys, l
<1> QED BY <1>4, <1>6, <1>7, <1>8, <1>9 DEF d, l

\* Observing an event keeps account of the row it pushes out.
LEMMA ObservedDrops ==
  ASSUME NEW e, NEW ev \in Events, EntriesOK(e)
  PROVE  Observed(e, ev)["list"].dropped = e["list"].dropped \cup PushedOut(e["list"])
<1> DEFINE l == e["list"]
           m == [l EXCEPT !.dirty = l.dirty \/ Invalidates(ev), !.replay = Replayed(l, ev),
                      !.dropped = l.dropped \cup PushedOut(l)]
<1>1. e \in [Keys -> Entry] /\ "list" \in Keys /\ l \in Entry
  BY DEF EntriesOK, Keys
<1>2. m.dropped = l.dropped \cup PushedOut(l)
  <2> DEFINE o == l.dropped \cup PushedOut(l)
  <2> HIDE DEF o, l
  <2> QED BY <1>1 DEF Entry, m
<1>3. Observed(e, ev) = [e EXCEPT !["list"] = m]
  BY <1>1 DEF Observed, Entry
<1> HIDE DEF m
<1> QED BY <1>1, <1>2, <1>3

\* A result frees its slot; the entry that waited for it, if it still does,
\* is not running any more (Refreshes.Complete).
LEMMA FreedFacts ==
  ASSUME NEW e, EntriesOK(e), ShellOK, NEW x \in works,
         \A k \in Keys : e[k].sequence = entries[k].sequence,
         \A k \in Keys : IF x \in OwnOf(entries, works, k) THEN ~e[k].running
                         ELSE e[k].running = entries[k].running
  PROVE  /\ WorksOK(e, running - 1, works \ {x})
         /\ \A k \in Keys : OwnOf(e, works \ {x}, k)
              = IF x \in OwnOf(entries, works, k) THEN {} ELSE OwnOf(entries, works, k)
<1>1. WorksOK(entries, running, works)
  BY DEF ShellOK
<1>2. IsFiniteSet(works \ {x}) /\ Cardinality(works \ {x}) = Cardinality(works) - 1
  BY <1>1, FS_RemoveElement DEF WorksOK
<1>3. Cardinality(works \ {x}) \in Nat
  BY <1>2, FS_CardinalityType
<1>4. running - 1 = Cardinality(works \ {x}) /\ running - 1 \in 0..MaxRunning
  BY <1>1, <1>2, <1>3, StreamAssumption DEF WorksOK
<1>5. ASSUME NEW k \in Keys
      PROVE  OwnOf(e, works \ {x}, k)
               = IF x \in OwnOf(entries, works, k) THEN {} ELSE OwnOf(entries, works, k)
  BY <1>1 DEF OwnOf, WorksOK
<1>6. \A k \in Keys : e[k].running <=> OwnOf(e, works \ {x}, k) # {}
  BY <1>1, <1>5 DEF WorksOK
<1> QED BY <1>1, <1>2, <1>4, <1>5, <1>6 DEF WorksOK

-----------------------------------------------------------------------------
(* What the viewer sees, or will.                                          *)

\* A snapshot of epoch ep and session s that has been answered.
Answered(x, ep, s) == x.epoch = ep /\ x.session = s /\ x.state = "read"

\* The list shows row r, or a refresh that is due or under way will show it.
Landing(e, w, ep, s, v, r) ==
  \/ e["list"].dirty
  \/ IF e["list"].running
     THEN \A x \in OwnOf(e, w, "list") :
            Answered(x, ep, s) => r \in x.rows \cup ReplayOf(e["list"])
     ELSE r \in v

\* The active session is being asked for, and the answer is not s already.
Asking(e, w, ep, s) ==
  \/ e["active-session"].dirty
  \/ /\ e["active-session"].running
     /\ \A x \in OwnOf(e, w, "active-session") : Answered(x, ep, s) => x.answer # s

\* Whatever the list shows is in the snapshot that will replace it, or was
\* pushed out of its replay.
Keeping(e, w, ep, s, v) ==
  \A x \in OwnOf(e, w, "list") :
    Answered(x, ep, s) => v \ e["list"].dropped \subseteq x.rows \cup ReplayOf(e["list"])

\* A snapshot under way reads what its own scope holds, which is the list's
\* if the list waits for it.
Reading(e, w, f) ==
  /\ \A x \in OwnOf(e, w, "list") : x.filtered = f
  /\ \A x \in w : x.rows \subseteq Snapshot(x.session, x.filtered)

\* What is started reads from then on.
LEMMA FlushKeeps ==
  ASSUME NEW e, NEW n, NEW w, NEW s \in Sessions \cup {NoSession}, NEW ep \in Generations, NEW online,
         EntriesOK(e), WorksOK(e, n, w), filtered \in BOOLEAN, Flush(e, n, w, s, ep, online)
  PROVE  /\ \A v, r : Landing(e, w, ep, s, v, r) => Landing(entries', works', ep, s, v, r)
         /\ Asking(e, w, ep, s) => Asking(entries', works', ep, s)
         /\ \A v : Keeping(e, w, ep, s, v) => Keeping(entries', works', ep, s, v)
         /\ Reading(e, w, filtered) => Reading(entries', works', filtered)
<1>1. /\ w \subseteq works'
      /\ \A x \in works' \ w : /\ x.state = "pending" /\ x.filtered = filtered
                               /\ x.session = s /\ x.epoch = ep /\ x.rows = {}
      /\ \A k \in Keys :
           \/ entries'[k] = e[k] /\ OwnOf(entries', works', k) = OwnOf(e, w, k)
           \/ /\ e[k].dirty /\ ~e[k].running /\ entries'[k].running
              /\ \A x \in OwnOf(entries', works', k) : x \in works' \ w
  <2>1. Flushed(e, w, s, ep)
    BY FlushFacts
  <2> QED BY <2>1 DEF Flushed
<1>2. "list" \in Keys /\ "active-session" \in Keys
  BY DEF Keys
<1>3. \A x \in works' \ w : ~Answered(x, ep, s)
  BY <1>1 DEF Answered
<1>4. ASSUME NEW v, NEW r, Landing(e, w, ep, s, v, r) PROVE Landing(entries', works', ep, s, v, r)
  <2>1. CASE entries'["list"] = e["list"] /\ OwnOf(entries', works', "list") = OwnOf(e, w, "list")
    BY <1>4, <2>1, Zenon DEF Landing
  <2>2. CASE /\ entries'["list"].running
             /\ \A x \in OwnOf(entries', works', "list") : x \in works' \ w
    BY <1>3, <2>2, Zenon DEF Landing
  <2> QED BY <1>1, <1>2, <2>1, <2>2
<1>5. ASSUME Asking(e, w, ep, s) PROVE Asking(entries', works', ep, s)
  <2> DEFINE k == "active-session"
  <2>1. CASE entries'[k] = e[k] /\ OwnOf(entries', works', k) = OwnOf(e, w, k)
    BY <1>5, <2>1, Zenon DEF Asking
  <2>2. CASE entries'[k].running /\ \A x \in OwnOf(entries', works', k) : x \in works' \ w
    BY <1>3, <2>2, Zenon DEF Asking
  <2> QED BY <1>1, <1>2, <2>1, <2>2
<1>6. ASSUME NEW v, Keeping(e, w, ep, s, v) PROVE Keeping(entries', works', ep, s, v)
  <2>1. CASE entries'["list"] = e["list"] /\ OwnOf(entries', works', "list") = OwnOf(e, w, "list")
    BY <1>6, <2>1, Zenon DEF Keeping
  <2>2. CASE \A x \in OwnOf(entries', works', "list") : x \in works' \ w
    BY <1>3, <2>2, Zenon DEF Keeping
  <2> QED BY <1>1, <1>2, <2>1, <2>2
<1>7. ASSUME Reading(e, w, filtered) PROVE Reading(entries', works', filtered)
  <2>1. \A x \in OwnOf(entries', works', "list") : x.filtered = filtered
    BY <1>1, <1>2, <1>7 DEF Reading
  <2>2. \A x \in works' : x.rows \subseteq Snapshot(x.session, x.filtered)
    BY <1>1, <1>7 DEF Reading
  <2> QED BY <2>1, <2>2 DEF Reading
<1> QED BY <1>4, <1>5, <1>6, <1>7

\* The list shows only rows of its session and its filter.
ViewInv == view \subseteq Snapshot(session, filtered)

ReadInv == Reading(entries, works, filtered)

KeepInv == Keeping(entries, works, epoch, session, view)

\* No row is missing silently.
RowsInv ==
  \A r \in Snapshot(session, filtered) \ missed :
    Reaches(RowEvent(r)) \/ Landing(entries, works, epoch, session, view, r)

\* The shell is not in another session than the collector silently.
SessionInv ==
  session # active => Reaches(SessionEvent(active)) \/ Asking(entries, works, epoch, session)

SafeInv == ViewInv /\ ReadInv /\ KeepInv /\ RowsInv /\ SessionInv

IInv == ServerOK /\ NetOK /\ ShellOK /\ LinkInv /\ SafeInv /\ disturbed \in 0..MaxDisturbed

\* A snapshot is of rows.
LEMMA SnapshotFacts ==
  ASSUME NEW s, NEW f
  PROVE  /\ Snapshot(s, f) \subseteq Rows
         /\ UNCHANGED stored => Snapshot(s, f)' = Snapshot(s, f)
  BY DEF Snapshot, InScope

-----------------------------------------------------------------------------
(* The hub, the client and the collector.                                  *)

\* A step that leaves the shell and what is stored alone keeps the invariant
\* if nothing that was on its way is lost.
LEMMA ShellAlone ==
  ASSUME IInv, UNCHANGED <<shell, stored, active>>, \A e \in Events : Reaches(e) => Reaches(e)'
  PROVE  ShellOK' /\ SafeInv'
<1>1. UNCHANGED <<up, epoch, session, running, entries, works, filtered, view, missed>>
  BY DEF shell
<1>2. ShellOK'
  BY <1>1 DEF IInv, ShellOK, ScopeOK
<1>3. \A s, f : Snapshot(s, f)' = Snapshot(s, f)
  BY SnapshotFacts
<1>4. ViewInv' /\ ReadInv' /\ KeepInv'
  <2>1. ViewInv'
    BY <1>1, <1>3, Zenon DEF IInv, SafeInv, ViewInv
  <2>2. ReadInv'
    BY <1>1, <1>3, Zenon DEF IInv, SafeInv, ReadInv, Reading
  <2>3. KeepInv'
    BY <1>1, Zenon DEF IInv, SafeInv, KeepInv
  <2> QED BY <2>1, <2>2, <2>3
<1>5. RowsInv'
  <2> SUFFICES ASSUME NEW r \in Snapshot(session, filtered)' \ missed'
               PROVE  (Reaches(RowEvent(r)) \/ Landing(entries, works, epoch, session, view, r))'
    BY DEF RowsInv
  <2>1. r \in Snapshot(session, filtered) \ missed
    BY <1>1, <1>3
  <2>2. RowEvent(r) \in Events
    BY <2>1, SnapshotFacts, UpdateFacts
  <2>3. Reaches(RowEvent(r)) \/ Landing(entries, works, epoch, session, view, r)
    BY <2>1 DEF IInv, SafeInv, RowsInv
  <2> QED BY <1>1, <2>2, <2>3, Zenon
<1>6. SessionInv'
  <2>1. SessionEvent(active) \in Events
    BY UpdateFacts DEF IInv, ServerOK
  <2> QED BY <1>1, <2>1, Zenon DEF IInv, SafeInv, SessionInv
<1> QED BY <1>2, <1>4, <1>5, <1>6 DEF SafeInv

\* Frames are not lost silently on their way to the shell.
LEMMA TravelStep ==
  ASSUME IInv, Hub \/ Reader \/ Break \/ DialFails
  PROVE  IInv'
<1>1. NetOK' /\ LinkInv' /\ \A e \in Events : Reaches(e) => Reaches(e)'
  BY FrameStep DEF IInv
<1>2. UNCHANGED <<shell, stored, active>> /\ outbox' \subseteq outbox
  BY DEF Hub, Reader, Break, DialFails, Broadcast, Register, Teardown, Connect, Announce, Receive,
     ReadFails, Report, server
<1>3. ServerOK'
  BY <1>2 DEF IInv, ServerOK
<1>4. disturbed' \in 0..MaxDisturbed
  <2>1. UNCHANGED disturbed \/ Disturb
    BY DEF Hub, Reader, Break, DialFails, Broadcast, Register, Teardown, Connect, Announce, Receive,
       ReadFails, Report
  <2> QED BY <2>1, StreamAssumption DEF IInv, Disturb
<1>5. ShellOK' /\ SafeInv'
  BY <1>1, <1>2, ShellAlone
<1> QED BY <1>1, <1>3, <1>4, <1>5 DEF IInv

\* A row that is stored is on its way before anything could miss it.
LEMMA StoreStep ==
  ASSUME IInv, NEW q \in Rows, Store(q)
  PROVE  IInv'
<1>1. /\ q \notin DOMAIN stored /\ UNCHANGED <<active, socket, client, shell, disturbed>>
      /\ stored' = [p \in DOMAIN stored \cup {q} |-> IF p = q THEN active ELSE stored[p]]
      /\ outbox' = outbox \cup {RowEvent(q)}
  BY DEF Store
<1>2. NetOK' /\ LinkInv' /\ \A e : Reaches(e) => Reaches(e)'
  BY <1>1, QuietNet DEF IInv
<1>3. ServerOK'
  BY <1>1, UpdateFacts DEF IInv, ServerOK
<1>4. UNCHANGED <<up, epoch, session, running, entries, works, filtered, view, missed>>
  BY <1>1 DEF shell
<1>5. ShellOK'
  BY <1>4 DEF IInv, ShellOK, ScopeOK
<1>6. \A s, f : Snapshot(s, f) \subseteq Snapshot(s, f)' /\ Snapshot(s, f)' \subseteq Snapshot(s, f) \cup {q}
  BY <1>1 DEF Snapshot, InScope
<1>7. ViewInv' /\ ReadInv' /\ KeepInv'
  <2>1. ViewInv'
    BY <1>4, <1>6 DEF IInv, SafeInv, ViewInv
  <2>2. ReadInv'
    BY <1>4, <1>6 DEF IInv, SafeInv, ReadInv, Reading
  <2>3. KeepInv'
    BY <1>4, Zenon DEF IInv, SafeInv, KeepInv
  <2> QED BY <2>1, <2>2, <2>3
<1>8. RowsInv'
  <2> SUFFICES ASSUME NEW r \in Snapshot(session, filtered)' \ missed'
               PROVE  (Reaches(RowEvent(r)) \/ Landing(entries, works, epoch, session, view, r))'
    BY DEF RowsInv
  <2>1. CASE r = q
    BY <1>1, <2>1 DEF Reaches, Coming
  <2>2. CASE r # q
    <3>1. r \in Snapshot(session, filtered) \ missed
      BY <1>4, <1>6, <2>2
    <3>2. Reaches(RowEvent(r)) \/ Landing(entries, works, epoch, session, view, r)
      BY <3>1 DEF IInv, SafeInv, RowsInv
    <3> QED BY <1>2, <1>4, <3>2, Zenon
  <2> QED BY <2>1, <2>2
<1>9. SessionInv'
  BY <1>1, <1>2, <1>4, Zenon DEF IInv, SafeInv, SessionInv
<1> QED BY <1>1, <1>2, <1>3, <1>5, <1>7, <1>8, <1>9 DEF IInv, SafeInv

\* A switch of the active session is announced by an event.
LEMMA ActivateStep ==
  ASSUME IInv, NEW s \in Sessions, Activate(s)
  PROVE  IInv'
<1>1. /\ UNCHANGED <<stored, socket, client, shell>> /\ active' = s
      /\ outbox' = outbox \cup {SessionEvent(s)} /\ Disturb
  BY DEF Activate
<1>2. NetOK' /\ LinkInv' /\ \A e : Reaches(e) => Reaches(e)'
  BY <1>1, QuietNet DEF IInv
<1>3. ServerOK'
  BY <1>1, UpdateFacts DEF IInv, ServerOK
<1>4. UNCHANGED <<up, epoch, session, running, entries, works, filtered, view, missed>>
  BY <1>1 DEF shell
<1>5. ShellOK'
  BY <1>4 DEF IInv, ShellOK, ScopeOK
<1>6. \A x, f : Snapshot(x, f)' = Snapshot(x, f)
  BY <1>1, SnapshotFacts
<1>7. ViewInv' /\ ReadInv' /\ KeepInv'
  <2>1. ViewInv'
    BY <1>4, <1>6 DEF IInv, SafeInv, ViewInv
  <2>2. ReadInv'
    BY <1>4, <1>6 DEF IInv, SafeInv, ReadInv, Reading
  <2>3. KeepInv'
    BY <1>4, Zenon DEF IInv, SafeInv, KeepInv
  <2> QED BY <2>1, <2>2, <2>3
<1>8. RowsInv'
  BY <1>2, <1>4, <1>6, Zenon DEF IInv, SafeInv, RowsInv
<1>9. SessionInv'
  BY <1>1 DEF SessionInv, Reaches, Coming
<1>10. disturbed' \in 0..MaxDisturbed
  BY <1>1, StreamAssumption DEF IInv, Disturb
<1> QED BY <1>2, <1>3, <1>5, <1>7, <1>8, <1>9, <1>10 DEF IInv, SafeInv

-----------------------------------------------------------------------------
(* The shell.                                                              *)

\* A handler that ends in a flush is safe if what it flushes is.
LEMMA FlushSafe ==
  ASSUME NEW e, NEW n, NEW w, NEW online, EntriesOK(e), WorksOK(e, n, w),
         ScopeOK', filtered \in BOOLEAN, UNCHANGED <<filtered, stored, active, missed>>,
         Flush(e, n, w, session', epoch', online),
         view' \subseteq Snapshot(session', filtered),
         Reading(e, w, filtered), Keeping(e, w, epoch', session', view'),
         \A r \in Snapshot(session', filtered) \ missed :
           Reaches(RowEvent(r))' \/ Landing(e, w, epoch', session', view', r),
         session' # active => Reaches(SessionEvent(active))' \/ Asking(e, w, epoch', session')
  PROVE  ShellOK' /\ SafeInv'
<1>1. session' \in Sessions \cup {NoSession} /\ epoch' \in Generations
  BY DEF ScopeOK
<1>2. EntriesOK(entries') /\ WorksOK(entries', running', works')
  BY <1>1, FlushFacts
<1>3. /\ \A v, r : Landing(e, w, epoch', session', v, r) => Landing(entries', works', epoch', session', v, r)
      /\ Asking(e, w, epoch', session') => Asking(entries', works', epoch', session')
      /\ \A v : Keeping(e, w, epoch', session', v) => Keeping(entries', works', epoch', session', v)
      /\ Reading(e, w, filtered) => Reading(entries', works', filtered)
  BY <1>1, FlushKeeps
<1>4. \A s, f : Snapshot(s, f)' = Snapshot(s, f)
  BY SnapshotFacts
<1>5. ShellOK'
  BY <1>2, Zenon DEF ShellOK, EntriesOK, WorksOK, OwnOf
<1>6. ViewInv'
  BY <1>4, Zenon DEF ViewInv, Snapshot, InScope
<1>7. ReadInv'
  BY <1>3, <1>4 DEF ReadInv, Reading, OwnOf, Snapshot, InScope
<1>8. KeepInv'
  BY <1>3, Zenon DEF KeepInv, Keeping, OwnOf
<1>9. RowsInv'
  BY <1>3, <1>4, Zenon DEF RowsInv, Landing, OwnOf, Snapshot, InScope
<1>10. SessionInv'
  BY <1>3, Zenon DEF SessionInv, Asking, OwnOf
<1> QED BY <1>5, <1>6, <1>7, <1>8, <1>9, <1>10 DEF SafeInv

\* The list's entry observes an event: what it was going to show, it shows,
\* unless the row is pushed out of a full replay.
LEMMA ObservedKeeps ==
  ASSUME NEW e, NEW n, NEW w, NEW ev \in Events, EntriesOK(e), WorksOK(e, n, w), NEW ep, NEW s
  PROVE  /\ \A v, r : Landing(e, w, ep, s, v, r) =>
              Landing(Observed(e, ev), w, ep, s, v, r) \/ r \in Forgotten(e["list"], ev)
         /\ \A v : \A r \in Rows : ev = RowEvent(r) => Landing(Observed(e, ev), w, ep, s, v \cup {r}, r)
         /\ \A v : Keeping(e, w, ep, s, v) => Keeping(Observed(e, ev), w, ep, s, v)
         /\ \A v : \A r \in Rows : ev = RowEvent(r) /\ Keeping(e, w, ep, s, v)
              => Keeping(Observed(e, ev), w, ep, s, v \cup {r})
         /\ Asking(e, w, ep, s) => Asking(Observed(e, ev), w, ep, s)
         /\ \A f : Reading(e, w, f) => Reading(Observed(e, ev), w, f)
         /\ Forgotten(e["list"], ev) \subseteq Rows
<1> DEFINE d == Observed(e, ev)
           l == e["list"]
           m == d["list"]
<1>1. /\ EntriesOK(d) /\ (m.dirty <=> l.dirty \/ Invalidates(ev)) /\ m.running = l.running
      /\ m.replay = Replayed(l, ev) /\ m.dropped = l.dropped \cup PushedOut(l)
      /\ d["active-session"] = e["active-session"]
      /\ OwnOf(d, w, "list") = OwnOf(e, w, "list")
      /\ OwnOf(d, w, "active-session") = OwnOf(e, w, "active-session")
  <2>1. "list" \in Keys /\ "active-session" \in Keys
    BY DEF Keys
  <2>2. /\ EntriesOK(d) /\ (m.dirty <=> l.dirty \/ Invalidates(ev)) /\ m.running = l.running
        /\ m.replay = Replayed(l, ev) /\ d["active-session"] = e["active-session"]
        /\ \A k \in Keys : OwnOf(d, w, k) = OwnOf(e, w, k)
    BY ObservedFacts
  <2>3. m.dropped = l.dropped \cup PushedOut(l)
    BY ObservedDrops
  <2> HIDE DEF d, l, m
  <2> QED BY <2>1, <2>2, <2>3
<1>2. l \in Entry /\ m \in Entry /\ Len(l.replay) <= ReplayLimit
  BY <1>1 DEF EntriesOK, Keys
<1>3. /\ l.running => ev \in Items(m.replay)
      /\ \A x \in Items(l.replay) : x \in Items(m.replay) \/ (Overflowing(l) /\ x = Head(l.replay))
      /\ ~l.running => m.replay = l.replay
  BY <1>1, <1>2, ReplayedFacts
<1>4. \A r : /\ r \in ReplayOf(l) <=> r \in Rows /\ RowEvent(r) \in Items(l.replay)
             /\ r \in ReplayOf(m) <=> r \in Rows /\ RowEvent(r) \in Items(m.replay)
  BY <1>2, ReplayFacts
<1>5. l.running <=> OwnOf(e, w, "list") # {}
  BY DEF WorksOK, Keys
<1>a. \A r \in Rows : RowEvent(r).type = "row" /\ RowEvent(r).of = r
  BY UpdateFacts
<1>6. Forgotten(l, ev) \subseteq Rows
  BY <1>2, PushedOutFacts DEF Forgotten
<1>b. \A r \in ReplayOf(l) : r \in ReplayOf(m) \/ r \in PushedOut(l)
  BY <1>3, <1>4, <1>a DEF PushedOut
<1> HIDE DEF d, l, m
<1>7. ASSUME NEW v, NEW r, Landing(e, w, ep, s, v, r), r \notin Forgotten(l, ev)
      PROVE  Landing(d, w, ep, s, v, r)
  <2>1. CASE m.dirty
    BY <2>1 DEF Landing, m
  <2>2. CASE ~m.dirty /\ l.running
    <3>1. ~l.dirty /\ ~Invalidates(ev)
      BY <1>1, <2>2
    <3>2. r \in ReplayOf(l) => r \in ReplayOf(m)
      BY <1>7, <1>b, <3>1 DEF Forgotten
    <3>3. \A x \in OwnOf(e, w, "list") : Answered(x, ep, s) => r \in x.rows \cup ReplayOf(l)
      BY <1>7, <2>2, <3>1 DEF Landing, l
    <3>4. \A x \in OwnOf(d, w, "list") : Answered(x, ep, s) => r \in x.rows \cup ReplayOf(m)
      BY <1>1, <3>2, <3>3
    <3> QED BY <1>1, <2>2, <3>4 DEF Landing, m
  <2>3. CASE ~m.dirty /\ ~l.running
    <3>1. ~l.dirty /\ ~m.running
      BY <1>1, <2>3
    <3> QED BY <1>7, <2>3, <3>1 DEF Landing, l, m
  <2> QED BY <2>1, <2>2, <2>3
<1>8. ASSUME NEW r \in Rows, NEW v, ev = RowEvent(r) PROVE Landing(d, w, ep, s, v \cup {r}, r)
  <2>1. CASE l.running
    <3>1. r \in ReplayOf(m)
      BY <1>3, <1>4, <1>8, <2>1
    <3> QED BY <1>1, <2>1, <3>1 DEF Landing, m
  <2>2. CASE ~l.running
    BY <1>1, <2>2 DEF Landing, m
  <2> QED BY <2>1, <2>2
<1>9. ASSUME NEW v, Keeping(e, w, ep, s, v), NEW x \in OwnOf(e, w, "list"), Answered(x, ep, s)
      PROVE  v \ m.dropped \subseteq x.rows \cup ReplayOf(m)
  <2>1. v \ l.dropped \subseteq x.rows \cup ReplayOf(l)
    BY <1>9 DEF Keeping, l
  <2> QED BY <1>1, <1>b, <2>1
<1>10. \A v : Keeping(e, w, ep, s, v) => Keeping(d, w, ep, s, v)
  <2> SUFFICES ASSUME NEW v, Keeping(e, w, ep, s, v) PROVE Keeping(d, w, ep, s, v)
    OBVIOUS
  <2> QED BY <1>1, <1>9 DEF Keeping, m
<1>11. ASSUME NEW r \in Rows, NEW v, ev = RowEvent(r), Keeping(e, w, ep, s, v)
       PROVE  Keeping(d, w, ep, s, v \cup {r})
  <2>1. OwnOf(e, w, "list") # {} => r \in ReplayOf(m)
    BY <1>3, <1>4, <1>5, <1>11
  <2> QED BY <1>1, <1>9, <1>11, <2>1 DEF Keeping, m
<1>12. Asking(e, w, ep, s) => Asking(d, w, ep, s)
  BY <1>1, Zenon DEF Asking
<1>13. \A f : Reading(e, w, f) => Reading(d, w, f)
  BY <1>1, Zenon DEF Reading
<1> QED BY <1>6, <1>7, <1>8, <1>10, <1>11, <1>12, <1>13 DEF d, l

\* A new connection makes every refresh due; a lost one changes none.
LEMMA StatusStep ==
  ASSUME IInv, OnStatus
  PROVE  IInv'
<1> DEFINE on == Head(out).connected
<1>0. /\ ServerOK /\ NetOK /\ ShellOK /\ LinkInv /\ SafeInv /\ disturbed \in 0..MaxDisturbed
      /\ ScopeOK /\ EntriesOK(entries) /\ WorksOK(entries, running, works)
  BY DEF IInv, ShellOK
<1>1. /\ NetOK' /\ LinkInv' /\ ServerOK' = ServerOK /\ Head(out) \in Updates /\ Handles(Head(out))
      /\ \A e \in Events : Reaches(e) => Reaches(e)' \/ Handles(e) \/ Handles(Connection(TRUE))
  BY <1>0, HandleStep
<1>2. /\ Head(out).type = "status" /\ up' = on
      /\ epoch' = IF on THEN NextEpoch ELSE epoch
      /\ Flush(IF on THEN Dirtied(entries) ELSE entries, running, works, session, epoch', on)
      /\ UNCHANGED <<stored, active, session, filtered, view, missed, disturbed>>
  BY DEF OnStatus, server
<1>3. on \in BOOLEAN /\ Head(out) = Connection(on)
  BY <1>1, <1>2, UpdateFacts
<1>4. NextEpoch \in Generations /\ \A x \in works : x.epoch # NextEpoch
  BY <1>0, EpochFacts
<1>5. ScopeOK'
  <2>1. up' \in BOOLEAN
    BY <1>2, <1>3, Zenon
  <2>2. epoch' \in Generations
    BY <1>0, <1>2, <1>4, Zenon DEF ScopeOK
  <2> QED BY <1>0, <1>2, <2>1, <2>2, Zenon DEF ScopeOK
<1>6. filtered \in BOOLEAN /\ view \subseteq Snapshot(session, filtered) /\ Reading(entries, works, filtered)
  BY <1>0 DEF ScopeOK, SafeInv, ViewInv, ReadInv
<1>7. CASE on
  <2> DEFINE d == Dirtied(entries)
  <2>1. /\ EntriesOK(d) /\ WorksOK(d, running, works)
        /\ \A k \in Keys : d[k].dirty /\ OwnOf(d, works, k) = OwnOf(entries, works, k)
    BY <1>0, DirtiedFacts
  <2>2. "list" \in Keys /\ "active-session" \in Keys
    BY DEF Keys
  <2>3. Flush(d, running, works, session', epoch', on) /\ epoch' = NextEpoch
    BY <1>2, <1>7, Zenon
  <2> HIDE DEF d
  <2>4. Reading(d, works, filtered)
    BY <1>6, <2>1, <2>2, Zenon DEF Reading
  <2>5. Keeping(d, works, epoch', session', view')
    BY <1>4, <2>3 DEF Keeping, OwnOf, Answered
  <2>6. \A r : Landing(d, works, epoch', session', view', r)
    BY <2>1, <2>2, Zenon DEF Landing
  <2>7. Asking(d, works, epoch', session')
    BY <2>1, <2>2, Zenon DEF Asking
  <2>8. ShellOK' /\ SafeInv'
    BY <1>2, <1>5, <1>6, <2>1, <2>3, <2>4, <2>5, <2>6, <2>7, FlushSafe
  <2> QED BY <1>0, <1>1, <1>2, <2>8 DEF IInv
<1>8. CASE ~on
  <2>1. Flush(entries, running, works, session', epoch', on) /\ epoch' = epoch
    BY <1>2, <1>8, Zenon
  <2>2. ~Handles(Connection(TRUE))
    <3>1. Handles(Connection(TRUE)) => Connection(TRUE).connected = on
      BY DEF Handles
    <3>2. Connection(TRUE).connected
      BY DEF Connection
    <3> QED BY <1>8, <3>1, <3>2
  <2>3. \A e \in Events : ~Handles(e)
    BY <1>2, UpdateFacts DEF Handles
  <2>4. \A e \in Events : Reaches(e) => Reaches(e)'
    BY <1>1, <2>2, <2>3
  <2>5. \A r \in Snapshot(session', filtered) \ missed :
           Reaches(RowEvent(r))' \/ Landing(entries, works, epoch', session', view', r)
    <3> SUFFICES ASSUME NEW r \in Snapshot(session, filtered) \ missed
                 PROVE  Reaches(RowEvent(r))' \/ Landing(entries, works, epoch, session, view, r)
      BY <1>2, <2>1, Zenon
    <3>1. RowEvent(r) \in Events
      BY SnapshotFacts, UpdateFacts
    <3> QED BY <1>0, <2>4, <3>1 DEF SafeInv, RowsInv
  <2>6. session' # active => Reaches(SessionEvent(active))' \/ Asking(entries, works, epoch', session')
    <3>1. SessionEvent(active) \in Events
      BY <1>0, UpdateFacts DEF ServerOK
    <3> QED BY <1>0, <1>2, <2>1, <2>4, <3>1, Zenon DEF SafeInv, SessionInv
  <2>7. Keeping(entries, works, epoch', session', view')
    BY <1>0, <1>2, <2>1, Zenon DEF SafeInv, KeepInv
  <2>8. ShellOK' /\ SafeInv'
    BY <1>0, <1>2, <1>5, <1>6, <2>1, <2>5, <2>6, <2>7, FlushSafe
  <2> QED BY <1>0, <1>1, <1>2, <2>8 DEF IInv
<1> QED BY <1>3, <1>7, <1>8

\* Handling an event of the stream loses nothing but that event.
LEMMA EventStep ==
  ASSUME NetOK, LinkInv, OnSession \/ OnRow, Head(out).type # "status"
  PROVE  \A e \in Events : Reaches(e) => Reaches(e)' \/ e = Head(out)
<1>1. ~Handles(Connection(TRUE))
  BY DEF Handles, Connection
<1>2. \A e \in Events : Reaches(e) => Reaches(e)' \/ Handles(e) \/ Handles(Connection(TRUE))
  BY HandleStep
<1> QED BY <1>1, <1>2 DEF Handles

\* The shell follows the session it hears of: both refreshes are due, and
\* nothing of the other session stays in the list.
LEMMA SessionStep ==
  ASSUME IInv, OnSession
  PROVE  IInv'
<1> DEFINE ev == Head(out)
           s == ev.of
           a == EntriesAfter(entries, s)
<1>0. /\ ServerOK /\ NetOK /\ ShellOK /\ LinkInv /\ SafeInv /\ disturbed \in 0..MaxDisturbed
      /\ ScopeOK /\ EntriesOK(entries) /\ WorksOK(entries, running, works)
  BY DEF IInv, ShellOK
<1>1. NetOK' /\ LinkInv' /\ ServerOK' = ServerOK /\ ev \in Updates
  BY <1>0, HandleStep
<1>2. /\ ev.type = "active_session" /\ FollowSession(s)
      /\ entries' = Observed(a, ev) /\ missed' = missed \cup Forgotten(a["list"], ev)
      /\ UNCHANGED <<stored, active, up, running, works, filtered, disturbed>>
  BY DEF OnSession, server
<1>3. s \in Sessions /\ ev = SessionEvent(s) /\ ev \in Events /\ Invalidates(ev)
  BY <1>1, <1>2, UpdateFacts DEF Invalidates
<1>4. \A e \in Events : Reaches(e) => Reaches(e)' \/ e = ev
  BY <1>0, <1>2, EventStep
<1>5. EntriesOK(a) /\ WorksOK(a, running, works) /\ (s # session => OwnOf(a, works, "list") = {} /\ a["active-session"].dirty)
  <2>1. CASE s = session
    BY <1>0, <2>1 DEF EntriesAfter
  <2>2. CASE s # session
    <3>1. EntriesOK(Dirtied(entries)) /\ WorksOK(Dirtied(entries), running, works)
          /\ Dirtied(entries)["active-session"].dirty
      BY <1>0, DirtiedFacts DEF Keys
    <3>2. a = Reregistered(Dirtied(entries))
      BY <2>2 DEF EntriesAfter
    <3> QED BY <3>1, <3>2, ReregisteredFacts
  <2> QED BY <2>1, <2>2
<1> HIDE DEF a
<1>6. /\ EntriesOK(entries') /\ WorksOK(entries', running', works') /\ entries'["list"].dirty
      /\ entries'["active-session"] = a["active-session"]
      /\ OwnOf(entries', works', "list") = OwnOf(a, works, "list")
      /\ OwnOf(entries', works', "active-session") = OwnOf(a, works, "active-session")
  BY <1>2, <1>3, <1>5, ObservedFacts DEF Keys
<1>7. Forgotten(a["list"], ev) \subseteq Rows
  BY <1>3, <1>5, ObservedKeeps
<1>8. NextEpoch \in Generations
  BY <1>0, EpochFacts
<1>9. ScopeOK'
  <2>1. session' \in Sessions \cup {NoSession} /\ epoch' \in Generations /\ view' \subseteq Rows
    BY <1>0, <1>2, <1>3, <1>8 DEF FollowSession, ScopeOK
  <2> QED BY <1>0, <1>2, <1>7, <2>1 DEF ScopeOK
<1>10. ShellOK'
  BY <1>6, <1>9 DEF ShellOK, EntriesOK, WorksOK, OwnOf
<1>11. RowsInv'
  BY <1>6 DEF RowsInv, Landing
<1>12. \A x, f : Snapshot(x, f)' = Snapshot(x, f)
  BY <1>2, SnapshotFacts
<1>13. \A x \in works : x.rows \subseteq Snapshot(x.session, x.filtered)
  BY <1>0 DEF SafeInv, ReadInv, Reading
<1>14. CASE s = session
  <2>1. UNCHANGED <<session, epoch, view>> /\ a = entries
    BY <1>2, <1>14 DEF FollowSession, EntriesAfter, a
  <2>2. ViewInv'
    BY <1>0, <1>2, <1>12, <2>1, Zenon DEF SafeInv, ViewInv
  <2>3. ReadInv'
    BY <1>0, <1>2, <1>6, <1>12, <2>1 DEF SafeInv, ReadInv, Reading
  <2>4. KeepInv'
    BY <1>0, <1>2, <1>3, <2>1, ObservedKeeps DEF SafeInv, KeepInv
  <2>5. SessionInv'
    <3>1. session # active => SessionEvent(active) # ev /\ SessionEvent(active) \in Events
      BY <1>0, <1>3, <1>14, UpdateFacts DEF ServerOK
    <3>2. Asking(entries, works, epoch, session) => Asking(entries', works, epoch, session)
      BY <1>0, <1>2, <1>3, <2>1, ObservedKeeps
    <3> QED BY <1>0, <1>2, <1>4, <2>1, <3>1, <3>2 DEF SafeInv, SessionInv
  <2> QED BY <1>0, <1>1, <1>2, <1>10, <1>11, <2>2, <2>3, <2>4, <2>5 DEF IInv, SafeInv
<1>15. CASE s # session
  <2>1. view' = {} /\ OwnOf(entries', works', "list") = {} /\ entries'["active-session"].dirty
    BY <1>2, <1>5, <1>6, <1>15 DEF FollowSession
  <2>2. ViewInv'
    BY <2>1 DEF ViewInv
  <2>3. ReadInv'
    BY <1>2, <1>12, <1>13, <2>1 DEF ReadInv, Reading
  <2>4. KeepInv'
    BY <2>1 DEF KeepInv, Keeping
  <2>5. SessionInv'
    BY <2>1 DEF SessionInv, Asking
  <2> QED BY <1>0, <1>1, <1>2, <1>10, <1>11, <2>2, <2>3, <2>4, <2>5 DEF IInv, SafeInv
<1> QED BY <1>14, <1>15

\* A row of the stream is shown, replayed over the snapshot under way, or
\* makes a refresh due.
LEMMA RowStep ==
  ASSUME IInv, OnRow
  PROVE  IInv'
<1> DEFINE ev == Head(out)
           q == ev.of
<1>0. /\ ServerOK /\ NetOK /\ ShellOK /\ LinkInv /\ SafeInv /\ disturbed \in 0..MaxDisturbed
      /\ ScopeOK /\ EntriesOK(entries) /\ WorksOK(entries, running, works)
  BY DEF IInv, ShellOK
<1>1. NetOK' /\ LinkInv' /\ ServerOK' = ServerOK /\ ev \in Updates
  BY <1>0, HandleStep
<1>2. /\ ev.type = "row" /\ entries' = Observed(entries, ev)
      /\ missed' = missed \cup Forgotten(entries["list"], ev)
      /\ view' = view \cup {r \in {q} : InScope(r, session, filtered)}
      /\ UNCHANGED <<stored, active, up, epoch, session, running, works, filtered, disturbed>>
  BY DEF OnRow, server
<1>3. q \in Rows /\ ev = RowEvent(q) /\ ev \in Events
  BY <1>1, <1>2, UpdateFacts
<1>4. \A e \in Events : Reaches(e) => Reaches(e)' \/ e = ev
  BY <1>0, <1>2, EventStep
<1>5. EntriesOK(entries') /\ WorksOK(entries', running', works')
  BY <1>0, <1>2, <1>3, ObservedFacts
<1>6. /\ \A v, r : Landing(entries, works, epoch, session, v, r) =>
              Landing(entries', works, epoch, session, v, r) \/ r \in Forgotten(entries["list"], ev)
      /\ \A v : \A r \in Rows : ev = RowEvent(r) => Landing(entries', works, epoch, session, v \cup {r}, r)
      /\ \A v : Keeping(entries, works, epoch, session, v) => Keeping(entries', works, epoch, session, v)
      /\ \A v : \A r \in Rows : ev = RowEvent(r) /\ Keeping(entries, works, epoch, session, v)
              => Keeping(entries', works, epoch, session, v \cup {r})
      /\ Asking(entries, works, epoch, session) => Asking(entries', works, epoch, session)
      /\ \A f : Reading(entries, works, f) => Reading(entries', works, f)
      /\ Forgotten(entries["list"], ev) \subseteq Rows
  BY <1>0, <1>2, <1>3, ObservedKeeps
<1>7. ScopeOK'
  BY <1>0, <1>2, <1>3, <1>6 DEF ScopeOK
<1>8. ShellOK'
  BY <1>5, <1>7 DEF ShellOK, EntriesOK, WorksOK, OwnOf
<1>9. \A x, f : Snapshot(x, f)' = Snapshot(x, f)
  BY <1>2, SnapshotFacts
<1>10. view' = view \/ (view' = view \cup {q} /\ q \in Snapshot(session, filtered))
  BY <1>2, <1>3 DEF Snapshot
<1>11. ViewInv'
  BY <1>0, <1>2, <1>9, <1>10 DEF SafeInv, ViewInv
<1>12. ReadInv'
  BY <1>0, <1>2, <1>6, <1>9 DEF SafeInv, ReadInv, Reading
<1>13. KeepInv'
  <2>1. Keeping(entries, works, epoch, session, view)
    BY <1>0 DEF SafeInv, KeepInv
  <2>2. Keeping(entries', works, epoch, session, view')
    BY <1>3, <1>6, <1>10, <2>1
  <2> QED BY <1>2, <2>2 DEF KeepInv
<1>14. SessionInv'
  <2>1. SessionEvent(active) \in Events /\ SessionEvent(active) # ev
    BY <1>0, <1>2, UpdateFacts DEF ServerOK
  <2> QED BY <1>0, <1>2, <1>4, <1>6, <2>1 DEF SafeInv, SessionInv
<1>15. RowsInv'
  <2> SUFFICES ASSUME NEW r \in Snapshot(session, filtered) \ missed'
               PROVE  Reaches(RowEvent(r))' \/ Landing(entries', works, epoch, session, view', r)
    BY <1>2, <1>9 DEF RowsInv
  <2>1. r \in Rows /\ RowEvent(r) \in Events
    BY SnapshotFacts, UpdateFacts
  <2>2. CASE RowEvent(r) = ev
    <3>1. r = q
      BY <1>3, <2>1, <2>2, UpdateFacts
    <3>2. view' = view \cup {r}
      BY <1>2, <3>1 DEF Snapshot
    <3> QED BY <1>6, <2>1, <2>2, <3>2
  <2>3. CASE RowEvent(r) # ev
    <3>1. r \notin Forgotten(entries["list"], ev) /\ r \notin missed
      BY <1>2
    <3>2. Reaches(RowEvent(r)) \/ Landing(entries, works, epoch, session, view, r)
      BY <1>0, <3>1 DEF SafeInv, RowsInv
    <3>3. Landing(entries, works, epoch, session, view, r) => Landing(entries', works, epoch, session, view, r)
      BY <1>6, <3>1
    <3>4. Landing(entries', works, epoch, session, view, r) => Landing(entries', works, epoch, session, view', r)
      BY <1>10 DEF Landing
    <3> QED BY <1>4, <2>1, <2>3, <3>2, <3>3, <3>4
  <2> QED BY <2>2, <2>3
<1> QED BY <1>0, <1>1, <1>2, <1>8, <1>11, <1>12, <1>13, <1>14, <1>15 DEF IInv, SafeInv

-----------------------------------------------------------------------------
(* The results of snapshots.                                               *)

\* A step of the shell alone: nothing on its way is lost.
LEMMA LoopAlone ==
  ASSUME IInv, UNCHANGED <<server, socket, client>>
  PROVE  /\ ServerOK' /\ NetOK' /\ LinkInv' /\ UNCHANGED <<stored, active>>
         /\ \A e : Reaches(e) => Reaches(e)'
<1>1. UNCHANGED <<stored, active, outbox>>
  BY DEF server
<1>2. NetOK' /\ LinkInv' /\ \A e : Reaches(e) => Reaches(e)'
  BY <1>1, QuietNet DEF IInv
<1> QED BY <1>1, <1>2 DEF IInv, ServerOK

\* What the invariant says of the entries as they are.
LEMMA EntriesFacts ==
  ASSUME IInv
  PROVE  /\ EntriesOK(entries) /\ WorksOK(entries, running, works) /\ ScopeOK /\ filtered \in BOOLEAN
         /\ view \subseteq Snapshot(session, filtered) /\ Reading(entries, works, filtered)
         /\ Keeping(entries, works, epoch, session, view)
         /\ \A r \in Snapshot(session, filtered) \ missed :
              Reaches(RowEvent(r)) \/ Landing(entries, works, epoch, session, view, r)
         /\ session # active => Reaches(SessionEvent(active)) \/ Asking(entries, works, epoch, session)
  BY DEF IInv, ShellOK, ScopeOK, SafeInv, ViewInv, ReadInv, KeepInv, RowsInv, SessionInv

\* A refresh is started.
LEMMA TickStep ==
  ASSUME IInv, Tick
  PROVE  IInv'
<1>1. /\ Flush(entries, running, works, session, epoch, up)
      /\ UNCHANGED <<server, socket, client, up, epoch, session, filtered, view, missed, disturbed>>
  BY DEF Tick
<1>2. /\ ServerOK' /\ NetOK' /\ LinkInv' /\ UNCHANGED <<stored, active>>
      /\ \A e : Reaches(e) => Reaches(e)'
  BY <1>1, LoopAlone
<1>3. /\ EntriesOK(entries) /\ WorksOK(entries, running, works) /\ ScopeOK /\ filtered \in BOOLEAN
      /\ view \subseteq Snapshot(session, filtered) /\ Reading(entries, works, filtered)
      /\ Keeping(entries, works, epoch, session, view)
      /\ \A r \in Snapshot(session, filtered) \ missed :
           Reaches(RowEvent(r)) \/ Landing(entries, works, epoch, session, view, r)
      /\ session # active => Reaches(SessionEvent(active)) \/ Asking(entries, works, epoch, session)
  BY EntriesFacts
<1>4. ScopeOK'
  BY <1>1, <1>3, Zenon DEF ScopeOK
<1>5. UNCHANGED <<epoch, session, view, filtered, missed>>
  BY <1>1
<1>6. Flush(entries, running, works, session', epoch', up)
  BY <1>1, <1>5, Zenon
<1>7. ShellOK' /\ SafeInv'
  BY <1>2, <1>3, <1>4, <1>5, <1>6, FlushSafe
<1> QED BY <1>1, <1>2, <1>7 DEF IInv

\* A snapshot that an entry no longer waits for ends without a trace, and one
\* of another connection or session makes its refresh due again.
LEMMA DroppedKeeps ==
  ASSUME IInv, NEW x \in works, NEW e, EntriesOK(e),
         \A k \in Keys : e[k].sequence = entries[k].sequence,
         \A k \in Keys : IF x \in OwnOf(entries, works, k) THEN ~e[k].running /\ e[k].dirty
                         ELSE e[k] = entries[k]
  PROVE  /\ WorksOK(e, running - 1, works \ {x})
         /\ \A v, r : Landing(entries, works, epoch, session, v, r)
              => Landing(e, works \ {x}, epoch, session, v, r)
         /\ Asking(entries, works, epoch, session) => Asking(e, works \ {x}, epoch, session)
         /\ Keeping(e, works \ {x}, epoch, session, view)
         /\ Reading(e, works \ {x}, filtered)
<1>1. ShellOK /\ ReadInv /\ KeepInv
  BY DEF IInv, SafeInv
<1>2. /\ WorksOK(e, running - 1, works \ {x})
      /\ \A k \in Keys : OwnOf(e, works \ {x}, k)
           = IF x \in OwnOf(entries, works, k) THEN {} ELSE OwnOf(entries, works, k)
  BY <1>1, FreedFacts
<1>3. "list" \in Keys /\ "active-session" \in Keys
  BY DEF Keys
<1>4. \/ e["list"].dirty /\ OwnOf(e, works \ {x}, "list") = {}
      \/ e["list"] = entries["list"] /\ OwnOf(e, works \ {x}, "list") = OwnOf(entries, works, "list")
  BY <1>2, <1>3
<1>5. \/ e["active-session"].dirty
      \/ /\ e["active-session"] = entries["active-session"]
         /\ OwnOf(e, works \ {x}, "active-session") = OwnOf(entries, works, "active-session")
  BY <1>2, <1>3
<1>6. \A v, r : Landing(entries, works, epoch, session, v, r)
              => Landing(e, works \ {x}, epoch, session, v, r)
  BY <1>4, Zenon DEF Landing
<1>7. Asking(entries, works, epoch, session) => Asking(e, works \ {x}, epoch, session)
  BY <1>5, Zenon DEF Asking
<1>8. Keeping(e, works \ {x}, epoch, session, view)
  BY <1>1, <1>4, Zenon DEF KeepInv, Keeping
<1>9. Reading(e, works \ {x}, filtered)
  <2>1. \A y \in OwnOf(e, works \ {x}, "list") : y.filtered = filtered
    BY <1>1, <1>4 DEF ReadInv, Reading
  <2>2. \A y \in works \ {x} : y.rows \subseteq Snapshot(y.session, y.filtered)
    BY <1>1 DEF ReadInv, Reading
  <2> QED BY <2>1, <2>2 DEF Reading
<1> QED BY <1>2, <1>6, <1>7, <1>8, <1>9

\* A result that is not accepted.
LEMMA RejectStep ==
  ASSUME IInv, NEW x \in works, Reject(x)
  PROVE  IInv'
<1> DEFINE own == x.sequence = entries[x.key].sequence
           e == IF own THEN [entries EXCEPT ![x.key].running = FALSE, ![x.key].dirty = TRUE] ELSE entries
<1>1. /\ Flush(e, running - 1, works \ {x}, session, epoch, up)
      /\ UNCHANGED <<server, socket, client, up, epoch, session, filtered, view, missed, disturbed>>
  BY Zenon DEF Reject, Released
<1>2. /\ ServerOK' /\ NetOK' /\ LinkInv' /\ UNCHANGED <<stored, active>>
      /\ \A f : Reaches(f) => Reaches(f)'
  BY <1>1, LoopAlone
<1>3. /\ EntriesOK(entries) /\ WorksOK(entries, running, works) /\ ScopeOK /\ filtered \in BOOLEAN
      /\ view \subseteq Snapshot(session, filtered)
      /\ \A r \in Snapshot(session, filtered) \ missed :
           Reaches(RowEvent(r)) \/ Landing(entries, works, epoch, session, view, r)
      /\ session # active => Reaches(SessionEvent(active)) \/ Asking(entries, works, epoch, session)
  BY EntriesFacts
<1>4. x \in Work /\ x.key \in Keys
  BY <1>3 DEF WorksOK, Work
<1>5. \A k \in Keys : x \in OwnOf(entries, works, k) <=> k = x.key /\ own
  BY DEF OwnOf
<1>6. /\ \A k \in Keys : k = x.key /\ own => e[k] = [entries[k] EXCEPT !.running = FALSE, !.dirty = TRUE]
      /\ \A k \in Keys : ~(k = x.key /\ own) => e[k] = entries[k]
      /\ DOMAIN e = Keys /\ e = [k \in Keys |-> e[k]]
  <2>1. entries \in [Keys -> Entry] /\ entries[x.key] \in Entry
    BY <1>3, <1>4 DEF EntriesOK
  <2>2. CASE own
    <3>1. e = [k \in Keys |-> IF k = x.key THEN [entries[x.key] EXCEPT !.running = FALSE, !.dirty = TRUE] ELSE entries[k]]
      BY <1>4, <2>1, <2>2 DEF Entry
    <3> HIDE DEF e
    <3> QED BY <2>2, <3>1
  <2>3. CASE ~own
    BY <2>1, <2>3
  <2> QED BY <2>2, <2>3
<1> HIDE DEF e
<1>7. \A k \in Keys : /\ e[k] \in Entry /\ e[k].sequence = entries[k].sequence
                      /\ Len(e[k].replay) <= ReplayLimit
                      /\ IF x \in OwnOf(entries, works, k) THEN ~e[k].running /\ e[k].dirty
                         ELSE e[k] = entries[k]
  <2> SUFFICES ASSUME NEW k \in Keys
               PROVE  /\ e[k] \in Entry /\ e[k].sequence = entries[k].sequence
                      /\ Len(e[k].replay) <= ReplayLimit
                      /\ IF x \in OwnOf(entries, works, k) THEN ~e[k].running /\ e[k].dirty
                         ELSE e[k] = entries[k]
    OBVIOUS
  <2>1. entries[k] \in Entry /\ Len(entries[k].replay) <= ReplayLimit
    BY <1>3 DEF EntriesOK
  <2>2. CASE k = x.key /\ own
    <3>1. e[k] = [entries[k] EXCEPT !.running = FALSE, !.dirty = TRUE]
      BY <1>6, <2>2
    <3> HIDE DEF own
    <3>2. /\ e[k] \in Entry /\ ~e[k].running /\ e[k].dirty
          /\ e[k].sequence = entries[k].sequence /\ e[k].replay = entries[k].replay
      BY <2>1, <3>1 DEF Entry
    <3> QED BY <1>5, <2>1, <2>2, <3>2
  <2>3. CASE ~(k = x.key /\ own)
    BY <1>5, <1>6, <2>1, <2>3
  <2> QED BY <2>2, <2>3
<1>8. EntriesOK(e)
  BY <1>6, <1>7 DEF EntriesOK
<1>9. /\ WorksOK(e, running - 1, works \ {x})
      /\ \A v, r : Landing(entries, works, epoch, session, v, r)
           => Landing(e, works \ {x}, epoch, session, v, r)
      /\ Asking(entries, works, epoch, session) => Asking(e, works \ {x}, epoch, session)
      /\ Keeping(e, works \ {x}, epoch, session, view)
      /\ Reading(e, works \ {x}, filtered)
  BY <1>7, <1>8, DroppedKeeps
<1>10. UNCHANGED <<epoch, session, view, filtered, missed>>
  BY <1>1
<1>11. ScopeOK'
  BY <1>1, <1>3, Zenon DEF ScopeOK
<1>12. Flush(e, running - 1, works \ {x}, session', epoch', up)
  BY <1>1, <1>10, Zenon
<1>13. ShellOK' /\ SafeInv'
  BY <1>2, <1>3, <1>8, <1>9, <1>10, <1>11, <1>12, FlushSafe
<1> QED BY <1>1, <1>2, <1>13 DEF IInv

\* The viewer's other filter starts the list again; a snapshot under way is of
\* no use to it.
LEMMA RefilterStep ==
  ASSUME IInv, Refilter
  PROVE  IInv'
<1>1. /\ Disturb /\ filtered' = ~filtered /\ view' = {} /\ entries' = Reregistered(entries)
      /\ UNCHANGED <<server, socket, client, up, epoch, session, running, works, missed>>
  BY DEF Refilter
<1>2. /\ ServerOK' /\ NetOK' /\ LinkInv' /\ UNCHANGED <<stored, active>>
      /\ \A f : Reaches(f) => Reaches(f)'
  BY <1>1, LoopAlone
<1>3. /\ EntriesOK(entries) /\ WorksOK(entries, running, works) /\ ScopeOK /\ Reading(entries, works, filtered)
      /\ session # active => Reaches(SessionEvent(active)) \/ Asking(entries, works, epoch, session)
  BY EntriesFacts
<1>4. /\ EntriesOK(entries') /\ WorksOK(entries', running, works) /\ entries'["list"].dirty
      /\ OwnOf(entries', works, "list") = {}
      /\ entries'["active-session"] = entries["active-session"]
      /\ OwnOf(entries', works, "active-session") = OwnOf(entries, works, "active-session")
  BY <1>1, <1>3, ReregisteredFacts
<1>5. ShellOK'
  <2>1. filtered' \in BOOLEAN
    BY <1>1, Zenon
  <2>2. ScopeOK'
    BY <1>1, <1>3, <2>1 DEF ScopeOK
  <2> QED BY <1>1, <1>4, <2>2 DEF ShellOK, EntriesOK, WorksOK, OwnOf
<1>6. \A s, f : Snapshot(s, f)' = Snapshot(s, f)
  BY <1>2, SnapshotFacts
<1>7. ViewInv' /\ KeepInv' /\ RowsInv'
  BY <1>1, <1>4 DEF ViewInv, KeepInv, Keeping, RowsInv, Landing
<1>8. ReadInv'
  BY <1>1, <1>3, <1>4, <1>6 DEF ReadInv, Reading
<1>9. SessionInv'
  <2>1. Asking(entries, works, epoch, session) => Asking(entries', works', epoch', session')
    BY <1>1, <1>4 DEF Asking
  <2> QED BY <1>1, <1>2, <1>3, <2>1 DEF SessionInv
<1>10. disturbed' \in 0..MaxDisturbed
  BY <1>1, StreamAssumption DEF IInv, Disturb
<1> QED BY <1>2, <1>5, <1>7, <1>8, <1>9, <1>10 DEF IInv, SafeInv

\* A snapshot under way is answered, or fails: it keeps its slot.
LEMMA AnswerStep ==
  ASSUME IInv, NEW x \in works, NEW y \in Work,
         y.key = x.key /\ y.sequence = x.sequence /\ y.epoch = x.epoch,
         y.session = x.session /\ y.filtered = x.filtered,
         y.rows \subseteq Snapshot(y.session, y.filtered),
         y.state = "read" => IF x.key = "list" THEN y.rows = Snapshot(y.session, y.filtered)
                             ELSE y.answer = active,
         works' = (works \ {x}) \cup {y}, disturbed' \in 0..MaxDisturbed,
         UNCHANGED <<server, socket, client, up, epoch, session, running, entries, filtered, view, missed>>
  PROVE  IInv'
<1>1. /\ ServerOK' /\ NetOK' /\ LinkInv' /\ UNCHANGED <<stored, active>>
      /\ \A f : Reaches(f) => Reaches(f)'
  BY LoopAlone
<1>2. /\ EntriesOK(entries) /\ WorksOK(entries, running, works) /\ ScopeOK /\ Reading(entries, works, filtered)
      /\ view \subseteq Snapshot(session, filtered) /\ Keeping(entries, works, epoch, session, view)
      /\ \A r \in Snapshot(session, filtered) \ missed :
           Reaches(RowEvent(r)) \/ Landing(entries, works, epoch, session, view, r)
      /\ session # active => Reaches(SessionEvent(active)) \/ Asking(entries, works, epoch, session)
  BY EntriesFacts
<1>3. /\ IsFiniteSet(works) /\ running = Cardinality(works) /\ running \in 0..MaxRunning /\ works \subseteq Work
      /\ \A a, b \in works : a.key = b.key /\ a.sequence = b.sequence => a = b
      /\ \A a \in works : a.sequence # 0
      /\ \A k \in Keys : entries[k].running <=> OwnOf(entries, works, k) # {}
  BY <1>2 DEF WorksOK
<1>4. y \notin works \ {x}
  BY <1>3
<1>5. IsFiniteSet(works') /\ Cardinality(works') = running
  <2> DEFINE w == works \ {x}
  <2>1. IsFiniteSet(w) /\ Cardinality(w) = Cardinality(works) - 1
    BY <1>3, FS_RemoveElement
  <2>2. IsFiniteSet(w \cup {y}) /\ Cardinality(w \cup {y}) = IF y \in w THEN Cardinality(w) ELSE Cardinality(w) + 1
    BY <2>1, FS_AddElement
  <2>3. Cardinality(works) \in Nat
    BY <1>3
  <2> QED BY <1>3, <1>4, <2>1, <2>2, <2>3
<1>6. ASSUME NEW k \in Keys
      PROVE  IF x \in OwnOf(entries, works, k)
             THEN OwnOf(entries, works', k) = {y} /\ OwnOf(entries, works, k) = {x} /\ x.key = k
             ELSE OwnOf(entries, works', k) = OwnOf(entries, works, k)
  BY <1>3 DEF OwnOf
<1>7. WorksOK(entries, running, works')
  <2>1. \A a, b \in works' : a.key = b.key /\ a.sequence = b.sequence => a = b
    BY <1>3
  <2>2. \A a \in works' : a.sequence # 0
    BY <1>3
  <2>3. \A k \in Keys : entries[k].running <=> OwnOf(entries, works', k) # {}
    BY <1>3, <1>6
  <2> QED BY <1>3, <1>5, <2>1, <2>2, <2>3 DEF WorksOK
<1>8. ShellOK'
  BY <1>2, <1>7 DEF ShellOK, ScopeOK, EntriesOK, WorksOK, OwnOf
<1>9. \A s, f : Snapshot(s, f)' = Snapshot(s, f)
  BY <1>1, SnapshotFacts
<1>10. \/ OwnOf(entries, works', "list") = OwnOf(entries, works, "list")
       \/ /\ OwnOf(entries, works', "list") = {y} /\ entries["list"].running /\ y.filtered = filtered
          /\ Answered(y, epoch, session) => y.rows = Snapshot(session, filtered)
  <2>1. "list" \in Keys
    BY DEF Keys
  <2>2. x \in OwnOf(entries, works, "list") => x.filtered = filtered /\ entries["list"].running
    BY <1>2, <1>3, <2>1 DEF Reading
  <2> QED BY <1>6, <2>1, <2>2 DEF Answered
<1>11. \/ OwnOf(entries, works', "active-session") = OwnOf(entries, works, "active-session")
       \/ /\ OwnOf(entries, works', "active-session") = {y} /\ entries["active-session"].running
          /\ Answered(y, epoch, session) => y.answer = active
  <2>1. "active-session" \in Keys
    BY DEF Keys
  <2>2. x \in OwnOf(entries, works, "active-session") => entries["active-session"].running
    BY <1>3, <2>1
  <2> QED BY <1>6, <2>1, <2>2 DEF Answered
<1>12. ViewInv'
  BY <1>2, <1>9 DEF ViewInv
<1>13. ReadInv'
  <2>1. \A a \in OwnOf(entries, works', "list") : a.filtered = filtered
    BY <1>2, <1>10 DEF Reading
  <2>2. \A a \in works' : a.rows \subseteq Snapshot(a.session, a.filtered)
    BY <1>2 DEF Reading
  <2> QED BY <1>9, <2>1, <2>2 DEF ReadInv, Reading
<1>14. KeepInv'
  <2>1. Keeping(entries, works', epoch, session, view)
    BY <1>2, <1>10 DEF Keeping
  <2> QED BY <2>1 DEF KeepInv
<1>15. RowsInv'
  <2> SUFFICES ASSUME NEW r \in Snapshot(session, filtered) \ missed
               PROVE  Reaches(RowEvent(r))' \/ Landing(entries, works', epoch, session, view, r)
    BY <1>9 DEF RowsInv
  <2>1. Landing(entries, works, epoch, session, view, r) => Landing(entries, works', epoch, session, view, r)
    BY <1>10 DEF Landing
  <2> QED BY <1>1, <1>2, <2>1
<1>16. SessionInv'
  <2>1. session # active /\ Asking(entries, works, epoch, session) => Asking(entries, works', epoch, session)
    BY <1>11 DEF Asking
  <2> QED BY <1>1, <1>2, <2>1 DEF SessionInv
<1> QED BY <1>1, <1>8, <1>12, <1>13, <1>14, <1>15, <1>16 DEF IInv, SafeInv

\* The API answers, or fails.
LEMMA ServeStep ==
  ASSUME IInv, NEW x \in works, Serve(x) \/ ServeFails(x)
  PROVE  IInv'
<1>1. ServerOK /\ ScopeOK /\ WorksOK(entries, running, works) /\ ReadInv /\ disturbed \in 0..MaxDisturbed
  BY DEF IInv, ShellOK, SafeInv
<1>2. x \in Work /\ x.rows \subseteq Snapshot(x.session, x.filtered)
  BY <1>1 DEF WorksOK, ReadInv, Reading
<1>3. disturbed' \in 0..MaxDisturbed
  BY <1>1, StreamAssumption DEF Serve, ServeFails, Disturb
<1>4. UNCHANGED <<server, socket, client, up, epoch, session, running, entries, filtered, view, missed>>
  BY DEF Serve, ServeFails
<1>5. CASE Serve(x) /\ x.key = "list"
  <2> DEFINE y == [x EXCEPT !.state = "read", !.rows = Snapshot(x.session, x.filtered)]
  <2>1. works' = (works \ {x}) \cup {y}
    BY <1>5 DEF Serve
  <2>2. y \in Work /\ y.key = x.key /\ y.sequence = x.sequence /\ y.epoch = x.epoch
        /\ y.session = x.session /\ y.filtered = x.filtered /\ y.rows = Snapshot(x.session, x.filtered)
    BY <1>2, SnapshotFacts DEF Work
  <2> HIDE DEF y
  <2> QED BY <1>3, <1>4, <1>5, <2>1, <2>2, AnswerStep
<1>6. CASE Serve(x) /\ x.key # "list"
  <2> DEFINE y == [x EXCEPT !.state = "read", !.answer = active]
  <2>1. works' = (works \ {x}) \cup {y}
    BY <1>6 DEF Serve
  <2>2. y \in Work /\ y.key = x.key /\ y.sequence = x.sequence /\ y.epoch = x.epoch
        /\ y.session = x.session /\ y.filtered = x.filtered /\ y.rows = x.rows /\ y.answer = active
    BY <1>1, <1>2 DEF Work, ServerOK
  <2> HIDE DEF y
  <2> QED BY <1>2, <1>3, <1>4, <1>6, <2>1, <2>2, AnswerStep
<1>7. CASE ServeFails(x)
  <2> DEFINE y == [x EXCEPT !.state = "failed"]
  <2>1. works' = (works \ {x}) \cup {y}
    BY <1>7 DEF ServeFails
  <2>2. y \in Work /\ y.key = x.key /\ y.sequence = x.sequence /\ y.epoch = x.epoch
        /\ y.session = x.session /\ y.filtered = x.filtered /\ y.rows = x.rows /\ y.state = "failed"
    BY <1>2 DEF Work
  <2> HIDE DEF y
  <2> QED BY <1>2, <1>3, <1>4, <2>1, <2>2, AnswerStep
<1> QED BY <1>5, <1>6, <1>7

\* Completing the snapshot an entry waits for (Refreshes.Complete).
LEMMA CompletedFacts ==
  ASSUME IInv, NEW x \in works, Accepts(x)
  PROVE  /\ x \in Work /\ x.key \in Keys /\ OwnOf(entries, works, x.key) = {x}
         /\ entries[x.key].running
         /\ EntriesOK(Completed(x)) /\ WorksOK(Completed(x), running - 1, works \ {x})
         /\ \A k \in Keys \ {x.key} :
              /\ Completed(x)[k] = entries[k]
              /\ OwnOf(Completed(x), works \ {x}, k) = OwnOf(entries, works, k)
         /\ OwnOf(Completed(x), works \ {x}, x.key) = {} /\ ~Completed(x)[x.key].running
         /\ Completed(x)[x.key].sequence = entries[x.key].sequence
         /\ Completed(x)[x.key].dirty <=> entries[x.key].dirty \/ x.state = "failed"
         /\ Completed(x)[x.key].replay = entries[x.key].replay
<1> DEFINE c == Completed(x)
           en == entries[x.key]
           m == [en EXCEPT !.running = FALSE, !.dirty = en.dirty \/ x.state = "failed"]
<1>1. /\ ShellOK /\ EntriesOK(entries) /\ WorksOK(entries, running, works)
  BY DEF IInv, ShellOK
<1>2. x \in Work /\ x.key \in Keys /\ x.sequence = en.sequence
  BY <1>1 DEF WorksOK, Work, Accepts
<1>3. entries \in [Keys -> Entry] /\ en \in Entry /\ Len(en.replay) <= ReplayLimit
  BY <1>1, <1>2 DEF EntriesOK
<1>4. OwnOf(entries, works, x.key) = {x} /\ en.running
        /\ \A k \in Keys : x \in OwnOf(entries, works, k) <=> k = x.key
  BY <1>1, <1>2 DEF OwnOf, WorksOK
<1>5. c = [entries EXCEPT ![x.key] = m]
  BY <1>2, <1>3 DEF Completed, Entry
<1>6. /\ m \in Entry /\ ~m.running /\ m.sequence = en.sequence /\ m.replay = en.replay
      /\ m.dirty <=> en.dirty \/ x.state = "failed"
  <2> DEFINE b == en.dirty \/ x.state = "failed"
  <2>1. b \in BOOLEAN
    BY Zenon
  <2>2. m = [en EXCEPT !.running = FALSE, !.dirty = b]
    OBVIOUS
  <2> HIDE DEF b, en, m
  <2>3. m \in Entry /\ ~m.running /\ m.sequence = en.sequence /\ m.replay = en.replay /\ m.dirty = b
    BY <1>3, <2>1, <2>2 DEF Entry
  <2> QED BY <2>3 DEF b
<1> HIDE DEF c, m
<1>7. c[x.key] = m /\ c \in [Keys -> Entry] /\ \A k \in Keys \ {x.key} : c[k] = entries[k]
  BY <1>2, <1>3, <1>5, <1>6
<1>8. EntriesOK(c)
  BY <1>1, <1>3, <1>6, <1>7 DEF EntriesOK
<1>9. \A k \in Keys : /\ c[k].sequence = entries[k].sequence
                      /\ IF x \in OwnOf(entries, works, k) THEN ~c[k].running ELSE c[k].running = entries[k].running
  BY <1>4, <1>6, <1>7
<1>10. /\ WorksOK(c, running - 1, works \ {x})
       /\ \A k \in Keys : OwnOf(c, works \ {x}, k)
            = IF x \in OwnOf(entries, works, k) THEN {} ELSE OwnOf(entries, works, k)
  BY <1>1, <1>8, <1>9, FreedFacts
<1> QED BY <1>2, <1>4, <1>6, <1>7, <1>8, <1>10 DEF c

\* The active session is read: the shell follows it, or knows it already.
LEMMA AcceptSessionStep ==
  ASSUME IInv, NEW x \in works, AcceptSession(x)
  PROVE  IInv'
<1> DEFINE c == Completed(x)
           w == works \ {x}
<1>1. /\ Accepts(x) /\ x.key = "active-session" /\ x.state # "pending"
      /\ UNCHANGED <<server, socket, client, up, filtered, missed, disturbed>>
  BY DEF AcceptSession
<1>2. /\ ServerOK' /\ NetOK' /\ LinkInv' /\ UNCHANGED <<stored, active>>
      /\ \A f : Reaches(f) => Reaches(f)'
  BY <1>1, LoopAlone
<1>3. /\ EntriesOK(entries) /\ WorksOK(entries, running, works) /\ ScopeOK /\ filtered \in BOOLEAN
      /\ view \subseteq Snapshot(session, filtered) /\ Reading(entries, works, filtered)
      /\ Keeping(entries, works, epoch, session, view)
      /\ \A r \in Snapshot(session, filtered) \ missed :
           Reaches(RowEvent(r)) \/ Landing(entries, works, epoch, session, view, r)
      /\ session # active => Reaches(SessionEvent(active)) \/ Asking(entries, works, epoch, session)
  BY EntriesFacts
<1>4. /\ x \in Work /\ OwnOf(entries, works, "active-session") = {x} /\ entries["active-session"].running
      /\ EntriesOK(c) /\ WorksOK(c, running - 1, w)
      /\ c["list"] = entries["list"] /\ OwnOf(c, w, "list") = OwnOf(entries, works, "list")
      /\ c["active-session"].dirty <=> entries["active-session"].dirty \/ x.state = "failed"
  <2>1. "list" \in Keys \ {x.key}
    BY <1>1 DEF Keys
  <2> HIDE DEF c, w
  <2> QED BY <1>1, <2>1, CompletedFacts DEF c, w
<1>5. /\ \A r : Landing(entries, works, epoch, session, view, r) => Landing(c, w, epoch, session, view, r)
      /\ Keeping(c, w, epoch, session, view) /\ Reading(c, w, filtered)
  <2> HIDE DEF c, w
  <2>1. \A r : Landing(entries, works, epoch, session, view, r) => Landing(c, w, epoch, session, view, r)
    BY <1>4, Zenon DEF Landing
  <2>2. Keeping(c, w, epoch, session, view)
    BY <1>3, <1>4, Zenon DEF Keeping
  <2>3. Reading(c, w, filtered)
    BY <1>3, <1>4 DEF Reading, w
  <2> QED BY <2>1, <2>2, <2>3
<1>6. \A s, f : Snapshot(s, f)' = Snapshot(s, f)
  BY <1>2, SnapshotFacts
<1>7. session # active => Reaches(SessionEvent(active)) \/ c["active-session"].dirty \/ (x.state = "read" /\ x.answer # session)
  <2>1. x.state = "read" \/ x.state = "failed"
    BY <1>1, <1>4 DEF Work
  <2>2. x.state = "read" => Answered(x, epoch, session)
    BY <1>1 DEF Answered, Accepts
  <2> HIDE DEF c
  <2> QED BY <1>3, <1>4, <2>1, <2>2 DEF Asking
<1>8. CASE x.state = "failed"
  <2>1. entries' = c /\ works' = w /\ running' = running - 1 /\ UNCHANGED <<session, epoch, view>>
    BY <1>8 DEF AcceptSession, Released
  <2>2. c["active-session"].dirty
    BY <1>4, <1>8
  <2> HIDE DEF c, w
  <2>3. ScopeOK'
    BY <1>1, <1>3, <2>1, Zenon DEF ScopeOK
  <2>4. ShellOK'
    BY <1>4, <2>1, <2>3 DEF ShellOK, EntriesOK, WorksOK, OwnOf
  <2>5. ViewInv'
    BY <1>1, <1>3, <1>6, <2>1 DEF ViewInv
  <2>6. ReadInv'
    BY <1>1, <1>5, <1>6, <2>1 DEF ReadInv, Reading
  <2>7. KeepInv'
    BY <1>5, <2>1 DEF KeepInv
  <2>8. RowsInv'
    BY <1>1, <1>2, <1>3, <1>5, <1>6, <2>1 DEF RowsInv
  <2>9. SessionInv'
    BY <2>1, <2>2 DEF SessionInv, Asking
  <2> QED BY <1>1, <1>2, <2>4, <2>5, <2>6, <2>7, <2>8, <2>9 DEF IInv, SafeInv
<1>9. CASE x.state # "failed"
  <2> DEFINE s == x.answer
             a == EntriesAfter(c, s)
  <2>1. FollowSession(s) /\ Flush(a, running - 1, w, session', epoch', up)
    BY <1>9, Zenon DEF AcceptSession, Released
  <2>2. s \in Sessions \cup {NoSession}
    BY <1>4 DEF Work
  <2> HIDE DEF c, w
  <2>3. NextEpoch \in Generations
    <3>1. ShellOK
      BY DEF IInv
    <3> QED BY <3>1, EpochFacts
  <2>4. CASE s = session
    <3>1. UNCHANGED <<session, epoch, view>> /\ a = c
      BY <2>1, <2>4 DEF FollowSession, EntriesAfter
    <3>2. Flush(c, running - 1, w, session', epoch', up)
      BY <2>1, <3>1
    <3>3. ScopeOK'
      BY <1>1, <1>3, <3>1, Zenon DEF ScopeOK
    <3>4. session # active => Reaches(SessionEvent(active))' \/ Asking(c, w, epoch, session)
      BY <1>2, <1>7, <2>4 DEF Asking
    <3>5. UNCHANGED <<filtered, stored, active, missed>>
      BY <1>1, <1>2
    <3>6. \A r \in Snapshot(session, filtered) \ missed :
            Reaches(RowEvent(r))' \/ Landing(c, w, epoch, session, view, r)
      BY <1>2, <1>3, <1>5
    <3>7. ShellOK' /\ SafeInv'
      BY <1>3, <1>4, <1>5, <3>1, <3>2, <3>3, <3>4, <3>5, <3>6, FlushSafe
    <3> QED BY <1>1, <1>2, <3>7 DEF IInv
  <2>5. CASE s # session
    <3>1. session' = s /\ epoch' = NextEpoch /\ view' = {} /\ a = Reregistered(Dirtied(c))
      BY <2>1, <2>5 DEF FollowSession, EntriesAfter
    <3>2. /\ EntriesOK(Dirtied(c)) /\ WorksOK(Dirtied(c), running - 1, w)
          /\ Dirtied(c)["active-session"].dirty
      BY <1>4, DirtiedFacts DEF Keys
    <3>3. /\ EntriesOK(a) /\ WorksOK(a, running - 1, w) /\ a["list"].dirty /\ OwnOf(a, w, "list") = {}
          /\ a["active-session"].dirty
      BY <3>1, <3>2, ReregisteredFacts
    <3> HIDE DEF a
    <3>4. ScopeOK'
      BY <1>1, <1>3, <2>2, <2>3, <3>1 DEF ScopeOK
    <3>5. UNCHANGED <<filtered, stored, active, missed>>
      BY <1>1, <1>2
    <3>6. Reading(a, w, filtered)
      BY <1>5, <3>3 DEF Reading
    <3>7. /\ Keeping(a, w, epoch', session', view') /\ \A r : Landing(a, w, epoch', session', view', r)
          /\ Asking(a, w, epoch', session') /\ view' \subseteq Snapshot(session', filtered)
      BY <3>1, <3>3 DEF Keeping, Landing, Asking
    <3>8. ShellOK' /\ SafeInv'
      BY <1>3, <2>1, <3>3, <3>4, <3>5, <3>6, <3>7, FlushSafe
    <3> QED BY <1>1, <1>2, <3>8 DEF IInv
  <2> QED BY <2>4, <2>5
<1> QED BY <1>8, <1>9

\* The list is read: it shows the snapshot and what was replayed over it.
LEMMA AcceptListStep ==
  ASSUME IInv, NEW x \in works, AcceptList(x)
  PROVE  IInv' /\ view \ entries["list"].dropped \subseteq view'
<1> DEFINE c == Completed(x)
           w == works \ {x}
           en == entries["list"]
<1>1. /\ Accepts(x) /\ x.key = "list" /\ x.state # "pending"
      /\ view' = (IF x.state = "failed" THEN view ELSE x.rows)
                 \cup {r \in ReplayOf(en) : InScope(r, session, filtered)}
      /\ entries' = [c EXCEPT !["list"].replay = <<>>, !["list"].dropped = {}]
      /\ works' = w /\ running' = running - 1
      /\ UNCHANGED <<server, socket, client, up, epoch, session, filtered, missed, disturbed>>
  BY DEF AcceptList, Released
<1>2. /\ ServerOK' /\ NetOK' /\ LinkInv' /\ UNCHANGED <<stored, active>>
      /\ \A f : Reaches(f) => Reaches(f)'
  BY <1>1, LoopAlone
<1>3. /\ EntriesOK(entries) /\ WorksOK(entries, running, works) /\ ScopeOK
      /\ view \subseteq Snapshot(session, filtered) /\ Reading(entries, works, filtered)
      /\ Keeping(entries, works, epoch, session, view)
      /\ \A r \in Snapshot(session, filtered) \ missed :
           Reaches(RowEvent(r)) \/ Landing(entries, works, epoch, session, view, r)
      /\ session # active => Reaches(SessionEvent(active)) \/ Asking(entries, works, epoch, session)
  BY EntriesFacts
<1>4. /\ x \in Work /\ OwnOf(entries, works, "list") = {x} /\ en.running
      /\ EntriesOK(c) /\ WorksOK(c, running - 1, w)
      /\ c["active-session"] = entries["active-session"]
      /\ OwnOf(c, w, "active-session") = OwnOf(entries, works, "active-session")
      /\ OwnOf(c, w, "list") = {} /\ ~c["list"].running
      /\ c["list"].dirty <=> en.dirty \/ x.state = "failed"
  <2>1. "active-session" \in Keys \ {x.key}
    BY <1>1 DEF Keys
  <2> HIDE DEF c, w
  <2> QED BY <1>1, <2>1, CompletedFacts DEF c, w
<1> HIDE DEF c
<1>5. /\ EntriesOK(entries') /\ entries'["active-session"] = c["active-session"]
      /\ entries'["list"].running = c["list"].running /\ entries'["list"].dirty = c["list"].dirty
      /\ entries'["list"].sequence = c["list"].sequence
  <2> DEFINE l == c["list"]
             m == [l EXCEPT !.replay = <<>>, !.dropped = {}]
  <2>1. c \in [Keys -> Entry] /\ l \in Entry /\ "list" \in Keys /\ "active-session" \in Keys
        /\ \A k \in Keys : Len(c[k].replay) <= ReplayLimit
    BY <1>4 DEF EntriesOK, Keys
  <2>2. entries' = [c EXCEPT !["list"] = m]
    BY <1>1, <2>1
  <2> HIDE DEF l
  <2>3. m \in Entry /\ m.running = l.running /\ m.dirty = l.dirty /\ m.sequence = l.sequence /\ m.replay = <<>>
    <3> DEFINE none == <<>>
    <3>1. none \in Seq(Events)
      OBVIOUS
    <3>2. m = [l EXCEPT !.replay = none, !.dropped = {}]
      OBVIOUS
    <3> HIDE DEF m, none
    <3>3. m \in Entry /\ m.running = l.running /\ m.dirty = l.dirty /\ m.sequence = l.sequence /\ m.replay = none
      BY <2>1, <3>1, <3>2 DEF Entry
    <3> QED BY <3>3 DEF none
  <2> HIDE DEF m
  <2>4. entries' \in [Keys -> Entry] /\ entries'["list"] = m /\ \A k \in Keys \ {"list"} : entries'[k] = c[k]
    BY <2>1, <2>2, <2>3
  <2>5. Len(m.replay) <= ReplayLimit
    BY <2>3, StreamAssumption
  <2>6. EntriesOK(entries')
    BY <2>1, <2>4, <2>5 DEF EntriesOK
  <2> QED BY <2>1, <2>3, <2>4, <2>6 DEF l, Keys
<1>6. \A k \in Keys : OwnOf(entries', w, k) = OwnOf(c, w, k) /\ entries'[k].running = c[k].running
  BY <1>5 DEF OwnOf, Keys
<1>7. WorksOK(entries', running - 1, w)
  BY <1>4, <1>6 DEF WorksOK
<1>8. \A s, f : Snapshot(s, f)' = Snapshot(s, f)
  BY <1>2, SnapshotFacts
<1>9. x.state = "read" \/ x.state = "failed"
  BY <1>1, <1>4 DEF Work
<1>10. x.state = "read" => Answered(x, epoch, session) /\ x.rows \subseteq Snapshot(session, filtered)
  BY <1>1, <1>3, <1>4 DEF Answered, Accepts, Reading
<1>11. \A r \in ReplayOf(en) : r \in Rows
  <2>1. en \in Entry
    BY <1>3 DEF EntriesOK, Keys
  <2> QED BY <2>1, ReplayFacts
<1>12. view' \subseteq Snapshot(session, filtered)
  BY <1>1, <1>3, <1>9, <1>10, <1>11 DEF Snapshot
<1>13. ShellOK'
  <2>1. view' \subseteq Rows
    BY <1>12, SnapshotFacts
  <2>2. ScopeOK'
    BY <1>1, <1>3, <2>1 DEF ScopeOK
  <2> QED BY <1>1, <1>5, <1>7, <2>2 DEF ShellOK, EntriesOK, WorksOK, OwnOf
<1>14. ViewInv'
  BY <1>1, <1>8, <1>12 DEF ViewInv
<1>15. "list" \in Keys /\ "active-session" \in Keys
  BY DEF Keys
<1>16. ReadInv'
  <2>1. \A y \in w : y.rows \subseteq Snapshot(y.session, y.filtered)
    BY <1>3 DEF Reading
  <2>2. OwnOf(entries', w, "list") = {}
    BY <1>4, <1>6, <1>15
  <2> HIDE DEF w
  <2> QED BY <1>1, <1>8, <2>1, <2>2 DEF ReadInv, Reading
<1>17. KeepInv'
  BY <1>1, <1>4, <1>6, <1>15 DEF KeepInv, Keeping
<1>18. RowsInv'
  <2> SUFFICES ASSUME NEW r \in Snapshot(session, filtered) \ missed
               PROVE  Reaches(RowEvent(r))' \/ entries'["list"].dirty \/ (~entries'["list"].running /\ r \in view')
    BY <1>1, <1>8 DEF RowsInv, Landing
  <2>1. CASE Reaches(RowEvent(r)) \/ en.dirty \/ x.state = "failed"
    BY <1>2, <1>4, <1>5, <2>1
  <2>2. CASE x.state = "read" /\ Landing(entries, works, epoch, session, view, r) /\ ~en.dirty
    <3>1. r \in x.rows \cup ReplayOf(en)
      BY <1>4, <1>10, <2>2 DEF Landing
    <3>2. InScope(r, session, filtered)
      BY DEF Snapshot
    <3> QED BY <1>1, <1>4, <1>5, <2>2, <3>1, <3>2
  <2> QED BY <1>3, <1>9, <2>1, <2>2
<1>19. SessionInv'
  <2>1. Asking(entries, works, epoch, session) => Asking(entries', w, epoch, session)
    BY <1>4, <1>5, <1>6, <1>15, Zenon DEF Asking
  <2> QED BY <1>1, <1>2, <1>3, <2>1 DEF SessionInv
<1>20. view \ en.dropped \subseteq view'
  <2>1. CASE x.state = "failed"
    BY <1>1, <2>1
  <2>2. CASE x.state = "read"
    <3>1. view \ en.dropped \subseteq x.rows \cup ReplayOf(en)
      BY <1>3, <1>4, <1>10, <2>2 DEF Keeping
    <3>2. \A r \in view : InScope(r, session, filtered)
      BY <1>3 DEF Snapshot
    <3> QED BY <1>1, <2>2, <3>1, <3>2
  <2> QED BY <1>9, <2>1, <2>2
<1> QED BY <1>1, <1>2, <1>13, <1>14, <1>16, <1>17, <1>18, <1>19, <1>20 DEF IInv, SafeInv

-----------------------------------------------------------------------------
(* The theorems.                                                           *)

\* The invariant holds at first: the shell has seen nothing, and nothing is
\* stored; the session is due to be asked for.
LEMMA InitInv ==
  ASSUME Init
  PROVE  IInv
<1>1. /\ stored = [r \in {} |-> NoSession] /\ active = (CHOOSE s \in Sessions : TRUE) /\ outbox = {}
      /\ link = "down" /\ sendq = <<>> /\ cancelled = FALSE
      /\ reader = "dialing" /\ connected = FALSE /\ out = <<>>
      /\ up = FALSE /\ epoch = 0 /\ session = NoSession /\ running = 0
      /\ entries = [k \in Keys |-> NewEntry] /\ works = {}
      /\ filtered = FALSE /\ view = {} /\ missed = {} /\ disturbed = 0
  BY DEF Init
<1>2. ServerOK
  <2>1. active \in Sessions
    BY <1>1, StreamAssumption
  <2>2. DOMAIN stored = {}
    BY <1>1
  <2> QED BY <1>1, <2>1, <2>2 DEF ServerOK
<1>3. cancelled \in BOOLEAN /\ connected \in BOOLEAN /\ up \in BOOLEAN /\ filtered \in BOOLEAN
  BY <1>1, Zenon
<1>4. <<>> \in Seq(Events) /\ <<>> \in Seq(Updates) /\ Len(<<>>) = 0
  OBVIOUS
<1>5. NetOK /\ LinkInv
  <2>1. 0 <= SendBuffer /\ 0 <= Queue
    BY StreamAssumption
  <2>2. sendq \in Seq(Events) /\ Len(sendq) <= SendBuffer
    BY <1>1, <1>4, <2>1, Zenon
  <2>3. out \in Seq(Updates) /\ Len(out) <= Queue
    BY <1>1, <1>4, <2>1, Zenon
  <2> QED BY <1>1, <1>3, <2>2, <2>3 DEF NetOK, LinkInv
<1>6. ScopeOK
  BY <1>1, <1>3, StreamAssumption DEF ScopeOK, Generations
<1>7. NewEntry \in Entry /\ NewEntry.dirty /\ ~NewEntry.running /\ Len(NewEntry.replay) <= ReplayLimit
  BY StreamAssumption DEF NewEntry, Entry, Generations
<1>8. EntriesOK(entries)
  BY <1>1, <1>7 DEF EntriesOK
<1>9. "list" \in Keys /\ "active-session" \in Keys
  BY DEF Keys
<1>10. \A k \in Keys : entries[k].dirty /\ ~entries[k].running /\ OwnOf(entries, works, k) = {}
  BY <1>1, <1>7 DEF OwnOf
<1>11. WorksOK(entries, running, works)
  <2>1. IsFiniteSet({}) /\ Cardinality({}) = 0
    BY FS_EmptySet
  <2> QED BY <1>1, <1>10, <2>1, StreamAssumption DEF WorksOK
<1>12. SafeInv
  BY <1>1, <1>9, <1>10 DEF SafeInv, ViewInv, ReadInv, Reading, KeepInv, Keeping, RowsInv, Landing, SessionInv, Asking
<1>13. disturbed \in 0..MaxDisturbed
  BY <1>1, StreamAssumption
<1> QED BY <1>2, <1>5, <1>6, <1>8, <1>11, <1>12, <1>13 DEF IInv, ShellOK

\* Every step keeps the invariant.
LEMMA NextInv ==
  ASSUME IInv, [Next]_vars
  PROVE  IInv'
<1>1. CASE Hub \/ Reader
  BY <1>1, TravelStep
<1>2. CASE Loop
  <2>1. CASE OnStatus
    BY <2>1, StatusStep
  <2>2. CASE OnSession
    BY <2>2, SessionStep
  <2>3. CASE OnRow
    BY <2>3, RowStep
  <2>4. CASE Tick
    BY <2>4, TickStep
  <2>5. ASSUME NEW x \in works, Reject(x) \/ AcceptSession(x) \/ AcceptList(x) \/ Serve(x) PROVE IInv'
    BY <2>5, RejectStep, AcceptSessionStep, AcceptListStep, ServeStep
  <2> QED BY <1>2, <2>1, <2>2, <2>3, <2>4, <2>5 DEF Loop
<1>3. CASE Environment
  <2>1. ASSUME NEW r \in Rows, Store(r) PROVE IInv'
    BY <2>1, StoreStep
  <2>2. ASSUME NEW s \in Sessions, Activate(s) PROVE IInv'
    BY <2>2, ActivateStep
  <2>3. CASE Break \/ DialFails
    BY <2>3, TravelStep
  <2>4. CASE Refilter
    BY <2>4, RefilterStep
  <2>5. ASSUME NEW x \in works, ServeFails(x) PROVE IInv'
    BY <2>5, ServeStep
  <2> QED BY <1>3, <2>1, <2>2, <2>3, <2>4, <2>5 DEF Environment
<1>4. CASE UNCHANGED vars
  <2>1. UNCHANGED <<shell, server, socket, client, disturbed>>
    BY <1>4 DEF vars
  <2>2. /\ ServerOK' /\ NetOK' /\ LinkInv' /\ UNCHANGED <<stored, active>>
        /\ \A e : Reaches(e) => Reaches(e)'
    BY <2>1, LoopAlone
  <2>3. ShellOK' /\ SafeInv'
    BY <2>1, <2>2, ShellAlone
  <2> QED BY <2>1, <2>2, <2>3 DEF IInv
<1> QED BY <1>1, <1>2, <1>3, <1>4 DEF Next

\* The inductive invariant of the live stream.
THEOREM StreamInvariant == Spec => []IInv
<1>1. Init => IInv
  BY InitInv
<1>2. IInv /\ [Next]_vars => IInv'
  BY NextInv
<1> QED BY <1>1, <1>2, PTL DEF Spec

\* The slots of the watcher's snapshots: as many are taken as are under way,
\* a subscription waits for one of its own or for none (Refreshes.Complete),
\* and the list shows no row of another session or filter.
THEOREM StreamSafe == Spec => []StreamInv
<1>1. IInv => StreamInv
  <2> SUFFICES ASSUME IInv PROVE StreamInv
    OBVIOUS
  <2>1. TypeOK
    BY TypeParts DEF IInv
  <2>2. WorksOK(entries, running, works) /\ view \subseteq Snapshot(session, filtered)
    BY EntriesFacts
  <2>3. ASSUME NEW k \in Keys
        PROVE  Cardinality({w \in works : w.key = k /\ w.sequence = entries[k].sequence})
                 = IF entries[k].running THEN 1 ELSE 0
    <3> DEFINE O == {w \in works : w.key = k /\ w.sequence = entries[k].sequence}
    <3>1. entries[k].running <=> O # {}
      BY <2>2 DEF WorksOK, OwnOf
    <3>2. \A a, b \in O : a = b
      BY <2>2 DEF WorksOK
    <3> HIDE DEF O
    <3>3. CASE entries[k].running
      <4>1. PICK a \in O : O = {a}
        BY <3>1, <3>2, <3>3
      <4>2. Cardinality({a}) = 1
        BY FS_Singleton
      <4> QED BY <3>3, <4>1, <4>2 DEF O
    <3>4. CASE ~entries[k].running
      <4>1. O = {}
        BY <3>1, <3>4
      <4>2. Cardinality({}) = 0
        BY FS_EmptySet
      <4> QED BY <3>4, <4>1, <4>2 DEF O
    <3> QED BY <3>3, <3>4
  <2> QED BY <2>1, <2>2, <2>3 DEF StreamInv, WorksOK
<1> QED BY <1>1, StreamInvariant, PTL

\* No gap is silent (internal/ws/hub.go, client.go): a watcher that is
\* connected, has handled every frame and waits for no refresh shows every
\* stored row of its scope, in the collector's session.
THEOREM QuietCurrent == Spec => []QuietIsCurrent
<1>1. IInv => QuietIsCurrent
  <2> SUFFICES ASSUME IInv, outbox = {}, link = "registered", ~cancelled, sendq = <<>>,
                      reader = "reading", connected, out = <<>>, up, works = {},
                      \A k \in Keys : ~entries[k].dirty
               PROVE  Current
    BY DEF QuietIsCurrent
  <2>1. /\ WorksOK(entries, running, works)
        /\ \A r \in Snapshot(session, filtered) \ missed :
             Reaches(RowEvent(r)) \/ Landing(entries, works, epoch, session, view, r)
        /\ session # active => Reaches(SessionEvent(active)) \/ Asking(entries, works, epoch, session)
    BY EntriesFacts
  <2>2. "list" \in Keys /\ "active-session" \in Keys
    BY DEF Keys
  <2>3. \A k \in Keys : ~entries[k].running /\ ~entries[k].dirty
    BY <2>1 DEF WorksOK, OwnOf
  <2>4. Items(sendq) = {} /\ Items(out) = {}
    BY DEF Items
  <2>5. \A e : ~Reaches(e)
    BY <2>4 DEF Reaches, Resync, Coming
  <2>6. session = active
    BY <2>1, <2>2, <2>3, <2>5 DEF Asking
  <2>7. \A r \in Snapshot(session, filtered) \ missed : r \in view
    BY <2>1, <2>2, <2>3, <2>5 DEF Landing
  <2> QED BY <2>6, <2>7 DEF Current
<1> QED BY <1>1, StreamInvariant, PTL

\* A snapshot that comes back never takes a row out of the list that the
\* stream has put there (Refreshes.Observe), unless its replay overflowed and
\* the row was pushed out of it.
THEOREM StreamedStays == Spec => SnapshotKeepsStreamed
<1>1. IInv /\ [Next]_vars =>
        [(session' = session /\ filtered' = filtered)
           => view \ entries["list"].dropped \subseteq view']_vars
  <2> SUFFICES ASSUME IInv, Next, session' = session, filtered' = filtered
               PROVE  view \ entries["list"].dropped \subseteq view'
    BY DEF vars
  <2>1. CASE Hub \/ Reader
    BY <2>1 DEF Hub, Reader, Broadcast, Register, Teardown, Connect, Announce, Receive, ReadFails, Report, shell
  <2>2. CASE OnStatus \/ OnSession \/ OnRow \/ Tick
    BY <2>2 DEF OnStatus, OnSession, OnRow, Tick, FollowSession
  <2>3. ASSUME NEW x \in works, Reject(x) \/ AcceptSession(x) \/ Serve(x) PROVE view \subseteq view'
    BY <2>3 DEF Reject, AcceptSession, Serve, FollowSession
  <2>4. ASSUME NEW x \in works, AcceptList(x)
        PROVE  view \ entries["list"].dropped \subseteq view'
    BY <2>4, AcceptListStep
  <2>5. CASE Environment
    <3>1. filtered \in BOOLEAN
      BY EntriesFacts
    <3>2. ~Refilter
      <4>1. filtered # ~filtered
        BY <3>1, Zenon
      <4> QED BY <4>1 DEF Refilter
    <3> QED BY <2>5, <3>2 DEF Environment, Store, Activate, Break, DialFails, ServeFails, shell
  <2> QED BY <2>1, <2>2, <2>3, <2>4, <2>5 DEF Next, Loop
<1> QED BY <1>1, StreamInvariant, PTL DEF Spec, SnapshotKeepsStreamed
=============================================================================
