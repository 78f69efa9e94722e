------------------------ MODULE IngestBatcherProofs ------------------------
(***************************************************************************)
(* Proofs that the ingestion coordinator keeps its promises for any set of *)
(* exports, sizes, targets and limits.  The inductive invariant is IInv    *)
(* together with the accounting of admitted requests and bytes; OrderInv   *)
(* extends it to the order in which exports start.                         *)
(***************************************************************************)
EXTENDS IngestBatcher, FiniteSetTheorems, SequenceTheorems, TLAPS

-----------------------------------------------------------------------------
(* Payload is a sum.                                                       *)

Units(S) == UNION {{w} \X (1..Bytes[w]) : w \in S}

\* The payload of a set of exports is a natural number (Payload stands for
\* the bytes counter of ingestBatcher).
LEMMA PayloadFinite ==
  ASSUME NEW S \in SUBSET Exports
  PROVE  IsFiniteSet(Units(S)) /\ Payload(S) \in Nat /\ Payload(S) = Cardinality(Units(S))
<1> DEFINE parts == {{w} \X (1..Bytes[w]) : w \in S}
<1>1. IsFiniteSet(S)
  BY FS_Subset, IngestConstants
<1>2. ASSUME NEW w \in S PROVE IsFiniteSet({w} \X (1..Bytes[w]))
  <2>1. IsFiniteSet({w})
    BY FS_Singleton
  <2>2. IsFiniteSet(1..Bytes[w])
    BY FS_Interval, IngestConstants
  <2>3. QED BY <2>1, <2>2, FS_Product
<1>3. IsFiniteSet(parts)
  <2> DEFINE f == [w \in S |-> {w} \X (1..Bytes[w])]
  <2>1. f \in Surjection(S, parts)
    BY DEF Surjection
  <2>2. QED BY <1>1, <2>1, FS_Surjection
<1>4. IsFiniteSet(UNION parts)
  BY <1>2, <1>3, FS_UNION
<1>5. Cardinality(UNION parts) \in Nat
  BY <1>4, FS_CardinalityType
<1>6. QED BY <1>4, <1>5 DEF Units, Payload

\* The payload of two disjoint sets of exports is the sum of theirs.
LEMMA PayloadUnion ==
  ASSUME NEW S \in SUBSET Exports, NEW T \in SUBSET Exports, S \cap T = {}
  PROVE  Payload(S \cup T) = Payload(S) + Payload(T)
<1>1. Units(S \cup T) = Units(S) \cup Units(T)
  BY DEF Units
<1>2. Units(S) \cap Units(T) = {}
  BY DEF Units
<1>3. /\ IsFiniteSet(Units(S)) /\ Payload(S) = Cardinality(Units(S)) /\ Payload(S) \in Nat
      /\ IsFiniteSet(Units(T)) /\ Payload(T) = Cardinality(Units(T)) /\ Payload(T) \in Nat
  BY PayloadFinite
<1>4. Payload(S \cup T) = Cardinality(Units(S \cup T))
  BY PayloadFinite
<1>5. Cardinality(Units(S) \cup Units(T))
        = Cardinality(Units(S)) + Cardinality(Units(T)) - Cardinality(Units(S) \cap Units(T))
  BY <1>3, FS_Union
<1>6. Cardinality(Units(S) \cap Units(T)) = 0
  BY <1>2, FS_EmptySet
<1>7. Payload(S \cup T) = Payload(S) + Payload(T) - 0
  BY <1>1, <1>3, <1>4, <1>5, <1>6
<1>8. QED BY <1>3, <1>7

\* The payload of one export is its size.
LEMMA PayloadSingleton ==
  ASSUME NEW w \in Exports
  PROVE  Payload({w}) = Bytes[w]
<1>1. Payload({w}) = Cardinality({w} \X (1..Bytes[w]))
  BY DEF Payload
<1>2. IsFiniteSet({w}) /\ Cardinality({w}) = 1
  BY FS_Singleton
<1>3. IsFiniteSet(1..Bytes[w]) /\ Cardinality(1..Bytes[w]) = Bytes[w]
  BY FS_Interval, IngestConstants
<1>4. Cardinality({w} \X (1..Bytes[w])) = Cardinality({w}) * Cardinality(1..Bytes[w])
  BY <1>2, <1>3, FS_Product
<1>5. Bytes[w] \in Nat
  BY IngestConstants
<1>6. QED BY <1>1, <1>2, <1>3, <1>4, <1>5

\* Releasing a part of the live exports subtracts its payload.
LEMMA PayloadDifference ==
  ASSUME NEW S \in SUBSET Exports, NEW T \in SUBSET S
  PROVE  Payload(S \ T) = Payload(S) - Payload(T)
<1>1. S = (S \ T) \cup T
  OBVIOUS
<1>2. Payload(S) = Payload(S \ T) + Payload(T)
  BY <1>1, PayloadUnion
<1>3. Payload(S \ T) \in Nat /\ Payload(T) \in Nat
  BY PayloadFinite
<1>4. QED BY <1>2, <1>3

-----------------------------------------------------------------------------
(* Sequences.                                                              *)

\* What removing one export from the queue leaves (wait's append of
\* pending[:i] and pending[i+1:]).
LEMMA RemoveAtFacts ==
  ASSUME NEW s \in Seq(Exports), NEW i \in 1..Len(s)
  PROVE  /\ RemoveAt(s, i) \in Seq(Exports)
         /\ Len(RemoveAt(s, i)) = Len(s) - 1
         /\ \A j \in 1..(Len(s) - 1) :
              RemoveAt(s, i)[j] = IF j < i THEN s[j] ELSE s[j + 1]
<1> DEFINE a == SubSeq(s, 1, i - 1)
           b == SubSeq(s, i + 1, Len(s))
<1>1. a \in Seq(Exports) /\ Len(a) = i - 1 /\ \A j \in 1..(i - 1) : a[j] = s[j]
  OBVIOUS
<1>2. b \in Seq(Exports) /\ Len(b) = Len(s) - i /\ \A j \in 1..(Len(s) - i) : b[j] = s[i + j]
  OBVIOUS
<1>3. RemoveAt(s, i) = a \o b
  BY DEF RemoveAt
<1> HIDE DEF a, b
<1>4. a \o b \in Seq(Exports) /\ Len(a \o b) = Len(s) - 1
  <2>1. a \o b \in Seq(Exports) /\ Len(a \o b) = Len(a) + Len(b)
    BY <1>1, <1>2, ConcatProperties
  <2>2. Len(s) \in Nat /\ i \in Int
    OBVIOUS
  <2>3. (i - 1) + (Len(s) - i) = Len(s) - 1
    BY <2>2
  <2>4. QED BY <1>1, <1>2, <2>1, <2>3
<1>5. ASSUME NEW j \in 1..(Len(s) - 1)
      PROVE  (a \o b)[j] = IF j < i THEN s[j] ELSE s[j + 1]
  BY <1>1, <1>2
<1>6. QED BY <1>3, <1>4, <1>5

\* The members of a sequence of exports.
LEMMA ToSetFacts ==
  ASSUME NEW s \in Seq(Exports)
  PROVE  /\ ToSet(s) \subseteq Exports
         /\ \A w : w \in ToSet(s) <=> \E i \in 1..Len(s) : s[i] = w
  BY DEF ToSet

\* What a group taken from the head of the queue holds and what it leaves.
LEMMA SplitFacts ==
  ASSUME NEW s \in Seq(Exports), NEW n \in 1..Len(s)
  PROVE  /\ SubSeq(s, 1, n) \in Seq(Exports) /\ Len(SubSeq(s, 1, n)) = n
         /\ \A i \in 1..n : SubSeq(s, 1, n)[i] = s[i]
         /\ SubSeq(s, n + 1, Len(s)) \in Seq(Exports)
         /\ Len(SubSeq(s, n + 1, Len(s))) = Len(s) - n
         /\ \A i \in 1..(Len(s) - n) : SubSeq(s, n + 1, Len(s))[i] = s[n + i]
<1>1. Len(s) \in Nat /\ n \in Nat /\ n <= Len(s) /\ n >= 1
  OBVIOUS
<1>2. SubSeq(s, 1, n) \in Seq(Exports) /\ Len(SubSeq(s, 1, n)) = n
      /\ \A i \in 1..n : SubSeq(s, 1, n)[i] = s[i]
  OBVIOUS
<1>3. SubSeq(s, n + 1, Len(s)) \in Seq(Exports) /\ Len(SubSeq(s, n + 1, Len(s))) = Len(s) - n
      /\ \A i \in 1..(Len(s) - n) : SubSeq(s, n + 1, Len(s))[i] = s[n + i]
  OBVIOUS
<1>4. QED BY <1>2, <1>3

\* What admitting an export does to the queue.
LEMMA AppendFacts ==
  ASSUME NEW s \in Seq(Exports), NEW w \in Exports
  PROVE  /\ Append(s, w) \in Seq(Exports)
         /\ Len(Append(s, w)) = Len(s) + 1
         /\ \A i \in 1..Len(s) : Append(s, w)[i] = s[i]
         /\ Append(s, w)[Len(s) + 1] = w
  OBVIOUS

Distinct(s) == \A i, j \in 1..Len(s) : i # j => s[i] # s[j]

\* Admitting an export that is not queued (enqueue).
LEMMA AppendSet ==
  ASSUME NEW s \in Seq(Exports), NEW w \in Exports, Distinct(s), w \notin ToSet(s)
  PROVE  Distinct(Append(s, w)) /\ ToSet(Append(s, w)) = ToSet(s) \cup {w}
<1> DEFINE a == Append(s, w)
<1>1. a \in Seq(Exports) /\ Len(a) = Len(s) + 1 /\ a[Len(s) + 1] = w /\ Len(s) \in Nat
  OBVIOUS
<1>2. \A i \in 1..Len(s) : a[i] = s[i]
  OBVIOUS
<1> HIDE DEF a
<1>3. \A x : x \in ToSet(s) <=> \E i \in 1..Len(s) : s[i] = x
  BY ToSetFacts
<1>4. \A x : x \in ToSet(a) <=> \E i \in 1..Len(a) : a[i] = x
  BY <1>1, ToSetFacts
<1>5. \A i \in 1..Len(a) : i \in 1..Len(s) \/ i = Len(s) + 1
  BY <1>1
<1>6. ToSet(a) = ToSet(s) \cup {w}
  BY <1>1, <1>2, <1>3, <1>4, <1>5
<1>7. Distinct(a)
  BY <1>1, <1>2, <1>3, <1>5 DEF Distinct
<1>8. QED BY <1>6, <1>7 DEF a

\* Withdrawing one export from the queue (wait).
LEMMA RemoveSet ==
  ASSUME NEW s \in Seq(Exports), NEW i \in 1..Len(s), Distinct(s)
  PROVE  Distinct(RemoveAt(s, i)) /\ ToSet(RemoveAt(s, i)) = ToSet(s) \ {s[i]}
<1> DEFINE a == RemoveAt(s, i)
<1>1. /\ a \in Seq(Exports) /\ Len(a) = Len(s) - 1 /\ Len(s) \in Nat /\ i \in Nat
      /\ \A j \in 1..(Len(s) - 1) : a[j] = IF j < i THEN s[j] ELSE s[j + 1]
  BY RemoveAtFacts
<1> HIDE DEF a
<1>2. \A x : x \in ToSet(s) <=> \E j \in 1..Len(s) : s[j] = x
  BY ToSetFacts
<1>3. \A x : x \in ToSet(a) <=> \E j \in 1..Len(a) : a[j] = x
  BY <1>1, ToSetFacts
<1>4. ASSUME NEW x, x \in ToSet(a) PROVE x \in ToSet(s) \ {s[i]}
  <2>1. PICK j \in 1..(Len(s) - 1) : a[j] = x
    BY <1>1, <1>3, <1>4
  <2>2. CASE j < i
    BY <1>1, <1>2, <2>1, <2>2 DEF Distinct
  <2>3. CASE ~(j < i)
    <3>1. j + 1 \in 1..Len(s) /\ j + 1 # i /\ x = s[j + 1]
      BY <1>1, <2>1, <2>3
    <3>2. QED BY <1>2, <3>1 DEF Distinct
  <2>4. QED BY <2>2, <2>3
<1>5. ASSUME NEW x, x \in ToSet(s) \ {s[i]} PROVE x \in ToSet(a)
  <2>1. PICK j \in 1..Len(s) : s[j] = x /\ j # i
    BY <1>2, <1>5
  <2>2. CASE j < i
    <3>1. j \in 1..Len(a) /\ a[j] = x
      BY <1>1, <2>1, <2>2
    <3>2. QED BY <1>3, <3>1
  <2>3. CASE j > i
    <3>1. j - 1 \in 1..(Len(s) - 1) /\ ~(j - 1 < i) /\ (j - 1) + 1 = j
      BY <1>1, <2>1, <2>3
    <3>2. a[j - 1] = x
      BY <1>1, <2>1, <3>1
    <3>3. QED BY <1>1, <1>3, <3>1, <3>2
  <2>4. QED BY <1>1, <2>1, <2>2, <2>3
<1>6. Distinct(a)
  <2> SUFFICES ASSUME NEW j \in 1..Len(a), NEW k \in 1..Len(a), j < k PROVE a[j] # a[k]
    BY <1>1 DEF Distinct
  <2>1. a[j] = (IF j < i THEN s[j] ELSE s[j + 1]) /\ a[k] = (IF k < i THEN s[k] ELSE s[k + 1])
    BY <1>1
  <2>2. j \in 1..Len(s) /\ k \in 1..Len(s) /\ j + 1 \in 1..Len(s) /\ k + 1 \in 1..Len(s)
    BY <1>1
  <2>3. QED BY <1>1, <2>1, <2>2 DEF Distinct
<1>7. QED BY <1>4, <1>5, <1>6 DEF a

\* Taking a group from the head of the queue (loop).
LEMMA SplitSet ==
  ASSUME NEW s \in Seq(Exports), NEW n \in 1..Len(s), Distinct(s)
  PROVE  LET g == SubSeq(s, 1, n)
             p == SubSeq(s, n + 1, Len(s))
         IN  /\ Distinct(g) /\ Distinct(p)
             /\ ToSet(g) \cup ToSet(p) = ToSet(s)
             /\ ToSet(g) \cap ToSet(p) = {}
<1> DEFINE g == SubSeq(s, 1, n)
           p == SubSeq(s, n + 1, Len(s))
<1>1. /\ g \in Seq(Exports) /\ Len(g) = n /\ \A i \in 1..n : g[i] = s[i]
      /\ p \in Seq(Exports) /\ Len(p) = Len(s) - n /\ \A i \in 1..(Len(s) - n) : p[i] = s[n + i]
      /\ Len(s) \in Nat /\ n \in Nat
  BY SplitFacts
<1> HIDE DEF g, p
<1>2. /\ \A x : x \in ToSet(s) <=> \E i \in 1..Len(s) : s[i] = x
      /\ \A x : x \in ToSet(g) <=> \E i \in 1..n : s[i] = x
      /\ \A x : x \in ToSet(p) <=> \E i \in 1..(Len(s) - n) : s[n + i] = x
  <2>1. p \in Seq(Exports) /\ g \in Seq(Exports) /\ Len(p) = Len(s) - n /\ Len(g) = n
    BY <1>1
  <2>2. \A x : x \in ToSet(p) <=> \E i \in 1..Len(p) : p[i] = x
    BY <2>1, ToSetFacts
  <2>3. \A x : x \in ToSet(g) <=> \E i \in 1..Len(g) : g[i] = x
    BY <2>1, ToSetFacts
  <2>4. \A x : x \in ToSet(s) <=> \E i \in 1..Len(s) : s[i] = x
    BY ToSetFacts
  <2>5. \A i \in 1..Len(p) : p[i] = s[n + i]
    BY <1>1
  <2>6. \A i \in 1..Len(g) : g[i] = s[i]
    BY <1>1
  <2>7. \A x : x \in ToSet(p) <=> \E i \in 1..(Len(s) - n) : s[n + i] = x
    <3>1. \A x : x \in ToSet(p) <=> \E i \in 1..Len(p) : s[n + i] = x
      BY <2>2, <2>5, Zenon
    <3>2. 1..Len(p) = 1..(Len(s) - n)
      BY <2>1, Zenon
    <3>3. QED BY <3>1, <3>2, Zenon
  <2>8. \A x : x \in ToSet(g) <=> \E i \in 1..n : s[i] = x
    BY <2>1, <2>3, <2>6
  <2>9. QED BY <2>4, <2>7, <2>8
<1>3. \A i \in 1..(Len(s) - n) : n + i \in 1..Len(s) /\ n + i > n
  BY <1>1
<1>4. ToSet(g) \subseteq ToSet(s) /\ ToSet(p) \subseteq ToSet(s)
  <2>1. ASSUME NEW x \in ToSet(g) PROVE x \in ToSet(s)
    <3>1. PICK i \in 1..n : s[i] = x
      BY <1>2
    <3>2. i \in 1..Len(s)
      BY <1>1
    <3>3. QED BY <1>2, <3>1, <3>2
  <2>2. ASSUME NEW x \in ToSet(p) PROVE x \in ToSet(s)
    BY <1>2, <1>3
  <2>3. QED BY <2>1, <2>2
<1>5. ASSUME NEW x \in ToSet(s) PROVE x \in ToSet(g) \cup ToSet(p)
  <2>1. PICK i \in 1..Len(s) : s[i] = x
    BY <1>2
  <2>2. CASE i <= n
    BY <1>1, <1>2, <2>1, <2>2
  <2>3. CASE i > n
    <3>1. i - n \in 1..(Len(s) - n) /\ n + (i - n) = i
      BY <1>1, <2>3
    <3>2. QED BY <1>2, <2>1, <3>1
  <2>4. QED BY <1>1, <2>2, <2>3
<1>6. ToSet(g) \cap ToSet(p) = {}
  <2> SUFFICES ASSUME NEW x \in ToSet(g), x \in ToSet(p) PROVE FALSE
    OBVIOUS
  <2>1. PICK i \in 1..n : s[i] = x
    BY <1>2
  <2>2. PICK j \in 1..(Len(s) - n) : s[n + j] = x
    BY <1>2
  <2>3. i \in 1..Len(s) /\ n + j \in 1..Len(s) /\ i # n + j
    BY <1>1, <1>3
  <2>4. QED BY <2>1, <2>2, <2>3 DEF Distinct
<1>7. Distinct(g)
  BY <1>1 DEF Distinct
<1>8. Distinct(p)
  <2> SUFFICES ASSUME NEW i \in 1..(Len(s) - n), NEW j \in 1..(Len(s) - n), i # j PROVE p[i] # p[j]
    BY <1>1 DEF Distinct
  <2>1. n + i # n + j
    BY <1>1
  <2>2. QED BY <1>1, <1>3, <2>1 DEF Distinct
<1>9. QED BY <1>4, <1>5, <1>6, <1>7, <1>8 DEF g, p

-----------------------------------------------------------------------------
(* The accounting of admitted exports.                                     *)

\* The live exports are finitely many.
LEMMA LiveFinite == IsFiniteSet(Live) /\ Live \subseteq Exports /\ Cardinality(Live) \in Nat
<1>1. Live \subseteq Exports
  BY DEF Live, Admitted
<1>2. QED BY <1>1, FS_Subset, FS_CardinalityType, IngestConstants

\* Every step keeps requests and bytes equal to the number and the payload of
\* the live exports.
LEMMA CapacityStep ==
  ASSUME TypeOK, PlaceInv, CapacityAccounted, [Next]_vars
  PROVE  CapacityAccounted'
<1>0. requests \in Nat /\ bytes \in Nat /\ caller \in [Exports -> Callers] /\ finished \subseteq Exports
  BY DEF TypeOK
<1>1. ASSUME NEW w \in Exports, Submit(w) PROVE CapacityAccounted'
  <2>1. w \notin Live /\ Live' = Live \cup {w}
    BY <1>0, <1>1 DEF Submit, Live, Admitted, workVars, PlaceInv, Callers
  <2>2. Cardinality(Live') = Cardinality(Live) + 1
    BY <2>1, LiveFinite, FS_AddElement
  <2>3. Payload(Live') = Payload(Live) + Bytes[w]
    <3>1. Live \in SUBSET Exports /\ {w} \in SUBSET Exports /\ Live \cap {w} = {}
      BY <2>1, LiveFinite
    <3>2. Payload(Live \cup {w}) = Payload(Live) + Payload({w})
      BY <3>1, PayloadUnion
    <3>3. QED BY <2>1, <3>2, PayloadSingleton
  <2>4. QED BY <1>1, <2>2, <2>3 DEF Submit, CapacityAccounted
<1>2. ASSUME NEW w \in Exports, Withdraw(w) PROVE CapacityAccounted'
  <2>1. w \in Live /\ Live' = Live \ {w}
    BY <1>0, <1>2 DEF Withdraw, MayWithdraw, CutOut, Live, Admitted, callerVars
  <2>2. Cardinality(Live') = Cardinality(Live) - 1
    BY <2>1, LiveFinite, FS_RemoveElement
  <2>3. Payload(Live') = Payload(Live) - Bytes[w]
    BY <2>1, LiveFinite, PayloadDifference, PayloadSingleton
  <2>4. QED BY <1>2, <2>2, <2>3 DEF Withdraw, MayWithdraw, CutOut, CapacityAccounted
<1>3. CASE Release
  <2>1. Unreleased \subseteq Live /\ Live' = Live \ Unreleased
    BY <1>0, <1>3 DEF Release, Live, Admitted, callerVars, Unreleased, PlaceInv
  <2>2. Cardinality(Live') = Cardinality(Live) - Cardinality(Live \cap Unreleased)
    BY <2>1, LiveFinite, FS_Difference
  <2>3. Live \cap Unreleased = Unreleased
    BY <2>1
  <2>4. Payload(Live') = Payload(Live) - Payload(Unreleased)
    BY <2>1, LiveFinite, PayloadDifference
  <2>5. QED BY <1>3, <2>2, <2>3, <2>4 DEF Release, CapacityAccounted
<1>4. ASSUME NEW w \in Exports, Refuse(w) \/ RefuseDone(w) \/ Return(w) PROVE CapacityAccounted'
  <2>1. Live' = Live
    BY <1>0, <1>4 DEF Refuse, RefuseDone, Return, Live, Admitted, workVars
  <2>2. UNCHANGED <<requests, bytes>>
    BY <1>4 DEF Refuse, RefuseDone, Return, queueVars
  <2>3. QED BY <2>1, <2>2 DEF CapacityAccounted
<1>5. ASSUME UNCHANGED <<requests, bytes, caller, finished>> PROVE CapacityAccounted'
  BY <1>5 DEF CapacityAccounted, Live, Admitted
<1>6. CASE Loop
  BY <1>3, <1>5, <1>6 DEF Loop, GoIdle, Sleep, TimerFires, WakeUp, TakeGroup, Skip, Start,
     StartedLate, Enter, RunAppends, RunFails, AllRun, FlushHolds, FlushFails, Complete,
     queueVars, workVars, callerVars
<1>7. ASSUME NEW w \in Exports, Cancel(w) PROVE CapacityAccounted'
  BY <1>5, <1>7 DEF Cancel, queueVars, workVars
<1>8. ASSUME NEW c \in Closers, Close(c) \/ CloseReturn(c) \/ CloseGiveUp(c) PROVE CapacityAccounted'
  BY <1>5, <1>8 DEF Close, CloseReturn, CloseGiveUp, queueVars, workVars
<1>9. CASE Configure \/ Elapse \/ UNCHANGED vars
  BY <1>5, <1>9 DEF Configure, Elapse, vars, queueVars, workVars, callerVars
<1>10. QED
  BY <1>1, <1>2, <1>4, <1>6, <1>7, <1>8, <1>9 DEF Next, Exporter

-----------------------------------------------------------------------------
(* Types.                                                                  *)

\* Every step keeps the types; the counters stay natural because they keep
\* counting the live exports.
LEMMA TypeStep ==
  ASSUME IInv, CapacityAccounted, [Next]_vars
  PROVE  TypeOK'
<1>0. TypeOK
  BY DEF IInv
<1>1. requests' \in Nat /\ bytes' \in Nat
  <2>1. CapacityAccounted'
    BY CapacityStep DEF IInv
  <2>2. Live' \in SUBSET Exports
    BY DEF Live, Admitted
  <2>3. Payload(Live') \in Nat
    BY <2>2, PayloadFinite
  <2>4. Cardinality(Live') \in Nat
    BY <2>2, FS_Subset, FS_CardinalityType, IngestConstants
  <2>5. QED BY <2>1, <2>3, <2>4 DEF CapacityAccounted
<1>2. ASSUME NEW w \in Exports, Submit(w) PROVE TypeOK'
  <2>1. pending' \in Seq(Exports) /\ arrivals' \in Seq(Exports)
    BY <1>0, <1>2, AppendFacts DEF Submit, TypeOK
  <2>2. phase' \in Phases /\ caller' \in [Exports -> Callers]
    BY <1>0, <1>2 DEF Submit, TypeOK, Phases, Callers
  <2>3. QED BY <1>0, <1>1, <1>2, <2>1, <2>2 DEF Submit, TypeOK, limitVars, workVars, storeVars
<1>3. ASSUME NEW w \in Exports, Refuse(w) \/ RefuseDone(w) \/ Return(w) \/ Cancel(w) PROVE TypeOK'
  BY <1>0, <1>3 DEF Refuse, RefuseDone, Return, Cancel, TypeOK, Callers, queueVars, limitVars,
     loopVars, workVars, storeVars
<1>4. ASSUME NEW w \in Exports, Withdraw(w) PROVE TypeOK'
  <2>1. pending' \in Seq(Exports)
    BY <1>0, <1>4, RemoveAtFacts DEF Withdraw, MayWithdraw, CutOut, TypeOK
  <2>2. QED BY <1>0, <1>1, <1>4, <2>1 DEF Withdraw, MayWithdraw, CutOut, TypeOK, Errors, limitVars, loopVars, callerVars, storeVars
<1>5. ASSUME NEW c \in Closers, Close(c) \/ CloseReturn(c) \/ CloseGiveUp(c) PROVE TypeOK'
  BY <1>0, <1>5 DEF Close, CloseReturn, CloseGiveUp, TypeOK, queueVars, limitVars, loopVars,
     workVars, storeVars
<1>6. CASE Configure \/ Elapse \/ UNCHANGED vars
  BY <1>0, <1>6 DEF Configure, Elapse, TypeOK, vars, queueVars, limitVars, loopVars, workVars,
     callerVars, storeVars
<1>7. CASE TakeGroup
  <2>1. group' \in Seq(Exports) /\ pending' \in Seq(Exports) /\ aged' \subseteq Exports
    BY <1>0, <1>7, SplitFacts DEF TakeGroup, After, IsGroup, TypeOK
  <2>2. QED BY <1>0, <1>7, <2>1 DEF TakeGroup, After, TypeOK, Phases, limitVars, workVars, callerVars, storeVars
<1>8. CASE GoIdle \/ Sleep \/ TimerFires \/ WakeUp
  <2>1. pending # <<>> => Head(pending) \in Exports
    BY <1>0 DEF TypeOK
  <2>2. timer' \in Exports \cup {None} /\ phase' \in Phases /\ wake' \in BOOLEAN
    BY <1>0, <1>8, <2>1 DEF GoIdle, Sleep, TimerFires, WakeUp, TypeOK, Phases, queueVars
  <2>3. QED
    BY <1>0, <1>8, <2>2 DEF GoIdle, Sleep, TimerFires, WakeUp, TypeOK, queueVars, limitVars,
       workVars, callerVars, storeVars
<1>9. CASE Skip \/ Start \/ StartedLate \/ Enter \/ RunAppends \/ RunFails \/ AllRun
  <2>1. index <= Len(group) => group[index] \in Exports
    BY <1>0 DEF TypeOK
  <2>2. phase \in {"check", "work"} => index <= Len(group)
    BY DEF IInv, LoopInv
  <2>3. CASE Skip \/ Enter \/ AllRun
    BY <1>0, <2>3 DEF Skip, Enter, AllRun, TypeOK, Phases, queueVars, limitVars, workVars,
       callerVars, storeVars
  <2>4. CASE Start \/ RunAppends
    BY <1>0, <2>1, <2>2, <2>4 DEF Start, RunAppends, TypeOK, Phases, queueVars, limitVars, workVars,
       callerVars, storeVars
  <2>5. CASE StartedLate \/ RunFails
    <3>1. err' \in [Exports -> Errors] /\ writeErr' \in {"nil", "write"} /\ phase' \in Phases /\ index' \in Nat \ {0}
      <4>1. err' \in [Exports -> Errors]
        BY <1>0, <2>5 DEF StartedLate, RunFails, TypeOK, Errors
      <4>2. writeErr' \in {"nil", "write"}
        BY <1>0, <2>5 DEF StartedLate, RunFails, TypeOK, Errors, JoinErr
      <4>3. phase' \in Phases /\ index' \in Nat \ {0}
        BY <1>0, <2>5 DEF StartedLate, RunFails, TypeOK, Phases
      <4>4. QED BY <4>1, <4>2, <4>3
    <3>2. QED
      BY <1>0, <2>5, <3>1 DEF StartedLate, RunFails, TypeOK, queueVars, limitVars, callerVars, storeVars
  <2>6. QED BY <1>9, <2>3, <2>4, <2>5
<1>10. CASE FlushHolds \/ FlushFails \/ Complete
  BY <1>0, <1>10 DEF FlushHolds, FlushFails, Complete, TypeOK, Phases, Errors, JoinErr, Staged,
     queueVars, limitVars, workVars, callerVars
<1>11. CASE Release
  BY <1>0, <1>1, <1>11, ToSetFacts DEF Release, TypeOK, Phases, Errors, Unreleased, Members,
     limitVars, callerVars, storeVars
<1>12. QED
  BY <1>2, <1>3, <1>4, <1>5, <1>6, <1>7, <1>8, <1>9, <1>10, <1>11 DEF Next, Loop, Exporter

-----------------------------------------------------------------------------
(* Where work is.                                                          *)

\* Every step keeps queued, executing and finished exports apart.
LEMMA PlaceStep ==
  ASSUME IInv, [Next]_vars
  PROVE  PlaceInv'
<1>0. TypeOK /\ PlaceInv /\ LoopInv
  BY DEF IInv
<1>1. Distinct(pending) /\ Distinct(group) /\ pending \in Seq(Exports) /\ group \in Seq(Exports)
  BY <1>0 DEF PlaceInv, Distinct, TypeOK
<1>2. ASSUME UNCHANGED <<pending, group, caller, started, finished>> PROVE PlaceInv'
  BY <1>0, <1>2 DEF PlaceInv, Live, Admitted, Members
<1>3. ASSUME NEW w \in Exports, Submit(w) PROVE PlaceInv'
  <2>1. w \notin Admitted /\ Admitted' = Admitted \cup {w}
    BY <1>0, <1>3 DEF Submit, TypeOK, Admitted, Callers
  <2>2. UNCHANGED <<group, started, finished>> /\ Members' = Members /\ Live' = Live \cup {w}
    BY <1>0, <1>3, <2>1 DEF Submit, workVars, Members, Live, PlaceInv
  <2>3. w \notin ToSet(pending) /\ w \notin Members /\ w \notin started /\ w \notin finished
    BY <1>0, <2>1 DEF PlaceInv, Live
  <2>4. Distinct(pending') /\ ToSet(pending') = ToSet(pending) \cup {w}
    BY <1>1, <1>3, <2>3, AppendSet DEF Submit
  <2>5. \A x \in Exports : caller'[x] = "returned" => caller[x] = "returned"
    BY <1>0, <1>3 DEF Submit, TypeOK
  <2>6. QED BY <1>0, <2>1, <2>2, <2>3, <2>4, <2>5 DEF PlaceInv, Distinct
<1>4. ASSUME NEW w \in Exports, Refuse(w) \/ RefuseDone(w) PROVE PlaceInv'
  <2>1. UNCHANGED <<pending, group, started, finished>>
    BY <1>4 DEF Refuse, RefuseDone, queueVars, loopVars, workVars
  <2>2. Admitted' = Admitted /\ \A x \in Exports : caller'[x] = "returned" => caller[x] = "returned"
    BY <1>0, <1>4 DEF Refuse, RefuseDone, TypeOK, Admitted
  <2>3. QED BY <1>0, <2>1, <2>2 DEF PlaceInv, Live, Members
<1>5. ASSUME NEW w \in Exports, Return(w) PROVE PlaceInv'
  <2>1. UNCHANGED <<pending, group, started, finished>> /\ w \in finished
    BY <1>5 DEF Return, queueVars, loopVars, workVars
  <2>2. Admitted' = Admitted /\ \A x \in Exports : caller'[x] = "returned" => x = w \/ caller[x] = "returned"
    BY <1>0, <1>5 DEF Return, TypeOK, Admitted
  <2>3. QED BY <1>0, <2>1, <2>2 DEF PlaceInv, Live, Members
<1>6. ASSUME NEW w \in Exports, Withdraw(w) PROVE PlaceInv'
  <2>1. UNCHANGED <<group, started, caller>> /\ finished' = finished \cup {w} /\ w \notin started /\ w \in Live
    BY <1>6 DEF Withdraw, MayWithdraw, CutOut, loopVars, callerVars, Live, Admitted
  <2>2. Admitted' = Admitted /\ Members' = Members /\ Live' = Live \ {w}
    BY <2>1 DEF Admitted, Members, Live
  <2>3. Distinct(pending') /\ ToSet(pending') = ToSet(pending) \ {w}
    <3>1. CASE w \in ToSet(pending)
      BY <1>1, <1>6, <3>1, RemoveSet DEF Withdraw, MayWithdraw, CutOut
    <3>2. CASE w \notin ToSet(pending)
      BY <1>1, <1>6, <3>2 DEF Withdraw, MayWithdraw, CutOut
    <3>3. QED BY <3>1, <3>2
  <2>4. QED BY <1>0, <2>1, <2>2, <2>3 DEF PlaceInv, Distinct, Live
<1>7. CASE TakeGroup
  <2>1. group = <<>> /\ UNCHANGED <<caller, started, finished>>
    BY <1>0, <1>7 DEF TakeGroup, After, LoopInv, workVars, callerVars
  <2>2. PICK n \in 1..Len(pending) : group' = SubSeq(pending, 1, n) /\ pending' = SubSeq(pending, n + 1, Len(pending))
    BY <1>7 DEF TakeGroup, After
  <2>3. /\ Distinct(group') /\ Distinct(pending')
        /\ ToSet(group') \cup ToSet(pending') = ToSet(pending)
        /\ ToSet(group') \cap ToSet(pending') = {}
    BY <1>1, <2>2, SplitSet
  <2>4. Members = {} /\ Live' = Live /\ Admitted' = Admitted
    BY <2>1 DEF Members, Live, Admitted, ToSet
  <2>5. QED BY <1>0, <2>1, <2>3, <2>4 DEF PlaceInv, Distinct, Members, Live
<1>8. CASE Start
  <2>1. UNCHANGED <<pending, group, caller, finished>> /\ started' = started \cup {group[index]}
    BY <1>8 DEF Start, queueVars, callerVars
  <2>2. group[index] \in Members
    BY <1>0, <1>1, <1>8, ToSetFacts DEF Start, Members, TypeOK
  <2>3. QED BY <1>0, <2>1, <2>2 DEF PlaceInv, Members, Live, Admitted
<1>9. CASE Release
  <2>1. UNCHANGED <<pending, caller, started>> /\ group' = <<>> /\ finished' = finished \cup Members
    BY <1>9 DEF Release, callerVars, Unreleased
  <2>2. Members' = {} /\ Admitted' = Admitted /\ Live' = Live \ Members
    BY <2>1 DEF Members, Admitted, Live, ToSet
  <2>3. QED BY <1>0, <2>1, <2>2 DEF PlaceInv, Distinct, Live
<1>10. CASE Loop
  BY <1>2, <1>7, <1>8, <1>9, <1>10 DEF Loop, GoIdle, Sleep, TimerFires, WakeUp, Skip, StartedLate, Enter,
     RunAppends, RunFails, AllRun, FlushHolds, FlushFails, Complete, queueVars, workVars, callerVars
<1>11. ASSUME NEW w \in Exports, Cancel(w) PROVE PlaceInv'
  BY <1>2, <1>11 DEF Cancel, queueVars, loopVars, workVars
<1>12. ASSUME NEW c \in Closers, Close(c) \/ CloseReturn(c) \/ CloseGiveUp(c) PROVE PlaceInv'
  BY <1>2, <1>12 DEF Close, CloseReturn, CloseGiveUp, queueVars, loopVars, workVars
<1>13. CASE Configure \/ Elapse \/ UNCHANGED vars
  BY <1>2, <1>13 DEF Configure, Elapse, vars, queueVars, loopVars, workVars, callerVars
<1>14. QED
  BY <1>3, <1>4, <1>5, <1>6, <1>10, <1>11, <1>12, <1>13 DEF Next, Exporter

-----------------------------------------------------------------------------
(* The loop's progress through its group.                                  *)

\* Every step keeps the loop's place in its group consistent with what has
\* been started, finished and blamed.
LEMMA LoopStep ==
  ASSUME IInv, [Next]_vars
  PROVE  LoopInv'
<1>0. TypeOK /\ PlaceInv /\ LoopInv
  BY DEF IInv
<1>1. /\ group \in Seq(Exports) /\ Len(group) \in Nat /\ index \in Nat /\ index >= 1
      /\ \A i \in 1..Len(group) : group[i] \in Exports /\ group[i] \in Members
      /\ \A i, j \in 1..Len(group) : i # j => group[i] # group[j]
      /\ err \in [Exports -> Errors]
  BY <1>0, ToSetFacts DEF TypeOK, PlaceInv, Members
<1>2. ASSUME UNCHANGED <<pending, phase, group, index, started, finished, err>> PROVE LoopInv'
  BY <1>0, <1>2 DEF LoopInv
<1>3. ASSUME NEW w \in Exports, Submit(w) PROVE LoopInv'
  <2>1. UNCHANGED <<group, index, started, finished, err>> /\ phase' = IF phase = "off" THEN "collect" ELSE phase
    BY <1>3 DEF Submit, workVars
  <2>2. QED BY <1>0, <2>1 DEF LoopInv
<1>4. ASSUME NEW w \in Exports, Withdraw(w) PROVE LoopInv'
  <2>1. /\ UNCHANGED <<phase, group, index, started>>
        /\ finished' = finished \cup {w} /\ w \notin started
        /\ err' = [err EXCEPT ![w] = "ctx"]
    BY <1>4 DEF Withdraw, MayWithdraw, CutOut, loopVars
  <2>2. phase = "off" => pending' = <<>>
    <3> SUFFICES ASSUME phase = "off" PROVE pending' = <<>>
      OBVIOUS
    <3>1. pending = <<>>
      BY <1>0 DEF LoopInv
    <3>2. w \notin ToSet(pending)
      BY <3>1 DEF ToSet
    <3>3. QED BY <1>4, <3>1, <3>2 DEF Withdraw, MayWithdraw, CutOut
  <2>3. \A i \in 1..Len(group) : group[i] \in started => group[i] # w
    BY <2>1
  <2>4. phase \in {"check", "work"} => err'[group[index]] = "nil"
    BY <1>0, <1>1, <2>1 DEF LoopInv
  <2>5. \A x \in Exports : x \notin started \cup finished' => err'[x] = "nil"
    BY <1>0, <1>1, <2>1 DEF LoopInv
  <2>6. QED BY <1>0, <2>1, <2>2, <2>3, <2>4, <2>5 DEF LoopInv
<1>5. CASE GoIdle \/ Sleep \/ TimerFires \/ WakeUp
  <2>1. UNCHANGED <<pending, group, index, started, finished, err>>
    BY <1>5 DEF GoIdle, Sleep, TimerFires, WakeUp, queueVars, workVars
  <2>2. phase \in {"collect", "sleep"} /\ phase' \in {"off", "collect", "sleep"} /\ (phase' = "off" => pending = <<>>)
    BY <1>5 DEF GoIdle, Sleep, TimerFires, WakeUp
  <2>3. QED BY <1>0, <2>1, <2>2 DEF LoopInv
<1>6. CASE TakeGroup
  <2>1. /\ UNCHANGED <<index, started, finished, err>>
        /\ phase = "collect" /\ phase' = "pick"
    BY <1>6 DEF TakeGroup, After, workVars
  <2>2. PICK n \in 1..Len(pending) : group' = SubSeq(pending, 1, n)
    BY <1>6 DEF TakeGroup, After
  <2>3. pending \in Seq(Exports)
    BY <1>0 DEF TypeOK
  <2>4. Len(group') = n /\ \A i \in 1..n : group'[i] = pending[i]
    BY <2>2, <2>3, SplitFacts
  <2>5. \A i \in 1..Len(pending) : pending[i] \notin started
    BY <1>0, <2>3, ToSetFacts DEF PlaceInv
  <2>6. index <= 1
    BY <1>0, <2>1 DEF LoopInv
  <2>7. \A i \in 1..n : group'[i] \notin started
    BY <2>3, <2>4, <2>5
  <2>8. index <= Len(group') + 1
    BY <1>1, <2>2, <2>4, <2>6
  <2>9. \A i \in 1..n : ~(i < index)
    BY <1>1, <2>6
  <2>10. QED BY <1>0, <2>1, <2>4, <2>7, <2>8, <2>9 DEF LoopInv
<1>7. CASE Skip
  <2>1. /\ UNCHANGED <<pending, phase, group, started, finished, err>> /\ index' = index + 1
        /\ index <= Len(group) /\ group[index] \in finished /\ phase = "pick"
    BY <1>7 DEF Skip, queueVars, workVars
  <2>2. \A i \in 1..Len(group) : i = index \/ i < index \/ i > index
    BY <1>1
  <2>3. QED BY <1>0, <1>1, <2>1, <2>2 DEF LoopInv
<1>8. CASE Start
  <2>1. /\ UNCHANGED <<pending, group, index, finished, err>> /\ started' = started \cup {group[index]}
        /\ index <= Len(group) /\ group[index] \notin finished /\ phase = "pick" /\ phase' = "check"
    BY <1>8 DEF Start, queueVars
  <2>2. index \in 1..Len(group) /\ group[index] \in Exports
    BY <1>1, <2>1
  <2>3. err[group[index]] = "nil"
    BY <1>0, <2>1, <2>2 DEF LoopInv
  <2>4. \A i \in 1..Len(group) : i > index => group[i] \notin started'
    BY <1>0, <1>1, <2>1, <2>2 DEF LoopInv
  <2>5. QED BY <1>0, <2>1, <2>2, <2>3, <2>4 DEF LoopInv
<1>9. CASE StartedLate \/ RunAppends \/ RunFails
  <2>1. /\ UNCHANGED <<pending, group, started, finished>> /\ index' = index + 1
        /\ phase \in {"check", "work"} /\ phase' = "pick"
        /\ \A x \in Exports : x # group[index] => err'[x] = err[x]
    BY <1>1, <1>9 DEF StartedLate, RunAppends, RunFails, queueVars, workVars
  <2>2. index \in 1..Len(group) /\ group[index] \in started
    BY <1>0, <1>1, <2>1 DEF LoopInv
  <2>3. \A i \in 1..Len(group) : i < index + 1 => i = index \/ i < index
    BY <1>1
  <2>4. \A i \in 1..Len(group) : i > index + 1 \/ i = index + 1 => i > index
    BY <1>1
  <2>5. index + 1 <= Len(group) + 1
    BY <1>1, <2>2
  <2>6. \A x \in Exports : x \notin started \cup finished => err'[x] = "nil"
    BY <1>0, <2>1, <2>2 DEF LoopInv
  <2>7. QED BY <1>0, <2>1, <2>2, <2>3, <2>4, <2>5, <2>6 DEF LoopInv
<1>10. CASE Enter
  BY <1>0, <1>10 DEF Enter, LoopInv, queueVars, workVars
<1>11. CASE AllRun
  <2>1. UNCHANGED <<pending, group, index, started, finished, err>> /\ phase' = "flush" /\ phase = "pick" /\ index > Len(group)
    BY <1>11 DEF AllRun, queueVars, workVars
  <2>2. index = Len(group) + 1
    BY <1>0, <1>1, <2>1 DEF LoopInv
  <2>3. QED BY <1>0, <2>1, <2>2 DEF LoopInv
<1>12. CASE FlushHolds \/ FlushFails
  <2>1. UNCHANGED <<pending, group, index, started, finished, err>> /\ phase = "flush" /\ phase' = "complete"
    BY <1>12 DEF FlushHolds, FlushFails, queueVars, workVars
  <2>2. QED BY <1>0, <2>1 DEF LoopInv
<1>13. CASE Complete
  <2>1. UNCHANGED <<pending, group, index, started, finished>> /\ phase = "complete" /\ phase' = "release"
        /\ \A x \in Exports : x \notin Staged => err'[x] = err[x]
    BY <1>13 DEF Complete, queueVars
  <2>2. \A x \in Exports : x \notin started \cup finished => err'[x] = "nil"
    BY <1>0, <2>1 DEF LoopInv, Staged
  <2>3. QED BY <1>0, <2>1, <2>2 DEF LoopInv
<1>14. CASE Release
  <2>1. /\ UNCHANGED <<pending, started, err>> /\ group' = <<>> /\ index' = 1
        /\ phase' = "collect" /\ finished' = finished \cup Unreleased
    BY <1>14 DEF Release
  <2>2. QED BY <1>0, <2>1 DEF LoopInv
<1>15. CASE Loop
  BY <1>5, <1>6, <1>7, <1>8, <1>9, <1>10, <1>11, <1>12, <1>13, <1>14, <1>15 DEF Loop
<1>16. ASSUME NEW w \in Exports, Refuse(w) \/ RefuseDone(w) \/ Return(w) \/ Cancel(w) PROVE LoopInv'
  BY <1>2, <1>16 DEF Refuse, RefuseDone, Return, Cancel, queueVars, loopVars, workVars
<1>17. ASSUME NEW c \in Closers, Close(c) \/ CloseReturn(c) \/ CloseGiveUp(c) PROVE LoopInv'
  BY <1>2, <1>17 DEF Close, CloseReturn, CloseGiveUp, queueVars, loopVars, workVars
<1>18. CASE Configure \/ Elapse \/ UNCHANGED vars
  BY <1>2, <1>18 DEF Configure, Elapse, vars, queueVars, loopVars, workVars
<1>19. QED
  BY <1>3, <1>4, <1>15, <1>16, <1>17, <1>18 DEF Next, Exporter

-----------------------------------------------------------------------------
(* What is written, promised and shown.                                    *)

\* Every step keeps promises and deferred effects behind durability.
LEMMA StoreStep ==
  ASSUME IInv, [Next]_vars
  PROVE  StoreInv'
<1>0. TypeOK /\ PlaceInv /\ LoopInv /\ StoreInv
  BY DEF IInv
<1>1. /\ Len(group) \in Nat /\ index \in Nat /\ index >= 1
      /\ \A i \in 1..Len(group) : group[i] \in Exports /\ group[i] \in Members
      /\ \A i, j \in 1..Len(group) : i # j => group[i] # group[j]
      /\ \A x : x \in Members <=> \E i \in 1..Len(group) : group[i] = x
      /\ err \in [Exports -> Errors]
      /\ Members \cap started \cap finished = {}
  <2>1. group \in Seq(Exports) /\ index \in Nat \ {0} /\ err \in [Exports -> Errors]
    BY <1>0 DEF TypeOK
  <2>2. \A x : x \in Members <=> \E i \in 1..Len(group) : group[i] = x
    BY <2>1, ToSetFacts DEF Members
  <2>3. Members \cap started \cap finished = {}
    BY <1>0, <2>2 DEF LoopInv
  <2>4. QED BY <1>0, <2>1, <2>2, <2>3 DEF PlaceInv
<1>2. ASSUME UNCHANGED <<phase, group, index, flushErr, started, finished, err, appended, durable, published>>
      PROVE  StoreInv'
  BY <1>0, <1>2 DEF StoreInv, Staged, Members, CancelledStoresNothing
<1>3. ASSUME NEW w \in Exports, Submit(w) PROVE StoreInv'
  <2>1. /\ UNCHANGED <<group, index, flushErr, started, finished, err, appended, durable, published>>
        /\ phase' = IF phase = "off" THEN "collect" ELSE phase
    BY <1>3 DEF Submit, workVars, storeVars
  <2>2. QED BY <1>0, <2>1 DEF StoreInv, Staged, Members, CancelledStoresNothing
<1>4. ASSUME NEW w \in Exports, Withdraw(w) PROVE StoreInv'
  <2>1. /\ UNCHANGED <<phase, group, index, flushErr, started, appended, durable, published>>
        /\ finished' = finished \cup {w} /\ w \notin started /\ w \notin finished
        /\ err' = [err EXCEPT ![w] = "ctx"]
    BY <1>4 DEF Withdraw, MayWithdraw, CutOut, loopVars, storeVars
  <2>2. \A x \in Exports : x # w => err'[x] = err[x]
    BY <1>1, <2>1
  <2>3. err'[w] = "ctx"
    BY <1>1, <2>1
  <2>4. Members' = Members /\ Staged' = Staged
    BY <2>1 DEF Members, Staged
  <2>5. w \notin appended \cup durable
    BY <1>0, <2>1 DEF StoreInv, Staged
  <2>6. CancelledStoresNothing'
    BY <1>0, <2>1, <2>2, <2>5 DEF StoreInv, CancelledStoresNothing
  <2>7. \A x \in published : x # w
    BY <1>0, <2>5 DEF StoreInv
  <2>8. \A x \in Staged : x # w
    BY <2>1 DEF Staged
  <2>9. finished' \subseteq Exports /\ published \subseteq Exports /\ Staged \subseteq Exports
    BY <1>0, <2>1 DEF TypeOK, Staged
  <2>10. \A i \in 1..Len(group) : group[i] \in started => group[i] # w
    BY <2>1
  <2>11. \A x \in finished' : err'[x] = "nil" => x \in durable
    BY <1>0, <2>1, <2>2, <2>3, <2>9 DEF StoreInv
  <2>12. \A x \in published : x \in durable /\ err'[x] = "nil" /\ (x \in finished' \/ (phase = "release" /\ x \in Staged))
    BY <1>0, <2>1, <2>2, <2>7, <2>9 DEF StoreInv
  <2>13. phase \in {"pick", "check", "work", "flush"} => \A i \in 1..Len(group) :
           i < index /\ group[i] \in started /\ err'[group[i]] = "nil" => group[i] \in appended
    BY <1>0, <1>1, <2>2, <2>10 DEF StoreInv
  <2>14. /\ phase = "complete" => \A x \in Staged : err'[x] = "nil" /\ flushErr = "nil" => x \in durable
         /\ phase = "release" => \A x \in Staged : err'[x] = "nil" => x \in durable
    BY <1>0, <2>2, <2>8, <2>9 DEF StoreInv
  <2>15. QED BY <1>0, <2>1, <2>4, <2>6, <2>11, <2>12, <2>13, <2>14 DEF StoreInv
<1>5. CASE GoIdle \/ Sleep \/ TimerFires \/ WakeUp
  <2>1. UNCHANGED <<group, index, flushErr, started, finished, err, appended, durable, published>>
    BY <1>5 DEF GoIdle, Sleep, TimerFires, WakeUp, workVars, storeVars
  <2>2. phase \in {"collect", "sleep"} /\ phase' \in {"off", "collect", "sleep"}
    BY <1>5 DEF GoIdle, Sleep, TimerFires, WakeUp
  <2>3. QED BY <1>0, <2>1, <2>2 DEF StoreInv, Staged, Members, CancelledStoresNothing
<1>6. CASE TakeGroup
  <2>1. /\ UNCHANGED <<index, started, finished, err, appended, durable, published>>
        /\ phase = "collect" /\ phase' = "pick" /\ group = <<>>
    BY <1>0, <1>6 DEF TakeGroup, After, workVars, storeVars, LoopInv
  <2>2. Staged = {}
    BY <1>1, <2>1 DEF Staged
  <2>3. index = 1
    BY <1>0, <1>1, <2>1 DEF LoopInv
  <2>4. group' \in Seq(Exports)
    BY <1>0, <1>6, SplitFacts DEF TakeGroup, After, TypeOK
  <2>5. \A i \in 1..Len(group') : ~(i < index')
    BY <2>1, <2>3, <2>4
  <2>6. appended' \subseteq Staged'
    BY <1>0, <2>1, <2>2 DEF StoreInv
  <2>7. QED BY <1>0, <2>1, <2>2, <2>5, <2>6 DEF StoreInv, CancelledStoresNothing
<1>7. CASE Skip
  <2>1. /\ UNCHANGED <<phase, group, flushErr, started, finished, err, appended, durable, published>>
        /\ index' = index + 1 /\ index \in 1..Len(group) /\ group[index] \in finished /\ phase = "pick"
    BY <1>1, <1>7 DEF Skip, workVars, storeVars
  <2>2. group[index] \notin started
    BY <1>1, <2>1
  <2>3. \A i \in 1..Len(group) : i < index + 1 => i = index \/ i < index
    BY <1>1
  <2>4. QED BY <1>0, <2>1, <2>2, <2>3 DEF StoreInv, Staged, Members, CancelledStoresNothing
<1>8. CASE Start
  <2>1. /\ UNCHANGED <<group, index, flushErr, finished, err, appended, durable, published>>
        /\ phase = "pick" /\ phase' = "check" /\ started' = started \cup {group[index]}
        /\ index \in 1..Len(group)
    BY <1>1, <1>8 DEF Start, storeVars
  <2>2. Staged \subseteq Staged'
    BY <2>1 DEF Staged, Members
  <2>3. \A i \in 1..Len(group) : i < index => group[i] # group[index]
    BY <1>1, <2>1
  <2>4. group[index] \notin started
    BY <1>0, <2>1 DEF LoopInv
  <2>5. group[index] \notin appended \cup durable
    BY <1>0, <2>4 DEF StoreInv, Staged
  <2>6. \A i \in 1..Len(group) :
          i < index /\ group[i] \in started' /\ err[group[i]] = "nil" => group[i] \in appended
    BY <1>0, <2>1, <2>3 DEF StoreInv
  <2>7. appended \subseteq Staged' /\ durable \subseteq started'
    BY <1>0, <2>1, <2>2 DEF StoreInv
  <2>8. \A x \in published : x \in finished
    BY <1>0, <2>1 DEF StoreInv
  <2>9. QED BY <1>0, <2>1, <2>5, <2>6, <2>7, <2>8 DEF StoreInv, CancelledStoresNothing
<1>9. ASSUME StartedLate \/ RunAppends \/ RunFails PROVE StoreInv'
  <2>1. /\ UNCHANGED <<group, flushErr, started, finished, durable, published>>
        /\ phase \in {"check", "work"} /\ phase' = "pick" /\ index' = index + 1
        /\ Members' = Members /\ Staged' = Staged
    BY <1>9 DEF StartedLate, RunAppends, RunFails, workVars, storeVars, Members, Staged
  <2>2. index \in 1..Len(group) /\ group[index] \in started
    BY <1>0, <1>1, <2>1 DEF LoopInv
  <2>3. group[index] \in Staged /\ group[index] \notin finished /\ group[index] \in Exports
    BY <1>1, <2>2 DEF Staged
  <2>4. group[index] \notin published
    BY <1>0, <2>1, <2>3 DEF StoreInv
  <2>5. \A x \in Exports : x # group[index] => err'[x] = err[x]
    BY <1>1, <1>9 DEF StartedLate, RunAppends, RunFails, workVars
  <2>6. /\ appended' = appended \cup {group[index]} \/ (appended' = appended /\ err'[group[index]] # "nil")
        /\ err'[group[index]] # "nil" => appended' = appended
    <3>1. CASE StartedLate \/ RunFails
      BY <1>1, <2>3, <3>1 DEF StartedLate, RunFails, storeVars
    <3>2. CASE RunAppends
      <4>1. err'[group[index]] = "nil"
        BY <1>0, <3>2 DEF RunAppends, LoopInv, workVars
      <4>2. QED BY <3>2, <4>1 DEF RunAppends
    <3>3. QED BY <1>9, <3>1, <3>2
  <2>7. finished \subseteq Exports /\ published \subseteq Exports
    BY <1>0 DEF TypeOK
  <2>8. err'[group[index]] = "ctx" => group[index] \notin appended' \cup durable
    <3>1. CASE StartedLate
      BY <1>0, <3>1 DEF StartedLate, StoreInv, storeVars
    <3>2. CASE RunAppends
      BY <1>0, <3>2 DEF RunAppends, LoopInv, workVars
    <3>3. CASE RunFails
      BY <1>1, <2>3, <3>3 DEF RunFails
    <3>4. QED BY <1>9, <3>1, <3>2, <3>3
  <2>9. CancelledStoresNothing'
    BY <1>0, <2>1, <2>5, <2>6, <2>8 DEF StoreInv, CancelledStoresNothing
  <2>10. \A i \in 1..Len(group) : i < index + 1 => i = index \/ (i < index /\ group[i] # group[index])
    BY <1>1, <2>2
  <2>11. \A i \in 1..Len(group) :
           i < index + 1 /\ group[i] \in started /\ err'[group[i]] = "nil" => group[i] \in appended'
    BY <1>0, <1>1, <2>1, <2>5, <2>6, <2>10 DEF StoreInv
  <2>12. \A x \in finished : x # group[index] /\ (err'[x] = "nil" => x \in durable)
    BY <1>0, <2>3, <2>5, <2>7 DEF StoreInv
  <2>13. \A x \in published : x \in durable /\ err'[x] = "nil" /\ x \in finished
    BY <1>0, <2>1, <2>4, <2>5, <2>7 DEF StoreInv
  <2>14. appended' \subseteq Staged' /\ durable' \subseteq started'
    BY <1>0, <2>1, <2>3, <2>6 DEF StoreInv
  <2>15. QED BY <2>1, <2>9, <2>11, <2>12, <2>13, <2>14 DEF StoreInv
<1>10. CASE Enter \/ AllRun
  <2>1. UNCHANGED <<group, index, flushErr, started, finished, err, appended, durable, published>>
    BY <1>10 DEF Enter, AllRun, workVars, storeVars
  <2>2. (phase = "check" /\ phase' = "work") \/ (phase = "pick" /\ phase' = "flush")
    BY <1>10 DEF Enter, AllRun
  <2>3. QED BY <1>0, <2>1, <2>2 DEF StoreInv, Staged, Members, CancelledStoresNothing
<1>11. CASE FlushHolds \/ FlushFails
  <2>1. /\ UNCHANGED <<group, index, started, finished, err, published>>
        /\ phase = "flush" /\ phase' = "complete" /\ appended' = {}
        /\ Staged' = Staged
    BY <1>11 DEF FlushHolds, FlushFails, workVars, Staged, Members
  <2>2. durable \subseteq durable' /\ durable' \subseteq durable \cup appended
    BY <1>11 DEF FlushHolds, FlushFails
  <2>3. \A i \in 1..Len(group) : i < index
    BY <1>0, <1>1, <2>1 DEF LoopInv
  <2>4. \A x \in Staged : err[x] = "nil" => x \in appended
    BY <1>0, <1>1, <2>1, <2>3 DEF StoreInv, Staged
  <2>5. flushErr' = "nil" => durable' = durable \cup appended
    BY <1>11 DEF FlushHolds, FlushFails, JoinErr
  <2>6. CancelledStoresNothing'
    BY <1>0, <2>1, <2>2 DEF StoreInv, CancelledStoresNothing
  <2>7. durable' \subseteq started'
    BY <1>0, <2>1, <2>2 DEF StoreInv, Staged
  <2>8. QED BY <1>0, <2>1, <2>2, <2>4, <2>5, <2>6, <2>7 DEF StoreInv
<1>12. CASE Complete
  <2>1. /\ UNCHANGED <<group, index, flushErr, started, finished, appended, durable>>
        /\ phase = "complete" /\ phase' = "release"
        /\ err' = [w \in Exports |-> IF w \in Staged THEN JoinErr(err[w], flushErr) ELSE err[w]]
        /\ published' = published \cup {w \in Staged : err'[w] = "nil"}
        /\ Staged' = Staged /\ Staged \cap finished = {}
    BY <1>1, <1>12 DEF Complete, Staged, Members
  <2>2. Staged \subseteq Exports /\ finished \subseteq Exports /\ published \subseteq Exports /\ flushErr # "ctx"
    BY <1>0 DEF TypeOK, Staged
  <2>3. \A x \in Staged : err'[x] = "nil" => x \in durable
    BY <1>0, <2>1, <2>2 DEF StoreInv, JoinErr
  <2>4. \A x \in Exports : err'[x] = "ctx" => err[x] = "ctx"
    BY <2>1, <2>2 DEF JoinErr
  <2>5. \A x \in finished : err'[x] = err[x]
    BY <2>1, <2>2
  <2>6. \A x \in published : x \in finished
    BY <1>0, <2>1 DEF StoreInv
  <2>7. \A x \in published' : x \in durable /\ err'[x] = "nil" /\ (x \in finished \/ x \in Staged)
    BY <1>0, <2>1, <2>3, <2>5, <2>6 DEF StoreInv
  <2>8. CancelledStoresNothing'
    BY <1>0, <2>1, <2>4 DEF StoreInv, CancelledStoresNothing
  <2>9. \A x \in finished : err'[x] = "nil" => x \in durable
    BY <1>0, <2>5 DEF StoreInv
  <2>10. QED BY <1>0, <2>1, <2>3, <2>7, <2>8, <2>9 DEF StoreInv
<1>13. CASE Release
  <2>1. /\ UNCHANGED <<started, err, appended, durable, published>>
        /\ phase = "release" /\ phase' = "collect" /\ group' = <<>>
        /\ finished' = finished \cup Unreleased
    BY <1>13 DEF Release, storeVars
  <2>2. \A x \in Unreleased : x \in Staged
    <3>1. \A i \in 1..Len(group) : i < index
      BY <1>0, <1>1, <2>1 DEF LoopInv
    <3>2. QED BY <1>0, <1>1, <3>1 DEF LoopInv, Unreleased, Staged
  <2>3. Staged \subseteq finished'
    BY <2>1 DEF Staged, Unreleased
  <2>4. \A x \in finished' : err[x] = "nil" => x \in durable
    BY <1>0, <2>1, <2>2 DEF StoreInv
  <2>5. \A x \in published : x \in finished'
    BY <1>0, <2>1, <2>3 DEF StoreInv
  <2>6. QED BY <1>0, <2>1, <2>4, <2>5 DEF StoreInv, CancelledStoresNothing
<1>14. CASE Loop
  BY <1>5, <1>6, <1>7, <1>8, <1>9, <1>10, <1>11, <1>12, <1>13, <1>14 DEF Loop
<1>15. ASSUME NEW w \in Exports, Refuse(w) \/ RefuseDone(w) \/ Return(w) \/ Cancel(w) PROVE StoreInv'
  BY <1>2, <1>15 DEF Refuse, RefuseDone, Return, Cancel, loopVars, workVars, storeVars
<1>16. ASSUME NEW c \in Closers, Close(c) \/ CloseReturn(c) \/ CloseGiveUp(c) PROVE StoreInv'
  BY <1>2, <1>16 DEF Close, CloseReturn, CloseGiveUp, loopVars, workVars, storeVars
<1>17. CASE Configure \/ Elapse \/ UNCHANGED vars
  BY <1>2, <1>17 DEF Configure, Elapse, vars, loopVars, workVars, storeVars
<1>18. QED
  BY <1>3, <1>4, <1>14, <1>15, <1>16, <1>17 DEF Next, Exporter

\* Every step keeps a drained shutdown behind an idle loop.
LEMMA CloseStep ==
  ASSUME IInv, [Next]_vars
  PROVE  CloseInv'
<1>0. TypeOK /\ CloseInv /\ closer \in [Closers -> {"open", "draining", "drained", "gaveUp"}]
  BY DEF IInv, TypeOK
<1>1. ASSUME UNCHANGED <<closed, closer>>, phase = "off" => phase' = "off" PROVE CloseInv'
  BY <1>0, <1>1 DEF CloseInv
<1>2. ASSUME NEW c \in Closers, Close(c) \/ CloseReturn(c) \/ CloseGiveUp(c) PROVE CloseInv'
  BY <1>0, <1>2 DEF Close, CloseReturn, CloseGiveUp, CloseInv, loopVars, queueVars
<1>3. ASSUME NEW w \in Exports, Submit(w) PROVE CloseInv'
  BY <1>0, <1>3 DEF Submit, Fits, CloseInv
<1>4. CASE Loop
  BY <1>1, <1>4 DEF Loop, GoIdle, Sleep, TimerFires, WakeUp, TakeGroup, Skip, Start, StartedLate, Enter,
     RunAppends, RunFails, AllRun, FlushHolds, FlushFails, Complete, Release, queueVars, callerVars
<1>5. ASSUME NEW w \in Exports, Refuse(w) \/ RefuseDone(w) \/ Return(w) \/ Cancel(w) \/ Withdraw(w)
      PROVE  CloseInv'
  BY <1>1, <1>5 DEF Refuse, RefuseDone, Return, Cancel, Withdraw, queueVars, loopVars, callerVars
<1>6. CASE Configure \/ Elapse \/ UNCHANGED vars
  BY <1>1, <1>6 DEF Configure, Elapse, vars, queueVars, loopVars, callerVars
<1>7. QED
  BY <1>2, <1>3, <1>4, <1>5, <1>6 DEF Next, Exporter

-----------------------------------------------------------------------------
(* The invariant holds and implies the properties the runs check.          *)

\* A new coordinator satisfies the invariant (newIngestBatcher).
LEMMA InvariantInit == Init => IInv /\ CapacityAccounted
<1> SUFFICES ASSUME Init PROVE IInv /\ CapacityAccounted
  OBVIOUS
<1>1. Live = {} /\ Members = {} /\ ToSet(pending) = {} /\ Staged = {}
  BY DEF Init, Live, Admitted, Members, ToSet, Staged
<1>2. Cardinality({}) = 0 /\ Payload({}) = 0
  <2>1. UNION {{w} \X (1..Bytes[w]) : w \in {}} = {}
    OBVIOUS
  <2>2. QED BY <2>1, FS_EmptySet DEF Payload
<1>3. CapacityAccounted
  BY <1>1, <1>2 DEF Init, CapacityAccounted
<1>4. TypeOK
  <2>1. pending \in Seq(Exports) /\ group \in Seq(Exports) /\ arrivals \in Seq(Exports)
    BY DEF Init
  <2>2. /\ err \in [Exports -> Errors] /\ caller \in [Exports -> Callers]
        /\ closer \in [Closers -> {"open", "draining", "drained", "gaveUp"}]
    BY DEF Init, Errors, Callers
  <2>3. /\ requests \in Nat /\ bytes \in Nat /\ index \in Nat \ {0} /\ phase \in Phases
        /\ writeErr \in {"nil", "write"} /\ flushErr \in {"nil", "write", "flush"}
    <3>1. requests = 0 /\ bytes = 0 /\ index = 1 /\ phase = "off" /\ writeErr = "nil" /\ flushErr = "nil"
      BY DEF Init
    <3>2. QED BY <3>1 DEF Phases
  <2>4. /\ closed \in BOOLEAN /\ wake \in BOOLEAN
        /\ limitRequests \in RequestLimits /\ limitBytes \in ByteLimits /\ timer \in Exports \cup {None}
        /\ started = {} /\ finished = {} /\ ctxDone = {} /\ aged = {}
        /\ appended = {} /\ durable = {} /\ published = {}
    BY DEF Init
  <2>5. QED BY <2>1, <2>2, <2>3, <2>4 DEF TypeOK
<1>5. PlaceInv
  BY <1>1 DEF Init, PlaceInv
<1>6. LoopInv
  BY <1>1 DEF Init, LoopInv
<1>7. StoreInv
  BY <1>1 DEF Init, StoreInv, CancelledStoresNothing
<1>8. CloseInv
  BY DEF Init, CloseInv
<1>9. QED BY <1>3, <1>4, <1>5, <1>6, <1>7, <1>8 DEF IInv

\* The invariant is inductive: every step of exporters, loop, shutdown and
\* settings keeps it, whatever the number of exports, their sizes and limits.
THEOREM Invariant == Spec => [](IInv /\ CapacityAccounted)
<1>1. IInv /\ CapacityAccounted /\ [Next]_vars => (IInv /\ CapacityAccounted)'
  BY CapacityStep, TypeStep, PlaceStep, LoopStep, StoreStep, CloseStep DEF IInv
<1>2. QED BY <1>1, InvariantInit, PTL DEF Spec

\* Type correctness: in particular the counters of admitted requests and bytes
\* never go negative, whatever cancellations race the release of a group.
THEOREM TypeCorrect == Spec => []TypeOK
<1>1. IInv => TypeOK
  BY DEF IInv
<1>2. QED BY <1>1, Invariant, PTL

\* requests and bytes count exactly the exports queued or executing: the
\* release in wait and the one in execute never both or neither happen.
THEOREM CapacityIsAccounted == Spec => []CapacityAccounted
<1>1. QED BY Invariant, PTL

\* No exporter is told of success before its rows are durable (execute: "No
\* export is acknowledged before this barrier").
THEOREM AcknowledgedIsDurable == Spec => []SuccessIsDurable
<1>1. IInv => SuccessIsDurable
  <2> SUFFICES ASSUME IInv, NEW w \in Exports, Told(w, "nil") PROVE w \in durable
    BY DEF SuccessIsDurable
  <2>1. w \in finished /\ err[w] = "nil"
    BY DEF Told, IInv, PlaceInv
  <2>2. QED BY <2>1 DEF IInv, StoreInv
<1>2. QED BY <1>1, Invariant, PTL

\* Broadcasts, lint and detectors run only for durable rows whose exporter is
\* told so (afterPersist callbacks in execute).
THEOREM PublishedIsKept == Spec => []PublishedOnce
<1>1. IInv => PublishedOnce
  BY DEF IInv, StoreInv, PublishedOnce
<1>2. QED BY <1>1, Invariant, PTL

\* A started export stays with the loop until its group is released (wait).
THEOREM StartedIsOwned == Spec => []LoopOwnsStarted
<1>1. IInv => LoopOwnsStarted
  <2> SUFFICES ASSUME IInv, NEW w \in started \ finished PROVE caller[w] = "waiting"
    BY DEF LoopOwnsStarted
  <2>1. w \in Exports /\ w \in Admitted
    BY DEF IInv, TypeOK, PlaceInv
  <2>2. QED BY <2>1 DEF IInv, PlaceInv, Admitted
<1>2. QED BY <1>1, Invariant, PTL

\* An export answered as cancelled stored nothing (wait and execute).
THEOREM CancelledIsClean == Spec => []CancelledStoresNothing
<1>1. IInv => CancelledStoresNothing
  BY DEF IInv, StoreInv
<1>2. QED BY <1>1, Invariant, PTL

\* Unreleased exports are queued or executing, never both, never neither.
THEOREM LiveIsPlaced == Spec => []LivePlaced
<1>1. IInv => LivePlaced
  <2> SUFFICES ASSUME IInv, NEW w \in Live PROVE (w \in ToSet(pending)) # (w \in Members)
    BY DEF LivePlaced, IInv, PlaceInv
  <2>1. w \in ToSet(pending) \/ w \in Members
    BY DEF IInv, PlaceInv
  <2>2. w \in ToSet(pending) => w \notin Members
    BY DEF IInv, PlaceInv
  <2>3. CASE w \in ToSet(pending)
    <3>1. (w \in ToSet(pending)) = TRUE /\ (w \in Members) = FALSE
      BY <2>2, <2>3
    <3>2. QED BY <3>1
  <2>4. CASE w \notin ToSet(pending)
    <3>1. (w \in ToSet(pending)) = FALSE /\ (w \in Members) = TRUE
      BY <2>1, <2>4
    <3>2. QED BY <3>1
  <2>5. QED BY <2>3, <2>4
<1>2. QED BY <1>1, Invariant, PTL

\* Once a Close has returned without error nothing is queued or executing.
THEOREM DrainedQuiet == Spec => []DrainedIsQuiet
<1>1. IInv => DrainedIsQuiet
  <2> SUFFICES ASSUME IInv, NEW c \in Closers, closer[c] = "drained" PROVE phase = "off" /\ Live = {}
    BY DEF DrainedIsQuiet
  <2>1. phase = "off"
    BY DEF IInv, CloseInv
  <2>2. pending = <<>> /\ group = <<>>
    BY <2>1 DEF IInv, LoopInv
  <2>3. ToSet(pending) = {} /\ Members = {}
    BY <2>2 DEF ToSet, Members
  <2>4. QED BY <2>1, <2>3 DEF IInv, PlaceInv
<1>2. QED BY <1>1, Invariant, PTL

\* Ownership of an export between exporter, loop and shutdown (wait, execute,
\* Close), from the three parts.
THEOREM ExecutionIsSafe == Spec => []ExecutionSafe
<1>1. LoopOwnsStarted /\ CancelledStoresNothing /\ DrainedIsQuiet => ExecutionSafe
  BY DEF ExecutionSafe
<1>2. QED BY <1>1, StartedIsOwned, CancelledIsClean, DrainedQuiet, PTL

-----------------------------------------------------------------------------
(* Groups, admission and wakeups.                                          *)

\* A group of several exports fits both targets (loop): only an export too
\* large for any group exceeds one, and it runs alone.
THEOREM GroupFits == Spec => []GroupWithinTarget
<1>1. Init => GroupWithinTarget
  <2>1. Init => Len(group) = 0
    BY DEF Init
  <2>2. QED BY <2>1 DEF GroupWithinTarget
<1>2. ASSUME TypeOK, GroupWithinTarget, [Next]_vars PROVE GroupWithinTarget'
  <2>1. CASE group' = group
    BY <1>2, <2>1 DEF GroupWithinTarget, WithinTarget
  <2>2. CASE Release
    <3>1. group' = <<>>
      BY <2>2 DEF Release
    <3>2. QED BY <3>1 DEF GroupWithinTarget
  <2>3. CASE TakeGroup
    <3>1. PICK n \in 1..Len(pending) : CanTake(pending, n) /\ group' = SubSeq(pending, 1, n)
      BY <2>3 DEF TakeGroup, After, IsGroup
    <3>2. Len(group') = n
      BY <1>2, <3>1, SplitFacts DEF TypeOK
    <3>3. n > 1 => WithinTarget(SubSeq(pending, 1, n))
      BY <3>1 DEF CanTake
    <3>4. QED BY <3>1, <3>2, <3>3 DEF GroupWithinTarget, WithinTarget
  <2>4. group' = group \/ Release \/ TakeGroup
    BY <1>2 DEF Next, Loop, Exporter, vars, Submit, Refuse, RefuseDone, Withdraw, Return, Cancel, Close,
       CloseReturn, CloseGiveUp, Configure, Elapse, GoIdle, Sleep, TimerFires, WakeUp, Skip, Start,
       StartedLate, Enter, RunAppends, RunFails, AllRun, FlushHolds, FlushFails, Complete, loopVars
  <2>5. QED BY <2>1, <2>2, <2>3, <2>4
<1>3. QED BY <1>1, <1>2, TypeCorrect, PTL DEF Spec

\* Only an admission that stays within both limits raises the number of
\* admitted exports (enqueue's busy test, under the same lock as the count).
THEOREM AdmissionIsBounded == Spec => AdmissionWithinLimits
<1>1. ASSUME TypeOK, [Next]_vars
      PROVE  [requests' > requests => requests' <= limitRequests /\ bytes' <= limitBytes]_vars
  <2>0. requests \in Nat /\ bytes \in Nat /\ limitRequests \in Nat /\ limitBytes \in Nat
    BY <1>1, IngestConstants DEF TypeOK
  <2>1. ASSUME NEW w \in Exports, Submit(w) PROVE requests' <= limitRequests /\ bytes' <= limitBytes
    <3>1. Bytes[w] \in Nat
      BY IngestConstants
    <3>2. QED BY <2>0, <2>1, <3>1 DEF Submit, Fits
  <2>2. ASSUME NEW w \in Exports, Withdraw(w) PROVE ~(requests' > requests)
    BY <2>0, <2>2 DEF Withdraw, MayWithdraw, CutOut
  <2>3. CASE Release
    <3>1. Unreleased \in SUBSET Exports
      BY <1>1, ToSetFacts DEF Unreleased, Members, TypeOK
    <3>2. Cardinality(Unreleased) \in Nat
      BY <3>1, FS_Subset, FS_CardinalityType, IngestConstants
    <3>3. QED BY <2>0, <2>3, <3>2 DEF Release
  <2>4. requests' = requests \/ Release \/ \E w \in Exports : Submit(w) \/ Withdraw(w)
    BY <1>1 DEF Next, Loop, Exporter, vars, Refuse, RefuseDone, Return, Cancel, Close, CloseReturn,
       CloseGiveUp, Configure, Elapse, GoIdle, Sleep, TimerFires, WakeUp, TakeGroup, Skip, Start,
       StartedLate, Enter, RunAppends, RunFails, AllRun, FlushHolds, FlushFails, Complete, queueVars
  <2>5. QED BY <2>0, <2>1, <2>2, <2>3, <2>4
<1>2. QED BY <1>1, TypeCorrect, PTL DEF Spec, AdmissionWithinLimits

\* The loop's scan decides one group: if it can come as far as two positions,
\* neither is its end but the later.
LEMMA OneGroup ==
  ASSUME NEW s \in Seq(Exports), NEW n, NEW m, IsGroup(s, n), IsGroup(s, m)
  PROVE  n = m
<1>1. n \in 1..Len(s) /\ m \in 1..Len(s) /\ Len(s) \in Nat
  BY DEF IsGroup
<1>2. ASSUME NEW a \in 1..Len(s), NEW b \in 1..Len(s), IsGroup(s, a), IsGroup(s, b), a < b PROVE FALSE
  <2>1. CanTake(s, b) /\ ~CanTake(s, a + 1)
    BY <1>2 DEF IsGroup
  <2>2. \A k \in 1..(a + 1) : k \in 1..b /\ (k < a + 1 => k < b)
    BY <1>2
  <2>3. CanTake(s, a + 1)
    BY <2>1, <2>2 DEF CanTake
  <2>4. QED BY <2>1, <2>3
<1>3. n < m \/ m < n \/ n = m
  BY <1>1
<1>4. QED BY <1>1, <1>2, <1>3

\* While ingestion_queue_requests stays as it is, the loop never sleeps on a
\* group it could already run: every change that makes one ready leaves a
\* token in the wake channel (signal).
THEOREM NoWakeupIsLost ==
  ASSUME \A a, b \in RequestLimits : a = b
  PROVE  Spec => []NoLostWakeup
<1>1. Init => NoLostWakeup
  BY DEF Init, NoLostWakeup
<1>2. ASSUME TypeOK, NoLostWakeup, [Next]_vars PROVE NoLostWakeup'
  <2>0. pending \in Seq(Exports)
    BY <1>2 DEF TypeOK
  <2>1. CASE UNCHANGED <<pending, closed, requests, limitRequests, phase>> /\ (wake' \/ wake' = wake)
    BY <1>2, <2>1 DEF NoLostWakeup, ReadyEarly
  <2>2. CASE phase' # "sleep" \/ wake'
    BY <2>2 DEF NoLostWakeup
  <2>3. CASE Sleep
    <3>1. PICK n \in 1..Len(pending) : IsGroup(pending, n) /\ ~Ready(n)
      BY <2>3 DEF Sleep
    <3>2. UNCHANGED <<pending, closed, requests, limitRequests>>
      BY <2>3 DEF Sleep, queueVars, limitVars
    <3>3. ASSUME NEW m \in 1..Len(pending), IsGroup(pending, m) PROVE ~ReadyEarly(m)
      <4>1. m = n
        BY <2>0, <3>1, <3>3, OneGroup
      <4>2. QED BY <3>1, <4>1 DEF Ready
    <3>4. QED BY <3>2, <3>3 DEF NoLostWakeup, ReadyEarly
  <2>4. CASE Configure
    <3>1. limitRequests' = limitRequests
      BY <1>2, <2>4 DEF Configure, TypeOK
    <3>2. UNCHANGED <<pending, closed, requests, wake, phase>>
      BY <2>4 DEF Configure, queueVars, loopVars
    <3>3. QED BY <2>1, <3>1, <3>2
  <2>5. ASSUME NEW w \in Exports, Submit(w) \/ Withdraw(w) PROVE NoLostWakeup'
    BY <2>2, <2>5 DEF Submit, Withdraw
  <2>6. ASSUME NEW c \in Closers, Close(c) PROVE NoLostWakeup'
    BY <2>2, <2>6 DEF Close
  <2>7. CASE Loop
    BY <2>2, <2>3, <2>7 DEF Loop, GoIdle, TimerFires, WakeUp, TakeGroup, Skip, Start, StartedLate, Enter,
       RunAppends, RunFails, AllRun, FlushHolds, FlushFails, Complete, Release
  <2>8. ASSUME NEW w \in Exports, Refuse(w) \/ RefuseDone(w) \/ Return(w) \/ Cancel(w) PROVE NoLostWakeup'
    BY <2>1, <2>8 DEF Refuse, RefuseDone, Return, Cancel, queueVars, limitVars, loopVars
  <2>9. ASSUME NEW c \in Closers, CloseReturn(c) \/ CloseGiveUp(c) PROVE NoLostWakeup'
    BY <2>1, <2>9 DEF CloseReturn, CloseGiveUp, queueVars, limitVars, loopVars
  <2>10. CASE Elapse \/ UNCHANGED vars
    BY <2>1, <2>10 DEF Elapse, vars, queueVars, limitVars, loopVars
  <2>11. QED
    BY <1>2, <2>4, <2>5, <2>6, <2>7, <2>8, <2>9, <2>10 DEF Next, Exporter
<1>3. QED BY <1>1, <1>2, TypeCorrect, PTL DEF Spec

-----------------------------------------------------------------------------
(* First come, first run.                                                  *)

\* x stands before y in s.
Earlier(s, x, y) == \E i, j \in 1..Len(s) : i < j /\ s[i] = x /\ s[j] = y

\* The exports of s stand in the order of their admission.
InOrder(s) == \A p, q \in 1..Len(s) : Earlier(arrivals, s[p], s[q]) => p < q

\* The order of admission is kept by the queue and by the group, the group is
\* ahead of the queue, and what has started is ahead of what has not.
OrderInv ==
  /\ Distinct(arrivals)
  /\ ToSet(arrivals) \subseteq Admitted
  /\ InOrder(pending)
  /\ InOrder(group)
  /\ \A x, y \in Exports : Earlier(arrivals, x, y) /\ y \in Members => x \notin ToSet(pending)
  /\ \A x, y \in Exports : Earlier(arrivals, x, y) /\ y \in started => x \in started \cup finished

\* Both of two exports admitted in some order are among the arrivals.
LEMMA EarlierFacts ==
  ASSUME NEW s \in Seq(Exports), NEW x, NEW y, Earlier(s, x, y)
  PROVE  x \in ToSet(s) /\ y \in ToSet(s)
BY ToSetFacts DEF Earlier

\* Admitting an export puts it behind all others and moves none of them.
LEMMA EarlierAppend ==
  ASSUME NEW s \in Seq(Exports), NEW w \in Exports, NEW x, NEW y, w \notin ToSet(s),
         Earlier(Append(s, w), x, y)
  PROVE  Earlier(s, x, y) \/ (y = w /\ x \in ToSet(s))
<1> DEFINE a == Append(s, w)
<1>1. Len(a) = Len(s) + 1 /\ a[Len(s) + 1] = w /\ Len(s) \in Nat /\ \A i \in 1..Len(s) : a[i] = s[i]
  OBVIOUS
<1>2. Earlier(a, x, y)
  OBVIOUS
<1> HIDE DEF a
<1>3. PICK i \in 1..Len(a), j \in 1..Len(a) : i < j /\ a[i] = x /\ a[j] = y
  BY <1>2 DEF Earlier
<1>4. i \in 1..Len(s) /\ s[i] = x /\ x \in ToSet(s)
  <2>1. i \in 1..Len(s)
    BY <1>1, <1>3
  <2>2. QED BY <1>1, <1>3, <2>1, ToSetFacts
<1>5. CASE j \in 1..Len(s)
  BY <1>1, <1>3, <1>4, <1>5 DEF Earlier
<1>6. CASE j = Len(s) + 1
  BY <1>1, <1>3, <1>4, <1>6
<1>7. QED BY <1>1, <1>3, <1>5, <1>6

\* A step that leaves the queue, the group and the started exports alone
\* keeps the order.
LEMMA OrderFrame ==
  ASSUME OrderInv, UNCHANGED <<arrivals, pending, group, started>>,
         finished \subseteq finished', Admitted \subseteq Admitted'
  PROVE  OrderInv'
<1>1. Distinct(arrivals)' /\ (ToSet(arrivals) \subseteq Admitted)'
  BY DEF OrderInv, Distinct
<1>2. InOrder(pending)' /\ InOrder(group)'
  BY DEF OrderInv, InOrder
<1>3. Members' = Members
  BY DEF Members
<1>4. QED BY <1>1, <1>2, <1>3 DEF OrderInv

\* Every step keeps the order of admission.
LEMMA OrderStep ==
  ASSUME TypeOK, PlaceInv, LoopInv, OrderInv, [Next]_vars
  PROVE  OrderInv'
<1>0. /\ pending \in Seq(Exports) /\ group \in Seq(Exports) /\ arrivals \in Seq(Exports)
      /\ caller \in [Exports -> Callers] /\ index \in Nat
      /\ Len(pending) \in Nat /\ Len(group) \in Nat
  BY DEF TypeOK
<1>a. /\ \A x : x \in ToSet(pending) <=> \E i \in 1..Len(pending) : pending[i] = x
      /\ \A x : x \in Members <=> \E i \in 1..Len(group) : group[i] = x
  BY <1>0, ToSetFacts DEF Members
<1>1. ASSUME NEW w \in Exports, Submit(w) PROVE OrderInv'
  <2>1. /\ pending' = Append(pending, w) /\ arrivals' = Append(arrivals, w)
        /\ group' = group /\ started' = started /\ finished' = finished /\ caller[w] = "idle"
        /\ caller' = [caller EXCEPT ![w] = "waiting"]
    BY <1>1 DEF Submit, workVars
  <2>2. w \notin Admitted /\ w \in Admitted' /\ Admitted \subseteq Admitted'
    BY <1>0, <2>1 DEF Admitted
  <2>3. w \notin ToSet(arrivals) /\ w \notin ToSet(pending) /\ w \notin Members /\ w \notin started
    BY <2>2 DEF OrderInv, PlaceInv, Live
  <2>4. Distinct(arrivals') /\ ToSet(arrivals') = ToSet(arrivals) \cup {w}
    BY <1>0, <2>1, <2>3, AppendSet DEF OrderInv
  <2>5. \A x, y : Earlier(arrivals', x, y) => Earlier(arrivals, x, y) \/ (y = w /\ x \in ToSet(arrivals))
    BY <1>0, <2>1, <2>3, EarlierAppend
  <2>6. \A x, y : Earlier(arrivals', x, y) /\ y # w => Earlier(arrivals, x, y) /\ x # w
    BY <1>0, <2>3, <2>5, EarlierFacts
  <2>7. InOrder(pending)'
    <3> SUFFICES ASSUME NEW p \in 1..Len(pending'), NEW q \in 1..Len(pending'),
                        Earlier(arrivals', pending'[p], pending'[q])
                 PROVE  p < q
      BY DEF InOrder
    <3>1. /\ Len(pending') = Len(pending) + 1 /\ pending'[Len(pending) + 1] = w
          /\ \A i \in 1..Len(pending) : pending'[i] = pending[i]
      BY <1>0, <2>1, AppendFacts
    <3>2. CASE q \in 1..Len(pending)
      <4>1. pending'[q] = pending[q] /\ pending[q] # w
        BY <1>a, <2>3, <3>1, <3>2
      <4>2. Earlier(arrivals, pending'[p], pending'[q]) /\ pending'[p] # w
        BY <2>6, <4>1
      <4>3. p \in 1..Len(pending)
        BY <1>0, <3>1, <4>2
      <4>4. QED BY <3>1, <3>2, <4>2, <4>3 DEF OrderInv, InOrder
    <3>3. CASE q = Len(pending) + 1
      <4>1. pending'[p] # w
        <5>1. pending'[p] \in ToSet(arrivals)
          BY <1>0, <2>5, EarlierFacts
        <5>2. QED BY <2>3, <5>1
      <4>2. QED BY <1>0, <3>1, <3>3, <4>1
    <3>4. QED BY <1>0, <3>1, <3>2, <3>3
  <2>8. InOrder(group)'
    <3> SUFFICES ASSUME NEW p \in 1..Len(group), NEW q \in 1..Len(group),
                        Earlier(arrivals', group[p], group[q])
                 PROVE  p < q
      BY <2>1 DEF InOrder
    <3>1. group[q] # w
      BY <1>a, <2>3
    <3>2. QED BY <2>6, <3>1 DEF OrderInv, InOrder
  <2>9. ASSUME NEW x \in Exports, NEW y \in Exports, Earlier(arrivals', x, y), y \in Members'
        PROVE  x \notin ToSet(pending')
    <3>1. y \in Members /\ y # w
      BY <2>1, <2>3, <2>9 DEF Members
    <3>2. Earlier(arrivals, x, y) /\ x # w
      BY <2>6, <2>9, <3>1
    <3>3. x \notin ToSet(pending)
      BY <3>1, <3>2 DEF OrderInv
    <3>4. Distinct(pending)
      BY DEF PlaceInv, Distinct
    <3>5. ToSet(pending') = ToSet(pending) \cup {w}
      BY <1>0, <2>1, <2>3, <3>4, AppendSet
    <3>6. QED BY <3>2, <3>3, <3>5
  <2>10. ASSUME NEW x \in Exports, NEW y \in Exports, Earlier(arrivals', x, y), y \in started'
         PROVE  x \in started' \cup finished'
    <3>1. y # w
      BY <2>1, <2>3, <2>10
    <3>2. Earlier(arrivals, x, y)
      BY <2>6, <2>10, <3>1
    <3>3. QED BY <2>1, <2>10, <3>2 DEF OrderInv
  <2>11. (ToSet(arrivals) \subseteq Admitted)'
    BY <2>2, <2>4 DEF OrderInv
  <2>12. QED BY <2>4, <2>7, <2>8, <2>9, <2>10, <2>11 DEF OrderInv
<1>2. ASSUME NEW w \in Exports, Withdraw(w) PROVE OrderInv'
  <2>1. /\ UNCHANGED <<arrivals, group, started, caller>> /\ finished' = finished \cup {w}
        /\ \/ pending' = pending
           \/ \E i \in 1..Len(pending) : pending' = RemoveAt(pending, i)
    BY <1>2 DEF Withdraw, CutOut, callerVars, loopVars
  <2>2. Admitted' = Admitted /\ Members' = Members
    BY <2>1 DEF Admitted, Members
  <2>3. CASE pending' = pending
    BY <2>1, <2>2, <2>3, OrderFrame
  <2>4. ASSUME NEW i \in 1..Len(pending), pending' = RemoveAt(pending, i) PROVE OrderInv'
    <3>1. /\ Len(pending') = Len(pending) - 1
          /\ \A j \in 1..(Len(pending) - 1) :
               pending'[j] = IF j < i THEN pending[j] ELSE pending[j + 1]
      BY <1>0, <2>4, RemoveAtFacts
    <3>2. InOrder(pending)'
      <4> SUFFICES ASSUME NEW p \in 1..Len(pending'), NEW q \in 1..Len(pending'),
                          Earlier(arrivals, pending'[p], pending'[q])
                   PROVE  p < q
        BY <2>1 DEF InOrder
      <4> DEFINE at(j) == IF j < i THEN j ELSE j + 1
      <4>1. at(p) \in 1..Len(pending) /\ at(q) \in 1..Len(pending)
        BY <1>0, <3>1
      <4>2. pending'[p] = pending[at(p)] /\ pending'[q] = pending[at(q)]
        BY <1>0, <3>1
      <4>3. at(p) < at(q)
        BY <4>1, <4>2 DEF OrderInv, InOrder
      <4>4. QED BY <1>0, <3>1, <4>3
    <3>3. ToSet(pending') \subseteq ToSet(pending)
      <4>1. Distinct(pending)
        BY DEF PlaceInv, Distinct
      <4>2. QED BY <1>0, <2>4, <4>1, RemoveSet
    <3>4. InOrder(group)'
      BY <2>1 DEF OrderInv, InOrder
    <3>5. Distinct(arrivals)' /\ (ToSet(arrivals) \subseteq Admitted)'
      BY <2>1, <2>2 DEF OrderInv, Distinct
    <3>6. QED BY <2>1, <2>2, <3>2, <3>3, <3>4, <3>5 DEF OrderInv
  <2>5. QED BY <2>1, <2>3, <2>4
<1>3. CASE TakeGroup
  <2>1. PICK n \in 1..Len(pending) :
          group' = SubSeq(pending, 1, n) /\ pending' = SubSeq(pending, n + 1, Len(pending))
    BY <1>3 DEF TakeGroup, After
  <2>2. UNCHANGED <<arrivals, started, finished, caller>>
    BY <1>3 DEF TakeGroup, workVars, callerVars
  <2>3. /\ Len(group') = n /\ \A i \in 1..n : group'[i] = pending[i] /\ i \in 1..Len(pending)
        /\ Len(pending') = Len(pending) - n
        /\ \A i \in 1..(Len(pending) - n) : pending'[i] = pending[n + i] /\ n + i \in 1..Len(pending)
        /\ group' \in Seq(Exports) /\ pending' \in Seq(Exports)
    <3>1. Len(pending) \in Nat /\ n \in Nat /\ 1 <= n /\ n <= Len(pending)
      BY <1>0
    <3>2. group' \in Seq(Exports) /\ Len(group') = n /\ \A i \in 1..n : group'[i] = pending[i]
      BY <1>0, <2>1, SplitFacts, Zenon
    <3>3. /\ pending' \in Seq(Exports) /\ Len(pending') = Len(pending) - n
          /\ \A i \in 1..(Len(pending) - n) : pending'[i] = pending[n + i]
      BY <1>0, <2>1, SplitFacts, Zenon
    <3>4. /\ \A i \in 1..n : i \in 1..Len(pending)
          /\ \A i \in 1..(Len(pending) - n) : n + i \in 1..Len(pending)
      BY <3>1
    <3>5. QED BY <3>2, <3>3, <3>4
  <2>4. InOrder(group)'
    BY <2>2, <2>3 DEF OrderInv, InOrder
  <2>5. InOrder(pending)'
    <3> SUFFICES ASSUME NEW p \in 1..(Len(pending) - n), NEW q \in 1..(Len(pending) - n),
                        Earlier(arrivals, pending'[p], pending'[q])
                 PROVE  p < q
      BY <2>2, <2>3 DEF InOrder
    <3>1. n + p < n + q
      BY <2>3 DEF OrderInv, InOrder
    <3>2. QED BY <3>1
  <2>6. ASSUME NEW x \in Exports, NEW y \in Exports, Earlier(arrivals, x, y), y \in Members',
               x \in ToSet(pending')
        PROVE  FALSE
    <3>1. PICK i \in 1..Len(group') : group'[i] = y
      BY <2>3, <2>6, ToSetFacts DEF Members
    <3>2. PICK j \in 1..Len(pending') : pending'[j] = x
      BY <2>3, <2>6, ToSetFacts
    <3>3. i \in 1..Len(pending) /\ pending[i] = y /\ i <= n
      BY <2>3, <3>1
    <3>4. n + j \in 1..Len(pending) /\ pending[n + j] = x /\ n + j > n
      BY <2>3, <3>2
    <3>5. n + j < i
      BY <2>6, <3>3, <3>4 DEF OrderInv, InOrder
    <3>6. QED BY <3>3, <3>4, <3>5
  <2>7. Admitted' = Admitted
    BY <2>2 DEF Admitted
  <2>8. Distinct(arrivals)' /\ (ToSet(arrivals) \subseteq Admitted)'
    BY <2>2, <2>7 DEF OrderInv, Distinct
  <2>9. QED BY <2>2, <2>4, <2>5, <2>6, <2>8 DEF OrderInv
<1>4. CASE Start
  <2>1. /\ UNCHANGED <<arrivals, pending, group, finished, caller>>
        /\ started' = started \cup {group[index]} /\ index \in 1..Len(group) /\ phase = "pick"
    BY <1>0, <1>4 DEF Start, queueVars, callerVars, TypeOK
  <2>2. Members' = Members /\ Admitted' = Admitted
    BY <2>1 DEF Members, Admitted
  <2>3. ASSUME NEW x \in Exports, Earlier(arrivals, x, group[index]), x \notin finished
        PROVE  x \in started
    <3>1. x \in Live /\ group[index] \in Members /\ group[index] \in Exports
      BY <1>0, <1>a, <2>1, <2>3, EarlierFacts DEF OrderInv, Live
    <3>2. x \in Members
      BY <2>3, <3>1 DEF OrderInv, PlaceInv
    <3>3. PICK p \in 1..Len(group) : group[p] = x
      BY <1>a, <3>2
    <3>4. p < index
      BY <2>1, <2>3, <3>3 DEF OrderInv, InOrder
    <3>5. QED BY <2>3, <3>3, <3>4 DEF LoopInv
  <2>4. ASSUME NEW x \in Exports, NEW y \in Exports, Earlier(arrivals, x, y), y \in started'
        PROVE  x \in started' \cup finished'
    BY <2>1, <2>3, <2>4 DEF OrderInv
  <2>5. InOrder(pending)' /\ InOrder(group)' /\ Distinct(arrivals)' /\ (ToSet(arrivals) \subseteq Admitted)'
    BY <2>1, <2>2 DEF OrderInv, InOrder, Distinct
  <2>6. QED BY <2>1, <2>2, <2>4, <2>5 DEF OrderInv
<1>5. CASE Release
  <2>1. UNCHANGED <<arrivals, pending, started, caller>> /\ group' = <<>> /\ finished \subseteq finished'
    BY <1>5 DEF Release, callerVars
  <2>2. Members' = {} /\ Len(group') = 0
    BY <2>1 DEF Members, ToSet
  <2>3. Admitted' = Admitted
    BY <2>1 DEF Admitted
  <2>4. InOrder(group)'
    BY <2>2 DEF InOrder
  <2>5. InOrder(pending)' /\ Distinct(arrivals)' /\ (ToSet(arrivals) \subseteq Admitted)'
    BY <2>1, <2>3 DEF OrderInv, InOrder, Distinct
  <2>6. QED BY <2>1, <2>2, <2>4, <2>5 DEF OrderInv
<1>6. ASSUME UNCHANGED <<arrivals, pending, group, started, finished, caller>> PROVE OrderInv'
  BY <1>6, OrderFrame DEF Admitted
<1>7. CASE Loop
  BY <1>3, <1>4, <1>5, <1>6, <1>7 DEF Loop, GoIdle, Sleep, TimerFires, WakeUp, Skip, StartedLate, Enter,
     RunAppends, RunFails, AllRun, FlushHolds, FlushFails, Complete, queueVars, workVars, callerVars
<1>8. ASSUME NEW w \in Exports, Refuse(w) \/ RefuseDone(w) \/ Return(w) PROVE OrderInv'
  <2>1. UNCHANGED <<arrivals, pending, group, started, finished>>
    BY <1>8 DEF Refuse, RefuseDone, Return, queueVars, loopVars, workVars
  <2>2. \/ caller[w] = "idle" /\ caller' = [caller EXCEPT ![w] = "refused"]
        \/ caller[w] = "waiting" /\ caller' = [caller EXCEPT ![w] = "returned"]
    BY <1>8 DEF Refuse, RefuseDone, Return
  <2>3. Admitted \subseteq Admitted'
    BY <1>0, <2>2 DEF Admitted
  <2>4. QED BY <2>1, <2>3, OrderFrame
<1>9. ASSUME NEW w \in Exports, Cancel(w) PROVE OrderInv'
  BY <1>6, <1>9 DEF Cancel, queueVars, loopVars, workVars
<1>10. ASSUME NEW c \in Closers, Close(c) \/ CloseReturn(c) \/ CloseGiveUp(c) PROVE OrderInv'
  BY <1>6, <1>10 DEF Close, CloseReturn, CloseGiveUp, queueVars, loopVars, workVars
<1>11. CASE Configure \/ Elapse \/ UNCHANGED vars
  BY <1>6, <1>11 DEF Configure, Elapse, vars, queueVars, loopVars, workVars, callerVars
<1>12. QED
  BY <1>1, <1>2, <1>7, <1>8, <1>9, <1>10, <1>11 DEF Next, Exporter

\* Exports start in the order they were admitted: whatever is cancelled,
\* grouped or released meanwhile, an export overtakes only withdrawn ones.
THEOREM FirstCome == Spec => []FirstComeFirstRun
<1>1. Init => OrderInv
  <2> SUFFICES ASSUME Init PROVE OrderInv
    OBVIOUS
  <2>1. arrivals = <<>> /\ pending = <<>> /\ group = <<>> /\ started = {}
    BY DEF Init
  <2>2. ToSet(arrivals) = {} /\ Members = {}
    BY <2>1 DEF ToSet, Members
  <2>3. Distinct(arrivals) /\ InOrder(pending) /\ InOrder(group)
    BY <2>1 DEF Distinct, InOrder
  <2>4. QED BY <2>1, <2>2, <2>3 DEF OrderInv
<1>2. IInv /\ OrderInv /\ [Next]_vars => OrderInv'
  BY OrderStep DEF IInv
<1>3. TypeOK /\ OrderInv => FirstComeFirstRun
  <2> SUFFICES ASSUME TypeOK, OrderInv, NEW i \in 1..Len(arrivals), NEW j \in 1..Len(arrivals),
                      i < j, arrivals[j] \in started
               PROVE  arrivals[i] \in started \cup finished
    BY DEF FirstComeFirstRun
  <2>1. arrivals[i] \in Exports /\ arrivals[j] \in Exports
    BY DEF TypeOK
  <2>2. Earlier(arrivals, arrivals[i], arrivals[j])
    BY DEF Earlier
  <2>3. QED BY <2>1, <2>2 DEF OrderInv
<1>4. IInv => TypeOK
  BY DEF IInv
<1>5. QED BY <1>1, <1>2, <1>3, <1>4, Invariant, PTL DEF Spec

-----------------------------------------------------------------------------
(* The coordinator implements ExportContract.                              *)

\* Every step of the coordinator is a step of the contract or leaves it
\* alone: submit admits or refuses, the barrier persists, Complete publishes,
\* a withdrawal and a group's release answer.
LEMMA ContractStep ==
  ASSUME IInv, [Next]_vars
  PROVE  [Contract!Next]_(Contract!vars)
<1>0. TypeOK /\ PlaceInv /\ LoopInv /\ StoreInv
  BY DEF IInv
<1>1. /\ verdict = [w \in Exports |-> Verdict(w)]
      /\ verdict' = [w \in Exports |-> Verdict(w)']
      /\ caller \in [Exports -> Callers] /\ err \in [Exports -> Errors]
  BY <1>0 DEF verdict, TypeOK
<1>2. ASSUME UNCHANGED <<verdict, durable, published>> PROVE [Contract!Next]_(Contract!vars)
  BY <1>2 DEF Contract!vars
<1>3. ASSUME UNCHANGED <<caller, finished, durable, published>>,
             \A w \in Exports : w \notin finished \/ err'[w] = err[w]
      PROVE  [Contract!Next]_(Contract!vars)
  <2>1. \A w \in Exports : Verdict(w)' = Verdict(w)
    BY <1>1, <1>3 DEF Verdict, Callers
  <2>2. verdict' = verdict
    BY <1>1, <2>1
  <2>3. QED BY <1>2, <1>3, <2>2
<1>4. ASSUME NEW w \in Exports, Submit(w) PROVE Contract!Admit(w)
  <2>1. UNCHANGED <<finished, err, durable, published>> /\ w \notin finished
        /\ caller[w] = "idle" /\ caller' = [caller EXCEPT ![w] = "waiting"]
    BY <1>0, <1>4 DEF Submit, workVars, storeVars, PlaceInv, Admitted
  <2>2. Verdict(w) = "none" /\ Verdict(w)' = "pending"
    BY <1>1, <2>1 DEF Verdict
  <2>3. \A x \in Exports : x # w => Verdict(x)' = Verdict(x)
    BY <1>1, <2>1 DEF Verdict
  <2>4. verdict' = [verdict EXCEPT ![w] = "pending"]
    BY <1>1, <2>2, <2>3
  <2>5. QED BY <1>1, <2>1, <2>2, <2>4 DEF Contract!Admit
<1>5. ASSUME NEW w \in Exports, Refuse(w) \/ RefuseDone(w) PROVE Contract!Refuse(w)
  <2>1. UNCHANGED <<finished, err, durable, published>>
        /\ caller[w] = "idle" /\ caller' = [caller EXCEPT ![w] = "refused"]
    BY <1>5 DEF Refuse, RefuseDone, workVars, storeVars
  <2>2. Verdict(w) = "none" /\ Verdict(w)' = "error"
    BY <1>1, <2>1 DEF Verdict
  <2>3. \A x \in Exports : x # w => Verdict(x)' = Verdict(x)
    BY <1>1, <2>1 DEF Verdict
  <2>4. verdict' = [verdict EXCEPT ![w] = "error"]
    BY <1>1, <2>2, <2>3
  <2>5. QED BY <1>1, <2>1, <2>2, <2>4 DEF Contract!Refuse
<1>6. ASSUME NEW w \in Exports, Withdraw(w) PROVE Contract!Answer
  <2>1. /\ UNCHANGED <<caller, durable, published>> /\ finished' = finished \cup {w}
        /\ err' = [err EXCEPT ![w] = "ctx"] /\ caller[w] = "waiting"
        /\ w \notin finished /\ w \notin started
    BY <1>6 DEF Withdraw, MayWithdraw, CutOut, callerVars, storeVars
  <2>2. w \notin published
    BY <1>0, <2>1 DEF StoreInv
  <2>3. Verdict(w) = "pending" /\ Verdict(w)' = "error"
    BY <1>1, <2>1 DEF Verdict
  <2>4. \A x \in Exports : x # w => Verdict(x)' = Verdict(x)
    BY <1>1, <2>1 DEF Verdict
  <2>5. \A x \in Exports : Verdict(x)' \in Contract!Answers
    BY <1>1, <2>1 DEF Verdict, Contract!Answers, Callers
  <2>6. QED BY <1>1, <2>1, <2>2, <2>3, <2>4, <2>5 DEF Contract!Answer
<1>7. ASSUME NEW w \in Exports, Return(w) PROVE UNCHANGED <<verdict, durable, published>>
  <2>1. UNCHANGED <<finished, err, durable, published>> /\ w \in finished
        /\ caller[w] = "waiting" /\ caller' = [caller EXCEPT ![w] = "returned"]
    BY <1>7 DEF Return, workVars, storeVars
  <2>2. caller'[w] = "returned" /\ \A x \in Exports : x # w => caller'[x] = caller[x]
    BY <1>1, <2>1
  <2>3. Verdict(w)' = Verdict(w)
    BY <2>1, <2>2 DEF Verdict
  <2>4. \A x \in Exports : x # w => Verdict(x)' = Verdict(x)
    BY <2>1, <2>2 DEF Verdict
  <2>5. QED BY <1>1, <2>1, <2>3, <2>4
<1>8. CASE FlushHolds \/ FlushFails
  <2>1. /\ UNCHANGED <<caller, finished, err, published>>
        /\ \E S \in SUBSET appended : durable' = durable \cup S
    BY <1>8 DEF FlushHolds, FlushFails, workVars, callerVars
  <2>2. PICK S \in SUBSET appended : durable' = durable \cup S
    BY <2>1
  <2>3. \A x \in S : x \in Exports /\ caller[x] \in {"waiting", "returned"} /\ x \notin finished
    <3>1. S \subseteq Staged
      BY <1>0 DEF StoreInv
    <3>2. Staged \subseteq Admitted /\ Staged \cap finished = {}
      <4>1. group \in Seq(Exports)
        BY <1>0 DEF TypeOK
      <4>2. \A x \in Members : \E i \in 1..Len(group) : group[i] = x
        BY <4>1, ToSetFacts DEF Members
      <4>3. QED BY <1>0, <4>2 DEF Staged, PlaceInv, LoopInv
    <3>3. QED BY <3>1, <3>2 DEF Admitted
  <2>4. \A x \in S : x \in Exports /\ Verdict(x) = "pending"
    BY <2>3 DEF Verdict
  <2>5. verdict' = verdict
    BY <1>1, <2>1 DEF Verdict
  <2>6. Contract!Persist
    BY <1>1, <2>1, <2>2, <2>4, <2>5 DEF Contract!Persist
  <2>7. QED BY <2>6 DEF Contract!Next
<1>9. CASE Complete
  <2>1. /\ UNCHANGED <<caller, finished, durable>>
        /\ err' = [w \in Exports |-> IF w \in Staged THEN JoinErr(err[w], flushErr) ELSE err[w]]
        /\ published' = published \cup {w \in Staged : err'[w] = "nil"}
        /\ phase = "complete"
    BY <1>9 DEF Complete, callerVars
  <2>2. Staged \subseteq Admitted /\ Staged \cap finished = {}
    <3>1. group \in Seq(Exports)
      BY <1>0 DEF TypeOK
    <3>2. \A x \in Members : \E i \in 1..Len(group) : group[i] = x
      BY <3>1, ToSetFacts DEF Members
    <3>3. QED BY <1>0, <3>2 DEF Staged, PlaceInv, LoopInv
  <2>3. \A x \in Exports : x \notin finished \/ err'[x] = err[x]
    BY <2>1, <2>2
  <2>4. verdict' = verdict
    <3>1. \A x \in Exports : Verdict(x)' = Verdict(x)
      BY <1>1, <2>1, <2>3 DEF Verdict, Callers
    <3>2. QED BY <1>1, <3>1
  <2>5. \A x \in Staged : err'[x] = "nil" => x \in durable /\ x \in Exports /\ Verdict(x) = "pending"
    <3>1. \A x \in Staged : err'[x] = "nil" => err[x] = "nil" /\ flushErr = "nil"
      BY <2>1, <2>2 DEF JoinErr, Admitted
    <3>2. QED BY <1>0, <2>1, <2>2, <3>1 DEF StoreInv, Verdict, Admitted
  <2>6. Contract!Publish
    BY <1>1, <2>1, <2>4, <2>5 DEF Contract!Publish
  <2>7. QED BY <2>6 DEF Contract!Next
<1>10. CASE Release
  <2>1. UNCHANGED <<caller, err, durable, published>> /\ finished' = finished \cup Unreleased /\ phase = "release"
    BY <1>10 DEF Release, callerVars, storeVars
  <2>2. \A x \in Unreleased : x \in Staged /\ caller[x] \in {"waiting", "returned"} /\ x \notin finished
    <3>1. group \in Seq(Exports) /\ index = Len(group) + 1 /\ index \in Nat /\ Len(group) \in Nat
      BY <1>0, <2>1 DEF TypeOK, LoopInv
    <3>2. \A i \in 1..Len(group) : group[i] \in started \cup finished
      BY <1>0, <3>1 DEF LoopInv
    <3>3. \A x \in Members : \E i \in 1..Len(group) : group[i] = x
      BY <3>1, ToSetFacts DEF Members
    <3>4. QED BY <1>0, <3>2, <3>3 DEF Unreleased, Staged, PlaceInv, Admitted
  <2>3. \A x \in Exports : x \notin Unreleased => Verdict(x)' = Verdict(x)
    BY <2>1 DEF Verdict
  <2>4. \A x \in Unreleased : x \in Exports => Verdict(x) = "pending" /\ Verdict(x)' = IF err[x] = "nil" THEN "ok" ELSE "error"
    BY <2>1, <2>2 DEF Verdict
  <2>5. \A x \in Unreleased : err[x] = "nil" => x \in durable
    BY <1>0, <2>1, <2>2 DEF StoreInv
  <2>6. \A x \in Unreleased : err[x] # "nil" => x \notin published
    BY <1>0 DEF StoreInv
  <2>7. \A x \in Exports : Verdict(x)' \in Contract!Answers
    BY <1>1, <2>1 DEF Verdict, Contract!Answers, Callers
  <2>8. \A x \in Exports :
          \/ Verdict(x)' = Verdict(x)
          \/ Verdict(x) = "pending" /\ Verdict(x)' = "ok" /\ x \in durable
          \/ Verdict(x) = "pending" /\ Verdict(x)' = "error" /\ x \notin published
    BY <2>3, <2>4, <2>5, <2>6
  <2>9. Contract!Answer
    BY <1>1, <2>1, <2>7, <2>8 DEF Contract!Answer
  <2>10. QED BY <2>9 DEF Contract!Next
<1>11. CASE StartedLate \/ RunFails
  <2>1. index \in 1..Len(group) /\ group[index] \in started /\ group[index] \notin finished
    BY <1>0, <1>11 DEF StartedLate, RunFails, LoopInv, TypeOK
  <2>2. UNCHANGED <<caller, finished, durable, published>> /\ \A w \in Exports : w \notin finished \/ err'[w] = err[w]
    BY <1>1, <1>11, <2>1 DEF StartedLate, RunFails, callerVars, storeVars
  <2>3. QED BY <1>3, <2>2
<1>12. CASE Loop
  BY <1>3, <1>8, <1>9, <1>10, <1>11, <1>12 DEF Loop, GoIdle, Sleep, TimerFires, WakeUp, TakeGroup, Skip, Start,
     Enter, RunAppends, AllRun, workVars, callerVars, storeVars
<1>13. ASSUME NEW w \in Exports, Cancel(w) PROVE [Contract!Next]_(Contract!vars)
  BY <1>3, <1>13 DEF Cancel, workVars, storeVars
<1>14. ASSUME NEW c \in Closers, Close(c) \/ CloseReturn(c) \/ CloseGiveUp(c) PROVE [Contract!Next]_(Contract!vars)
  BY <1>3, <1>14 DEF Close, CloseReturn, CloseGiveUp, workVars, storeVars
<1>15. CASE Configure \/ Elapse \/ UNCHANGED vars
  BY <1>3, <1>15 DEF Configure, Elapse, vars, workVars, callerVars, storeVars
<1>16. ASSUME NEW w \in Exports, Exporter(w) PROVE [Contract!Next]_(Contract!vars)
  BY <1>2, <1>4, <1>5, <1>6, <1>7, <1>16 DEF Exporter, Contract!Next
<1>17. QED
  BY <1>12, <1>13, <1>14, <1>15, <1>16 DEF Next

\* The coordinator implements the contract for any exports, sizes and limits.
THEOREM ContractIsImplemented == Spec => ImplementsContract
<1>1. Init => Contract!Init
  <2> SUFFICES ASSUME Init PROVE Contract!Init
    OBVIOUS
  <2>1. \A w \in Exports : Verdict(w) = "none"
    BY DEF Init, Verdict
  <2>2. QED BY <2>1 DEF Init, verdict, Contract!Init
<1>2. IInv /\ [Next]_vars => [Contract!Next]_(Contract!vars)
  BY ContractStep
<1>3. QED BY <1>1, <1>2, Invariant, PTL DEF Spec, ImplementsContract, Contract!Spec

=============================================================================
