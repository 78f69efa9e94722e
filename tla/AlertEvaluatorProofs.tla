-------------------------- MODULE AlertEvaluatorProofs --------------------------
(***************************************************************************)
(* AlertsInv, EventFiresOnce and PassKeepsOperatorsWork for any rules,      *)
(* groups and sources and any number of operations, turns and faults.       *)
(*                                                                          *)
(* The invariant follows a group through a pass: while its rule is still to *)
(* be evaluated the copy in memory agrees with what was announced and,      *)
(* unless an operator interfered, with its row (TodoInv); once it has been  *)
(* evaluated the buffered row does (WritesInv), and carries the             *)
(* acknowledgement on.                                                      *)
(***************************************************************************)
EXTENDS AlertEvaluator, TLAPS

Agrees(x, r, g) ==
    /\ x.state = "firing" <=> heard[<<r, g>>] \in {"firing", "muted"}
    /\ heard[<<r, g>>] = "resolved" => x.state # "none"

PassInv ==
    /\ at = "idle" => touched = {}
    /\ at # "rules" => emitted = {} /\ todo = {} /\ writes = Unread
    /\ at # "idle" => \A r \in Rules \ touched : seenRule[r] = rule[r]

BoardInv ==
    \A r \in Rules, g \in Groups :
        /\ <<r, g>> \notin emitted \cup unsaved => Agrees(inst[r][g], r, g)
        /\ inst[r][g].state = "none" => inst[r][g] = NoInstance

TodoInv ==
    \A r \in todo, g \in Groups :
        /\ writes[r][g] = NoInstance /\ <<r, g>> \notin emitted
        /\ <<r, g>> \notin unsaved => Agrees(seen[r][g], r, g)
        /\ r \notin touched => seen[r][g] = inst[r][g]

WritesInv ==
    \A r \in Rules, g \in Groups :
        /\ writes[r][g].state = "none" => writes[r][g] = NoInstance
        /\ <<r, g>> \in emitted => writes[r][g] # NoInstance
        /\ writes[r][g] # NoInstance /\ <<r, g>> \notin unsaved \ emitted =>
              Agrees(writes[r][g], r, g)
        /\ r \notin touched /\ writes[r][g] # NoInstance
             /\ inst[r][g].acked /\ inst[r][g].state # "resolved" => writes[r][g].acked

IInv == TypeOK /\ PassInv /\ BoardInv /\ TodoInv /\ WritesInv

\* What an evaluation may make of a group and say about it.
Said(was, is, notice) ==
    /\ is \in Instance /\ is.state # "none"
    /\ notice \in {"nothing", "repeat", "firing", "muted", "resolved"}
    /\ notice \in {"firing", "muted"} => is.state = "firing" /\ is # was
    /\ notice = "resolved" => is.state = "resolved" /\ is # was
    /\ notice \in {"nothing", "repeat"} => (is.state = "firing" <=> was.state = "firing")
    /\ notice = "repeat" => is.state = "firing"
    /\ was.acked /\ was.state \notin {"none", "resolved"} => is.acked

-----------------------------------------------------------------------------
\* No row is the row of no instance.
LEMMA NoInstanceType == NoInstance \in Instance /\ NoInstance.state = "none" /\ ~NoInstance.acked
  <1>1. \A f \in BOOLEAN : [state |-> "none", acked |-> f] \in Instance
    BY DEF Instance
  <1>2. FALSE \in BOOLEAN
    OBVIOUS
  <1>3. NoInstance \in Instance
    BY <1>1, <1>2, Zenon DEF NoInstance
  <1> QED
    BY <1>3 DEF NoInstance

\* The rows of errors, and a pass that has read nothing.
LEMMA KeyTypes ==
  /\ NoInstance \in Instance
  /\ [state |-> "resolved", acked |-> FALSE] \in Instance
  /\ [state |-> "error", acked |-> FALSE] \in Instance
  <1>1. \A f \in BOOLEAN : /\ [state |-> "resolved", acked |-> f] \in Instance
                           /\ [state |-> "error", acked |-> f] \in Instance
    BY DEF Instance
  <1>2. FALSE \in BOOLEAN
    OBVIOUS
  <1> QED
    BY <1>1, <1>2, NoInstanceType, Zenon

\* A pass that has read nothing has the types of one that has.
LEMMA UnreadType == Unread \in [Rules -> [Keys -> Instance]] /\ NoRead \in [Rules -> Rule]
  <1>1. Unread \in [Rules -> [Keys -> Instance]]
    BY NoInstanceType DEF Unread
  <1>2. \A f \in BOOLEAN : [there |-> f, enabled |-> f, edit |-> 0] \in Rule
    BY AlertAssumption DEF Rule
  <1>3. FALSE \in BOOLEAN
    OBVIOUS
  <1>4. [there |-> FALSE, enabled |-> FALSE, edit |-> 0] \in Rule
    BY <1>2, <1>3, Zenon
  <1> QED
    BY <1>1, <1>4 DEF NoRead

\* A rule advances and resolves groups.
LEMMA MovedType ==
  ASSUME IInv, NEW r \in Rules, NEW present \in SUBSET Groups
  PROVE  Advances(r, present) \cup Vanished(r, present) \in SUBSET Groups
  BY AlertAssumption DEF Advances, Vanished, Breached, IInv, TypeOK

\* advanceAlertInstance and its notice.
LEMMA SaidOfAdvanced ==
  ASSUME NEW r \in Rules, NEW was \in Instance, NEW breached \in BOOLEAN, NEW due \in BOOLEAN
  PROVE  Said(was, AdvancedTo(r, was, breached),
              Notice(r, was, AdvancedTo(r, was, breached), due))
  <1> DEFINE is == AdvancedTo(r, was, breached)
             notice == Notice(r, was, is, due)
  <1>1. is \in Instance /\ is.state # "none"
        /\ (was.state \in {"pending", "firing", "error"} => is.acked = was.acked)
        /\ is.state \in {"pending", "firing", "resolved", "error"}
        /\ (was.state = "firing" => is.state \in {"firing", "resolved"})
    <2>1. CASE ~breached
      BY <2>1 DEF AdvancedTo, Instance
    <2>2. CASE breached /\ was.state \in {"none", "resolved"}
      <3>1. FALSE \in BOOLEAN
        OBVIOUS
      <3>2. Rearmed(was) = [state |-> "pending", acked |-> FALSE]
        BY <2>2 DEF Rearmed
      <3>3. /\ [state |-> "pending", acked |-> FALSE] \in Instance
            /\ [state |-> "firing", acked |-> FALSE] \in Instance
        <4>1. \A f \in BOOLEAN : /\ [state |-> "pending", acked |-> f] \in Instance
                                 /\ [state |-> "firing", acked |-> f] \in Instance
          BY DEF Instance
        <4> QED
          BY <3>1, <4>1, Zenon
      <3>4. is \in {[state |-> "pending", acked |-> FALSE], [state |-> "firing", acked |-> FALSE]}
        <4>1. [[state |-> "pending", acked |-> FALSE] EXCEPT !.state = "firing"]
                = [state |-> "firing", acked |-> FALSE]
          <5>1. \A f \in BOOLEAN : [[state |-> "pending", acked |-> f] EXCEPT !.state = "firing"]
                                    = [state |-> "firing", acked |-> f]
            OBVIOUS
          <5> QED
            BY <3>1, <5>1, Zenon
        <4>2. is = IF Rearmed(was).state = "pending" /\ Ripe(r, was)
                   THEN [Rearmed(was) EXCEPT !.state = "firing"] ELSE Rearmed(was)
          BY <2>2, Zenon DEF AdvancedTo
        <4> QED
          BY <3>2, <4>1, <4>2, Zenon
      <3>5. is.state \in {"pending", "firing"} /\ is \in Instance
        <4>1. \A f \in BOOLEAN : /\ [state |-> "pending", acked |-> f].state = "pending"
                                 /\ [state |-> "firing", acked |-> f].state = "firing"
          OBVIOUS
        <4>2. is \in Instance
          BY <3>3, <3>4, Zenon
        <4>3. is.state = "pending" \/ is.state = "firing"
          BY <3>1, <3>4, <4>1, Zenon
        <4> QED
          BY <4>2, <4>3
      <3> QED
        BY <2>2, <3>5
    <2>3. CASE breached /\ was.state \notin {"none", "resolved"}
      BY <2>3 DEF AdvancedTo, Rearmed, Instance
    <2> QED
      BY <2>1, <2>2, <2>3
  <1> HIDE DEF is
  <1>2. \/ notice \in {"firing", "muted"} /\ is.state = "firing" /\ was.state # "firing"
        \/ notice = "resolved" /\ is.state = "resolved" /\ was.state \in {"pending", "firing"}
        \/ notice = "repeat" /\ is.state = "firing" /\ was.state = "firing"
        \/ notice = "nothing" /\ (is.state = "firing" => was.state = "firing")
                              /\ (is.state = "resolved" => was.state \notin {"pending", "firing"})
    BY DEF Notice
  <1> HIDE DEF notice
  <1>3. was.state \in {"none", "pending", "firing", "resolved", "error"}
    BY DEF Instance
  <1>4. Said(was, is, notice)
    BY <1>1, <1>2, <1>3 DEF Said
  <1> QED
    BY <1>4 DEF is, notice

\* What Apply does to one group.
LEMMA ApplyFacts ==
  ASSUME IInv, NEW r \in todo, NEW moved \in SUBSET Groups, NEW next, NEW notice, NEW revalued,
         NEW key, Apply(r, moved, next, notice, revalued, key)
  PROVE  /\ \A q \in Rules, g \in Groups :
               /\ q # r => /\ seen'[q] = seen[q] /\ writes'[q] = writes[q]
                           /\ heard'[<<q, g>>] = heard[<<q, g>>]
                           /\ <<q, g>> \in emitted' <=> <<q, g>> \in emitted
               /\ <<q, g>> \in emitted => <<q, g>> \in emitted'
         /\ \A g \in Groups \ moved :
               /\ writes'[r][g] = NoInstance /\ heard'[<<r, g>>] = heard[<<r, g>>]
               /\ <<r, g>> \notin emitted'
         /\ \A g \in moved :
               /\ writes'[r][g] \in {next[g], NoInstance}
               /\ next[g] # seen[r][g] => writes'[r][g] = next[g]
               /\ heard'[<<r, g>>] = CASE notice[g] = "nothing" -> heard[<<r, g>>]
                                       [] notice[g] = "repeat" -> "firing"
                                       [] OTHER -> notice[g]
               /\ <<r, g>> \in emitted' <=> notice[g] \in {"firing", "muted", "resolved"}
         /\ todo' = todo \ {r} /\ ruled' = ruled \cup {r}
         /\ UNCHANGED <<at, seenRule, touched, world, table, unsaved>>
  <1>1. r \in Rules /\ \A g \in Groups : g # ErrorKey /\ g \in Keys
    BY AlertAssumption DEF IInv, TypeOK, Keys
  <1>2. \A g \in Groups : <<r, g>> \notin emitted
    BY DEF IInv, TodoInv
  <1>3. \A q \in Rules, g \in Groups : <<q, g>> \in Pairs
    BY DEF Pairs
  <1> DEFINE changed == {g \in moved : next[g] # seen[r][g] \/ g \in revalued}
             spoken == {g \in moved : notice[g] \in {"firing", "muted", "resolved"}}
  <1>4. emitted' = emitted \cup {<<r, g>> : g \in spoken}
    BY DEF Apply
  <1>5. \A q \in Rules, g \in Groups :
           <<q, g>> \in emitted' <=> <<q, g>> \in emitted \/ (q = r /\ g \in spoken)
    BY <1>4
  <1>6. /\ \A q \in Rules : q # r => seen'[q] = seen[q] /\ writes'[q] = writes[q]
        /\ \A g \in Groups : writes'[r][g] = IF g \in changed THEN next[g] ELSE NoInstance
    BY <1>1 DEF Apply, IInv, TypeOK
  <1>7. /\ \A q \in Rules, g \in Groups : q # r => heard'[<<q, g>>] = heard[<<q, g>>]
        /\ \A g \in Groups \ moved : heard'[<<r, g>>] = heard[<<r, g>>]
        /\ \A g \in moved :
              heard'[<<r, g>>] = CASE notice[g] = "nothing" -> heard[<<r, g>>]
                                   [] notice[g] = "repeat" -> "firing"
                                   [] OTHER -> notice[g]
    BY <1>1, <1>3 DEF Apply
  <1>8. todo' = todo \ {r} /\ ruled' = ruled \cup {r}
        /\ UNCHANGED <<at, seenRule, touched, world, table, unsaved>>
    BY DEF Apply
  <1>9. \A g \in moved : /\ writes'[r][g] \in {next[g], NoInstance}
                         /\ next[g] # seen[r][g] => writes'[r][g] = next[g]
    BY <1>6
  <1>10. \A g \in Groups \ moved : writes'[r][g] = NoInstance /\ <<r, g>> \notin emitted'
    BY <1>1, <1>2, <1>5, <1>6
  <1>11. \A g \in moved :
            <<r, g>> \in emitted' <=> notice[g] \in {"firing", "muted", "resolved"}
    BY <1>1, <1>2, <1>5
  <1>12. \A q \in Rules, g \in Groups :
            /\ <<q, g>> \in emitted => <<q, g>> \in emitted'
            /\ q # r => (<<q, g>> \in emitted' <=> <<q, g>> \in emitted)
    BY <1>5
  <1> QED
    BY <1>6, <1>7, <1>8, <1>9, <1>10, <1>11, <1>12

\* What Apply does to the types.
LEMMA ApplyType ==
  ASSUME IInv, NEW r \in todo, NEW moved \in SUBSET Groups, NEW next, NEW notice, NEW revalued,
         NEW key \in Instance, Apply(r, moved, next, notice, revalued, key),
         \A g \in moved : Said(seen[r][g], next[g], notice[g]),
         changes' \in 0..MaxChanges, ops' \in 0..MaxOps, faults' \in 0..MaxFaults
  PROVE  TypeOK'
  <1>1. r \in Rules /\ \A g \in moved : next[g] \in Instance
    BY DEF IInv, TypeOK, Said
  <1>2. seen' \in [Rules -> [Keys -> Instance]]
    BY <1>1 DEF Apply, IInv, TypeOK
  <1>3. writes' \in [Rules -> [Keys -> Instance]]
    BY <1>1, NoInstanceType DEF Apply, IInv, TypeOK
  <1>4. heard' \in [Pairs -> {"none", "firing", "muted", "resolved"}]
    <2>1. \A g \in moved : notice[g] \in {"nothing", "repeat", "firing", "muted", "resolved"}
      BY DEF Said
    <2> QED
      BY <2>1 DEF Apply, IInv, TypeOK
  <1>5. emitted' \subseteq Pairs
    BY <1>1 DEF Apply, Pairs, IInv, TypeOK
  <1> QED
    BY <1>1, <1>2, <1>3, <1>4, <1>5 DEF Apply, world, table, IInv, TypeOK

\* The evaluation of a rule, whatever it comes to.
LEMMA ApplyStep ==
  ASSUME IInv, at = "rules", NEW r \in todo, NEW moved \in SUBSET Groups, NEW next, NEW notice,
         NEW revalued, NEW key \in Instance, Apply(r, moved, next, notice, revalued, key),
         \A g \in moved : Said(seen[r][g], next[g], notice[g]),
         changes' \in 0..MaxChanges, ops' \in 0..MaxOps, faults' \in 0..MaxFaults
  PROVE  IInv'
  <1> DEFINE Facts ==
         /\ \A q \in Rules, g \in Groups :
               /\ q # r => /\ seen'[q] = seen[q] /\ writes'[q] = writes[q]
                           /\ heard'[<<q, g>>] = heard[<<q, g>>]
                           /\ <<q, g>> \in emitted' <=> <<q, g>> \in emitted
               /\ <<q, g>> \in emitted => <<q, g>> \in emitted'
         /\ \A g \in Groups \ moved :
               /\ writes'[r][g] = NoInstance /\ heard'[<<r, g>>] = heard[<<r, g>>]
               /\ <<r, g>> \notin emitted'
         /\ \A g \in moved :
               /\ writes'[r][g] \in {next[g], NoInstance}
               /\ next[g] # seen[r][g] => writes'[r][g] = next[g]
               /\ heard'[<<r, g>>] = CASE notice[g] = "nothing" -> heard[<<r, g>>]
                                       [] notice[g] = "repeat" -> "firing"
                                       [] OTHER -> notice[g]
               /\ <<r, g>> \in emitted' <=> notice[g] \in {"firing", "muted", "resolved"}
  <1>1. Facts
    BY ApplyFacts, Zenon
  <1>2. /\ r \in Rules /\ todo' = todo \ {r} /\ inst' = inst /\ rule' = rule
        /\ UNCHANGED <<at, seenRule, touched, unsaved>>
    BY ApplyFacts DEF table, IInv, TypeOK
  <1> HIDE DEF Facts
  <1>3. TypeOK'
    BY ApplyType
  <1>4. PassInv'
    BY <1>2 DEF IInv, PassInv
  <1>5. ASSUME NEW g \in moved
        PROVE  /\ <<r, g>> \notin unsaved \/ <<r, g>> \in emitted' => Agrees(next[g], r, g)'
               /\ <<r, g>> \notin unsaved \cup emitted' => Agrees(inst[r][g], r, g)'
    <2>1. Said(seen[r][g], next[g], notice[g])
      OBVIOUS
    <2>2. /\ <<r, g>> \notin emitted
          /\ <<r, g>> \notin unsaved => Agrees(seen[r][g], r, g) /\ Agrees(inst[r][g], r, g)
      BY <1>2 DEF IInv, TodoInv, BoardInv
    <2>3. /\ heard'[<<r, g>>] = CASE notice[g] = "nothing" -> heard[<<r, g>>]
                                  [] notice[g] = "repeat" -> "firing"
                                  [] OTHER -> notice[g]
          /\ <<r, g>> \in emitted' <=> notice[g] \in {"firing", "muted", "resolved"}
      BY <1>1 DEF Facts
    <2> QED
      BY <1>2, <2>1, <2>2, <2>3 DEF Agrees, Said
  <1>6. ASSUME NEW q \in Rules, NEW g \in Groups, q # r \/ g \notin moved
        PROVE  /\ <<q, g>> \in emitted' <=> <<q, g>> \in emitted
               /\ heard'[<<q, g>>] = heard[<<q, g>>]
    BY <1>1, <1>2, <1>6 DEF Facts, IInv, TodoInv
  <1>7. BoardInv'
    <2> SUFFICES ASSUME NEW q \in Rules, NEW g \in Groups
                 PROVE  /\ <<q, g>> \notin emitted' \cup unsaved => Agrees(inst[q][g], q, g)'
                        /\ inst[q][g].state = "none" => inst[q][g] = NoInstance
      BY <1>2 DEF BoardInv
    <2>1. CASE q = r /\ g \in moved
      BY <1>5, <2>1 DEF IInv, BoardInv
    <2>2. CASE q # r \/ g \notin moved
      BY <1>2, <1>6, <2>2 DEF IInv, BoardInv, Agrees
    <2> QED
      BY <2>1, <2>2
  <1>8. TodoInv'
    <2> SUFFICES ASSUME NEW q \in todo', NEW g \in Groups
                 PROVE  /\ writes'[q][g] = NoInstance /\ <<q, g>> \notin emitted'
                        /\ <<q, g>> \notin unsaved => Agrees(seen[q][g], q, g)'
                        /\ q \notin touched => seen'[q][g] = inst[q][g]
      BY <1>2 DEF TodoInv
    <2>1. q \in todo /\ q \in Rules /\ q # r
      BY <1>2 DEF IInv, TypeOK
    <2>2. writes'[q] = writes[q] /\ seen'[q] = seen[q]
      BY <1>1, <2>1 DEF Facts
    <2> QED
      BY <1>6, <2>1, <2>2 DEF IInv, TodoInv, Agrees
  <1>9. WritesInv'
    <2> SUFFICES ASSUME NEW q \in Rules, NEW g \in Groups
                 PROVE  /\ writes'[q][g].state = "none" => writes'[q][g] = NoInstance
                        /\ <<q, g>> \in emitted' => writes'[q][g] # NoInstance
                        /\ writes'[q][g] # NoInstance /\ <<q, g>> \notin unsaved \ emitted' =>
                              Agrees(writes[q][g], q, g)'
                        /\ q \notin touched /\ writes'[q][g] # NoInstance
                             /\ inst[q][g].acked /\ inst[q][g].state # "resolved" =>
                                   writes'[q][g].acked
      BY <1>2 DEF WritesInv
    <2>1. CASE q # r
      <3>1. writes'[q] = writes[q]
        BY <1>1, <2>1 DEF Facts
      <3> QED
        BY <1>6, <2>1, <3>1 DEF IInv, WritesInv, Agrees
    <2>2. CASE q = r /\ g \notin moved
      BY <1>1, <2>2, NoInstanceType DEF Facts
    <2>3. CASE q = r /\ g \in moved
      <3>1. /\ writes'[r][g] \in {next[g], NoInstance}
            /\ next[g] # seen[r][g] => writes'[r][g] = next[g]
            /\ <<r, g>> \in emitted' <=> notice[g] \in {"firing", "muted", "resolved"}
        BY <1>1, <2>3 DEF Facts
      <3>2. Said(seen[r][g], next[g], notice[g])
        BY <2>3
      <3>3. next[g] # NoInstance
        BY <3>2, NoInstanceType DEF Said
      <3>4. <<r, g>> \in emitted' => writes'[r][g] = next[g]
        BY <3>1, <3>2 DEF Said
      <3>5. writes'[r][g] # NoInstance /\ <<r, g>> \notin unsaved \ emitted' =>
              Agrees(writes[r][g], r, g)'
        BY <1>5, <2>3, <3>1 DEF Agrees
      <3>6. r \notin touched /\ inst[r][g].acked /\ inst[r][g].state # "resolved" =>
              next[g].acked
        <4>1. r \notin touched => seen[r][g] = inst[r][g]
          BY <2>3 DEF IInv, TodoInv
        <4>2. inst[r][g].state = "none" => ~inst[r][g].acked
          BY <1>2, <2>3, NoInstanceType DEF IInv, BoardInv
        <4> QED
          BY <3>2, <4>1, <4>2 DEF Said
      <3> QED
        BY <2>3, <3>1, <3>2, <3>3, <3>4, <3>5, <3>6 DEF Said
    <2> QED
      BY <2>1, <2>2, <2>3
  <1> QED
    BY <1>3, <1>4, <1>7, <1>8, <1>9 DEF IInv

\* A rule is evaluated without an error, or with one.
LEMMA EvaluateStep ==
  ASSUME IInv, NEW r \in Rules, Evaluate(r)
  PROVE  IInv'
  <1> DEFINE Key == IF seen[r][ErrorKey].state = "error"
                    THEN [state |-> "resolved", acked |-> FALSE] ELSE NoInstance
  <1>1. /\ at = "rules" /\ r \in todo /\ UNCHANGED bounds
        /\ changes' \in 0..MaxChanges /\ ops' \in 0..MaxOps /\ faults' \in 0..MaxFaults
    BY DEF Evaluate, bounds, IInv, TypeOK
  <1>2. PICK present \in SUBSET (Groups \ Breached(r)),
             due \in SUBSET {g \in Groups : seen[r][g].state = "firing"},
             revalued \in SUBSET Groups :
          LET moved == Advances(r, present) \cup Vanished(r, present)
              next == Outcome(r, moved)
          IN  Apply(r, moved, next, [g \in moved |-> Notice(r, seen[r][g], next[g], g \in due)],
                    revalued, Key)
    BY Zenon DEF Evaluate
  <1> DEFINE moved == Advances(r, present) \cup Vanished(r, present)
             next == Outcome(r, moved)
             notice == [g \in moved |-> Notice(r, seen[r][g], next[g], g \in due)]
  <1>3. moved \in SUBSET Groups
    BY MovedType
  <1>4. ASSUME NEW g \in moved PROVE Said(seen[r][g], next[g], notice[g])
    <2>1. /\ next[g] = AdvancedTo(r, seen[r][g], g \in Breached(r))
          /\ notice[g] = Notice(r, seen[r][g], next[g], g \in due)
      BY DEF Outcome
    <2>2. seen[r][g] \in Instance
      BY <1>3 DEF IInv, TypeOK, Keys
    <2> HIDE DEF next, notice, moved
    <2>3. (g \in Breached(r)) \in BOOLEAN /\ (g \in due) \in BOOLEAN
      OBVIOUS
    <2> QED
      BY <2>1, <2>2, <2>3, SaidOfAdvanced, Zenon
  <1>5. Key \in Instance
    BY KeyTypes, Zenon
  <1>6. Apply(r, moved, next, notice, revalued, Key)
    BY <1>2
  <1> HIDE DEF moved, next, notice, Key
  <1> QED
    BY <1>1, <1>3, <1>4, <1>5, <1>6, ApplyStep

\* A rule's evaluation fails, after some of its groups were advanced.
LEMMA EvaluateFailsStep ==
  ASSUME IInv, NEW r \in Rules, EvaluateFails(r)
  PROVE  IInv'
  <1> DEFINE Key == [state |-> "error", acked |-> FALSE]
  <1>1. /\ at = "rules" /\ r \in todo
        /\ changes' \in 0..MaxChanges /\ ops' \in 0..MaxOps /\ faults' \in 0..MaxFaults
    BY AlertAssumption DEF EvaluateFails, Fault, bounds, IInv, TypeOK
  <1>2. PICK done \in SUBSET (IF Orphan(r) THEN {} ELSE Advances(r, {})) :
          LET next == Outcome(r, done)
          IN  Apply(r, done, next, [g \in done |-> Notice(r, seen[r][g], next[g], FALSE)], {}, Key)
    BY Zenon DEF EvaluateFails
  <1> DEFINE next == Outcome(r, done)
             notice == [g \in done |-> Notice(r, seen[r][g], next[g], FALSE)]
  <1>3. done \in SUBSET Groups
    BY MovedType
  <1>4. ASSUME NEW g \in done PROVE Said(seen[r][g], next[g], notice[g])
    <2>1. /\ next[g] = AdvancedTo(r, seen[r][g], g \in Breached(r))
          /\ notice[g] = Notice(r, seen[r][g], next[g], FALSE)
      BY DEF Outcome
    <2>2. seen[r][g] \in Instance
      BY <1>3 DEF IInv, TypeOK, Keys
    <2> HIDE DEF next, notice
    <2>3. (g \in Breached(r)) \in BOOLEAN /\ FALSE \in BOOLEAN
      OBVIOUS
    <2> QED
      BY <2>1, <2>2, <2>3, SaidOfAdvanced, Zenon
  <1>5. Key \in Instance
    BY KeyTypes
  <1>6. Apply(r, done, next, notice, {}, Key)
    BY <1>2
  <1> HIDE DEF next, notice, Key
  <1> QED
    BY <1>1, <1>3, <1>4, <1>5, <1>6, ApplyStep

\* A group whose silence is unknown fires in memory alone.
LEMMA SilenceUnknownStep ==
  ASSUME IInv, NEW r \in Rules, SilenceUnknown(r)
  PROVE  IInv'
  <1>1. PICK g \in Groups :
          /\ g \in Advances(r, {})
          /\ seen' = [seen EXCEPT ![r][g] = IF @.state = "none" THEN @ ELSE Outcome(r, {g})[g]]
    BY MovedType DEF SilenceUnknown
  <1>2. /\ Outcome(r, {g})[g] \in Instance
    <2>1. Outcome(r, {g})[g] = AdvancedTo(r, seen[r][g], g \in Breached(r))
      BY DEF Outcome
    <2>2. seen[r][g] \in Instance /\ (g \in Breached(r)) \in BOOLEAN /\ FALSE \in BOOLEAN
      BY DEF IInv, TypeOK, Keys
    <2>3. Said(seen[r][g], AdvancedTo(r, seen[r][g], g \in Breached(r)),
               Notice(r, seen[r][g], AdvancedTo(r, seen[r][g], g \in Breached(r)), FALSE))
      BY <2>2, SaidOfAdvanced, Zenon
    <2> QED
      BY <2>1, <2>3 DEF Said
  <1>3. TypeOK'
    <2>1. seen' \in [Rules -> [Keys -> Instance]]
      BY <1>1, <1>2 DEF IInv, TypeOK, Keys
    <2>2. writes' \in [Rules -> [Keys -> Instance]]
      BY KeyTypes DEF SilenceUnknown, IInv, TypeOK, Keys
    <2> QED
      BY <2>1, <2>2, AlertAssumption
      DEF SilenceUnknown, Fault, world, table, told, IInv, TypeOK
  <1>4. /\ \A q \in Rules, h \in Groups : writes'[q][h] = writes[q][h]
        /\ \A q \in Rules : q # r => seen'[q] = seen[q]
    BY <1>1, AlertAssumption DEF SilenceUnknown, IInv, TypeOK
  <1>5. /\ at = "rules" /\ todo' = todo \ {r}
        /\ UNCHANGED <<at, seenRule, emitted, touched, inst, rule, heard, unsaved>>
    BY DEF SilenceUnknown, table, told
  <1>6. PassInv'
    BY <1>5 DEF IInv, PassInv
  <1>7. BoardInv'
    BY <1>5 DEF IInv, BoardInv, Agrees
  <1>8. TodoInv'
    <2> SUFFICES ASSUME NEW q \in todo', NEW h \in Groups
                 PROVE  /\ writes'[q][h] = NoInstance /\ <<q, h>> \notin emitted
                        /\ <<q, h>> \notin unsaved => Agrees(seen[q][h], q, h)'
                        /\ q \notin touched => seen'[q][h] = inst[q][h]
      BY <1>5 DEF TodoInv
    <2>1. q \in todo /\ q \in Rules /\ q # r
      BY <1>5 DEF IInv, TypeOK
    <2>2. writes'[q][h] = writes[q][h] /\ seen'[q] = seen[q] /\ heard' = heard
      BY <1>4, <1>5, <2>1
    <2> QED
      BY <2>1, <2>2 DEF IInv, TodoInv, Agrees
  <1>9. WritesInv'
    <2> SUFFICES ASSUME NEW q \in Rules, NEW h \in Groups
                 PROVE  /\ writes'[q][h].state = "none" => writes'[q][h] = NoInstance
                        /\ <<q, h>> \in emitted => writes'[q][h] # NoInstance
                        /\ writes'[q][h] # NoInstance /\ <<q, h>> \notin unsaved \ emitted =>
                              Agrees(writes[q][h], q, h)'
                        /\ q \notin touched /\ writes'[q][h] # NoInstance
                             /\ inst[q][h].acked /\ inst[q][h].state # "resolved" =>
                                   writes'[q][h].acked
      BY <1>5 DEF WritesInv
    <2>1. writes'[q][h] = writes[q][h] /\ heard' = heard
      BY <1>4, <1>5
    <2> QED
      BY <2>1 DEF IInv, WritesInv, Agrees
  <1> QED
    BY <1>3, <1>6, <1>7, <1>8, <1>9 DEF IInv

-----------------------------------------------------------------------------
\* A pass that has ended leaves no trace in memory.
LEMMA EndPassStep ==
  ASSUME IInv, EndPass, TypeOK', UNCHANGED <<heard, inst>>, unsaved' = unsaved \cup emitted
  PROVE  IInv'
  <1>1. \A r \in Rules, g \in Groups : writes'[r][g] = NoInstance
    BY DEF EndPass, Unread, Keys
  <1>2. PassInv'
    BY DEF EndPass, PassInv
  <1>3. BoardInv'
    BY DEF EndPass, IInv, BoardInv, Agrees
  <1>4. TodoInv' /\ WritesInv'
    BY <1>1 DEF EndPass, TodoInv, WritesInv, NoInstance
  <1> QED
    BY <1>2, <1>3, <1>4 DEF IInv

\* The ends of a pass.
LEMMA PassEnds ==
  ASSUME IInv, \/ ReadFails \/ SaveInstancesFails \/ (SaveEvents /\ at' = "idle")
               \/ SaveRules \/ SaveRulesFails \/ Crash
  PROVE  IInv'
  <1>1. EndPass
    BY DEF ReadFails, SaveInstancesFails, SaveEvents, SaveRules, SaveRulesFails, Crash
  <1>2. UNCHANGED <<heard, inst>> /\ unsaved' = unsaved \cup emitted
    BY DEF ReadFails, SaveInstancesFails, SaveEvents, SaveRules, SaveRulesFails, Crash, table, told,
      IInv, PassInv
  <1>3. TypeOK'
    <2>1. rule' \in [Rules -> Rule]
      BY DEF ReadFails, SaveInstancesFails, SaveEvents, SaveRules, SavedRules, SaveRulesFails, Crash,
        table, IInv, TypeOK
    <2>2. Unread \in [Rules -> [Keys -> Instance]] /\ NoRead \in [Rules -> Rule]
      BY UnreadType
    <2>3. /\ changes' \in 0..MaxChanges /\ ops' \in 0..MaxOps /\ faults' \in 0..MaxFaults
          /\ UNCHANGED world
      BY AlertAssumption DEF ReadFails, SaveInstancesFails, SaveEvents, SaveRules, SaveRulesFails,
        Crash, Fault, bounds, IInv, TypeOK
    <2> QED
      BY <1>1, <1>2, <2>1, <2>2, <2>3 DEF EndPass, world, IInv, TypeOK
  <1> QED
    BY <1>1, <1>2, <1>3, EndPassStep

\* The rules are read.
LEMMA ReadRulesStep ==
  ASSUME IInv, ReadRules
  PROVE  IInv'
  <1>1. TypeOK'
    BY DEF ReadRules, world, table, told, bounds, IInv, TypeOK
  <1>2. PassInv'
    BY DEF ReadRules, table, IInv, PassInv
  <1>3. BoardInv' /\ TodoInv' /\ WritesInv'
    BY DEF ReadRules, table, told, IInv, BoardInv, TodoInv, WritesInv, Agrees
  <1> QED
    BY <1>1, <1>2, <1>3 DEF IInv

\* Their instances are read.
LEMMA ReadInstancesStep ==
  ASSUME IInv, ReadInstances
  PROVE  IInv'
  <1>1. TypeOK'
    <2>1. seen' \in [Rules -> [Keys -> Instance]]
      BY UnreadType DEF ReadInstances, IInv, TypeOK
    <2> QED
      BY <2>1 DEF ReadInstances, world, table, told, bounds, IInv, TypeOK
  <1>2. PassInv'
    BY DEF ReadInstances, table, IInv, PassInv
  <1>3. BoardInv' /\ WritesInv'
    BY DEF ReadInstances, table, told, IInv, BoardInv, WritesInv, Agrees
  <1>4. TodoInv'
    <2>1. \A r \in todo' : r \in Rules /\ seen'[r] = inst[r]
      BY DEF ReadInstances
    <2>2. /\ emitted = {} /\ \A r \in Rules, g \in Groups : writes[r][g] = NoInstance
      BY DEF ReadInstances, IInv, PassInv, Unread, Keys
    <2> QED
      BY <2>1, <2>2 DEF ReadInstances, table, told, IInv, BoardInv, TodoInv, Agrees
  <1> QED
    BY <1>1, <1>2, <1>3, <1>4 DEF IInv

\* The buffered instances are saved.
LEMMA SaveInstancesStep ==
  ASSUME IInv, SaveInstances
  PROVE  IInv'
  <1>1. TypeOK'
    <2>1. inst' \in [Rules -> [Keys -> Instance]]
      BY DEF SaveInstances, Saved, IInv, TypeOK
    <2> QED
      BY <2>1, UnreadType DEF SaveInstances, world, bounds, IInv, TypeOK
  <1>2. PassInv'
    BY DEF SaveInstances, Flushing, IInv, TypeOK, PassInv
  <1>3. \A r \in Rules, g \in Groups :
           /\ inst'[r][g] = IF writes[r][g] = NoInstance THEN inst[r][g] ELSE writes[r][g]
           /\ writes'[r][g] = NoInstance
    BY DEF SaveInstances, Saved, Unread, Keys
  <1>4. BoardInv'
    <2> SUFFICES ASSUME NEW r \in Rules, NEW g \in Groups
                 PROVE  /\ <<r, g>> \notin unsaved \ emitted => Agrees(inst[r][g], r, g)'
                        /\ inst'[r][g].state = "none" => inst'[r][g] = NoInstance
      BY DEF SaveInstances, BoardInv
    <2>1. UNCHANGED heard
      BY DEF SaveInstances
    <2>2. CASE writes[r][g] = NoInstance
      BY <1>3, <2>1, <2>2 DEF IInv, BoardInv, WritesInv, Agrees
    <2>3. CASE writes[r][g] # NoInstance
      BY <1>3, <2>1, <2>3 DEF IInv, WritesInv, Agrees
    <2> QED
      BY <2>2, <2>3
  <1>5. TodoInv'
    BY DEF SaveInstances, Flushing, TodoInv
  <1>6. WritesInv'
    BY <1>3 DEF SaveInstances, WritesInv, NoInstance
  <1> QED
    BY <1>1, <1>2, <1>4, <1>5, <1>6 DEF IInv

\* The events are saved.
LEMMA SaveEventsStep ==
  ASSUME IInv, SaveEvents, at' # "idle"
  PROVE  IInv'
  <1>1. at = "events" /\ at' = "save"
        /\ UNCHANGED <<todo, seenRule, seen, writes, ruled, emitted, touched, bounds, world, table,
                       told>>
    BY DEF SaveEvents, EndPass
  <1>2. TypeOK'
    BY <1>1 DEF world, table, told, bounds, IInv, TypeOK
  <1>3. PassInv'
    BY <1>1 DEF table, IInv, PassInv
  <1>4. BoardInv' /\ TodoInv' /\ WritesInv'
    BY <1>1 DEF table, told, IInv, BoardInv, TodoInv, WritesInv, Agrees
  <1> QED
    BY <1>2, <1>3, <1>4 DEF IInv

-----------------------------------------------------------------------------
\* An operator changes the instances of a rule, or the rule.
LEMMA TouchStep ==
  ASSUME IInv, NEW r \in Rules, Touch(r), TypeOK',
         \A q \in Rules : q # r => inst'[q] = inst[q] /\ rule'[q] = rule[q],
         \A g \in Groups :
            \/ <<r, g>> \in unsaved' /\ inst'[r][g] = NoInstance
            \/ inst'[r][g].state = inst[r][g].state
               /\ (inst[r][g] = NoInstance => inst'[r][g] = NoInstance),
         unsaved \subseteq unsaved',
         \A q \in Rules, g \in Groups : q # r /\ <<q, g>> \in unsaved' => <<q, g>> \in unsaved
  PROVE  IInv'
  <1>1. /\ UNCHANGED <<at, todo, seenRule, seen, writes, emitted, heard>>
        /\ at # "idle" => touched' = touched \cup {r}
        /\ at = "idle" => touched' = {}
    BY DEF Touch
  <1>2. \A q \in Rules, g \in Groups : at = "idle" => writes[q][g] = NoInstance
    BY DEF IInv, PassInv, Unread, Keys
  <1>3. PassInv'
    BY <1>1 DEF IInv, PassInv
  <1>4. BoardInv'
    <2> SUFFICES ASSUME NEW q \in Rules, NEW g \in Groups
                 PROVE  /\ <<q, g>> \notin emitted \cup unsaved' => Agrees(inst[q][g], q, g)'
                        /\ inst'[q][g].state = "none" => inst'[q][g] = NoInstance
      BY <1>1 DEF BoardInv
    <2>1. CASE q = r
      BY <1>1, <2>1 DEF IInv, BoardInv, Agrees
    <2>2. CASE q # r
      BY <1>1, <2>2 DEF IInv, BoardInv, Agrees
    <2> QED
      BY <2>1, <2>2
  <1>5. TodoInv'
    <2>1. todo # {} => at # "idle"
      BY DEF IInv, PassInv
    <2>2. \A q \in todo' : q \in todo /\ q \in Rules
      BY <1>1 DEF IInv, TypeOK
    <2> SUFFICES ASSUME NEW q \in todo', NEW g \in Groups
                 PROVE  /\ writes[q][g] = NoInstance /\ <<q, g>> \notin emitted
                        /\ <<q, g>> \notin unsaved' => Agrees(seen[q][g], q, g)'
                        /\ q \notin touched' => seen[q][g] = inst'[q][g]
      BY <1>1 DEF TodoInv
    <2> QED
      BY <1>1, <2>1, <2>2 DEF IInv, TodoInv, Agrees
  <1>6. WritesInv'
    <2> SUFFICES ASSUME NEW q \in Rules, NEW g \in Groups
                 PROVE  /\ writes[q][g].state = "none" => writes[q][g] = NoInstance
                        /\ <<q, g>> \in emitted => writes[q][g] # NoInstance
                        /\ writes[q][g] # NoInstance /\ <<q, g>> \notin unsaved' \ emitted =>
                              Agrees(writes[q][g], q, g)'
                        /\ q \notin touched' /\ writes[q][g] # NoInstance
                             /\ inst'[q][g].acked /\ inst'[q][g].state # "resolved" =>
                                   writes[q][g].acked
      BY <1>1 DEF WritesInv
    <2>1. CASE q = r
      BY <1>1, <1>2, <2>1 DEF IInv, WritesInv, Agrees
    <2>2. CASE q # r
      BY <1>1, <1>2, <2>2 DEF IInv, WritesInv, Agrees
    <2> QED
      BY <2>1, <2>2
  <1> QED
    BY <1>3, <1>4, <1>5, <1>6 DEF IInv

\* Operators that change a rule, or silence it.
LEMMA RuleStep ==
  ASSUME IInv, NEW r \in Rules, Edit(r) \/ Recreate(r) \/ Silence(r)
  PROVE  IInv'
  <1>1. Touch(r) /\ inst' = inst /\ unsaved' = unsaved
        /\ \A q \in Rules : q # r => rule'[q] = rule[q]
    BY DEF Edit, Recreate, Silence, Operate, Undo, table, IInv, TypeOK
  <1>2. TypeOK'
    <2>1. rule' \in [Rules -> Rule]
      <3>1. CASE Edit(r)
        <4>1. PICK on \in BOOLEAN : rule' = [rule EXCEPT ![r].edit = ops + 1, ![r].enabled = on]
          BY <3>1 DEF Edit
        <4>2. ops + 1 \in 0..MaxOps
          <5>1. ops < MaxOps /\ ops \in 0..MaxOps
            BY <3>1 DEF Edit, Operate, IInv, TypeOK
          <5> QED
            BY <5>1, AlertAssumption
        <4>3. \A x \in Rule, f \in BOOLEAN, e \in 0..MaxOps :
                 [[x EXCEPT !.edit = e] EXCEPT !.enabled = f] \in Rule
          BY DEF Rule
        <4>4. rule' = [rule EXCEPT ![r] = [[rule[r] EXCEPT !.edit = ops + 1] EXCEPT !.enabled = on]]
          BY <4>1 DEF IInv, TypeOK
        <4>5. [[rule[r] EXCEPT !.edit = ops + 1] EXCEPT !.enabled = on] \in Rule
          BY <4>2, <4>3 DEF IInv, TypeOK
        <4> QED
          BY <4>4, <4>5 DEF IInv, TypeOK
      <3>2. CASE Recreate(r)
        <4>1. \A f \in BOOLEAN : [there |-> f, enabled |-> f, edit |-> 0] \in Rule
          BY AlertAssumption DEF Rule
        <4>2. TRUE \in BOOLEAN
          OBVIOUS
        <4>3. [there |-> TRUE, enabled |-> TRUE, edit |-> 0] \in Rule
          BY <4>1, <4>2, Zenon
        <4> QED
          BY <3>2, <4>3 DEF Recreate, IInv, TypeOK
      <3>3. CASE Silence(r)
        BY <3>3 DEF Silence, table, IInv, TypeOK
      <3> QED
        BY <3>1, <3>2, <3>3
    <2>2. silenced' \subseteq Rules
      BY DEF Edit, Recreate, Silence, IInv, TypeOK
    <2>3. ops' \in 0..MaxOps
      BY AlertAssumption DEF Edit, Recreate, Silence, Operate, Undo, IInv, TypeOK
    <2> QED
      BY <1>1, <2>1, <2>2, <2>3 DEF Touch, IInv, TypeOK
  <1> QED
    BY <1>1, <1>2, TouchStep

\* Operators that change the instances of a rule, or delete it.
LEMMA InstanceStep ==
  ASSUME IInv, NEW r \in Rules, DeleteRule(r) \/ Acknowledge(r) \/ Unacknowledge(r)
  PROVE  IInv'
  <1>1. Touch(r) /\ unsaved \subseteq unsaved'
        /\ \A q \in Rules : q # r => rule'[q] = rule[q] /\ inst'[q] = inst[q]
    BY DEF DeleteRule, Acknowledge, Unacknowledge, Operate, Undo, IInv, TypeOK
  <1>2. \A q \in Rules, g \in Groups : q # r /\ <<q, g>> \in unsaved' => <<q, g>> \in unsaved
    BY DEF DeleteRule, Acknowledge, Unacknowledge
  <1>3. \A g \in Groups : g \in Keys /\ inst[r][g] \in Instance
    BY DEF Keys, IInv, TypeOK
  <1>4. /\ inst' \in [Rules -> [Keys -> Instance]]
        /\ \A g \in Groups :
              \/ <<r, g>> \in unsaved' /\ inst'[r][g] = NoInstance
              \/ inst'[r][g].state = inst[r][g].state
                 /\ (inst[r][g] = NoInstance => inst'[r][g] = NoInstance)
    <2>1. CASE DeleteRule(r)
      BY <1>3, <2>1, UnreadType DEF DeleteRule, Unread, IInv, TypeOK
    <2>2. CASE Acknowledge(r)
      <3>1. PICK G \in SUBSET Acknowledgeable(r) :
              inst' = [inst EXCEPT ![r] = [k \in Keys |->
                         IF k \in G THEN [@[k] EXCEPT !.acked = TRUE] ELSE @[k]]]
        BY <2>2 DEF Acknowledge
      <3>2. \A x \in Instance : [x EXCEPT !.acked = TRUE] \in Instance
                                /\ [x EXCEPT !.acked = TRUE].state = x.state
        <4>1. \A x \in Instance, f \in BOOLEAN : [x EXCEPT !.acked = f] \in Instance
                                                /\ [x EXCEPT !.acked = f].state = x.state
          BY DEF Instance
        <4>2. TRUE \in BOOLEAN
          OBVIOUS
        <4> QED
          BY <4>1, <4>2, Zenon
      <3>3. \A g \in G : inst[r][g] # NoInstance
        BY <3>1, NoInstanceType DEF Acknowledgeable
      <3>4. \A k \in Keys : inst'[r][k] = IF k \in G THEN [inst[r][k] EXCEPT !.acked = TRUE]
                                          ELSE inst[r][k]
        BY <3>1 DEF IInv, TypeOK
      <3>5. inst' \in [Rules -> [Keys -> Instance]]
        BY <3>1, <3>2 DEF IInv, TypeOK
      <3> QED
        BY <1>3, <3>2, <3>3, <3>4, <3>5
    <2>3. CASE Unacknowledge(r)
      <3>1. PICK h \in Groups : inst[r][h].acked /\ inst' = [inst EXCEPT ![r][h].acked = FALSE]
        BY <2>3 DEF Unacknowledge
      <3>2. inst[r][h] # NoInstance
        BY <3>1, NoInstanceType
      <3>3. \A x \in Instance : [x EXCEPT !.acked = FALSE] \in Instance
                                /\ [x EXCEPT !.acked = FALSE].state = x.state
        <4>1. \A x \in Instance, f \in BOOLEAN : [x EXCEPT !.acked = f] \in Instance
                                                /\ [x EXCEPT !.acked = f].state = x.state
          BY DEF Instance
        <4>2. FALSE \in BOOLEAN
          OBVIOUS
        <4> QED
          BY <4>1, <4>2, Zenon
      <3>4. inst' = [inst EXCEPT ![r] = [inst[r] EXCEPT ![h] = [inst[r][h] EXCEPT !.acked = FALSE]]]
        BY <3>1
      <3>5. inst' \in [Rules -> [Keys -> Instance]]
        BY <1>3, <3>3, <3>4 DEF IInv, TypeOK
      <3>6. \A k \in Keys : inst'[r][k] = IF k = h THEN [inst[r][k] EXCEPT !.acked = FALSE]
                                          ELSE inst[r][k]
        BY <3>4 DEF IInv, TypeOK
      <3> QED
        BY <1>3, <3>2, <3>3, <3>5, <3>6
    <2> QED
      BY <2>1, <2>2, <2>3
  <1>5. TypeOK'
    <2>1. rule' \in [Rules -> Rule]
      <3>1. CASE DeleteRule(r)
        <4>1. \A x \in Rule, f \in BOOLEAN : [x EXCEPT !.there = f] \in Rule
          BY DEF Rule
        <4>2. FALSE \in BOOLEAN
          OBVIOUS
        <4>3. [rule[r] EXCEPT !.there = FALSE] \in Rule
          BY <4>1, <4>2, Zenon DEF IInv, TypeOK
        <4> QED
          BY <3>1, <4>3 DEF DeleteRule, IInv, TypeOK
      <3>2. CASE Acknowledge(r) \/ Unacknowledge(r)
        BY <3>2 DEF Acknowledge, Unacknowledge, IInv, TypeOK
      <3> QED
        BY <3>1, <3>2
    <2>2. unsaved' \subseteq Pairs
      BY DEF DeleteRule, Acknowledge, Unacknowledge, Pairs, IInv, TypeOK
    <2>3. ops' \in 0..MaxOps /\ silenced' = silenced
      BY AlertAssumption DEF DeleteRule, Acknowledge, Unacknowledge, Operate, Undo, IInv, TypeOK
    <2> QED
      BY <1>1, <1>4, <2>1, <2>2, <2>3 DEF Touch, IInv, TypeOK
  <1> QED
    BY <1>1, <1>2, <1>4, <1>5, TouchStep

\* The telemetry turns.
LEMMA TurnStep ==
  ASSUME IInv, NEW r \in Rules, NEW g \in Groups, Turn(r, g)
  PROVE  IInv'
  <1>1. TypeOK'
    BY AlertAssumption DEF Turn, table, pass, told, IInv, TypeOK
  <1>2. PassInv' /\ BoardInv' /\ TodoInv' /\ WritesInv'
    BY DEF Turn, table, pass, told, IInv, PassInv, BoardInv, TodoInv, WritesInv, Agrees
  <1> QED
    BY <1>1, <1>2 DEF IInv

-----------------------------------------------------------------------------
\* The evaluator starts on a board without instances.
LEMMA InitLemma ==
  ASSUME Init
  PROVE  IInv
  <1>1. TypeOK
    <2>1. \A f \in BOOLEAN : [there |-> f, enabled |-> f, edit |-> 0] \in Rule
      BY AlertAssumption DEF Rule
    <2>2. TRUE \in BOOLEAN
      OBVIOUS
    <2>3. [there |-> TRUE, enabled |-> TRUE, edit |-> 0] \in Rule
      BY <2>1, <2>2, Zenon
    <2> QED
      BY <2>3, UnreadType, AlertAssumption DEF Init, TypeOK
  <1>2. /\ \A r \in Rules, g \in Groups : inst[r][g] = NoInstance /\ writes[r][g] = NoInstance
        /\ \A r \in Rules, g \in Groups : heard[<<r, g>>] = "none"
    BY DEF Init, Unread, Keys, Pairs
  <1>3. PassInv /\ BoardInv /\ TodoInv /\ WritesInv
    BY <1>2, NoInstanceType DEF Init, PassInv, BoardInv, TodoInv, WritesInv, Agrees
  <1> QED
    BY <1>1, <1>3 DEF IInv

\* No step breaks the invariant.
LEMMA NextStep ==
  ASSUME IInv, [Next]_vars
  PROVE  IInv'
  <1>1. CASE Pass
    BY <1>1, ReadRulesStep, ReadInstancesStep, EvaluateStep, SaveInstancesStep, SaveEventsStep,
      PassEnds DEF Pass
  <1>2. CASE Failure
    <2>1. ASSUME NEW r \in Rules, EvaluateFails(r) PROVE IInv'
      BY <2>1, EvaluateFailsStep
    <2>2. ASSUME NEW r \in Rules, SilenceUnknown(r) PROVE IInv'
      BY <2>2, SilenceUnknownStep
    <2>3. CASE ReadFails
      BY <2>3, PassEnds
    <2>4. CASE SaveInstancesFails
      BY <2>4, PassEnds
    <2>5. CASE SaveRulesFails
      BY <2>5, PassEnds
    <2>6. CASE Crash
      BY <2>6, PassEnds
    <2> QED
      BY <1>2, <2>1, <2>2, <2>3, <2>4, <2>5, <2>6, Zenon DEF Failure
  <1>3. CASE Operator
    BY <1>3, RuleStep, InstanceStep DEF Operator
  <1>4. ASSUME NEW r \in Rules, NEW g \in Groups, Turn(r, g) PROVE IInv'
    BY <1>4, TurnStep
  <1>5. CASE UNCHANGED vars
    BY <1>5 DEF vars, world, table, pass, told, bounds, IInv, TypeOK, PassInv, BoardInv, TodoInv,
      WritesInv, Agrees
  <1> QED
    BY <1>1, <1>2, <1>3, <1>4, <1>5 DEF Next

\* The invariant holds of every state.
LEMMA Invariant == Spec => []IInv
  <1>1. Init => IInv
    BY InitLemma
  <1>2. IInv /\ [Next]_vars => IInv'
    BY NextStep
  <1> QED
    BY <1>1, <1>2, PTL DEF Spec

-----------------------------------------------------------------------------
(* The board shows as firing what was last announced as firing, for every  *)
(* group whose announced transition was written, whatever operators do     *)
(* and wherever passes fail or stop (advanceAlertInstance and flush).      *)
THEOREM BoardIsAnnounced == Spec => []AlertsInv
  <1>1. IInv => AlertsInv
    BY DEF IInv, BoardInv, Agrees, Pairs, AlertsInv, BoardMatchesNotices
  <1> QED
    BY <1>1, Invariant, PTL

-----------------------------------------------------------------------------
\* An event that has resolved is not announced by an evaluation that moves it.
LEMMA EventNotice ==
  ASSUME IInv, NEW r \in todo, NEW g \in Groups, NEW present \in SUBSET Groups, NEW due \in BOOLEAN,
         <<r, g>> \notin emitted \cup unsaved, r \in Events, heard[<<r, g>>] = "resolved",
         g \in Advances(r, present) \cup Vanished(r, present)
  PROVE  Notice(r, seen[r][g], AdvancedTo(r, seen[r][g], g \in Breached(r)), due)
           \in {"resolved", "nothing"}
  <1>1. Agrees(seen[r][g], r, g)
    BY DEF IInv, TodoInv
  <1>2. seen[r][g].state # "none" /\ seen[r][g] \in Instance
    BY <1>1 DEF Agrees, IInv, TypeOK, Keys
  <1>3. g \notin Advances(r, present)
    BY <1>2, AlertAssumption DEF Advances
  <1>4. g \notin Breached(r)
    BY <1>3 DEF Vanished
  <1>5. AdvancedTo(r, seen[r][g], g \in Breached(r)).state = "resolved"
    BY <1>2, <1>4 DEF AdvancedTo, Instance
  <1> HIDE DEF AdvancedTo
  <1> QED
    BY <1>5 DEF Notice

\* An evaluation that announces nothing but the end of a group leaves it ended.
LEMMA ApplyHeard ==
  ASSUME IInv, NEW q \in todo, NEW moved \in SUBSET Groups, NEW next, NEW notice, NEW revalued,
         NEW key, Apply(q, moved, next, notice, revalued, key), NEW r \in Rules, NEW g \in Groups,
         heard[<<r, g>>] = "resolved",
         q = r /\ g \in moved => notice[g] = "resolved" \/ notice[g] = "nothing"
  PROVE  heard'[<<r, g>>] = "resolved"
  <1>1. <<r, g>> \in Pairs
    BY DEF Pairs
  <1> QED
    BY <1>1 DEF Apply

\* An event that has resolved stays so, whatever the step.
LEMMA EventStep ==
  ASSUME IInv, [Next]_vars, NEW r \in Rules, NEW g \in Groups,
         <<r, g>> \notin emitted \cup unsaved, r \in Events, heard[<<r, g>>] = "resolved"
  PROVE  heard'[<<r, g>>] = "resolved"
  <1>1. ASSUME NEW q \in Rules, Evaluate(q) PROVE heard'[<<r, g>>] = "resolved"
    <2> DEFINE Key == IF seen[q][ErrorKey].state = "error"
                      THEN [state |-> "resolved", acked |-> FALSE] ELSE NoInstance
    <2>1. q \in todo
      BY <1>1 DEF Evaluate
    <2>2. PICK present \in SUBSET (Groups \ Breached(q)),
               due \in SUBSET {h \in Groups : seen[q][h].state = "firing"},
               revalued \in SUBSET Groups :
            LET moved == Advances(q, present) \cup Vanished(q, present)
                next == Outcome(q, moved)
            IN  Apply(q, moved, next, [h \in moved |-> Notice(q, seen[q][h], next[h], h \in due)],
                      revalued, Key)
      BY <1>1, Zenon DEF Evaluate
    <2> DEFINE moved == Advances(q, present) \cup Vanished(q, present)
               next == Outcome(q, moved)
               notice == [h \in moved |-> Notice(q, seen[q][h], next[h], h \in due)]
    <2>3. Apply(q, moved, next, notice, revalued, Key)
      BY <2>2
    <2>4. moved \in SUBSET Groups
      BY MovedType
    <2>5. ASSUME q = r, g \in moved PROVE notice[g] = "resolved" \/ notice[g] = "nothing"
      <3>1. notice[g] = Notice(q, seen[q][g], AdvancedTo(q, seen[q][g], g \in Breached(q)),
                               g \in due)
        BY <2>5 DEF Outcome
      <3>2. notice[g] \in {"resolved", "nothing"}
        <4>1. (g \in due) \in BOOLEAN
          OBVIOUS
        <4>2. present \in SUBSET Groups /\ r \in todo /\ g \in Advances(r, present) \cup Vanished(r, present)
          BY <2>1, <2>5
        <4>3. Notice(r, seen[r][g], AdvancedTo(r, seen[r][g], g \in Breached(r)), g \in due)
                 \in {"resolved", "nothing"}
          BY <4>1, <4>2, EventNotice, Zenon
        <4> HIDE DEF notice
        <4> QED
          BY <2>5, <3>1, <4>3
      <3> QED
        BY <3>2
    <2> HIDE DEF moved, next, notice, Key
    <2> QED
      BY <2>1, <2>3, <2>4, <2>5, ApplyHeard
  <1>2. ASSUME NEW q \in Rules, EvaluateFails(q) PROVE heard'[<<r, g>>] = "resolved"
    <2> DEFINE Key == [state |-> "error", acked |-> FALSE]
    <2>1. q \in todo
      BY <1>2 DEF EvaluateFails
    <2>2. PICK done \in SUBSET (IF Orphan(q) THEN {} ELSE Advances(q, {})) :
            LET next == Outcome(q, done)
            IN  Apply(q, done, next, [h \in done |-> Notice(q, seen[q][h], next[h], FALSE)], {}, Key)
      BY <1>2, Zenon DEF EvaluateFails
    <2> DEFINE next == Outcome(q, done)
               notice == [h \in done |-> Notice(q, seen[q][h], next[h], FALSE)]
    <2>3. Apply(q, done, next, notice, {}, Key)
      BY <2>2
    <2>4. done \in SUBSET Groups /\ done \subseteq Advances(q, {})
      BY MovedType
    <2>5. q # r \/ g \notin done
      <3>1. SUFFICES ASSUME q = r, g \in done PROVE FALSE
        OBVIOUS
      <3>2. seen[r][g].state # "none"
        BY <2>1, <3>1 DEF IInv, TodoInv, Agrees
      <3> QED
        BY <2>4, <3>1, <3>2, AlertAssumption DEF Advances
    <2> HIDE DEF next, notice, Key
    <2> QED
      BY <2>1, <2>3, <2>4, <2>5, ApplyHeard
  <1>3. CASE UNCHANGED heard
    BY <1>3
  <1>4. ASSUME NEW q \in Rules, SilenceUnknown(q) PROVE UNCHANGED heard
    BY <1>4 DEF SilenceUnknown, told
  <1>5. ASSUME \/ ReadRules \/ ReadInstances \/ SaveInstances \/ SaveEvents \/ SaveRules \/ ReadFails
               \/ SaveInstancesFails \/ SaveRulesFails \/ Crash \/ UNCHANGED vars
        PROVE  UNCHANGED heard
    BY <1>5 DEF ReadRules, ReadInstances, SaveInstances, SaveEvents, SaveRules, ReadFails,
      SaveInstancesFails, SaveRulesFails, Crash, vars, told
  <1>6. ASSUME NEW q \in Rules, \/ Edit(q) \/ DeleteRule(q) \/ Recreate(q) \/ Acknowledge(q)
                                \/ Unacknowledge(q) \/ Silence(q)
        PROVE  UNCHANGED heard
    BY <1>6 DEF Edit, DeleteRule, Recreate, Acknowledge, Unacknowledge, Silence, Operate, Undo, Touch
  <1>7. ASSUME NEW q \in Rules, NEW h \in Groups, Turn(q, h) PROVE UNCHANGED heard
    BY <1>7 DEF Turn, told
  <1> QED
    BY <1>1, <1>2, <1>3, <1>4, <1>5, <1>6, <1>7, Zenon DEF Next, Pass, Failure, Operator

(* An event that has resolved is never announced again, unless the writing *)
(* of its notice failed or its rule was deleted: its instance is kept, and *)
(* the evaluator does not advance the instances of events a second time    *)
(* (evaluateEventRule).                                                    *)
THEOREM EventsFireOnce == Spec => EventFiresOnce
  <1>1. IInv /\ [Next]_vars => [NoEventAgain]_vars
    <2> SUFFICES ASSUME IInv, [Next]_vars, NEW p \in Pairs \ (emitted \cup unsaved),
                        p[1] \in Events, heard[p] = "resolved"
                 PROVE  heard'[p] = "resolved"
      BY DEF NoEventAgain
    <2>1. p = <<p[1], p[2]>> /\ p[1] \in Rules /\ p[2] \in Groups
      BY DEF Pairs
    <2> QED
      BY <2>1, EventStep
  <1> QED
    BY <1>1, Invariant, PTL DEF Spec, EventFiresOnce

(* A rule no operator changed while the pass ran keeps its row, and an     *)
(* instance that goes on keeps its acknowledgement, though the pass writes *)
(* whole rows it read at its start (flush).                                *)
THEOREM OperatorsWorkKept == Spec => PassKeepsOperatorsWork
  <1>1. IInv => NothingTakenBack
    <2> SUFFICES ASSUME IInv, NEW r \in Rules \ touched
                 PROVE  /\ SaveRules => rule'[r] = rule[r]
                        /\ SaveInstances => \A g \in Groups :
                              inst[r][g].acked /\ inst[r][g].state # "resolved" => inst'[r][g].acked
      BY DEF NothingTakenBack
    <2>1. SaveRules => rule'[r] = rule[r]
      BY DEF SaveRules, SavedRules, IInv, PassInv
    <2>2. ASSUME SaveInstances, NEW g \in Groups, inst[r][g].acked, inst[r][g].state # "resolved"
          PROVE  inst'[r][g].acked
      <3>1. inst'[r][g] = IF writes[r][g] = NoInstance THEN inst[r][g] ELSE writes[r][g]
        BY <2>2 DEF SaveInstances, Saved, Keys
      <3> QED
        BY <2>2, <3>1 DEF IInv, WritesInv
    <2> QED
      BY <2>1, <2>2
  <1> QED
    BY <1>1, Invariant, PTL DEF PassKeepsOperatorsWork

=============================================================================
