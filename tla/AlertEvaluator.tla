--------------------------- MODULE AlertEvaluator ---------------------------
(***************************************************************************)
(* The evaluator of alert rules (internal/api/alert_evaluator.go) and the  *)
(* operators it races with (internal/storage/alerts.go, through            *)
(* internal/api/alerts.go).                                                *)
(*                                                                         *)
(* A pass reads the rules, then their instances, evaluates every enabled   *)
(* rule in memory, announcing transitions on the spot, and only at its end *)
(* writes what changed: instances, then events, then the rules, whole rows *)
(* each time.  An operator's change in between is written to the same rows.*)
(*                                                                         *)
(* A rule's definition is abstracted to the number of its edits, a pending *)
(* time to whether there is one, of at most an evaluation interval, and    *)
(* the delivery of a notice (channels, cooldown, quiet hours) to the       *)
(* decision to announce.  Rules do not change their kind.                  *)
(***************************************************************************)
EXTENDS Integers, FiniteSets

CONSTANTS
    Rules,
    Events,      \* the rules of kind event
    Composites,  \* the rules of kind any_of
    SourcesOf,   \* the rules a composite reads
    Delayed,     \* the rules with a pending time
    Groups,      \* the label sets, or event identities, of a rule
    All,         \* the group of a composite
    ErrorKey,    \* "__evaluation_error__"
    MaxChanges,  \* bound: times a condition turns
    MaxOps,      \* bound: operations of operators, but for those that undo one
    MaxFaults    \* bound: failures and crashes

ASSUME AlertAssumption ==
    /\ IsFiniteSet(Rules) /\ IsFiniteSet(Groups)
    /\ Events \subseteq Rules /\ Composites \subseteq Rules /\ Delayed \subseteq Rules
    /\ Events \cap (Composites \cup Delayed) = {}
    /\ SourcesOf \in [Composites -> SUBSET Rules]
    /\ \A r \in Composites : SourcesOf[r] # {} /\ r \notin SourcesOf[r]
    /\ All \in Groups /\ ErrorKey \notin Groups
    /\ MaxChanges \in Nat /\ MaxOps \in Nat /\ MaxFaults \in Nat

VARIABLES
    breach,    \* the telemetry: the groups of a rule that match its condition
    silenced,  \* the rules under a silence
    rule,      \* alert_rules
    inst,      \* alert_instances
    at,        \* where the pass is
    todo,      \* the rules it has yet to evaluate
    seenRule,  \* the rules it read
    seen,      \* their instances, as it read them and has advanced them
    writes,    \* alertWriteBuffer.instances
    ruled,     \* alertWriteBuffer.rules
    heard,     \* history: the last transition announced for a group
    emitted,   \* history: the groups of which this pass announced one
    unsaved,   \* history: the groups whose announced transition was not kept
    touched,   \* history: the rules an operator changed while this pass ran
    changes, ops, faults

world == <<breach, silenced>>
table == <<rule, inst>>
pass == <<at, todo, seenRule, seen, writes, ruled, emitted, touched>>
told == <<heard, unsaved>>
bounds == <<changes, ops, faults>>
vars == <<world, table, pass, told, bounds>>

Keys == Groups \cup {ErrorKey}
Pairs == Rules \X Groups
Instance == [state : {"none", "pending", "firing", "resolved", "error"}, acked : BOOLEAN]
NoInstance == [state |-> "none", acked |-> FALSE]
Rule == [there : BOOLEAN, enabled : BOOLEAN, edit : 0..MaxOps]

NoRead == [r \in Rules |-> [there |-> FALSE, enabled |-> FALSE, edit |-> 0]]
Unread == [r \in Rules |-> [k \in Keys |-> NoInstance]]

\* Events of an earlier run may be in the database when the evaluator starts.
Init ==
    /\ breach \in [Rules -> SUBSET Groups] /\ \A r \in Rules \ Events : breach[r] = {}
    /\ silenced = {}
    /\ rule = [r \in Rules |-> [there |-> TRUE, enabled |-> TRUE, edit |-> 0]]
    /\ inst = Unread
    /\ at = "idle" /\ todo = {} /\ seenRule = NoRead /\ seen = Unread
    /\ writes = Unread /\ ruled = {}
    /\ heard = [p \in Pairs |-> "none"] /\ emitted = {} /\ unsaved = {} /\ touched = {}
    /\ changes = 0 /\ ops = 0 /\ faults = 0

\* The pass is over, whatever it got to, and its memory is gone.
EndPass ==
    /\ at' = "idle" /\ todo' = {} /\ seenRule' = NoRead /\ seen' = Unread
    /\ writes' = Unread /\ ruled' = {} /\ emitted' = {} /\ touched' = {}

Fault == faults < MaxFaults /\ faults' = faults + 1

(***************************************************************************)
(* The pass.  ListAlertRules is two queries; an error of either ends it.   *)
(***************************************************************************)
ReadRules ==
    /\ at = "idle"
    /\ at' = "instances" /\ seenRule' = rule
    /\ UNCHANGED <<todo, seen, writes, ruled, emitted, touched, world, table, told, bounds>>

\* The instances of the rules that were read; only enabled rules are evaluated.
ReadInstances ==
    /\ at = "instances"
    /\ at' = "rules"
    /\ seen' = [r \in Rules |-> IF seenRule[r].there THEN inst[r] ELSE Unread[r]]
    /\ todo' = {r \in Rules : seenRule[r].there /\ seenRule[r].enabled}
    /\ UNCHANGED <<seenRule, writes, ruled, emitted, touched, world, table, told, bounds>>

\* hasFiringInstance, of the instances in memory.
Active(s) == seenRule[s].enabled /\ \E g \in Groups : seen[s][g].state = "firing"

Orphan(r) == r \in Composites /\ \E s \in SourcesOf[r] : ~seenRule[s].there

Breached(r) == IF r \in Composites
               THEN IF \E s \in SourcesOf[r] : Active(s) THEN {All} ELSE {}
               ELSE breach[r]

\* advanceAlertInstance, of an instance of rule r.
Rearmed(was) == IF was.state \in {"none", "resolved"}
                THEN [state |-> "pending", acked |-> FALSE] ELSE was

Ripe(r, was) == was.state = "pending" \/ r \notin Delayed

AdvancedTo(r, was, breached) ==
    IF ~breached THEN [was EXCEPT !.state = "resolved"]
    ELSE IF Rearmed(was).state = "pending" /\ Ripe(r, was)
         THEN [Rearmed(was) EXCEPT !.state = "firing"] ELSE Rearmed(was)

NoticeOfAll(r, was, is, due) ==   \* mutant: every breaching pass announces
    IF is.state = "firing" THEN "firing"
    ELSE IF is.state = "resolved" /\ was.state \in {"pending", "firing"} THEN "resolved" ELSE "nothing"

\* What emitAlert is told, if anything; a repeat when one is due.
Notice(r, was, is, due) ==
    CASE is.state = "firing" /\ was.state # "firing" ->
            IF r \in silenced THEN "muted" ELSE "firing"
      [] is.state = "resolved" /\ was.state \in {"pending", "firing"} -> "resolved"
      [] is.state = "firing" /\ was.state = "firing" /\ ~was.acked /\ due -> "repeat"
      [] OTHER -> "nothing"

AdvancesAgain(r, present) ==   \* mutant: a resolved event is armed again
    IF r \in Composites THEN {All}
    ELSE IF r \in Events THEN {g \in Breached(r) : seen[r][g].state \in {"none", "resolved"}}
    ELSE Breached(r) \cup present

\* The groups a rule advances: those with a row in the result, present, and of
\* an event rule those of them that have no instance yet.
Advances(r, present) ==
    IF r \in Composites THEN {All}
    ELSE IF r \in Events THEN {g \in Breached(r) : seen[r][g].state = "none"}
    ELSE Breached(r) \cup present

\* resolveMissingAlertInstances, which composites do without.
Vanished(r, present) ==
    IF r \in Composites THEN {}
    ELSE {g \in Groups \ (Breached(r) \cup present) :
            seen[r][g].state \notin {"none", "resolved"}}

\* The outcome of a rule: the groups in moved have the instance in next, and
\* the notices are given.  An instance that was not in memory is not added to
\* it, and one that did not change is not written, unless its value did.
Apply(r, moved, next, notice, revalued, key) ==
    LET changed == {g \in moved : next[g] # seen[r][g] \/ g \in revalued}
        spoken == {g \in moved : notice[g] \in {"firing", "muted", "resolved"}}
    IN  /\ seen' = [seen EXCEPT ![r] = [k \in Keys |->
              IF k \in moved /\ seen[r][k].state # "none" THEN next[k]
              ELSE IF k = ErrorKey /\ key.state = "resolved" THEN key ELSE seen[r][k]]]
        /\ writes' = [writes EXCEPT ![r] = [k \in Keys |->
              IF k \in changed THEN next[k] ELSE IF k = ErrorKey THEN key ELSE NoInstance]]
        /\ heard' = [p \in Pairs |->
              IF p[1] # r \/ p[2] \notin moved THEN heard[p]
              ELSE CASE notice[p[2]] = "nothing" -> heard[p]
                     [] notice[p[2]] = "repeat" -> "firing"
                     [] OTHER -> notice[p[2]]]
        /\ emitted' = emitted \cup {<<r, g>> : g \in spoken}
        /\ ruled' = ruled \cup {r} /\ todo' = todo \ {r}
        /\ UNCHANGED <<at, seenRule, touched, world, table, unsaved>>

Outcome(r, moved) ==
    [g \in moved |-> AdvancedTo(r, seen[r][g], g \in Breached(r))]

\* A rule is evaluated, and an earlier evaluation error of it resolved.
Evaluate(r) ==
    /\ at = "rules" /\ r \in todo /\ ~Orphan(r)
    /\ \E present \in SUBSET (Groups \ Breached(r)),
          due \in SUBSET {g \in Groups : seen[r][g].state = "firing"},
          revalued \in SUBSET Groups :
         /\ r \in Composites => present = {}
         /\ r \in Events => present = {} /\ due = {} /\ revalued = {}
         /\ LET moved == Advances(r, present) \cup Vanished(r, present)
                next == Outcome(r, moved)
            IN Apply(r, moved, next,
                     [g \in moved |-> Notice(r, seen[r][g], next[g], g \in due)], revalued,
                     IF seen[r][ErrorKey].state = "error"
                     THEN [state |-> "resolved", acked |-> FALSE] ELSE NoInstance)
    /\ UNCHANGED bounds

\* Its query, a row or the silence of a group is in error: what was advanced
\* before stays buffered, nothing is resolved, and the error is recorded.  The
\* group whose silence could not be read is firing in memory alone.
EvaluateFails(r) ==
    /\ at = "rules" /\ r \in todo
    /\ IF Orphan(r) THEN UNCHANGED bounds ELSE Fault /\ UNCHANGED <<changes, ops>>
    /\ \E done \in SUBSET (IF Orphan(r) THEN {} ELSE Advances(r, {})) :
         LET next == Outcome(r, done)
         IN  Apply(r, done, next, [g \in done |-> Notice(r, seen[r][g], next[g], FALSE)], {},
                   [state |-> "error", acked |-> FALSE])

SilenceUnknown(r) ==
    /\ at = "rules" /\ r \in todo /\ ~Orphan(r) /\ Fault
    /\ \E g \in Advances(r, {}) : LET next == Outcome(r, {g}) IN
         /\ next[g].state = "firing" /\ seen[r][g].state # "firing"
         /\ seen' = [seen EXCEPT ![r][g] = IF @.state = "none" THEN @ ELSE next[g]]
    /\ writes' = [writes EXCEPT ![r][ErrorKey] = [state |-> "error", acked |-> FALSE]]
    /\ ruled' = ruled \cup {r} /\ todo' = todo \ {r}
    /\ UNCHANGED <<at, seenRule, emitted, touched, world, table, told, changes, ops>>

\* The queries of ListAlertRules fail: there is nothing to flush.
ReadFails ==
    /\ at = "instances" /\ Fault /\ EndPass
    /\ UNCHANGED <<world, table, told, changes, ops>>

(***************************************************************************)
(* flush: three batches of whole rows, an error skipping those behind it.  *)
(***************************************************************************)
Flushing == at = "rules" /\ todo = {}

SavedOld == [r \in Rules |-> [k \in Keys |->   \* mutant: only new rows are written
            IF writes[r][k] = NoInstance \/ inst[r][k] # NoInstance THEN inst[r][k] ELSE writes[r][k]]]

\* The buffered instance, over whatever the row holds by now.
Saved == [r \in Rules |-> [k \in Keys |->
            IF writes[r][k] = NoInstance THEN inst[r][k] ELSE writes[r][k]]]

SaveInstances ==
    /\ Flushing
    /\ inst' = Saved
    /\ at' = IF writes = Unread THEN "save" ELSE "events"
    /\ emitted' = {} /\ unsaved' = unsaved \ emitted
    /\ seen' = Unread /\ writes' = Unread   \* not used any more
    /\ UNCHANGED <<todo, seenRule, ruled, touched, world, rule, heard, bounds>>

SaveInstancesFails ==
    /\ Flushing /\ writes # Unread
    /\ Fault /\ EndPass /\ unsaved' = unsaved \cup emitted
    /\ UNCHANGED <<world, table, heard, changes, ops>>

SaveEvents ==
    /\ at = "events"
    /\ \/ at' = "save" /\ UNCHANGED <<todo, seenRule, seen, writes, ruled, emitted, touched, bounds>>
       \/ Fault /\ EndPass /\ UNCHANGED <<changes, ops>>
    /\ UNCHANGED <<world, table, told>>

SavedRulesOfAll ==   \* mutant: every rule that was read is saved
    [r \in Rules |-> IF seenRule[r].there THEN [seenRule[r] EXCEPT !.edit = 0] ELSE rule[r]]
SavedRules == [r \in Rules |-> IF r \in ruled THEN seenRule[r] ELSE rule[r]]

SaveRules ==
    /\ at = "save" /\ rule' = SavedRules /\ EndPass
    /\ UNCHANGED <<world, inst, told, bounds>>

SaveRulesFails ==
    /\ at = "save" /\ ruled # {} /\ Fault /\ EndPass
    /\ UNCHANGED <<world, table, told, changes, ops>>

\* The process stops and starts: what was announced and not written is lost.
Crash ==
    /\ at # "idle" /\ Fault /\ EndPass /\ unsaved' = unsaved \cup emitted
    /\ UNCHANGED <<world, table, heard, changes, ops>>

(***************************************************************************)
(* Operators.  Each of their requests is one step.                         *)
(***************************************************************************)
Touch(r) ==
    /\ touched' = IF at = "idle" THEN {} ELSE touched \cup {r}
    /\ UNCHANGED <<at, todo, seenRule, seen, writes, ruled, emitted, breach, heard, changes, faults>>
Operate(r) == ops < MaxOps /\ ops' = ops + 1 /\ Touch(r)
Undo(r) == Touch(r) /\ UNCHANGED ops

\* UpdateAlertRule: a new definition, which may be enabled or not.
Edit(r) ==
    /\ rule[r].there
    /\ \E on \in BOOLEAN : rule' = [rule EXCEPT ![r].edit = ops + 1, ![r].enabled = on]
    /\ Operate(r) /\ UNCHANGED <<silenced, inst, unsaved>>

DeleteRule(r) ==
    /\ rule[r].there
    /\ rule' = [rule EXCEPT ![r].there = FALSE]
    /\ inst' = [inst EXCEPT ![r] = Unread[r]]
    /\ unsaved' = unsaved \cup {<<r, g>> : g \in Groups}
    /\ Operate(r) /\ UNCHANGED silenced

\* A definition file of the same id is loaded again (ReplaceAlertDefinition).
Recreate(r) ==
    /\ ~rule[r].there
    /\ rule' = [rule EXCEPT ![r] = [there |-> TRUE, enabled |-> TRUE, edit |-> 0]]
    /\ Undo(r) /\ UNCHANGED <<silenced, inst, unsaved>>

\* AcknowledgeAlert (every group that can be) or AcknowledgeAlertInstance (one).
Acknowledgeable(r) == {g \in Groups : inst[r][g].state \in {"pending", "firing"} /\ ~inst[r][g].acked}
Acknowledge(r) ==
    /\ Acknowledgeable(r) # {}
    /\ \E G \in {Acknowledgeable(r)} \cup {{g} : g \in Acknowledgeable(r)} :
         inst' = [inst EXCEPT ![r] = [k \in Keys |-> IF k \in G THEN [@[k] EXCEPT !.acked = TRUE] ELSE @[k]]]
    /\ Operate(r) /\ UNCHANGED <<silenced, rule, unsaved>>

Unacknowledge(r) ==
    /\ \E g \in Groups : inst[r][g].acked /\ inst' = [inst EXCEPT ![r][g].acked = FALSE]
    /\ Undo(r) /\ UNCHANGED <<silenced, rule, unsaved>>

\* A silence is created or starts, is deleted or ends.
Silence(r) ==
    /\ silenced' = (silenced \ {r}) \cup ({r} \ silenced)
    /\ Operate(r) /\ UNCHANGED <<table, unsaved>>

\* The telemetry of a condition or event turns.
Turn(r, g) ==
    /\ changes < MaxChanges /\ changes' = changes + 1
    /\ r \notin Composites
    /\ breach' = [breach EXCEPT ![r] = (@ \ {g}) \cup ({g} \ @)]
    /\ UNCHANGED <<silenced, table, pass, told, ops, faults>>

Pass ==
    \/ ReadRules \/ ReadInstances
    \/ \E r \in Rules : Evaluate(r)
    \/ SaveInstances \/ SaveEvents \/ SaveRules

Failure ==
    \/ ReadFails \/ \E r \in Rules : EvaluateFails(r) \/ SilenceUnknown(r)
    \/ SaveInstancesFails \/ SaveRulesFails \/ Crash

Operator ==
    \E r \in Rules : \/ Edit(r) \/ DeleteRule(r) \/ Recreate(r)
                     \/ Acknowledge(r) \/ Unacknowledge(r) \/ Silence(r)

Next == Pass \/ Failure \/ Operator \/ \E r \in Rules, g \in Groups : Turn(r, g)

Spec == Init /\ [][Next]_vars

\* The evaluator's goroutine and its ticker go on.  An orphan's error is a step
\* of the pass too.
FairSpec == Spec /\ WF_vars(Pass \/ \E r \in Rules : Orphan(r) /\ EvaluateFails(r))

-----------------------------------------------------------------------------
TypeOK ==
    /\ breach \in [Rules -> SUBSET Groups] /\ silenced \subseteq Rules
    /\ rule \in [Rules -> Rule] /\ seenRule \in [Rules -> Rule]
    /\ inst \in [Rules -> [Keys -> Instance]]
    /\ seen \in [Rules -> [Keys -> Instance]] /\ writes \in [Rules -> [Keys -> Instance]]
    /\ at \in {"idle", "instances", "rules", "events", "save"}
    /\ todo \subseteq Rules /\ ruled \subseteq Rules /\ touched \subseteq Rules
    /\ heard \in [Pairs -> {"none", "firing", "muted", "resolved"}]
    /\ emitted \subseteq Pairs /\ unsaved \subseteq Pairs
    /\ changes \in 0..MaxChanges /\ ops \in 0..MaxOps /\ faults \in 0..MaxFaults

(* What the operators were told last is what the board shows: a group whose *)
(* announced transition was written is firing there exactly if its firing   *)
(* was announced, or a silence kept it back, and its end was not.           *)
BoardMatchesNotices ==
    \A p \in Pairs \ (emitted \cup unsaved) :
        inst[p[1]][p[2]].state = "firing" <=> heard[p] \in {"firing", "muted"}

AlertsInv == TypeOK /\ BoardMatchesNotices

(* "Missing events resolve, but replaying the same ID does not rearm them": *)
(* an event that has resolved is never announced again, unless the writing  *)
(* of its notice failed or its rule was deleted.                            *)
NoEventAgain ==
    \A p \in Pairs \ (emitted \cup unsaved) :
        p[1] \in Events /\ heard[p] = "resolved" => heard'[p] = "resolved"
EventFiresOnce == [][NoEventAgain]_vars

(* A pass writes whole rows it read at its start, and yet takes nothing     *)
(* back that an operator did before: the definition and the existence of a  *)
(* rule, and the acknowledgement of an episode that goes on.                *)
NothingTakenBack ==
    \A r \in Rules \ touched :
        /\ SaveRules => rule'[r] = rule[r]
        /\ SaveInstances => \A g \in Groups :
              inst[r][g].acked /\ inst[r][g].state # "resolved" => inst'[r][g].acked
PassKeepsOperatorsWork == [][NothingTakenBack]_vars

(* The board follows the telemetry: once conditions, operators and failures *)
(* have come to rest, every enabled rule shows what its condition says, a   *)
(* composite what its sources show, and no evaluation error is left.        *)
Shows(r, g) == inst[r][g].state = "firing"
BoardAgrees ==
    \A r \in {x \in Rules : rule[x].there /\ rule[x].enabled} :
        IF r \in Composites
        THEN \/ \E s \in SourcesOf[r] : ~rule[s].there
             \/ /\ Shows(r, All) <=> \E s \in SourcesOf[r], g \in Groups : rule[s].enabled /\ Shows(s, g)
                /\ inst[r][ErrorKey].state # "error"
        ELSE /\ \A g \in Groups : Shows(r, g) => g \in breach[r]
             /\ r \notin Events => \A g \in breach[r] : Shows(r, g)
             /\ inst[r][ErrorKey].state # "error"
BoardFollowsTelemetry == <>[]BoardAgrees
=============================================================================
