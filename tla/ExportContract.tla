--------------------------- MODULE ExportContract ---------------------------
(***************************************************************************)
(* What the OTLP ingestion path promises an exporter, whatever the         *)
(* grouping behind it: an export is refused or admitted; an admitted       *)
(* export is answered once; success is answered only for rows that are     *)
(* durable; live updates, lint and detectors are shown only rows that are  *)
(* durable and whose exporter will be told so.  A failed export promises   *)
(* nothing about its rows (docs/ingestion-batching.md: retries can         *)
(* duplicate partially persisted data).                                    *)
(***************************************************************************)

CONSTANT Exports

VARIABLES
  answer,     \* what the exporter has been told
  durable,    \* the exports all of whose rows have been written
  published   \* the exports whose deferred effects have run

vars == <<answer, durable, published>>

Answers == {"none", "pending", "ok", "error"}

TypeOK ==
  /\ answer \in [Exports -> Answers]
  /\ durable \subseteq Exports
  /\ published \subseteq Exports

Init ==
  /\ answer = [w \in Exports |-> "none"]
  /\ durable = {}
  /\ published = {}

Admit(w) ==
  /\ answer[w] = "none"
  /\ answer' = [answer EXCEPT ![w] = "pending"]
  /\ UNCHANGED <<durable, published>>

Refuse(w) ==
  /\ answer[w] = "none"
  /\ answer' = [answer EXCEPT ![w] = "error"]
  /\ UNCHANGED <<durable, published>>

\* Rows of admitted exports become durable, several exports at a time.
Persist ==
  /\ \E S \in SUBSET {w \in Exports : answer[w] = "pending"} :
       durable' = durable \cup S
  /\ UNCHANGED <<answer, published>>

Publish ==
  /\ \E S \in SUBSET {w \in durable : answer[w] = "pending"} :
       published' = published \cup S
  /\ UNCHANGED <<answer, durable>>

\* A group's members are answered together, each by its own outcome.
Answer ==
  /\ answer' \in [Exports -> Answers]
  /\ \A w \in Exports :
       \/ answer'[w] = answer[w]
       \/ answer[w] = "pending" /\ answer'[w] = "ok" /\ w \in durable
       \/ answer[w] = "pending" /\ answer'[w] = "error" /\ w \notin published
  /\ UNCHANGED <<durable, published>>

Next ==
  \/ Persist
  \/ Publish
  \/ Answer
  \/ \E w \in Exports : Admit(w) \/ Refuse(w)

Spec == Init /\ [][Next]_vars

=============================================================================
