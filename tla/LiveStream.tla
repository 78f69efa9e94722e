------------------------------ MODULE LiveStream ------------------------------
(***************************************************************************)
(* The live stream from the collector to the terminal watcher: the hub's   *)
(* bounded broadcast (internal/ws/hub.go), the websocket client that       *)
(* reconnects (internal/watch/client/client.go), the registry of snapshots *)
(* (internal/watch/client/refresh.go) and the shell's event loop           *)
(* (internal/watch/shell/model.go) with one list of rows, as the feature   *)
(* models keep it, and the shell's own subscription to the active session. *)
(*                                                                         *)
(* Rows are stored before they are broadcast.  A "patched" row (the        *)
(* collector's own telemetry) is never read again because of its event:    *)
(* the event carries the row; any other dirties the list.  Sequences and   *)
(* epochs are only compared for equality, so numbers out of use are taken  *)
(* again.                                                                  *)
(***************************************************************************)
EXTENDS Naturals, Sequences, FiniteSets

CONSTANTS
    Rows,         \* telemetry rows that may be stored
    Patched,      \* those of them that liveevent.Patches alone delivers
    Narrow,       \* those that the list's filter keeps
    Sessions, NoSession,
    SendBuffer,   \* clientSendBuffer, 256 in the code, and what the transport holds
    Queue,        \* Options.Queue, 256 in the code
    ReplayLimit,  \* replayed rows, 256 in the code
    MaxRunning,   \* concurrent snapshots, 4 in the code
    MaxDisturbed  \* bound: switches of the session, filters and faults

ASSUME StreamAssumption ==
    /\ Patched \subseteq Rows /\ Narrow \subseteq Rows
    /\ Sessions # {} /\ NoSession \notin Sessions
    /\ {SendBuffer, Queue, ReplayLimit, MaxRunning} \subseteq Nat \ {0}
    /\ MaxDisturbed \in Nat

VARIABLES
    \* the collector
    stored,     \* the session of every stored row
    active,     \* its active session
    outbox,     \* events of finished writes, not yet broadcast
    \* the hub's side of the connection, and the transport
    link,       \* "down", "accepted", "registered" or "closed"
    sendq,      \* client.send and the frames on the wire
    cancelled,  \* client.cancel was called
    \* Client.run
    reader,     \* "dialing", "reading" or "failed"
    connected,
    out,        \* the channel of updates
    \* the shell
    up,         \* status.Connected
    epoch, session, running, entries,
    works,      \* the snapshots under way, with what they have read
    filtered,   \* whether the list is narrowed
    view,       \* the rows of the list
    missed,     \* history: patched rows pushed out of a replay with no repair due
    disturbed

server == <<stored, active, outbox>>
socket == <<link, sendq, cancelled>>
client == <<reader, connected, out>>
shell == <<up, epoch, session, running, entries, works, filtered, view, missed>>
vars == <<server, socket, client, shell, disturbed>>

Keys == {"list", "active-session"}

RowEvent(r) == [type |-> "row", of |-> r]
SessionEvent(s) == [type |-> "active_session", of |-> s]
Events == [type : {"row"}, of : Rows] \cup [type : {"active_session"}, of : Sessions]
Connection(c) == [type |-> "status", connected |-> c]

Generations == 0..(MaxRunning + 2)
Entry == [sequence : Generations, dirty : BOOLEAN, running : BOOLEAN,
          replay : Seq(Events),
          dropped : SUBSET Rows]   \* history: rows pushed out of the replay
Work == [key : Keys, sequence : Generations, epoch : Generations,
         session : Sessions \cup {NoSession}, filtered : BOOLEAN,
         state : {"pending", "failed", "read"},
         rows : SUBSET Rows, answer : Sessions \cup {NoSession}]

NewEntry == [sequence |-> 0, dirty |-> TRUE, running |-> FALSE,
             replay |-> <<>>, dropped |-> {}]

Init ==
    /\ stored = [r \in {} |-> NoSession] /\ active = (CHOOSE s \in Sessions : TRUE) /\ outbox = {}
    /\ link = "down" /\ sendq = <<>> /\ cancelled = FALSE
    /\ reader = "dialing" /\ connected = FALSE /\ out = <<>>
    /\ up = FALSE /\ epoch = 0 /\ session = NoSession /\ running = 0
    /\ entries = [k \in Keys |-> NewEntry] /\ works = {}
    /\ filtered = FALSE /\ view = {} /\ missed = {}
    /\ disturbed = 0

Disturb == disturbed < MaxDisturbed /\ disturbed' = disturbed + 1

----------------------------------------------------------------------------
(* The collector. *)

\* A batch with the row is durable; its event follows.
Store(r) ==
    /\ r \notin DOMAIN stored
    /\ stored' = [q \in DOMAIN stored \cup {r} |-> IF q = r THEN active ELSE stored[q]]
    /\ outbox' = outbox \cup {RowEvent(r)}
    /\ UNCHANGED <<active, socket, client, shell, disturbed>>

\* activateStoredSession, up to its broadcast.
Activate(s) ==
    /\ Disturb
    /\ active' = s /\ outbox' = outbox \cup {SessionEvent(s)}
    /\ UNCHANGED <<stored, socket, client, shell>>

----------------------------------------------------------------------------
(* The hub. *)

\* A full buffer leaves the frame out and cancels its client.
Broadcast(e) ==
    /\ e \in outbox /\ outbox' = outbox \ {e}
    /\ IF link # "registered" THEN UNCHANGED <<sendq, cancelled>>
       ELSE IF Len(sendq) < SendBuffer
       THEN sendq' = Append(sendq, e) /\ UNCHANGED cancelled
       ELSE cancelled' = TRUE /\ UNCHANGED sendq
    /\ UNCHANGED <<stored, active, link, client, shell, disturbed>>

\* The dial succeeds: ServeWS has accepted.
Connect ==
    /\ reader = "dialing"
    /\ reader' = "reading"
    /\ link' = "accepted" /\ sendq' = <<>> /\ cancelled' = FALSE
    /\ UNCHANGED <<server, connected, out, shell, disturbed>>

\* The hub takes the client; only then writePump sends its first heartbeat.
Register ==
    /\ link = "accepted" /\ link' = "registered"
    /\ UNCHANGED <<server, sendq, cancelled, client, shell, disturbed>>

\* ServeWS ends.  The writer may have gone on meanwhile, and the reader sees
\* the end before or after what is on the wire.
Teardown ==
    /\ link = "registered" /\ cancelled
    /\ link' = "closed" /\ cancelled' = FALSE
    /\ UNCHANGED <<server, sendq, client, shell, disturbed>>

\* The network fails, a write times out, or nothing is heard for StaleAfter;
\* before the registration there is no frame on the wire.
Break ==
    /\ Disturb
    /\ \/ link = "registered" /\ link' = "closed"
       \/ link = "accepted" /\ link' = "down"
    /\ cancelled' = FALSE
    /\ UNCHANGED <<server, sendq, client, shell>>

----------------------------------------------------------------------------
(* Client.run. *)

\* The first frame of a connection, which may have ended since: the shell is
\* to resynchronize.
Announce ==
    /\ reader = "reading" /\ ~connected /\ link \in {"registered", "closed"} /\ Len(out) < Queue
    /\ connected' = TRUE /\ out' = Append(out, Connection(TRUE))
    /\ UNCHANGED <<server, socket, reader, shell, disturbed>>

ReceiveDropping ==
    /\ reader = "reading" /\ connected /\ sendq # <<>>
    /\ sendq' = Tail(sendq)
    /\ out' = IF Len(out) < Queue THEN Append(out, Head(sendq)) ELSE out
    /\ UNCHANGED <<server, link, cancelled, reader, connected, shell, disturbed>>

\* A full queue gives the connection up.
Receive ==
    /\ reader = "reading" /\ connected /\ sendq # <<>>
    /\ sendq' = Tail(sendq)
    /\ IF Len(out) < Queue
       THEN out' = Append(out, Head(sendq)) /\ UNCHANGED reader
       ELSE reader' = "failed" /\ UNCHANGED out
    /\ UNCHANGED <<server, link, cancelled, connected, shell, disturbed>>

ReadFails ==
    /\ reader = "reading" /\ link \in {"closed", "down"} /\ reader' = "failed"
    /\ UNCHANGED <<server, socket, connected, out, shell, disturbed>>

DialFails ==
    /\ Disturb
    /\ reader = "dialing" /\ reader' = "failed"
    /\ UNCHANGED <<server, socket, connected, out, shell>>

\* conn.CloseNow, the status that says so, and the backoff.
Report ==
    /\ reader = "failed" /\ Len(out) < Queue
    /\ reader' = "dialing" /\ connected' = FALSE /\ out' = Append(out, Connection(FALSE))
    /\ link' = "down" /\ sendq' = <<>> /\ cancelled' = FALSE
    /\ UNCHANGED <<server, shell, disturbed>>

----------------------------------------------------------------------------
(* Refreshes: operators on the entries e and the works w. *)

Unused(used) == CHOOSE n \in Generations \ {0} : n \notin used

\* Refreshes.Register, of the list when its scope changes: a snapshot under
\* way keeps its slot.
Reregistered(e) == [e EXCEPT !["list"] = NewEntry]

\* Refreshes.Resync
Dirtied(e) == [k \in Keys |-> [e[k] EXCEPT !.dirty = TRUE]]
NextEpoch == Unused({w.epoch : w \in works} \cup {epoch})

Invalidates(ev) == ev.type = "active_session" \/ ev.of \notin Patched

\* Refreshes.Observe, of an event of the list's resources.
Replayed(entry, ev) ==
    IF ~entry.running THEN entry.replay
    ELSE IF Len(entry.replay) < ReplayLimit THEN Append(entry.replay, ev)
    ELSE Append(Tail(entry.replay), ev)
Overflowing(entry) == entry.running /\ Len(entry.replay) = ReplayLimit
PushedOut(entry) ==
    IF Overflowing(entry) /\ Head(entry.replay).type = "row" THEN {Head(entry.replay).of} ELSE {}

Observed(e, ev) ==
    [e EXCEPT !["list"].dirty = @ \/ Invalidates(ev),
              !["list"].replay = Replayed(e["list"], ev),
              !["list"].dropped = @ \cup PushedOut(e["list"])]

\* No refresh is due that would find what is pushed out.
Forgotten(entry, ev) == IF entry.dirty \/ Invalidates(ev) THEN {} ELSE PushedOut(entry)

\* Refreshes.Due: some of the entries that wait for a snapshot, in the order
\* of a map; the others are not due for a second (five after an error).
Waiting(e) == {k \in Keys : e[k].dirty /\ ~e[k].running}

\* Model.flush with n snapshots running: nothing starts while disconnected.
Started(k, w, s, ep) ==
    [key |-> k, sequence |-> Unused({x.sequence : x \in {y \in w : y.key = k}}),
     epoch |-> ep, session |-> s, filtered |-> filtered,
     state |-> "pending", rows |-> {}, answer |-> NoSession]
Flush(e, n, w, s, ep, online) ==
    \E K \in SUBSET Waiting(e) :
        /\ K # {} => online /\ Cardinality(K) <= MaxRunning - n
        /\ running' = n + Cardinality(K)
        /\ works' = w \cup {Started(k, w, s, ep) : k \in K}
        /\ entries' = [k \in Keys |->
             IF k \notin K THEN e[k]
             ELSE [e[k] EXCEPT !.sequence = Started(k, w, s, ep).sequence,
                               !.running = TRUE, !.dirty = FALSE,
                               !.replay = <<>>, !.dropped = {}]]

----------------------------------------------------------------------------
(* The shell's event loop. *)

InScope(r, s, f) == r \in DOMAIN stored /\ s \in {NoSession, stored[r]} /\ (f => r \in Narrow)
Snapshot(s, f) == {r \in Rows : InScope(r, s, f)}

\* Model.session: the list starts again in the other session.
FollowSession(s) ==
    IF s = session THEN UNCHANGED <<session, epoch, view>>
    ELSE session' = s /\ epoch' = NextEpoch /\ view' = {}
EntriesAfter(e, s) == IF s = session THEN e ELSE Reregistered(Dirtied(e))

OnStatus ==
    /\ out # <<>> /\ Head(out).type = "status" /\ out' = Tail(out)
    /\ up' = Head(out).connected
    /\ epoch' = IF Head(out).connected THEN NextEpoch ELSE epoch
    /\ Flush(IF Head(out).connected THEN Dirtied(entries) ELSE entries,
             running, works, session, epoch', Head(out).connected)
    /\ UNCHANGED <<server, socket, reader, connected, session, filtered, view, missed, disturbed>>

OnSession ==
    /\ out # <<>> /\ Head(out).type = "active_session" /\ out' = Tail(out)
    /\ FollowSession(Head(out).of)
    /\ entries' = Observed(EntriesAfter(entries, Head(out).of), Head(out))
    /\ missed' = missed \cup Forgotten(EntriesAfter(entries, Head(out).of)["list"], Head(out))
    /\ UNCHANGED <<server, socket, reader, connected, up, running, works, filtered, disturbed>>

OnRow ==
    /\ out # <<>> /\ Head(out).type = "row" /\ out' = Tail(out)
    /\ entries' = Observed(entries, Head(out))
    /\ missed' = missed \cup Forgotten(entries["list"], Head(out))
    /\ view' = view \cup {r \in {Head(out).of} : InScope(r, session, filtered)}
    /\ UNCHANGED <<server, socket, reader, connected, up, epoch, session, running, works, filtered, disturbed>>

\* The rows replayed over a snapshot.
ReplayOfNone(e) == {}
ReplayOf(e) == {e.replay[i].of : i \in {j \in DOMAIN e.replay : e.replay[j].type = "row"}}

AcceptsAny(w) == TRUE
Accepts(w) == w.sequence = entries[w.key].sequence /\ w.epoch = epoch /\ w.session = session

\* Complete frees the slot of any result, even of an entry replaced since.
ReleasedOwn(w) == IF w.sequence = entries[w.key].sequence THEN running - 1 ELSE running
Released(w) == running - 1

\* A result the registry does not accept: of an entry replaced since, or of
\* an earlier connection or session.
Reject(w) ==
    /\ w \in works /\ w.state # "pending" /\ ~Accepts(w)
    /\ LET own == w.sequence = entries[w.key].sequence
           e == IF own THEN [entries EXCEPT ![w.key].running = FALSE, ![w.key].dirty = TRUE] ELSE entries
       IN Flush(e, Released(w), works \ {w}, session, epoch, up)
    /\ UNCHANGED <<server, socket, client, up, epoch, session, filtered, view, missed, disturbed>>

\* Refreshes.Complete of one it accepts.
Completed(w) ==
    [entries EXCEPT ![w.key].running = FALSE, ![w.key].dirty = @ \/ w.state = "failed"]

AcceptSession(w) ==
    /\ w \in works /\ w.state # "pending" /\ Accepts(w) /\ w.key = "active-session"
    /\ IF w.state = "failed"
       THEN /\ entries' = Completed(w) /\ works' = works \ {w} /\ running' = Released(w)
            /\ UNCHANGED <<session, epoch, view>>
       ELSE /\ FollowSession(w.answer)
            /\ Flush(EntriesAfter(Completed(w), w.answer), Released(w), works \ {w}, session', epoch', up)
    /\ UNCHANGED <<server, socket, client, up, filtered, missed, disturbed>>

AcceptList(w) ==
    /\ w \in works /\ w.state # "pending" /\ Accepts(w) /\ w.key = "list"
    /\ view' = (IF w.state = "failed" THEN view ELSE w.rows)
               \cup {r \in ReplayOf(entries["list"]) : InScope(r, session, filtered)}
    /\ entries' = [Completed(w) EXCEPT !["list"].replay = <<>>, !["list"].dropped = {}]
    /\ works' = works \ {w} /\ running' = Released(w)
    /\ UNCHANGED <<server, socket, client, up, epoch, session, filtered, missed, disturbed>>

\* protocol.Tick: an entry is due.
Tick ==
    /\ Flush(entries, running, works, session, epoch, up)
    /\ UNCHANGED <<server, socket, client, up, epoch, session, filtered, view, missed, disturbed>>

\* The viewer changes the list's filter (logs resetPage).
Refilter ==
    /\ Disturb
    /\ filtered' = ~filtered /\ view' = {} /\ entries' = Reregistered(entries)
    /\ UNCHANGED <<server, socket, client, up, epoch, session, running, works, missed>>

\* Work.Run: the API answers from what is stored, or fails.
Serve(w) ==
    /\ w \in works /\ w.state = "pending"
    /\ works' = (works \ {w}) \cup
         {IF w.key = "list"
          THEN [w EXCEPT !.state = "read", !.rows = Snapshot(w.session, w.filtered)]
          ELSE [w EXCEPT !.state = "read", !.answer = active]}
    /\ UNCHANGED <<server, socket, client, up, epoch, session, running, entries, filtered, view, missed, disturbed>>

ServeFails(w) ==
    /\ Disturb
    /\ w \in works /\ w.state = "pending"
    /\ works' = (works \ {w}) \cup {[w EXCEPT !.state = "failed"]}
    /\ UNCHANGED <<server, socket, client, up, epoch, session, running, entries, filtered, view, missed>>

----------------------------------------------------------------------------

Hub == (\E e \in outbox : Broadcast(e)) \/ Register \/ Teardown
Reader == Connect \/ Announce \/ Receive \/ ReadFails \/ Report
Loop ==
    \/ OnStatus \/ OnSession \/ OnRow \/ Tick
    \/ \E w \in works : Reject(w) \/ AcceptSession(w) \/ AcceptList(w) \/ Serve(w)
Environment ==
    \/ \E r \in Rows : Store(r)
    \/ \E s \in Sessions : Activate(s)
    \/ Break \/ DialFails \/ Refilter \/ (\E w \in works : ServeFails(w))

Next == Hub \/ Reader \/ Loop \/ Environment

Spec == Init /\ [][Next]_vars

\* Every goroutine runs, the reader's and the writer's timeouts pass, and the
\* program ticks every 250 ms.
FairSpec ==
    /\ Spec
    /\ WF_vars(\E e \in outbox : Broadcast(e)) /\ WF_vars(Register) /\ WF_vars(Teardown)
    /\ WF_vars(Reader)
    /\ WF_vars(OnStatus \/ OnSession \/ OnRow) /\ WF_vars(Tick)
    /\ \A k \in Keys :
         WF_vars(\E w \in works : w.key = k /\ (Serve(w) \/ Reject(w) \/ AcceptSession(w) \/ AcceptList(w)))

----------------------------------------------------------------------------
TypeOK ==
    /\ DOMAIN stored \subseteq Rows /\ \A r \in DOMAIN stored : stored[r] \in Sessions
    /\ active \in Sessions /\ outbox \subseteq Events
    /\ link \in {"down", "accepted", "registered", "closed"} /\ cancelled \in BOOLEAN
    /\ sendq \in Seq(Events) /\ Len(sendq) <= SendBuffer
    /\ reader \in {"dialing", "reading", "failed"} /\ connected \in BOOLEAN
    /\ out \in Seq(Events \cup {Connection(c) : c \in BOOLEAN}) /\ Len(out) <= Queue
    /\ up \in BOOLEAN /\ epoch \in Generations /\ session \in Sessions \cup {NoSession}
    /\ running \in 0..MaxRunning /\ works \subseteq Work
    /\ entries \in [Keys -> Entry] /\ \A k \in Keys : Len(entries[k].replay) <= ReplayLimit
    /\ filtered \in BOOLEAN /\ view \subseteq Rows /\ missed \subseteq Rows
    /\ disturbed \in 0..MaxDisturbed

\* The slots taken are the snapshots under way, of which a subscription has
\* at most one that is still its own; and the list never shows a row of
\* another session or filter than the viewer's, though their snapshots come
\* back at any time (Refreshes.Complete).
StreamInv ==
    /\ TypeOK
    /\ running = Cardinality(works)
    /\ \A k \in Keys :
         Cardinality({w \in works : w.key = k /\ w.sequence = entries[k].sequence})
            = IF entries[k].running THEN 1 ELSE 0
    /\ view \subseteq Snapshot(session, filtered)

Current ==
    /\ session = active
    /\ Snapshot(session, filtered) \ missed \subseteq view

\* No gap is silent: once every frame has been handled and no refresh is due
\* or under way, the list holds every stored row and the session is the
\* collector's, whatever was left out by a full buffer or lost between two
\* connections.  A patched row pushed out of a full replay is exempt.
QuietIsCurrent ==
    (/\ outbox = {} /\ link = "registered" /\ ~cancelled /\ sendq = <<>>
     /\ reader = "reading" /\ connected /\ out = <<>>
     /\ up /\ works = {} /\ \A k \in Keys : ~entries[k].dirty)
    => Current

\* A snapshot never takes back a row the stream has shown, unless later
\* events pushed it out of the replay (the comment of Observe).
SnapshotKeepsStreamed ==
    [][(session' = session /\ filtered' = filtered)
        => view \ entries["list"].dropped \subseteq view']_vars

\* After the last change and the last fault the watcher comes to show what is
\* stored, in the collector's session.
SettlesCurrent == <>[]Current

=============================================================================
