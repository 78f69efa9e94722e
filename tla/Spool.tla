------------------------------- MODULE Spool -------------------------------
(***************************************************************************)
(* The disk-backed retry buffer of one upstream (forwarder/spool.go) and   *)
(* its send loop (forwarder/forwarder.go).  Forward appends records to a   *)
(* file; the loop reads the oldest one, posts it, and commits it by        *)
(* advancing an offset that a second file persists.  A cap drops the       *)
(* oldest pending records, also under a delivery in flight; a file whose   *)
(* records are all committed is truncated.  The process may stop anywhere  *)
(* and start again on the same files.                                      *)
(*                                                                         *)
(* The file is a sequence of cells.  The first cell of a record stands for *)
(* its header, which spells its length, the others for its body.  A reader *)
(* that is not at the first cell of a record finds some length there too.  *)
(* One step is one system call that changes a file, or one critical        *)
(* section of spool.mu.  The write notification only shortens the loop's   *)
(* five second poll, and is left out, as are the lengths of the backoffs.  *)
(***************************************************************************)
EXTENDS Integers, Sequences

CONSTANTS
  Records,        \* payloads given to Forward, each once
  SizeOf,         \* the cells of a record
  MisreadSize,    \* the length spelled by a cell of a body
  MaxBytes,       \* SpoolConfig.MaxBytes, in cells
  Faults,         \* bound on faults: <<stops of the process, failed writes and
                  \* truncations>> that occur in one run
  None

ASSUME SpoolConstants ==
  /\ SizeOf \in [Records -> Nat \ {0}]
  /\ MisreadSize \in Nat \ {0}
  /\ MaxBytes \in Nat \ {0} /\ Faults \subseteq Nat \X Nat /\ <<0, 0>> \in Faults
  /\ None \notin Nat

VARIABLES
  file,       \* the .spool file
  offset,     \* the .offset file; None when it does not hold eight bytes
  alive,      \* the process runs
  readOff, writeOff,
  pc,         \* where the send loop is
  start,      \* the read offset the loop read a record at
  frame,      \* the cells it read
  save,       \* the offset it persists
  accepted,   \* history: records whose write succeeded
  delivered,  \* history: what the upstream has received
  dropped,    \* history: records the cap stepped over
  crashes, errors

diskVars == <<file, offset>>
memVars == <<alive, readOff, writeOff>>
loopVars == <<pc, start, frame, save>>
histVars == <<accepted, delivered, dropped>>
spoolVars == <<diskVars, memVars, loopVars, histVars, crashes, errors>>

\* The record format.
Cells(r) == [i \in 1..SizeOf[r] |-> <<r, i>>]
Cell == UNION {{<<r, i>> : i \in 1..SizeOf[r]} : r \in Records}

Smaller(a, b) == IF a < b THEN a ELSE b

\* The length read at offset o of f.
SizeAt(f, o) == IF f[o + 1][2] = 1 THEN SizeOf[f[o + 1][1]] ELSE MisreadSize

\* A record can be read at offset o of f.
Readable(f, o) == o < Len(f) /\ o + SizeAt(f, o) <= Len(f)

FrameAt(f, o) == SubSeq(f, o + 1, o + SizeAt(f, o))

\* spool.mu is held across the system calls of compact.
Locked == pc \in {"saving", "saveOpen"} /\ save = 0

SpoolTypeOK ==
  /\ file \in Seq(Cell)
  /\ offset \in Nat \cup {None}
  /\ alive \in BOOLEAN
  /\ writeOff \in Nat /\ writeOff <= Len(file)
  /\ readOff \in Nat /\ readOff <= writeOff
  /\ pc \in {"idle", "reading", "sending", "sent", "saving", "saveOpen"}
  /\ start \in Nat /\ save \in Nat
  /\ frame \in Seq(Cell)
  /\ accepted \subseteq Records /\ dropped \subseteq accepted
  /\ <<crashes, errors>> \in Faults

SpoolInit ==
  /\ file = <<>> /\ offset = None
  /\ alive = TRUE /\ readOff = 0 /\ writeOff = 0
  /\ pc = "idle" /\ start = 0 /\ frame = <<>> /\ save = 0
  /\ accepted = {} /\ delivered = {} /\ dropped = {}
  /\ crashes = 0 /\ errors = 0

-----------------------------------------------------------------------------
(* Writers: Forward.                                                       *)

\* The file with cells c written at its write offset.
Overwritten(c) ==
  SubSeq(file, 1, writeOff) \o c \o SubSeq(file, writeOff + Len(c) + 1, Len(file))

CapByHeader(f, w) ==   \* mutant: the length of the body is forgotten
  LET From[o \in Nat] == IF w - o > MaxBytes /\ o < Len(f) THEN From[o + 1] ELSE o
  IN  From[readOff]

CapAtLimit(f, w) ==   \* mutant: off by one, a record that just fits goes too
  LET From[o \in Nat] == IF w - o >= MaxBytes /\ o < Len(f) THEN From[o + SizeAt(f, o)] ELSE o
  IN  From[readOff]

\* enforceCap: the read offset after dropping the oldest records of f until
\* what is pending before w fits.
EnforceCap(f, w) ==
  LET From[o \in Nat] == IF w - o > MaxBytes /\ o < Len(f) THEN From[o + SizeAt(f, o)] ELSE o
  IN  From[readOff]

\* write succeeds.
Write(r) == LET f == Overwritten(Cells(r)) w == writeOff + SizeOf[r] IN
  /\ alive /\ ~Locked /\ r \notin accepted
  /\ file' = f
  /\ writeOff' = w
  /\ readOff' = EnforceCap(f, w)
  /\ dropped' = dropped \cup {f[i][1] : i \in readOff + 1..Smaller(readOff', Len(f))}
  /\ accepted' = accepted \cup {r}
  /\ UNCHANGED <<offset, alive, loopVars, delivered, crashes, errors>>

\* WriteAt fails after some bytes: Forward counts an error and goes on.
WriteFails(r) == \E n \in 0..SizeOf[r] - 1 :
  /\ alive /\ ~Locked /\ r \notin accepted
  /\ <<crashes, errors + 1>> \in Faults
  /\ file' = Overwritten(SubSeq(Cells(r), 1, n))
  /\ errors' = errors + 1
  /\ UNCHANGED <<offset, memVars, loopVars, histVars, crashes>>

-----------------------------------------------------------------------------
(* The send loop.                                                          *)

\* readNext takes its offsets under the lock, and finds a record pending.
Snapshot ==
  /\ alive /\ ~Locked /\ pc = "idle" /\ readOff < writeOff
  /\ pc' = "reading"
  /\ start' = readOff
  /\ UNCHANGED <<diskVars, memVars, frame, save, histVars, crashes, errors>>

\* It reads the file without the lock; an error makes the loop start over.
ReadFile ==
  /\ alive /\ pc = "reading"
  /\ IF Readable(file, start) THEN frame' = FrameAt(file, start) /\ pc' = "sending"
                              ELSE pc' = "idle" /\ UNCHANGED frame
  /\ UNCHANGED <<diskVars, memVars, start, save, histVars, crashes, errors>>

\* The upstream receives the record and the loop sees its answer.
Deliver ==
  /\ alive /\ pc = "sending"
  /\ delivered' = delivered \cup {frame}
  /\ pc' = "sent"
  /\ UNCHANGED <<diskVars, memVars, start, frame, save, accepted, dropped, crashes, errors>>

\* The request or its answer fails: the loop backs off and reads again.
SendFails ==
  /\ alive /\ pc = "sending"
  /\ \/ UNCHANGED delivered
     \/ delivered' = delivered \cup {frame}
  /\ pc' = "idle"
  /\ UNCHANGED <<diskVars, memVars, start, frame, save, accepted, dropped, crashes, errors>>

AdvancedWrongly ==   \* mutant: the guard is inverted
  IF readOff # start THEN readOff + Len(frame) ELSE readOff

\* "A guard on rec.startOff makes this safe if enforceCap already advanced
\* readOff past this record while the send was in flight."
Advanced == IF readOff = start THEN readOff + Len(frame) ELSE readOff

\* commit: advance the offset, or compact a file with nothing left; the
\* error of Truncate is ignored.
CommitRecord ==
  /\ alive /\ pc = "sent"
  /\ pc' = "saving"
  /\ IF Advanced >= writeOff
       THEN /\ readOff' = 0 /\ writeOff' = 0 /\ save' = 0
            /\ \/ file' = <<>> /\ UNCHANGED errors
               \/ <<crashes, errors + 1>> \in Faults /\ errors' = errors + 1 /\ UNCHANGED file
       ELSE readOff' = Advanced /\ save' = Advanced /\ UNCHANGED <<file, writeOff, errors>>
  /\ UNCHANGED <<offset, alive, start, frame, histVars, crashes>>

\* os.WriteFile truncates the offset file,
SaveOpen ==
  /\ alive /\ pc = "saving"
  /\ offset' = None
  /\ pc' = "saveOpen"
  /\ UNCHANGED <<file, memVars, start, frame, save, histVars, crashes, errors>>

\* and then writes the offset.
SaveWrite ==
  /\ alive /\ pc = "saveOpen"
  /\ offset' = save
  /\ pc' = "idle"
  /\ UNCHANGED <<file, memVars, start, frame, save, histVars, crashes, errors>>

\* Its error is ignored too.
SaveFails ==
  /\ alive /\ pc \in {"saving", "saveOpen"}
  /\ <<crashes, errors + 1>> \in Faults
  /\ errors' = errors + 1
  /\ pc' = "idle"
  /\ UNCHANGED <<diskVars, memVars, start, frame, save, histVars, crashes>>

-----------------------------------------------------------------------------
(* Stop and start.                                                         *)

\* The process stops: killed, or by Close, which waits for the loop to leave
\* between two deliveries.
Crash ==
  /\ alive /\ <<crashes + 1, errors>> \in Faults
  /\ crashes' = crashes + 1
  /\ alive' = FALSE
  /\ readOff' = 0 /\ writeOff' = 0
  /\ pc' = "idle" /\ start' = 0 /\ frame' = <<>> /\ save' = 0
  /\ UNCHANGED <<diskVars, histVars, errors>>

\* The read offset openSpool starts from.
SavedOff == IF offset # None /\ offset <= Len(file) THEN offset ELSE 0

\* openSpool.
Open ==
  /\ ~alive
  /\ alive' = TRUE
  /\ readOff' = SavedOff
  /\ writeOff' = Len(file)
  /\ UNCHANGED <<diskVars, loopVars, histVars, crashes, errors>>

-----------------------------------------------------------------------------

Loop == Snapshot \/ ReadFile \/ Deliver \/ SendFails \/ CommitRecord \/ SaveOpen \/ SaveWrite \/ SaveFails

SpoolNext ==
  \/ \E r \in Records : Write(r) \/ WriteFails(r)
  \/ Loop
  \/ Crash \/ Open

SpoolSpec == SpoolInit /\ [][SpoolNext]_spoolVars

\* The loop runs, the upstream does not refuse a record for ever, and a
\* stopped process is started again.
SpoolFairSpec == SpoolSpec /\ WF_spoolVars(Loop) /\ SF_spoolVars(Deliver) /\ WF_spoolVars(Open)

-----------------------------------------------------------------------------
(* Correctness.                                                            *)

\* What the loop has still to read, now or after the next start.
Pending ==
  LET end == IF alive THEN writeOff ELSE Len(file)
      From[o \in Nat] == IF o < end /\ Readable(file, o)
                           THEN {FrameAt(file, o)} \cup From[o + SizeAt(file, o)] ELSE {}
  IN  From[IF alive THEN readOff ELSE SavedOff]

\* A record that was written is delivered, counted as dropped, or still
\* pending, across stops of the process and commits that cross the cap.
NothingLost ==
  \A r \in accepted : r \in dropped \/ Cells(r) \in delivered \cup Pending

\* The upstream receives the records that were given to Forward, and nothing
\* that is put together from parts of them.
DeliveredWasWritten == \A c \in delivered : \E r \in accepted : c = Cells(r)

\* What the spool holds is what it was given (spool.go, "bounded on-disk FIFO").
SpoolInv == SpoolTypeOK /\ NothingLost /\ DeliveredWasWritten

\* The cap takes no more than it must: with the newest dropped record the
\* pending ones would not fit.
DropsOnlyOverCap ==
  [][accepted' # accepted /\ readOff' > readOff =>
       writeOff' - readOff' + SizeOf[file'[readOff'][1]] > MaxBytes]_spoolVars

\* A record that was written is delivered or dropped in the end.
AcceptedSettles ==
  \A r \in Records : (r \in accepted) ~> (r \in dropped \/ Cells(r) \in delivered)

=============================================================================
