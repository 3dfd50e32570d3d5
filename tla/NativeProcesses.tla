-------------------------- MODULE NativeProcesses --------------------------
(***************************************************************************)
(* One native terminal process (native/process.py) and its durable row     *)
(* (runtime/native/repository.py).  The server that spawned it, the owner, *)
(* keeps the process handle, a reader thread, a supervisor thread and a    *)
(* snapshot `ref' in memory; every other server knows only the row, its    *)
(* output rows and the operating system's answer to kill(pid, 0).          *)
(*                                                                         *)
(* The owner's lock makes each action atomic that the code runs under it;  *)
(* heartbeats, kills and everything another server does run outside.       *)
(***************************************************************************)
EXTENDS Naturals, FiniteSets, FiniteSetsExt

CONSTANTS ChunkBound,       \* output chunks the process writes
          MaxOutputChunks,  \* NativeProcessManager.max_output_chunks
          FaultBound        \* database errors raised into a server thread

ASSUME NativeAssumption ==
    /\ ChunkBound \in Nat
    /\ MaxOutputChunks \in Nat \ {0}
    /\ FaultBound \in Nat

VARIABLES os,       \* the process: "none", "alive" or "gone"
          made,     \* chunks it has written
          row,      \* native_processes: status, lease, cancel flag, writer
          stored,   \* native_process_outputs: the cursors kept
          owner,    \* the owning server: "idle", "starting", "up", "down"
          ref,      \* its record: ref.status and exit_reported
          reader,   \* its readers: "none", "reading" (one at least), "done",
                    \* or "failed" (the last of them, by an error)
          read,     \* chunks they have appended to its memory
          unstored, \* those of them the table refused (history)
          late,     \* timeout_at has passed
          sup,      \* the supervisor thread: place, row read, verdict
          stopper,  \* a request thread inside stop(): "idle", "kills",
                    \* "killed", or "found" when the process was gone
          rec,      \* another server inside _reconcile_expired_records
          client,   \* a client that follows the output stream with a cursor
          faults

procVars   == <<os, made>>
ownerVars  == <<owner, ref, reader, read, unstored>>
nativeVars == <<os, made, row, stored, owner, ref, reader, read, unstored,
                late, sup, stopper, rec, client, faults>>

RowStatuses == {"none", "running", "exited", "stopped", "timed_out",
                "interrupted", "unknown"}

NoRow == [status |-> "none", lease |-> "good", cancel |-> "no",
          by |-> "nobody"]
\* The supervisor at some place, with the row it read and its verdict.
Sup(at, seen, verdict) ==
    [at |-> at, status |-> seen.status, cancel |-> seen.cancel,
     verdict |-> verdict]
Thread(at) == Sup(at, NoRow, "none")
NoRec == [at |-> "idle", saw |-> "unknown"]

Init ==
    /\ os = "none" /\ made = 0 /\ row = NoRow /\ stored = {}
    /\ owner = "idle" /\ ref = [status |-> "running", exit |-> "open"]
    /\ reader = "none" /\ read = 0 /\ unstored = {} /\ late = FALSE
    /\ sup = Thread("over") /\ stopper = "idle"
    /\ rec = NoRec
    /\ client = [at |-> "idle", cursor |-> 0, got |-> {}, told |-> "all",
                 read |-> "running", status |-> "running"]
    /\ faults = 0

(***************************************************************************)
(* The process.                                                            *)
(***************************************************************************)
Write ==
    /\ os = "alive" /\ made < ChunkBound
    /\ made' = made + 1
    /\ UNCHANGED <<os, row, stored, ownerVars, late, sup, stopper, rec,
                   client, faults>>

Exit ==
    /\ os = "alive"
    /\ os' = "gone"
    /\ UNCHANGED <<made, row, stored, ownerVars, late, sup, stopper, rec,
                   client, faults>>

(***************************************************************************)
(* start(): spawn first, persist the row, then expose the record and start *)
(* the threads.  A row that cannot be written terminates the process.      *)
(***************************************************************************)
Spawn ==
    /\ owner = "idle"
    /\ owner' = "starting" /\ os' = "alive"
    /\ UNCHANGED <<made, row, stored, ref, reader, read, unstored, late, sup,
                   stopper, rec, client, faults>>

Persist ==
    /\ owner = "starting"
    /\ owner' = "up" /\ reader' = "reading"
    /\ row' = [status |-> "running", lease |-> "good", cancel |-> "no",
               by |-> "nobody"]
    /\ sup' = Thread("asleep")
    /\ UNCHANGED <<procVars, stored, ref, read, unstored, late, stopper, rec,
                   client, faults>>

PersistFails ==
    /\ owner = "starting" /\ faults < FaultBound
    /\ owner' = "down" /\ os' = "gone" /\ faults' = faults + 1
    /\ UNCHANGED <<made, row, stored, ref, reader, read, unstored, late, sup,
                   stopper, rec, client>>

(***************************************************************************)
(* The readers, one of a terminal or two of pipes: _append_output keeps    *)
(* the last MaxOutputChunks in memory and in the table.  A reader ends at  *)
(* end of file; an error of the table ends it too, after the chunk reached *)
(* memory; the other goes on, and what the dead one left in its pipe is    *)
(* never read and not counted in `made'.                                   *)
(***************************************************************************)
Pruned(n) == {c \in stored \cup {n} : c > n - MaxOutputChunks}

InMemory == {c \in 1..read : c + MaxOutputChunks > read}

Append ==
    /\ owner = "up" /\ reader = "reading" /\ read < made
    /\ read' = read + 1
    /\ stored' = Pruned(read + 1)
    /\ UNCHANGED <<procVars, row, owner, ref, reader, unstored, late, sup,
                   stopper, rec, client, faults>>

AppendFails ==
    /\ owner = "up" /\ reader = "reading" /\ read < made
    /\ faults < FaultBound
    /\ read' = read + 1 /\ faults' = faults + 1
    /\ unstored' = unstored \cup {read + 1}
    /\ \/ reader' = "failed"
       \/ unstored = {} /\ UNCHANGED reader
    /\ UNCHANGED <<procVars, row, stored, owner, ref, late, sup, stopper, rec,
                   client>>

\* A child of the process may hold the terminal open: no fairness here.
Drained ==
    /\ owner = "up" /\ reader = "reading" /\ os = "gone" /\ read = made
    /\ reader' = "done"
    /\ UNCHANGED <<procVars, row, stored, owner, ref, read, unstored, late,
                   sup, stopper, rec, client, faults>>

(***************************************************************************)
(* _refresh_locked(terminal_status).  `Holds' is its two early returns.    *)
(***************************************************************************)
\* Variants: the poll of the process, or of the readers, is left out.
HoldsWithoutPoll(terminal) ==
    terminal = "none" /\ ref.status = "running" /\ reader = "reading"
HoldsWithoutReaders(terminal) == os # "gone"

Holds(terminal) ==
    \/ os # "gone"
    \/ /\ terminal = "none" /\ ref.status = "running"
       /\ reader = "reading"

StatusAfter(terminal) ==
    IF terminal # "none" THEN terminal
    ELSE IF ref.status \in {"stopped", "timed_out"} THEN ref.status
    ELSE "exited"

\* A terminal status and who wrote it.  The lease and the request of a row that
\* has ended are read by nobody, every query asks for running first: left out.
Ended(status, by) ==
    [status |-> status, lease |-> "good", cancel |-> "no", by |-> by]

\* finish_native_process: the owner, and only while the row is running.
Finished(status) ==
    IF row.status = "running" THEN Ended(status, "owner") ELSE row

Refresh(terminal) ==
    IF Holds(terminal) THEN UNCHANGED <<ref, row>>
    ELSE /\ ref' = [status |-> StatusAfter(terminal), exit |-> "reported"]
         /\ row' = IF ref.exit = "reported" THEN row
                   ELSE Finished(StatusAfter(terminal))

\* finish_native_process raises: exit_reported is already set.
RefreshRaises(terminal) ==
    /\ ~Holds(terminal) /\ ref.exit = "open" /\ faults < FaultBound
    /\ ref' = [status |-> StatusAfter(terminal), exit |-> "reported"]
    /\ faults' = faults + 1
    /\ UNCHANGED row

\* status(), read_since(), write() or cleanup() of the owner.
OwnerLooks ==
    /\ owner = "up"
    /\ \/ Refresh("none") /\ UNCHANGED faults
       \/ RefreshRaises("none")
    /\ UNCHANGED <<procVars, stored, owner, reader, read, unstored, late, sup,
                   stopper, rec, client>>

(***************************************************************************)
(* _supervise.                                                             *)
(***************************************************************************)
SupWakes ==
    /\ owner = "up" /\ sup.at = "asleep"
    /\ \/ /\ Refresh("none") /\ UNCHANGED faults
          /\ sup' = Thread(IF ref'.status = "running" THEN "awake" ELSE "over")
       \/ /\ RefreshRaises("none")
          /\ sup' = Thread("over")
    /\ UNCHANGED <<procVars, stored, owner, reader, read, unstored, late,
                   stopper, rec, client>>

\* heartbeat_native_process, outside the lock; it returns the row.
SupBeats ==
    /\ owner = "up" /\ sup.at = "awake"
    /\ row' = IF row.status = "running" THEN [row EXCEPT !.lease = "good"]
              ELSE row
    /\ sup' = Sup("decides", row', "none")
    /\ UNCHANGED <<procVars, stored, ownerVars, late, stopper, rec, client,
                   faults>>

\* The heartbeat raises; nothing catches it and the thread ends.
SupFails ==
    /\ owner = "up" /\ sup.at = "awake" /\ faults < FaultBound
    /\ sup' = Thread("over") /\ faults' = faults + 1
    /\ UNCHANGED <<procVars, row, stored, ownerVars, late, stopper, rec,
                   client>>

\* Variants: the row read by the heartbeat is not used, or only its status.
VerdictUnfenced == IF sup.status # "running" THEN "none"
                   ELSE IF sup.cancel = "requested" THEN "stopped"
                   ELSE IF late THEN "timed_out" ELSE "none"
VerdictUncanceled == IF sup.status # "running" THEN "fence"
                     ELSE IF late THEN "timed_out" ELSE "none"

Verdict ==
    IF sup.status # "running" THEN "fence"
    ELSE IF sup.cancel = "requested" THEN "stopped"
    ELSE IF late THEN "timed_out"
    ELSE "none"

SupSleeps ==
    /\ owner = "up" /\ sup.at = "decides" /\ Verdict = "none"
    /\ sup' = Thread("asleep")
    /\ UNCHANGED <<procVars, row, stored, ownerVars, late, stopper, rec,
                   client, faults>>

\* First lock section of _terminate_owned; the fence takes no lock yet.
SupCondemns ==
    /\ owner = "up" /\ sup.at = "decides" /\ Verdict # "none"
    /\ sup' = Sup(IF os = "alive" \/ Verdict = "fence" THEN "kills" ELSE "reports",
                   sup, Verdict)
    /\ ref' = IF Verdict = "fence" THEN ref
              ELSE [ref EXCEPT !.status = Verdict]
    /\ UNCHANGED <<procVars, row, stored, owner, reader, read, unstored, late,
                   stopper, rec, client, faults>>

\* _terminate_process: terminate, wait, kill, wait.
SupKills ==
    /\ owner = "up" /\ sup.at = "kills"
    /\ sup' = [sup EXCEPT !.at = "reports"]
    /\ os' = "gone"
    /\ UNCHANGED <<made, row, stored, ownerVars, late, stopper, rec, client,
                   faults>>

\* Second lock section; a fenced owner takes over the durable snapshot.
SupReports ==
    /\ owner = "up" /\ sup.at = "reports"
    /\ sup' = Thread("over")
    /\ \/ /\ sup.verdict = "fence"
          /\ ref' = [status |-> sup.status, exit |-> "reported"]
          /\ UNCHANGED <<row, faults>>
       \/ /\ sup.verdict # "fence"
          /\ Refresh(sup.verdict) /\ UNCHANGED faults
       \/ /\ sup.verdict # "fence"
          /\ RefreshRaises(sup.verdict)
    /\ UNCHANGED <<procVars, stored, owner, reader, read, unstored, late,
                   stopper, rec, client>>

(***************************************************************************)
(* stop() on the owner: request, mark, kill outside the lock, report.  On  *)
(* another server it only leaves the request in the row.                   *)
(***************************************************************************)
Requested ==
    IF row.status = "running" THEN [row EXCEPT !.cancel = "requested"] ELSE row

StopBegins ==
    /\ owner = "up" /\ stopper = "idle"
    /\ row' = Requested
    /\ ref' = [ref EXCEPT !.status = "stopped"]
    /\ stopper' = IF os = "alive" THEN "kills" ELSE "found"
    /\ UNCHANGED <<procVars, stored, owner, reader, read, unstored, late, sup,
                   rec, client, faults>>

StopKills ==
    /\ owner = "up" /\ stopper = "kills"
    /\ os' = "gone" /\ stopper' = "killed"
    /\ UNCHANGED <<made, row, stored, ownerVars, late, sup, rec, client,
                   faults>>

StopReports ==
    /\ owner = "up" /\ stopper \in {"killed", "found"}
    /\ stopper' = "idle"
    /\ LET terminal == IF stopper = "killed" THEN "stopped" ELSE "none"
       IN \/ Refresh(terminal) /\ UNCHANGED faults
          \/ RefreshRaises(terminal)
    /\ UNCHANGED <<procVars, stored, owner, reader, read, unstored, late, sup,
                   rec, client>>

ForeignStop ==
    /\ row.status = "running" /\ row.cancel = "no"
    /\ row' = Requested
    /\ UNCHANGED <<procVars, stored, ownerVars, late, sup, stopper, rec,
                   client, faults>>

(***************************************************************************)
(* _reconcile_expired_records of another server: list, ask the operating   *)
(* system, compare-and-set.  A process that is gone may still answer as a  *)
(* zombie of its owner, or its number may be taken.                        *)
(***************************************************************************)
Answers == IF os = "alive" THEN {"alive"} ELSE {"exited", "alive", "unknown"}

RecLooks ==
    /\ rec.at = "idle" /\ row.status = "running" /\ row.lease = "expired"
    /\ \E answer \in Answers : rec' = [at |-> "writes", saw |-> answer]
    /\ UNCHANGED <<procVars, row, stored, ownerVars, late, sup, stopper,
                   client, faults>>

Recovered ==
    CASE rec.saw = "alive"   -> "interrupted"
      [] rec.saw = "exited"  -> "exited"
      [] rec.saw = "unknown" -> "unknown"

\* Variant: the row is not compared again.
RecoverableAnyway == row.status # "none"

\* recover_native_process.
Recoverable == row.status = "running" /\ row.lease = "expired"

RecWrites ==
    /\ rec.at = "writes"
    /\ rec' = NoRec
    /\ row' = IF Recoverable THEN Ended(Recovered, "recovery") ELSE row
    /\ UNCHANGED <<procVars, stored, ownerVars, late, sup, stopper, client,
                   faults>>

(***************************************************************************)
(* A client of the output stream, until a chunk carries a terminal status: *)
(* only that makes it close (native-process-stream.ts).  The owner answers *)
(* from one lock section.  Elsewhere wait_for_output reads the row, the    *)
(* outputs, and the row again: the chunk carries the status read first,    *)
(* and the stream ends by the status read last.                            *)
(***************************************************************************)
\* Variant: an off-by-one in the truncation test.
MissedLate(after, outputs) == outputs # {} /\ after + 2 < Min(outputs)

Missed(after, outputs) == outputs # {} /\ after + 1 < Min(outputs)

\* The client after a chunk of these outputs that carries this status.
Shown(outputs, status, at) ==
    LET new == {c \in outputs : c > client.cursor}
    IN [at |-> at, read |-> "running", status |-> status,
        got |-> client.got \cup new,
        told |-> IF Missed(client.cursor, new) THEN "truncated" ELSE client.told,
        cursor |-> IF new = {} THEN client.cursor ELSE Max(new)]

\* The process may exit between the two polls of the lock section: the chunk
\* then still says running.
ReadAtOwner ==
    /\ owner = "up" /\ client.at = "idle" /\ client.status = "running"
    /\ Refresh("none")
    /\ \E status \in {ref.status, ref'.status} :
          client' = Shown(InMemory, status,
                          IF ref'.status = "running" THEN "idle" ELSE "ended")
    /\ UNCHANGED <<procVars, stored, owner, reader, read, unstored, late, sup,
                   stopper, rec, faults>>

ReadRow ==
    /\ client.at = "idle" /\ client.status = "running" /\ row.status # "none"
    /\ client' = [client EXCEPT !.at = "outputs", !.read = row.status]
    /\ UNCHANGED <<procVars, row, stored, ownerVars, late, sup, stopper, rec,
                   faults>>

ReadOutputs ==
    /\ client.at = "outputs"
    /\ client' = Shown(stored, client.read, "status")
    /\ UNCHANGED <<procVars, row, stored, ownerVars, late, sup, stopper, rec,
                   faults>>

\* The status after the chunk, which the run is projected from too.
ReadStatus ==
    /\ client.at = "status"
    /\ client' = [client EXCEPT !.at = IF row.status = "running" THEN "idle"
                                       ELSE "cut"]
    /\ UNCHANGED <<procVars, row, stored, ownerVars, late, sup, stopper, rec,
                   faults>>

\* A stream that breaks off, or ends under a chunk that said running, is opened
\* again with the cursor (Last-Event-ID), at any server.
Reconnect ==
    /\ client.at \in {"outputs", "ended", "cut"} /\ client.status = "running"
    /\ client' = [client EXCEPT !.at = "idle", !.read = "running"]
    /\ UNCHANGED <<procVars, row, stored, ownerVars, late, sup, stopper, rec,
                   faults>>

(***************************************************************************)
(* Time and crashes.  The owner's lease may lapse while it lives: it beats *)
(* from one thread, outside any deadline.                                  *)
(***************************************************************************)
LeaseExpires ==
    /\ row.status = "running" /\ row.lease = "good"
    /\ row' = [row EXCEPT !.lease = "expired"]
    /\ UNCHANGED <<procVars, stored, ownerVars, late, sup, stopper, rec,
                   client, faults>>

TimeoutPasses ==
    /\ row.status = "running" /\ ~late
    /\ late' = TRUE
    /\ UNCHANGED <<procVars, row, stored, ownerVars, sup, stopper, rec,
                   client, faults>>

OwnerDies ==
    /\ owner \in {"starting", "up"}
    /\ owner' = "down" /\ sup' = Thread("over")
    /\ reader' = IF reader = "reading" THEN "none" ELSE reader
    /\ stopper' = "idle"
    /\ UNCHANGED <<procVars, row, stored, ref, read, unstored, late, rec,
                   client, faults>>

Next ==
    \/ Write \/ Exit
    \/ Spawn \/ Persist \/ PersistFails
    \/ Append \/ AppendFails \/ Drained
    \/ OwnerLooks
    \/ SupWakes \/ SupBeats \/ SupFails \/ SupSleeps
    \/ SupCondemns \/ SupKills \/ SupReports
    \/ StopBegins \/ StopKills \/ StopReports \/ ForeignStop
    \/ RecLooks \/ RecWrites
    \/ ReadAtOwner \/ ReadRow \/ ReadOutputs \/ ReadStatus \/ Reconnect
    \/ LeaseExpires \/ TimeoutPasses \/ OwnerDies

Spec == Init /\ [][Next]_nativeVars
=============================================================================
