-------------------------- MODULE NativeProperties --------------------------
(***************************************************************************)
(* What the durable row of a native process promises to those who cannot   *)
(* see the process.                                                        *)
(***************************************************************************)
EXTENDS NativeProcesses

Terminal == RowStatuses \ {"none", "running"}
Places == {"asleep", "awake", "decides", "kills", "reports", "over"}
RowType == [status : RowStatuses, lease : {"good", "expired"},
            cancel : {"no", "requested"}, by : {"nobody", "owner", "recovery"}]

(***************************************************************************)
(* Types of the row, the owner's memory and the threads.                   *)
(***************************************************************************)
NativeTypeOK ==
    /\ os \in {"none", "alive", "gone"}
    /\ made \in 0 .. ChunkBound /\ read \in 0 .. ChunkBound
    /\ row \in RowType
    /\ stored \subseteq 1 .. ChunkBound /\ unstored \subseteq 1 .. ChunkBound
    /\ owner \in {"idle", "starting", "up", "down"}
    /\ ref \in [status : RowStatuses \ {"none"}, exit : {"open", "reported"}]
    /\ reader \in {"none", "reading", "done", "failed"}
    /\ late \in BOOLEAN
    /\ sup \in [at : Places, status : RowStatuses, cancel : {"no", "requested"},
                verdict : {"none", "fence", "stopped", "timed_out"}]
    /\ stopper \in {"idle", "kills", "killed", "found"}
    /\ rec \in [at : {"idle", "writes"}, saw : {"alive", "exited", "unknown"}]
    /\ client \in [at : {"idle", "outputs", "status", "ended", "cut"},
                   cursor : 0 .. ChunkBound,
                   got : SUBSET (1 .. ChunkBound), told : {"all", "truncated"},
                   read : RowStatuses, status : RowStatuses]
    /\ faults \in 0 .. FaultBound

(***************************************************************************)
(* A terminal row is never rewritten: neither by the owner that comes back *)
(* after its lease, nor by a recovery that read the row before the owner   *)
(* finished it, nor by a stop that raced the timeout.                      *)
(***************************************************************************)
EndIsWrittenOnce ==
    [][row.status \in Terminal
         => row'.status = row.status /\ row'.by = row.by]_nativeVars

(***************************************************************************)
(* exited, stopped and timed_out mean that no process is left behind,      *)
(* whoever wrote them; only interrupted and unknown leave that open.       *)
(***************************************************************************)
EndMeansGone ==
    row.status \in {"exited", "stopped", "timed_out"} => os = "gone"

(***************************************************************************)
(* "terminal status never races ahead of terminal output" (process.py:706):*)
(* when an exit its owner recorded is carried by a chunk, of any server,   *)
(* or has ended the stream of the owner's server, the client has every     *)
(* chunk or was told that its cursor fell behind, however it reconnects.   *)
(* Excepted are outputs of which the table refused a chunk, and the stream *)
(* of another server, which a status read after the chunk may cut before   *)
(* the tail: its client takes up the rest with its cursor.                 *)
(***************************************************************************)
TailIsDelivered ==
    /\ row.status = "exited" /\ row.by = "owner" /\ unstored = {}
    /\ client.status = "exited" \/ client.at = "ended"
    => client.got = 1 .. made \/ client.told = "truncated"

(***************************************************************************)
(* Chunks are pruned while the client reads; a hole in what it was given   *)
(* is always announced as a truncation, except a chunk the table refused   *)
(* in an error of its reader (the other reader of two pipes goes on).      *)
(***************************************************************************)
HolesAreTold ==
    client.told = "all" => (1 .. client.cursor) \ client.got \subseteq unstored

(***************************************************************************)
(* Fairness: the threads of a live owner run on and a begun kill ends; the *)
(* lease of a dead supervisor lapses; the other servers, whose clients     *)
(* poll status(), look for expired rows.  The process need not exit or     *)
(* close its output, and nobody need ask.                                  *)
(***************************************************************************)
Supervises == SupWakes \/ SupBeats \/ SupSleeps \/ SupCondemns \/ SupKills \/ SupReports
LeaseLapses == sup.at = "over" /\ LeaseExpires

NativeFairness ==
    /\ WF_nativeVars(Supervises)
    /\ WF_nativeVars(StopKills \/ StopReports)
    /\ WF_nativeVars(LeaseLapses)
    /\ WF_nativeVars(RecLooks \/ RecWrites)

NativeFairSpec == Spec /\ NativeFairness

(***************************************************************************)
(* Every reason to end reaches the row: a stop asked anywhere, a timeout,  *)
(* or an exit whose output is read; through the supervisor or, when owner  *)
(* or supervisor died or lost their last write, through recovery.          *)
(***************************************************************************)
ReasonEndsRow ==
    (row.status = "running"
       /\ (row.cancel = "requested" \/ late \/ (os = "gone" /\ reader # "reading")))
      ~> row.status # "running"

(***************************************************************************)
(* A process whose row was ended without it, since its slow owner was      *)
(* taken for dead, does not live on under that owner: the next heartbeat   *)
(* finds the row and kills, unless the server or the thread dies first.    *)
(***************************************************************************)
FencedProcessEnds ==
    (row.status \in Terminal /\ os = "alive" /\ sup.at # "over")
      ~> (os = "gone" \/ sup.at = "over")
=============================================================================
