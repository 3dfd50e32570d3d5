----------------------------- MODULE Schedules ------------------------------
(***************************************************************************)
(* One schedule (src/gigaloom/automation/schedules) whose target is a      *)
(* durable job: the definition file, the schedule_states row, its          *)
(* schedule_occurrences and the processes that write them: the tick of     *)
(* each worker process, a web request (test_now, run_now, enable, pause)   *)
(* and another that edits the definition.  No lock is held across two      *)
(* statements; only _create_occurrence, _claim_dispatch and upsert are     *)
(* transactions, and the dispatcher locks the idempotency key.             *)
(*                                                                         *)
(* Occurrences are numbered, the slots of the cadence first; each has its  *)
(* idempotency key, so the job of an occurrence is named by it.            *)
(***************************************************************************)
EXTENDS ChildJobs, FiniteSets

CONSTANTS Workers,         \* worker processes
          SlotCount,       \* instants of the cadence
          Trigger,         \* what creates each occurrence
          MaxConcurrency,  \* max_concurrency; overlap_policy is "skip"
          EditBound,       \* bound on edits of the definition and pauses
          TroubleBound     \* bound on mishaps and turns together

Slots == 1 .. SlotCount

ASSUME SlotAssumption ==
    /\ SlotCount \in Nat
    /\ Jobs \subseteq Nat /\ IsFiniteSet(Jobs)
    /\ Trigger \in [Jobs -> {"schedule", "run_now", "test"}]
    /\ Slots = {o \in Jobs : Trigger[o] = "schedule"}
ASSUME ScheduleBoundAssumption ==
    /\ MaxConcurrency \in Nat \ {0}
    /\ {EditBound, TroubleBound} \subseteq Nat
ASSUME ProcAssumption == "web" \notin Workers

Procs == Workers \cup {"web"}
Versions == 1 .. EditBound + 1

VARIABLES
    occ,      \* schedule_occurrences: status and definition_hash
    state,    \* schedule_states: hash, enabled, tested_hash (0: none), next_run_at
    file,     \* the version of the definition in its file
    clock,    \* the last instant that has come
    proc,     \* the processes between their statements
    left,     \* history: the instants that enable and upsert left behind
    late,     \* history: the instants that a tick found beyond their grace
    over,     \* history: the jobs that have ended once, and may have come back
    won,      \* history: those that have succeeded once
    edits,    \* edits of the file, and pauses, so far
    mishaps,  \* crashes and failed submissions so far
    turns     \* jobs canceled, put off or come back, repeated enables, so far

queue == <<child, over, won>>
counters == <<edits, mishaps, turns>>
vars == <<queue, occ, state, file, clock, proc, left, late, counters>>

ActiveOcc == {"claimed", "dispatching", "queued", "running"}
EndedOcc == Ended \cup {"skipped", "misfired"}

\* pc; the rows still to visit; the occurrence at hand; the definition
\* loaded; the job status read; the loop of tick() it belongs to.
Idle == [pc |-> "idle", todo |-> {}, at |-> 0, def |-> 0, seen |-> "none",
         in |-> "none"]

\* After create, Test now and enable: a schedule like any other, in use.
Init ==
    /\ ChildInit
    /\ occ = [o \in Jobs |-> [status |-> "none", hash |-> 0]]
    /\ state = [hash |-> 1, enabled |-> TRUE, tested |-> 1, next |-> 1]
    /\ file = 1 /\ clock = 0 /\ edits = 0 /\ mishaps = 0 /\ turns = 0
    /\ proc = [p \in Procs |-> Idle]
    /\ left = {} /\ late = {} /\ over = {} /\ won = {}

At(p, pc) == proc[p].pc = pc
Goto(p, pc) == proc' = [proc EXCEPT ![p].pc = pc]
Leave(p) == proc' = [proc EXCEPT ![p] = Idle]

\* The definition has been copied to the row.
Handle(p, pc) == proc' = [proc EXCEPT ![p].pc = pc, ![p].def = 0]

Spare == mishaps + turns < TroubleBound
Turn == Spare /\ turns' = turns + 1

\* What the histories keep of the jobs.
Remember ==
    /\ over' = over \cup {o \in Jobs : child'[o].status \in Ended}
    /\ won' = won \cup {o \in Jobs : child'[o].status = "succeeded"}

\* A loop of tick() goes on with its next row.
Loop(p) == [Idle EXCEPT !.pc = proc[p].in, !.in = proc[p].in,
                        !.todo = proc[p].todo]

Continue(p) ==
    IF proc[p].in = "web" THEN Leave(p)
    ELSE IF proc[p].in = "due" THEN Goto(p, "advances")
    ELSE proc' = [proc EXCEPT ![p] = Loop(p)]

\* _finish_occurrence is unconditional.
FinishOccurrence(o, status) == occ' = [occ EXCEPT ![o].status = status]

\* _manual_occurrence_id, and UNIQUE (schedule, instant, trigger).
Exists(o) == occ[o].status # "none"

-----------------------------------------------------------------------------
(***************************************************************************)
(* tick(): _sync_occurrences first.                                        *)
(***************************************************************************)
Followed == {o \in Jobs : occ[o].status \in {"queued", "running"}}

BeginTick(p) ==
    /\ p \in Workers /\ At(p, "idle")
    /\ proc' = [proc EXCEPT ![p] = [Idle EXCEPT
                   !.pc = "syncing", !.in = "syncing", !.todo = Followed]]
    /\ UNCHANGED <<left, late, queue, occ, state, file, clock, counters>>

\* Faulty variant of Tells: only a success is projected.
TellsSuccess(status) == status \in {"succeeded", "running"}

\* The job statuses that are projected on the row.
Tells(status) == status \in Ended \cup {"running"}

ReadJob(p, o) ==
    /\ At(p, "syncing") /\ o \in proc[p].todo
    /\ LET rest == [proc[p] EXCEPT !.todo = @ \ {o}]
       IN proc' = [proc EXCEPT ![p] =
                     IF Tells(child[o].status)
                     THEN [rest EXCEPT !.pc = "projects", !.at = o,
                                       !.seen = child[o].status]
                     ELSE rest]
    /\ UNCHANGED <<left, late, queue, occ, state, file, clock, counters>>

Project(p) ==
    /\ At(p, "projects")
    /\ FinishOccurrence(proc[p].at, proc[p].seen)
    /\ IF Trigger[proc[p].at] = "test" /\ proc[p].seen = "succeeded"
         THEN Goto(p, "grants")
         ELSE Continue(p)
    /\ UNCHANGED <<left, late, queue, state, file, clock, counters>>

\* Faulty variant of Tested: the grant is for the current definition.
TestedNow(o) == state.hash

Tested(o) == occ[o].hash

\* A transaction of its own: a crash before it loses the grant.
Grant(p) ==
    /\ At(p, "grants")
    /\ state' = [state EXCEPT !.tested = Tested(proc[p].at)]
    /\ Continue(p)
    /\ UNCHANGED <<left, late, queue, occ, file, clock, counters>>

(***************************************************************************)
(* Then _recover_dispatching_occurrences.  A row that another process is   *)
(* dispatching at this moment looks like one whose process died.           *)
(***************************************************************************)
\* Faulty variant of Stranded: nothing is recovered.
StrandedNever == {}

Stranded == {o \in Jobs : occ[o].status = "dispatching"}

BeginRecovery(p) ==
    /\ At(p, "syncing") /\ proc[p].todo = {}
    /\ proc' = [proc EXCEPT ![p].pc = "recovering", ![p].in = "recovering",
                            ![p].todo = Stranded]
    /\ UNCHANGED <<left, late, queue, occ, state, file, clock, counters>>

\* A changed definition is not dispatched.
LoadAgain(p, o) ==
    /\ At(p, "recovering") /\ o \in proc[p].todo
    /\ proc' = [proc EXCEPT ![p].todo = @ \ {o}, ![p].at = o,
                            ![p].pc = IF file = occ[o].hash THEN "submits"
                                      ELSE "fails"]
    /\ UNCHANGED <<left, late, queue, occ, state, file, clock, counters>>

(***************************************************************************)
(* Then the rows that are due: the row, the file, the occurrence.          *)
(***************************************************************************)
ReadDue(p) ==
    /\ At(p, "recovering") /\ proc[p].todo = {}
    /\ IF state.enabled /\ state.next <= clock
         THEN proc' = [proc EXCEPT ![p] = [Idle EXCEPT
                          !.pc = "loads", !.in = "due", !.at = state.next]]
         ELSE Leave(p)
    /\ UNCHANGED <<left, late, queue, occ, state, file, clock, counters>>

Load(p) ==
    /\ At(p, "loads")
    /\ proc' = [proc EXCEPT ![p].pc = "creates", ![p].def = file]
    /\ UNCHANGED <<left, late, queue, occ, state, file, clock, counters>>

\* Faulty variant of Overlaps: only what runs is counted.
OverlapsRunning(o) ==
    Cardinality({q \in Jobs : /\ Trigger[q] # "test"
                              /\ occ[q].status = "running"})
      >= MaxConcurrency

Overlaps(o) ==
    Cardinality({q \in Jobs : /\ Trigger[q] # "test"
                              /\ occ[q].status \in ActiveOcc})
      >= MaxConcurrency

\* _create_occurrence returns the row that is there, and refuses a key that
\* names a run of another definition.  An instant beyond its grace is given
\* up by misfire_policy "skip"; a row claimed for it stays as it is.
CreateOccurrence(p) ==
    /\ At(p, "creates")
    /\ \E misfired \in BOOLEAN :
         LET o == proc[p].at
             due == proc[p].in = "due"
             given == IF misfired THEN "misfired"
                      ELSE IF Overlaps(o) THEN "skipped" ELSE "claimed"
             row == IF Exists(o) THEN occ[o]
                    ELSE [status |-> given, hash |-> proc[p].def]
         IN /\ misfired => due
            /\ late' = IF misfired THEN late \cup {o} ELSE late
            /\ occ' = [occ EXCEPT ![o] = row]
            /\ IF due THEN Handle(p, IF row.status = "claimed" /\ ~misfired
                                     THEN "claims" ELSE "advances")
               ELSE IF row.hash = proc[p].def THEN Handle(p, "claims")
               ELSE Leave(p)
    /\ UNCHANGED <<left, queue, state, file, clock, counters>>

\* _claim_dispatch: one delivery wins.
ClaimDispatch(p) ==
    /\ At(p, "claims")
    /\ IF occ[proc[p].at].status = "claimed"
         THEN FinishOccurrence(proc[p].at, "dispatching") /\ Goto(p, "submits")
         ELSE UNCHANGED occ /\ Continue(p)
    /\ UNCHANGED <<left, late, queue, state, file, clock, counters>>

(***************************************************************************)
(* _dispatch_target: the dispatcher, under the lock of the key, finds the  *)
(* job or submits it and lets policy decide.                               *)
(***************************************************************************)
Locked(o) == \E p \in Procs : At(p, "releases") /\ proc[p].at = o

SubmitJob(p) ==
    /\ At(p, "submits") /\ ~Locked(proc[p].at)
    /\ IF child[proc[p].at].status = "none"
         THEN Submit(proc[p].at) /\ Goto(p, "releases")
         ELSE UNCHANGED child /\ Goto(p, "finishes")
    /\ UNCHANGED <<left, late, over, won, occ, state, file, clock, counters>>

ReleaseJob(p) ==
    /\ At(p, "releases")
    /\ \E target \in {"queued", "canceled"} : Release(proc[p].at, target)
    /\ Remember
    /\ Goto(p, "finishes")
    /\ UNCHANGED <<left, late, occ, state, file, clock, counters>>

RecordQueued(p) ==
    /\ At(p, "finishes")
    /\ FinishOccurrence(proc[p].at, "queued")
    /\ Continue(p)
    /\ UNCHANGED <<left, late, queue, state, file, clock, counters>>

SubmissionRaises(p) ==
    /\ proc[p].pc \in {"submits", "releases"} /\ Spare /\ mishaps' = mishaps + 1
    /\ Goto(p, "fails")
    /\ UNCHANGED <<left, late, queue, occ, state, file, clock, edits, turns>>

\* The exception goes on to tick(), which marks the schedule.
RecordFailed(p) ==
    /\ At(p, "fails")
    /\ FinishOccurrence(proc[p].at, "failed")
    /\ IF proc[p].in = "due" THEN Goto(p, "marks") ELSE Continue(p)
    /\ UNCHANGED <<left, late, queue, state, file, clock, counters>>

MarkAttention(p) ==
    /\ At(p, "marks")
    /\ state' = [state EXCEPT !.enabled = FALSE]
    /\ Leave(p)
    /\ UNCHANGED <<left, late, queue, occ, file, clock, counters>>

\* Faulty variant of Following: the next instant after now.
FollowingNow(slot) == clock + 1

\* The next instant after the one that was handled.
Following(slot) == slot + 1

Advance(p) ==
    /\ At(p, "advances")
    /\ state' = [state EXCEPT !.next = Following(proc[p].at)]
    /\ Leave(p)
    /\ UNCHANGED <<left, late, queue, occ, file, clock, counters>>

-----------------------------------------------------------------------------
(***************************************************************************)
(* The web requests.                                                       *)
(***************************************************************************)
\* test_now and run_now; once the row has left their hands, repeating a
\* request changes nothing.
RunNow(o) ==
    /\ At("web", "idle") /\ Trigger[o] # "schedule"
    /\ occ[o].status \in {"none", "claimed", "dispatching"}
    /\ Trigger[o] = "run_now" => state.tested = file
    /\ proc' = [proc EXCEPT !["web"] = [Idle EXCEPT
                   !.pc = "creates", !.in = "web", !.at = o, !.def = file]]
    /\ UNCHANGED <<left, late, queue, occ, state, file, clock, counters>>

AskEnable ==
    /\ At("web", "idle")
    /\ IF state.enabled THEN Turn ELSE UNCHANGED turns
    /\ proc' = [proc EXCEPT !["web"] = [Idle EXCEPT
                   !.pc = "checks", !.in = "web", !.def = file]]
    /\ UNCHANGED <<left, late, queue, occ, state, file, clock, edits, mishaps>>

CheckTested ==
    /\ At("web", "checks")
    /\ IF state.tested = proc["web"].def THEN Goto("web", "enables")
       ELSE Leave("web")
    /\ UNCHANGED <<left, late, queue, occ, state, file, clock, counters>>

\* enable and upsert start the cadence anew, at the next instant from now.
Anew == left \cup {slot \in Slots : state.next <= slot /\ slot <= clock}

Enable ==
    /\ At("web", "enables")
    /\ state' = [state EXCEPT !.enabled = TRUE, !.next = clock + 1]
    /\ left' = Anew
    /\ Leave("web")
    /\ UNCHANGED <<late, queue, occ, file, clock, counters>>

Pause ==
    /\ At("web", "idle") /\ state.enabled /\ edits < EditBound
    /\ state' = [state EXCEPT !.enabled = FALSE]
    /\ edits' = edits + 1
    /\ UNCHANGED <<left, late, queue, occ, file, clock, proc, mishaps, turns>>

\* upsert: save_schedule, then the row.
SaveFile ==
    /\ edits < EditBound /\ file = state.hash
    /\ file' = file + 1 /\ edits' = edits + 1
    /\ UNCHANGED <<left, late, queue, occ, state, clock, proc, mishaps, turns>>

SaveState ==
    /\ file # state.hash
    /\ state' = [hash |-> file, enabled |-> FALSE, tested |-> 0,
                 next |-> clock + 1]
    /\ left' = Anew
    /\ UNCHANGED <<late, queue, occ, file, clock, proc, counters>>

(***************************************************************************)
(* The queue, time and crashes.                                            *)
(***************************************************************************)
\* The straight way of a job.
JobMoves(o) ==
    /\ \/ Claim(o) \/ Exhaust(o) \/ Withdraw(o) \/ Requeue({o})
       \/ ~HasEnded(o) /\ \E status \in Ended : Settle(o, status)
    /\ Remember
    /\ UNCHANGED <<left, late, occ, state, file, clock, proc, counters>>

\* What else ChildJobs allows: a request cancels the job, an attempt is to
\* be repeated, the operator retries a failed job, and a worker whose
\* attempt the reconciler had ended settles an ended one once more.
JobTurns(o) ==
    /\ \/ Active(o) /\ AskCancel({o})
       \/ Renew(o)
       \/ Settle(o, "retry_wait")
       \/ HasEnded(o) /\ \E status \in Ended : Settle(o, status)
    /\ Turn
    /\ Remember
    /\ UNCHANGED <<left, late, occ, state, file, clock, proc, edits, mishaps>>

TimePasses ==
    /\ clock < SlotCount
    /\ clock' = clock + 1
    /\ UNCHANGED <<left, late, queue, occ, state, file, proc, counters>>

Crash(p) ==
    /\ ~At(p, "idle") /\ Spare /\ mishaps' = mishaps + 1
    /\ Leave(p)
    /\ UNCHANGED <<left, late, queue, occ, state, file, clock, edits, turns>>

TickStep(p) ==
    \/ BeginTick(p)
    \/ \E o \in Jobs : ReadJob(p, o) \/ LoadAgain(p, o)
    \/ Project(p) \/ Grant(p) \/ BeginRecovery(p) \/ ReadDue(p) \/ Load(p)
    \/ MarkAttention(p) \/ Advance(p)

\* What ticks and requests have in common.
Execute(p) ==
    \/ CreateOccurrence(p) \/ ClaimDispatch(p) \/ SubmitJob(p)
    \/ ReleaseJob(p) \/ RecordQueued(p) \/ RecordFailed(p)

Next ==
    \/ \E p \in Workers : TickStep(p)
    \/ \E p \in Procs : Execute(p) \/ SubmissionRaises(p) \/ Crash(p)
    \/ \E o \in Jobs : RunNow(o) \/ JobMoves(o) \/ JobTurns(o)
    \/ AskEnable \/ CheckTested \/ Enable \/ Pause
    \/ SaveFile \/ SaveState
    \/ TimePasses

Spec == Init /\ [][Next]_vars
=============================================================================
