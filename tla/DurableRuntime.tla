--------------------------- MODULE DurableRuntime ---------------------------
(***************************************************************************)
(* Durable workers, the web process and the reconciler around the rows of  *)
(* JobStore.  A worker runs one job at a time between four transactions    *)
(* (claim, class, start, finish), with a monitor thread that renews the    *)
(* lease and delivers the cancellation; between jobs it does maintenance:  *)
(* recovery of expired leases, requeueing of due retries, reconciliation   *)
(* of the run records (files of the session store) with the job rows.      *)
(* Whatever a worker keeps in local variables between two transactions is  *)
(* in its task, so that every other process may act in between.            *)
(***************************************************************************)
EXTENDS JobStore

CONSTANTS
    Workers,     \* worker processes (the web process reconciles at startup)
    CrashBound,  \* bound on the crashes of a behaviour
    LeaseSlips   \* may the lease of an attempt lapse while its worker lives?

ASSUME CrashAssumption == CrashBound \in Nat
ASSUME SlipAssumption == LeaseSlips \in BOOLEAN

VARIABLES
    run,       \* the status in the run record of each attempt (session store)
    task,      \* what each worker process is doing
    endpoint,  \* the next step of a web request that cancels or denies a job
    crashes    \* crashes so far

vars == <<job, attempt, made, outbox, run, task, endpoint, crashes>>

TerminalRun == {"succeeded", "failed", "canceled"}
RunStatus == TerminalRun \cup {"none", "queued", "running"}

(***************************************************************************)
(* The local variables of a worker, by where it is.                        *)
(***************************************************************************)
AttemptId == Jobs \X Numbers
Row == [id : AttemptId, over : BOOLEAN]       \* one row of list_attempts()
WorkPc == {"claimed", "classed", "started", "executing"}
OutcomePc == {"ended", "settled"}
HoldPc == WorkPc \cup OutcomePc
Signal == {"none", "cancel", "timeout"}       \* cancel_event and timed_out

Idle == [pc |-> "idle"]
CandidateTask == [pc : {"candidate"}, job : Jobs, fresh : BOOLEAN]
WorkTask == [pc : WorkPc, id : AttemptId, monitor : BOOLEAN, signal : Signal,
             outcome : {"none"}, retry : {FALSE}]
OutcomeTask == [pc : OutcomePc, id : AttemptId, monitor : BOOLEAN,
                signal : Signal, outcome : TerminalRun, retry : BOOLEAN]
HoldTask == WorkTask \cup OutcomeTask
RecoverTask == [pc : {"recovering"}, ids : SUBSET AttemptId]
ScanTask == [pc : {"scanning"}, rows : SUBSET Row]
RepairTask == [pc : {"ending", "judging", "repairing"}, rows : SUBSET Row, row : Row,
               status : TerminalRun]
DrainTask == [pc : {"draining"}, entries : SUBSET Entry]
SettleTask == [pc : {"applying", "settling"}, entries : SUBSET Entry, entry : Entry,
               number : 0 .. AttemptBound, open : BOOLEAN, status : TerminalRun]

Task == {Idle} \cup CandidateTask \cup HoldTask \cup RecoverTask
          \cup ScanTask \cup RepairTask \cup DrainTask \cup SettleTask

TypeOK ==
    /\ StoreTypeOK
    /\ run \in [Jobs -> [Numbers -> RunStatus]]
    /\ task \in [Workers -> Task]
    /\ endpoint \in [Jobs -> {"none", "job", "run"}]
    /\ crashes \in 0 .. CrashBound

Init ==
    /\ StoreInit
    /\ run = [j \in Jobs |-> [n \in Numbers |-> "none"]]
    /\ task = [w \in Workers |-> Idle]
    /\ endpoint = [j \in Jobs |-> "none"]
    /\ crashes = 0

At(w, pc) == task[w].pc = pc
Holds(w, j, n) == task[w].pc \in HoldPc /\ task[w].id = <<j, n>>

\* A write to the rows of js changes their version: every other worker's
\* candidate row for one of them is stale from here on.
StaleFor(js) ==
    [w \in Workers |-> IF task[w].pc = "candidate" /\ task[w].job \in js
                         THEN [task[w] EXCEPT !.fresh = FALSE]
                         ELSE task[w]]

Advance(w, js, next) == task' = [StaleFor(js) EXCEPT ![w] = next]
Elsewhere(js) == task' = StaleFor(js)

SetRun(j, n, status) == run' = [run EXCEPT ![j][n] = status]

-----------------------------------------------------------------------------
(***************************************************************************)
(* The web process: dispatch, approval, cancellation, operator retry.      *)
(***************************************************************************)

\* _submit_locked up to submit_job; jobs are numbered in this order.
Submit(j) ==
    /\ \A i \in Jobs : i < j => job[i].status # "none"
    /\ SubmitJob(j)
    /\ SetRun(j, 1, "queued")
    /\ UNCHANGED <<task, endpoint, crashes>>

\* _submit_locked after the payload is saved and the policy resolved:
\* allow, ask or deny.  A dispatcher that dies before leaves waiting_input.
Dispatch(j, target) ==
    /\ job[j].status = "waiting_input"
    /\ TransitionJob(j, target)
    /\ Elsewhere({j})
    /\ UNCHANGED <<run, endpoint, crashes>>

Approve(j) ==
    /\ DecideApproval(j, "queued")
    /\ Elsewhere({j})
    /\ UNCHANGED <<run, endpoint, crashes>>

\* decide_approval: the run record follows in a second step.
Deny(j) ==
    /\ DecideApproval(j, "canceled")
    /\ endpoint' = [endpoint EXCEPT ![j] = "run"]
    /\ Elsewhere({j})
    /\ UNCHANGED <<run, crashes>>

\* Every canceling endpoint persists the request; ...
Cancel(j) ==
    /\ RequestCancel(j)
    /\ Elsewhere({j})
    /\ UNCHANGED <<run, endpoint, crashes>>

\* ... cancel_run goes on if the job is queued and no attempt has the run:
\* it cancels the job row, then the run record, in two more steps.
CancelUnclaimed(j) ==
    /\ job[j].status = "queued"
    /\ made[j] = 0
    /\ run[j][1] \notin TerminalRun
    /\ RequestCancel(j)
    /\ endpoint' = [endpoint EXCEPT ![j] = "job"]
    /\ Elsewhere({j})
    /\ UNCHANGED <<run, crashes>>

CancelJobRow(j) ==
    /\ endpoint[j] = "job"
    /\ IF job[j].status = "queued"
         THEN /\ TransitionJob(j, "canceled")
              /\ endpoint' = [endpoint EXCEPT ![j] = "run"]
              /\ Elsewhere({j})
         ELSE /\ endpoint' = [endpoint EXCEPT ![j] = "none"]
              /\ UNCHANGED <<storeVars, task>>
    /\ UNCHANGED <<run, crashes>>

CancelRunRecord(j) ==
    /\ endpoint[j] = "run"
    /\ SetRun(j, 1, "canceled")
    /\ endpoint' = [endpoint EXCEPT ![j] = "none"]
    /\ UNCHANGED <<storeVars, task, crashes>>

Retry(j) ==
    /\ RetrySafeJob(j)
    /\ Elsewhere({j})
    /\ UNCHANGED <<run, endpoint, crashes>>

WebCrash ==
    /\ crashes < CrashBound
    /\ \E j \in Jobs : endpoint[j] # "none"
    /\ endpoint' = [j \in Jobs |-> "none"]
    /\ crashes' = crashes + 1
    /\ UNCHANGED <<storeVars, run, task>>

-----------------------------------------------------------------------------
(***************************************************************************)
(* DurableJobWorker.run_once: claim and execute one job.                   *)
(***************************************************************************)
FindCandidate(w, j) ==
    /\ At(w, "idle")
    /\ IsCandidate(j)
    /\ task' = [task EXCEPT ![w] = [pc |-> "candidate", job |-> j, fresh |-> TRUE]]
    /\ UNCHANGED <<storeVars, run, endpoint, crashes>>

Held(j, n) == [pc |-> "claimed", id |-> <<j, n>>, monitor |-> FALSE,
               signal |-> "none", outcome |-> "none", retry |-> FALSE]

ClaimCandidate(w) ==
    /\ At(w, "candidate")
    /\ LET j == task[w].job
       IN  IF task[w].fresh /\ CanClaim(j)
             THEN \/ ClaimJob(j) /\ Advance(w, {j}, Held(j, made[j] + 1))
                  \/ ExhaustJob(j) /\ Advance(w, {j}, Idle)
             ELSE Advance(w, {}, Idle) /\ UNCHANGED storeVars
    /\ UNCHANGED <<run, endpoint, crashes>>

ResolveClass(w) ==
    /\ At(w, "claimed")
    /\ LET j == task[w].id[1]
       IN  SetClass(j, task[w].id[2], IF j \in SafeJobs THEN "safe" ELSE "unsafe")
    /\ task' = [task EXCEPT ![w].pc = "classed"]
    /\ UNCHANGED <<run, endpoint, crashes>>

\* expected_status=CLAIMED: a recovered attempt makes run_once raise, which
\* ends the worker process.
StartAttempt(w) ==
    /\ At(w, "classed")
    /\ LET j == task[w].id[1]
           n == task[w].id[2]
       IN  IF attempt[j][n].status = "claimed"
             THEN /\ TransitionAttempt(j, n, "running")
                  /\ task' = [task EXCEPT ![w].pc = "started", ![w].monitor = TRUE]
             ELSE /\ task' = [task EXCEPT ![w] = Idle]
                  /\ UNCHANGED storeVars
    /\ UNCHANGED <<run, endpoint, crashes>>

\* run_in_session marks the run record running, whatever it was.
BeginRun(w) ==
    /\ At(w, "started")
    /\ SetRun(task[w].id[1], task[w].id[2], "running")
    /\ task' = [task EXCEPT ![w].pc = "executing"]
    /\ UNCHANGED <<storeVars, endpoint, crashes>>

\* One pass of _monitor_attempt: deliver the cancellation, renew the lease.
\* A terminal attempt makes the renewal raise, which ends the thread.
Monitor(w) ==
    /\ task[w].pc \in {"started", "executing", "ended"}
    /\ task[w].monitor
    /\ LET j == task[w].id[1]
           n == task[w].id[2]
           heard == IF job[j].cancel /\ task[w].signal = "none"
                      THEN "cancel" ELSE task[w].signal
       IN  IF IsOver(j, n)
             THEN /\ task' = [task EXCEPT ![w].signal = heard, ![w].monitor = FALSE]
                  /\ UNCHANGED storeVars
             ELSE /\ task' = [task EXCEPT ![w].signal = heard]
                  /\ Heartbeat(j, n)
    /\ UNCHANGED <<run, endpoint, crashes>>

\* The same thread once timeout_seconds have passed.
Timeout(w) ==
    /\ task[w].pc \in {"started", "executing", "ended"}
    /\ task[w].monitor
    /\ task[w].signal # "timeout"
    /\ task' = [task EXCEPT ![w].signal = "timeout"]
    /\ UNCHANGED <<storeVars, run, endpoint, crashes>>

\* The adapter is done; it reports a cancellation only if told to stop.
EndRun(w, status) ==
    /\ At(w, "executing")
    /\ status = "canceled" => task[w].signal # "none"
    /\ SetRun(task[w].id[1], task[w].id[2], status)
    /\ task' = [task EXCEPT ![w].pc = "ended", ![w].outcome = status]
    /\ UNCHANGED <<storeVars, endpoint, crashes>>

\* A timed-out attempt failed, whatever the adapter reported.
SettleOutcome(w) ==
    /\ At(w, "ended")
    /\ LET outcome == IF task[w].signal = "timeout" THEN "failed"
                      ELSE task[w].outcome
       IN  /\ task' = [task EXCEPT ![w].pc = "settled", ![w].outcome = outcome,
                                   ![w].retry = (outcome = "failed")]
           /\ IF task[w].signal = "timeout"
                THEN SetRun(task[w].id[1], task[w].id[2], "failed")
                ELSE UNCHANGED run
    /\ UNCHANGED <<storeVars, endpoint, crashes>>

\* An exception before or during the run: _ensure_failed_run.  A blocked
\* side effect (retry = FALSE) must not be tried again.
RaiseInRun(w, retry) ==
    /\ task[w].pc \in {"started", "executing"}
    /\ SetRun(task[w].id[1], task[w].id[2], "failed")
    /\ task' = [task EXCEPT ![w].pc = "settled", ![w].outcome = "failed",
                            ![w].retry = retry]
    /\ UNCHANGED <<storeVars, endpoint, crashes>>

Finish(w) ==
    /\ At(w, "settled")
    /\ LET j == task[w].id[1]
       IN  /\ FinishAttempt(j, task[w].id[2], task[w].outcome, task[w].retry)
           /\ Advance(w, {j}, Idle)
    /\ UNCHANGED <<run, endpoint, crashes>>

\* The process dies; the next one registers under a new worker id.
Crash(w) ==
    /\ crashes < CrashBound
    /\ ~At(w, "idle")
    /\ task' = [task EXCEPT ![w] = Idle]
    /\ crashes' = crashes + 1
    /\ UNCHANGED <<storeVars, run, endpoint>>

-----------------------------------------------------------------------------
(***************************************************************************)
(* Maintenance: recovery and retries.                                      *)
(***************************************************************************)
StartRecovery(w) ==
    /\ At(w, "idle")
    /\ ExpiredAttempts # {}
    /\ task' = [task EXCEPT ![w] = [pc |-> "recovering", ids |-> ExpiredAttempts]]
    /\ UNCHANGED <<storeVars, run, endpoint, crashes>>

\* The loop body does not look again at the lease or at the status.
RecoverRow(w) ==
    /\ At(w, "recovering")
    /\ \E a \in task[w].ids :
          /\ FinishAttempt(a[1], a[2], "interrupted", TRUE)
          /\ Advance(w, {a[1]},
                     IF task[w].ids = {a} THEN Idle
                     ELSE [pc |-> "recovering", ids |-> task[w].ids \ {a}])
    /\ UNCHANGED <<run, endpoint, crashes>>

Requeue(w) ==
    /\ At(w, "idle")
    /\ RequeueDueJobs
    /\ Advance(w, DueRetries, Idle)
    /\ UNCHANGED <<run, endpoint, crashes>>

-----------------------------------------------------------------------------
(***************************************************************************)
(* Maintenance: RuntimeReconciler.reconcile.                               *)
(***************************************************************************)
AllRows == {[id |-> a, over |-> IsOver(a[1], a[2])] :
              a \in {b \in AttemptId : b[2] <= made[b[1]]}}

StartReconcile(w) ==
    /\ At(w, "idle")
    /\ AllRows # {} \/ outbox # {}
    /\ task' = [task EXCEPT ![w] = [pc |-> "scanning", rows |-> AllRows]]
    /\ UNCHANGED <<storeVars, run, endpoint, crashes>>

\* Read the run record of the next row; only a finished run matters.
ScanRow(w) ==
    /\ At(w, "scanning")
    /\ \E r \in task[w].rows :
         LET rest == task[w].rows \ {r}
             status == run[r.id[1]][r.id[2]]
         IN  task' = [task EXCEPT ![w] =
                        IF status \in TerminalRun
                          THEN [pc |-> IF r.over THEN "judging" ELSE "ending",
                                rows |-> rest, row |-> r, status |-> status]
                          ELSE [pc |-> "scanning", rows |-> rest]]
    /\ UNCHANGED <<storeVars, run, endpoint, crashes>>

\* A finished run ends its attempt.  transition_attempt raises if the
\* attempt has meanwhile ended otherwise, which ends pass and process.
EndAttempt(w) ==
    /\ At(w, "ending")
    /\ LET j == task[w].row.id[1]
           n == task[w].row.id[2]
           status == task[w].status
       IN \/ /\ ~IsOver(j, n)
             /\ TransitionAttempt(j, n, status)
             /\ task' = [task EXCEPT ![w].pc = "judging"]
          \/ /\ attempt[j][n].status = status
             /\ task' = [task EXCEPT ![w].pc = "judging"]
             /\ UNCHANGED storeVars
          \/ /\ attempt[j][n].status \in TerminalAttempt \ {status}
             /\ task' = [task EXCEPT ![w] = Idle]
             /\ UNCHANGED storeVars
    /\ UNCHANGED <<run, endpoint, crashes>>

\* get_job: is there anything to repair, or is a retry pending?
JudgeJob(w) ==
    /\ At(w, "judging")
    /\ LET j == task[w].row.id[1]
           pending == /\ task[w].row.over
                      /\ job[j].status \in {"retry_wait", "queued"}
       IN  task' = [task EXCEPT ![w] =
                      IF IsTerminal(j) \/ pending
                        THEN [pc |-> "scanning", rows |-> task[w].rows]
                        ELSE [task[w] EXCEPT !.pc = "repairing"]]
    /\ UNCHANGED <<storeVars, run, endpoint, crashes>>

\* transition_job without an expected status.
RepairJob(w) ==
    /\ At(w, "repairing")
    /\ LET j == task[w].row.id[1]
           status == task[w].status
           next == [pc |-> "scanning", rows |-> task[w].rows]
       IN \/ TransitionJob(j, status) /\ Advance(w, {j}, next)
          \/ /\ job[j].status = status
             /\ Advance(w, {}, next)
             /\ UNCHANGED storeVars
          \/ /\ IsTerminal(j)
             /\ job[j].status # status
             /\ Advance(w, {}, Idle)
             /\ UNCHANGED storeVars
    /\ UNCHANGED <<run, endpoint, crashes>>

StartDrain(w) ==
    /\ At(w, "scanning")
    /\ task[w].rows = {}
    /\ task' = [task EXCEPT ![w] = [pc |-> "draining", entries |-> outbox]]
    /\ UNCHANGED <<storeVars, run, endpoint, crashes>>

EndReconcile(w) ==
    /\ At(w, "draining")
    /\ task[w].entries = {}
    /\ task' = [task EXCEPT ![w] = Idle]
    /\ UNCHANGED <<storeVars, run, endpoint, crashes>>

\* _apply_outbox_entry reads the job and the attempt.  An entry whose job is
\* not terminal any more fails and stays for a later pass; one without an
\* attempt goes to the latest one, and if there is none it is done with.
EntryNumber(e) == IF e.number = 0 THEN made[e.job] ELSE e.number

ReadEntry(w) ==
    /\ At(w, "draining")
    /\ \E e \in task[w].entries :
         LET n == EntryNumber(e)
             rest == task[w].entries \ {e}
         IN  task' = [task EXCEPT ![w] =
                        IF IsTerminal(e.job)
                          THEN [pc |-> IF n = 0 THEN "settling" ELSE "applying",
                                entries |-> rest, entry |-> e, number |-> n,
                                open |-> n # 0 /\ ~IsOver(e.job, n),
                                status |-> job[e.job].status]
                          ELSE [pc |-> "draining", entries |-> rest]]
    /\ UNCHANGED <<storeVars, run, endpoint, crashes>>

\* update_run gives the run the status the job had; a missing run record
\* makes the entry fail.
ApplyEntry(w) ==
    /\ At(w, "applying")
    /\ LET j == task[w].entry.job
           n == task[w].number
       IN \/ /\ run[j][n] # "none"
             /\ SetRun(j, n, task[w].status)
             /\ task' = [task EXCEPT ![w].pc = "settling"]
          \/ /\ run[j][n] = "none"
             /\ task' = [task EXCEPT ![w] =
                           [pc |-> "draining", entries |-> task[w].entries]]
             /\ UNCHANGED run
    /\ UNCHANGED <<storeVars, endpoint, crashes>>

\* The rest of _apply_outbox_entry and mark_outbox_processed.
SettleEntry(w) ==
    /\ At(w, "settling")
    /\ LET t == task[w]
           j == t.entry.job
       IN /\ task' = [task EXCEPT ![w] = [pc |-> "draining", entries |-> t.entries]]
          /\ \/ /\ t.open => attempt[j][t.number].status = t.status
                /\ outbox' = outbox \ {t.entry}
                /\ UNCHANGED attempt
             \/ /\ t.open
                /\ ~IsOver(j, t.number)
                /\ attempt' = [attempt EXCEPT ![j][t.number].status = t.status]
                /\ outbox' = outbox \ {t.entry}
             \/ /\ t.open
                /\ IsOver(j, t.number)
                /\ attempt[j][t.number].status # t.status
                /\ UNCHANGED <<attempt, outbox>>
    /\ UNCHANGED <<job, made, run, endpoint, crashes>>

-----------------------------------------------------------------------------
(***************************************************************************)
(* The clock.                                                              *)
(***************************************************************************)
ExpireLease(j, n) ==
    /\ LeaseSlips \/ ~\E w \in Workers : Holds(w, j, n)
    /\ LeaseExpires(j, n)
    /\ UNCHANGED <<run, task, endpoint, crashes>>

FallDue(j) ==
    /\ RetryFallsDue(j)
    /\ UNCHANGED <<run, task, endpoint, crashes>>

-----------------------------------------------------------------------------
Web(j) ==
    \/ Submit(j)
    \/ \E target \in {"queued", "waiting_approval", "canceled"} : Dispatch(j, target)
    \/ Approve(j) \/ Deny(j)
    \/ Cancel(j) \/ CancelUnclaimed(j) \/ CancelJobRow(j) \/ CancelRunRecord(j)
    \/ Retry(j)

Execute(w) ==
    \/ ClaimCandidate(w) \/ ResolveClass(w) \/ StartAttempt(w) \/ BeginRun(w)
    \/ \E status \in TerminalRun : EndRun(w, status)
    \/ \E retry \in BOOLEAN : RaiseInRun(w, retry)
    \/ SettleOutcome(w) \/ Finish(w)

Reconcile(w) ==
    \/ ScanRow(w) \/ EndAttempt(w) \/ JudgeJob(w) \/ RepairJob(w)
    \/ StartDrain(w) \/ ReadEntry(w) \/ ApplyEntry(w) \/ SettleEntry(w)
    \/ EndReconcile(w)

Worker(w) ==
    \/ \E j \in Jobs : FindCandidate(w, j)
    \/ Execute(w)
    \/ Monitor(w) \/ Timeout(w) \/ Crash(w)
    \/ StartRecovery(w) \/ RecoverRow(w) \/ Requeue(w)
    \/ StartReconcile(w) \/ Reconcile(w)

Clock(j) == FallDue(j) \/ \E n \in Numbers : ExpireLease(j, n)

Next ==
    \/ \E j \in Jobs : Web(j) \/ Clock(j)
    \/ \E w \in Workers : Worker(w)
    \/ WebCrash

Spec == Init /\ [][Next]_vars
=============================================================================
