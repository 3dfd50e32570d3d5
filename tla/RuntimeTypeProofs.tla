-------------------------- MODULE RuntimeTypeProofs --------------------------
(***************************************************************************)
(* Type correctness of DurableRuntime: every transaction of the store,     *)
(* every step of a worker and every web request keeps TypeOK.  The lemmas  *)
(* follow the modules: first the methods of JobStore, then the steps       *)
(* around them.                                                            *)
(***************************************************************************)
EXTENDS RuntimeProperties, TLAPS

\* A write to one column of one attempt row (status, idempotency_class or
\* lease) leaves the job_attempts table well typed.
LEMMA RowUpdateType ==
  ASSUME StoreTypeOK, NEW j \in Jobs, NEW n \in Numbers
  PROVE  /\ \A s \in AttemptStatus :
              [attempt EXCEPT ![j][n].status = s] \in [Jobs -> [Numbers -> AttemptRow]]
         /\ \A c \in Class :
              [attempt EXCEPT ![j][n].class = c] \in [Jobs -> [Numbers -> AttemptRow]]
         /\ \A b \in BOOLEAN :
              [attempt EXCEPT ![j][n].expired = b] \in [Jobs -> [Numbers -> AttemptRow]]
<1> DEFINE row == attempt[j][n]
<1>1. attempt[j] \in [Numbers -> AttemptRow] /\ row \in AttemptRow
  BY DEF StoreTypeOK
<1>2. ASSUME NEW r \in AttemptRow
      PROVE  [attempt EXCEPT ![j][n] = r] \in [Jobs -> [Numbers -> AttemptRow]]
  <2>1. [attempt[j] EXCEPT ![n] = r] \in [Numbers -> AttemptRow]
    BY <1>1
  <2> QED
    BY <2>1 DEF StoreTypeOK
<1>3. /\ \A s \in AttemptStatus : [row EXCEPT !.status = s] \in AttemptRow
      /\ \A c \in Class : [row EXCEPT !.class = c] \in AttemptRow
      /\ \A b \in BOOLEAN : [row EXCEPT !.expired = b] \in AttemptRow
  BY <1>1 DEF AttemptRow
<1> QED
  BY <1>2, <1>3

\* finish_attempt leaves the store well typed whatever outcome it is called
\* with: an interrupted attempt settles its job as failed.
LEMMA FinishAttemptType ==
  ASSUME StoreTypeOK, NEW j \in Jobs, NEW n \in Numbers,
         NEW status \in TerminalAttempt, NEW retry \in BOOLEAN,
         FinishAttempt(j, n, status, retry)
  PROVE  StoreTypeOK'
<1>1. SettledStatus(status) \in TerminalJob
  BY DEF SettledStatus, TerminalAttempt, TerminalJob
<1>2. attempt' \in [Jobs -> [Numbers -> AttemptRow]]
  BY RowUpdateType DEF StoreTypeOK, FinishAttempt, AttemptStatus
<1>3. job' \in [Jobs -> JobRow]
  <2>1. CASE Retryable(j, n, status, retry)
    BY <2>1 DEF StoreTypeOK, FinishAttempt, JobRow, JobStatus
  <2>2. CASE ~Retryable(j, n, status, retry)
    BY <1>1, <2>2 DEF StoreTypeOK, FinishAttempt, JobRow, JobStatus
  <2> QED
    BY <2>1, <2>2
<1>4. outbox' \subseteq Entry
  BY <1>1 DEF StoreTypeOK, FinishAttempt, Entry, Sync, Numbers
<1> QED
  BY <1>2, <1>3, <1>4 DEF StoreTypeOK, FinishAttempt

\* transition_job leaves the store well typed.
LEMMA TransitionJobType ==
  ASSUME StoreTypeOK, NEW j \in Jobs, NEW target \in JobStatus,
         TransitionJob(j, target)
  PROVE  StoreTypeOK'
<1>1. job' \in [Jobs -> JobRow]
  BY DEF StoreTypeOK, TransitionJob, JobRow
<1>2. outbox' \subseteq Entry
  BY DEF StoreTypeOK, TransitionJob, Entry, Sync
<1> QED
  BY <1>1, <1>2 DEF StoreTypeOK, TransitionJob

\* The job part of decide_approval_request leaves the store well typed.
LEMMA DecideApprovalType ==
  ASSUME StoreTypeOK, NEW j \in Jobs, NEW target \in {"queued", "canceled"},
         DecideApproval(j, target)
  PROVE  StoreTypeOK'
<1>1. job' \in [Jobs -> JobRow]
  BY DEF StoreTypeOK, DecideApproval, JobRow, JobStatus, TerminalJob
<1>2. outbox' \subseteq Entry
  BY BoundAssumption DEF StoreTypeOK, DecideApproval, Entry, Sync, TerminalJob
<1> QED
  BY <1>1, <1>2 DEF StoreTypeOK, DecideApproval

\* retry_safe_job leaves the store well typed; the raised max_attempts stays
\* within the bound on attempt rows.
LEMMA RetrySafeJobType ==
  ASSUME StoreTypeOK, NEW j \in Jobs, RetrySafeJob(j)
  PROVE  StoreTypeOK'
<1>1. made[j] + 1 \in Numbers
  BY BoundAssumption DEF StoreTypeOK, RetrySafeJob, Numbers
<1>2. job' \in [Jobs -> JobRow]
  BY <1>1 DEF StoreTypeOK, RetrySafeJob, JobRow, JobStatus
<1> QED
  BY <1>2 DEF StoreTypeOK, RetrySafeJob

\* requeue_due_jobs leaves the store well typed.
LEMMA RequeueDueJobsType ==
  ASSUME StoreTypeOK, RequeueDueJobs
  PROVE  StoreTypeOK'
<1>1. job' \in [Jobs -> JobRow]
  BY DEF StoreTypeOK, RequeueDueJobs, JobRow, JobStatus
<1> QED
  BY <1>1 DEF StoreTypeOK, RequeueDueJobs

\* A claim leaves the store well typed, and the number of the attempt it
\* inserts is the number of a row.
LEMMA ClaimJobType ==
  ASSUME StoreTypeOK, NEW j \in Jobs, ClaimJob(j)
  PROVE  StoreTypeOK' /\ made[j] + 1 \in Numbers
<1>1. job' \in [Jobs -> JobRow]
  BY DEF StoreTypeOK, ClaimJob, JobRow, JobStatus
<1>2. made[j] + 1 \in Numbers
  BY BoundAssumption DEF StoreTypeOK, ClaimJob, Numbers, JobRow
<1>3. made' \in [Jobs -> 0 .. AttemptBound]
  BY <1>2, BoundAssumption DEF StoreTypeOK, ClaimJob, Numbers
<1>4. attempt' \in [Jobs -> [Numbers -> AttemptRow]]
  BY <1>2 DEF StoreTypeOK, ClaimJob, AttemptRow, AttemptStatus, LiveAttempt, Class
<1> QED
  BY <1>1, <1>2, <1>3, <1>4 DEF StoreTypeOK, ClaimJob

\* The failing branch of a claim leaves the store well typed.
LEMMA ExhaustJobType ==
  ASSUME StoreTypeOK, NEW j \in Jobs, ExhaustJob(j)
  PROVE  StoreTypeOK'
<1>1. job' \in [Jobs -> JobRow]
  BY DEF StoreTypeOK, ExhaustJob, JobRow, JobStatus, TerminalJob
<1> QED
  BY <1>1 DEF StoreTypeOK, ExhaustJob

\* transition_attempt leaves the store well typed.
LEMMA TransitionAttemptType ==
  ASSUME StoreTypeOK, NEW j \in Jobs, NEW n \in Numbers,
         NEW target \in AttemptStatus, TransitionAttempt(j, n, target)
  PROVE  StoreTypeOK'
BY RowUpdateType DEF StoreTypeOK, TransitionAttempt

\* What a worker process has in its local variables follows from the place
\* in run_once, recover_expired_attempts or reconcile where it is.
LEMMA TaskByPc ==
  ASSUME task \in [Workers -> Task], NEW w \in Workers
  PROVE  /\ At(w, "candidate") => task[w] \in CandidateTask
         /\ task[w].pc \in HoldPc => task[w] \in HoldTask
         /\ At(w, "recovering") => task[w] \in RecoverTask
         /\ At(w, "scanning") => task[w] \in ScanTask
         /\ task[w].pc \in {"ending", "judging", "repairing"} => task[w] \in RepairTask
         /\ At(w, "draining") => task[w] \in DrainTask
         /\ task[w].pc \in {"applying", "settling"} => task[w] \in SettleTask
<1> USE DEF At, WorkPc, OutcomePc, HoldPc
<1>1. CASE task[w] = Idle
  BY <1>1 DEF Idle
<1>2. CASE task[w] \in CandidateTask
  BY <1>2 DEF CandidateTask
<1>3. CASE task[w] \in HoldTask
  BY <1>3 DEF HoldTask, WorkTask, OutcomeTask
<1>4. CASE task[w] \in RecoverTask
  BY <1>4 DEF RecoverTask
<1>5. CASE task[w] \in ScanTask
  BY <1>5 DEF ScanTask
<1>6. CASE task[w] \in RepairTask
  BY <1>6 DEF RepairTask
<1>7. CASE task[w] \in DrainTask
  BY <1>7 DEF DrainTask
<1>8. CASE task[w] \in SettleTask
  BY <1>8 DEF SettleTask
<1> QED
  BY <1>1, <1>2, <1>3, <1>4, <1>5, <1>6, <1>7, <1>8 DEF Task

\* A write by another process, which outdates candidate rows, leaves every
\* worker's local variables well typed.
LEMMA StaleType ==
  ASSUME task \in [Workers -> Task], NEW js
  PROVE  StaleFor(js) \in [Workers -> Task]
<1>1. ASSUME NEW w \in Workers, task[w].pc = "candidate"
      PROVE  [task[w] EXCEPT !.fresh = FALSE] \in Task
  BY <1>1, TaskByPc DEF At, CandidateTask, Task
<1> QED
  BY <1>1 DEF StaleFor

\* Every step of a web request (dispatch, approval, cancellation, retry)
\* keeps the type invariant.
LEMMA WebType ==
  ASSUME TypeOK, NEW j \in Jobs, Web(j)
  PROVE  TypeOK'
<1> USE DEF TypeOK
<1>s. \A js : StaleFor(js) \in [Workers -> Task]
  BY StaleType
<1>1. CASE Submit(j)
  <2>1. job' \in [Jobs -> JobRow]
    BY <1>1 DEF Submit, SubmitJob, StoreTypeOK, JobRow, JobStatus, WaitingJob
  <2>2. run' \in [Jobs -> [Numbers -> RunStatus]]
    BY <1>1 DEF Submit, SetRun, RunStatus
  <2> QED
    BY <1>1, <2>1, <2>2 DEF Submit, SubmitJob, StoreTypeOK
<1>2. ASSUME NEW target \in {"queued", "waiting_approval", "canceled"},
             Dispatch(j, target)
      PROVE  TypeOK'
  <2>1. StoreTypeOK'
    BY <1>2, TransitionJobType DEF Dispatch, JobStatus, WaitingJob, TerminalJob
  <2> QED
    BY <1>2, <1>s, <2>1 DEF Dispatch, Elsewhere
<1>3. CASE Approve(j)
  <2>1. StoreTypeOK'
    BY <1>3, DecideApprovalType DEF Approve
  <2> QED
    BY <1>3, <1>s, <2>1 DEF Approve, Elsewhere
<1>4. CASE Deny(j)
  <2>1. StoreTypeOK'
    BY <1>4, DecideApprovalType DEF Deny
  <2> QED
    BY <1>4, <1>s, <2>1 DEF Deny, Elsewhere
<1>5. CASE Cancel(j)
  <2>1. job' \in [Jobs -> JobRow]
    BY <1>5 DEF Cancel, RequestCancel, StoreTypeOK, JobRow
  <2> QED
    BY <1>5, <1>s, <2>1 DEF Cancel, RequestCancel, StoreTypeOK, Elsewhere
<1>6. CASE CancelUnclaimed(j)
  <2>1. job' \in [Jobs -> JobRow]
    BY <1>6 DEF CancelUnclaimed, RequestCancel, StoreTypeOK, JobRow
  <2> QED
    BY <1>6, <1>s, <2>1 DEF CancelUnclaimed, RequestCancel, StoreTypeOK, Elsewhere
<1>7. CASE CancelJobRow(j)
  <2>1. StoreTypeOK' /\ task' \in [Workers -> Task]
    BY <1>7, <1>s, TransitionJobType
       DEF CancelJobRow, Elsewhere, storeVars, StoreTypeOK, JobStatus, TerminalJob
  <2> QED
    BY <1>7, <2>1 DEF CancelJobRow
<1>8. CASE CancelRunRecord(j)
  <2>1. run' \in [Jobs -> [Numbers -> RunStatus]]
    BY <1>8 DEF CancelRunRecord, SetRun, RunStatus, TerminalRun
  <2> QED
    BY <1>8, <2>1 DEF CancelRunRecord, storeVars, StoreTypeOK
<1>9. CASE Retry(j)
  <2>1. StoreTypeOK'
    BY <1>9, RetrySafeJobType DEF Retry
  <2> QED
    BY <1>9, <1>s, <2>1 DEF Retry, Elsewhere
<1> QED
  BY <1>1, <1>2, <1>3, <1>4, <1>5, <1>6, <1>7, <1>8, <1>9 DEF Web

\* Writing a run record's status keeps the run records well typed.
LEMMA RunType ==
  ASSUME run \in [Jobs -> [Numbers -> RunStatus]], NEW j, NEW n,
         NEW status \in RunStatus, SetRun(j, n, status)
  PROVE  run' \in [Jobs -> [Numbers -> RunStatus]]
<1>1. CASE j \in Jobs
  <2>1. [run[j] EXCEPT ![n] = status] \in [Numbers -> RunStatus]
    BY <1>1
  <2> QED
    BY <1>1, <2>1 DEF SetRun
<1>2. CASE j \notin Jobs
  BY <1>2 DEF SetRun
<1> QED
  BY <1>1, <1>2

\* The updates run_once makes to the local variables of a worker that holds
\* an attempt keep them well typed.
LEMMA HoldTaskType ==
  ASSUME NEW t \in HoldTask
  PROVE  /\ t.id[1] \in Jobs /\ t.id[2] \in Numbers
         /\ t.pc \in WorkPc => t \in WorkTask
         /\ t.pc \in OutcomePc => t \in OutcomeTask
         /\ t \in WorkTask =>
              /\ \A pc \in WorkPc : [t EXCEPT !.pc = pc] \in HoldTask
              /\ \A pc \in WorkPc, b \in BOOLEAN :
                   [t EXCEPT !.pc = pc, !.monitor = b] \in HoldTask
         /\ \A pc \in OutcomePc, o \in TerminalRun :
              [t EXCEPT !.pc = pc, !.outcome = o] \in HoldTask
         /\ \A pc \in OutcomePc, o \in TerminalRun, b \in BOOLEAN :
              [t EXCEPT !.pc = pc, !.outcome = o, !.retry = b] \in HoldTask
         /\ \A g \in Signal : [t EXCEPT !.signal = g] \in HoldTask
         /\ \A g \in Signal, b \in BOOLEAN :
              [t EXCEPT !.signal = g, !.monitor = b] \in HoldTask
<1>1. CASE t \in WorkTask
  BY <1>1 DEF HoldTask, WorkTask, OutcomeTask, AttemptId, WorkPc, OutcomePc
<1>2. CASE t \in OutcomeTask
  BY <1>2 DEF HoldTask, WorkTask, OutcomeTask, AttemptId, WorkPc, OutcomePc
<1> QED
  BY <1>1, <1>2 DEF HoldTask

\* Every step of run_once and of its monitor thread keeps the type
\* invariant, and so does the death of the worker.
LEMMA ExecuteType ==
  ASSUME TypeOK, NEW w \in Workers,
         \/ \E j \in Jobs : FindCandidate(w, j)
         \/ Execute(w)
         \/ Monitor(w) \/ Timeout(w) \/ Crash(w)
  PROVE  TypeOK'
<1> USE DEF TypeOK
<1>s. \A js : StaleFor(js) \in [Workers -> Task]
  BY StaleType
<1>i. Idle \in Task /\ HoldTask \subseteq Task /\ CandidateTask \subseteq Task
  BY DEF Task
<1>h. /\ task[w].pc \in HoldPc =>
           task[w] \in HoldTask /\ task[w].id[1] \in Jobs /\ task[w].id[2] \in Numbers
      /\ task[w].pc \in WorkPc => task[w] \in WorkTask
      /\ task[w].pc \in OutcomePc => task[w] \in OutcomeTask
  <2>1. task[w].pc \in HoldPc => task[w] \in HoldTask
    BY TaskByPc
  <2> QED
    BY <2>1, HoldTaskType DEF HoldPc
<1>1. ASSUME NEW j \in Jobs, FindCandidate(w, j)
      PROVE  TypeOK'
  <2>1. [pc |-> "candidate", job |-> j, fresh |-> TRUE] \in Task
    BY DEF Task, CandidateTask
  <2> QED
    BY <1>1, <2>1 DEF FindCandidate, storeVars, StoreTypeOK
<1>2. CASE ClaimCandidate(w)
  <2> DEFINE j == task[w].job
  <2>1. j \in Jobs
    BY <1>2, TaskByPc DEF ClaimCandidate, CandidateTask
  <2>2. CASE ClaimJob(j) /\ Advance(w, {j}, Held(j, made[j] + 1))
    <3>1. StoreTypeOK' /\ made[j] + 1 \in Numbers
      BY <2>1, <2>2, ClaimJobType
    <3>2. Held(j, made[j] + 1) \in Task
      BY <2>1, <3>1 DEF Held, Task, HoldTask, WorkTask, WorkPc, AttemptId, Signal
    <3> QED
      BY <1>2, <1>s, <2>2, <3>1, <3>2 DEF ClaimCandidate, Advance
  <2>3. CASE ExhaustJob(j) /\ Advance(w, {j}, Idle)
    BY <1>2, <1>s, <1>i, <2>1, <2>3, ExhaustJobType DEF ClaimCandidate, Advance
  <2>4. CASE Advance(w, {}, Idle) /\ UNCHANGED storeVars
    BY <1>2, <1>s, <1>i, <2>4 DEF ClaimCandidate, Advance, storeVars, StoreTypeOK
  <2> QED
    BY <1>2, <2>2, <2>3, <2>4 DEF ClaimCandidate
<1>3. CASE ResolveClass(w)
  <2>1. task[w] \in WorkTask /\ task[w].id[1] \in Jobs /\ task[w].id[2] \in Numbers
    BY <1>3, <1>h DEF ResolveClass, At, HoldPc, WorkPc
  <2>2. attempt' \in [Jobs -> [Numbers -> AttemptRow]]
    BY <1>3, <2>1, RowUpdateType DEF ResolveClass, SetClass, Class
  <2>3. [task[w] EXCEPT !.pc = "classed"] \in Task
    BY <2>1, <1>i, HoldTaskType DEF HoldTask, WorkPc, OutcomePc
  <2> QED
    BY <1>3, <2>2, <2>3 DEF ResolveClass, SetClass, StoreTypeOK
<1>4. CASE StartAttempt(w)
  <2>1. task[w] \in WorkTask /\ task[w].id[1] \in Jobs /\ task[w].id[2] \in Numbers
    BY <1>4, <1>h DEF StartAttempt, At, HoldPc, WorkPc
  <2>2. [task[w] EXCEPT !.pc = "started", !.monitor = TRUE] \in Task
    BY <2>1, <1>i, HoldTaskType DEF HoldTask, WorkPc, OutcomePc
  <2>3. StoreTypeOK'
    BY <1>4, <2>1, TransitionAttemptType
       DEF StartAttempt, storeVars, StoreTypeOK, AttemptStatus, LiveAttempt
  <2>4. task' \in [Workers -> Task]
    BY <1>4, <1>i, <2>2 DEF StartAttempt
  <2> QED
    BY <1>4, <2>3, <2>4 DEF StartAttempt
<1>5. CASE BeginRun(w)
  <2>1. task[w] \in WorkTask
    BY <1>5, <1>h DEF BeginRun, At, WorkPc
  <2>2. [task[w] EXCEPT !.pc = "executing"] \in Task
    BY <2>1, <1>i, HoldTaskType DEF HoldTask, WorkPc, OutcomePc
  <2>3. run' \in [Jobs -> [Numbers -> RunStatus]]
    BY <1>5, RunType DEF BeginRun, RunStatus
  <2> QED
    BY <1>5, <2>2, <2>3 DEF BeginRun, storeVars, StoreTypeOK
<1>6. ASSUME NEW status \in TerminalRun, EndRun(w, status)
      PROVE  TypeOK'
  <2>1. task[w] \in HoldTask
    BY <1>6, <1>h DEF EndRun, At, HoldPc, WorkPc
  <2>2. [task[w] EXCEPT !.pc = "ended", !.outcome = status] \in Task
    BY <2>1, <1>i, HoldTaskType DEF HoldTask, WorkPc, OutcomePc
  <2>3. run' \in [Jobs -> [Numbers -> RunStatus]]
    BY <1>6, RunType DEF EndRun, RunStatus
  <2> QED
    BY <1>6, <2>2, <2>3 DEF EndRun, storeVars, StoreTypeOK
<1>7. ASSUME NEW retry \in BOOLEAN, RaiseInRun(w, retry)
      PROVE  TypeOK'
  <2>1. task[w] \in HoldTask
    BY <1>7, <1>h DEF RaiseInRun, HoldPc, WorkPc
  <2>2. [task[w] EXCEPT !.pc = "settled", !.outcome = "failed", !.retry = retry] \in Task
    BY <2>1, <1>i, HoldTaskType DEF OutcomePc, TerminalRun
  <2>3. run' \in [Jobs -> [Numbers -> RunStatus]]
    BY <1>7, RunType DEF RaiseInRun, RunStatus, TerminalRun
  <2> QED
    BY <1>7, <2>2, <2>3 DEF RaiseInRun, storeVars, StoreTypeOK
<1>8. CASE SettleOutcome(w)
  <2> DEFINE outcome == IF task[w].signal = "timeout" THEN "failed"
                        ELSE task[w].outcome
  <2>1. task[w] \in OutcomeTask
    BY <1>8, <1>h DEF SettleOutcome, At, OutcomePc
  <2>2. [task[w] EXCEPT !.pc = "settled", !.outcome = outcome,
                        !.retry = (outcome = "failed")] \in OutcomeTask
    BY <2>1 DEF OutcomePc, OutcomeTask, TerminalRun
  <2>3. run' \in [Jobs -> [Numbers -> RunStatus]]
    BY <1>8, RunType DEF SettleOutcome, RunStatus, TerminalRun
  <2> QED
    BY <1>8, <1>i, <2>2, <2>3 DEF HoldTask, SettleOutcome, storeVars, StoreTypeOK
<1>9. CASE Finish(w)
  <2>1. task[w] \in OutcomeTask /\ task[w].id[1] \in Jobs /\ task[w].id[2] \in Numbers
    BY <1>9, <1>h DEF Finish, At, HoldPc, OutcomePc
  <2>2. task[w].outcome \in TerminalAttempt /\ task[w].retry \in BOOLEAN
    BY <2>1 DEF OutcomeTask, TerminalRun, TerminalAttempt
  <2>3. StoreTypeOK'
    BY <1>9, <2>1, <2>2, FinishAttemptType DEF Finish
  <2> QED
    BY <1>9, <1>s, <1>i, <2>3 DEF Finish, Advance
<1>10. CASE Monitor(w)
  <2>1. task[w] \in HoldTask /\ task[w].id[1] \in Jobs /\ task[w].id[2] \in Numbers
    BY <1>10, <1>h DEF Monitor, HoldPc, WorkPc, OutcomePc
  <2>2. task[w].signal \in Signal
    BY <2>1 DEF HoldTask, WorkTask, OutcomeTask
  <2>3. task' \in [Workers -> Task]
    BY <1>10, <1>i, <2>1, <2>2, HoldTaskType DEF Monitor, Signal
  <2>4. CASE UNCHANGED storeVars
    BY <1>10, <2>3, <2>4 DEF Monitor, storeVars, StoreTypeOK
  <2>5. CASE Heartbeat(task[w].id[1], task[w].id[2])
    <3>1. attempt' \in [Jobs -> [Numbers -> AttemptRow]]
      BY <2>1, <2>5, RowUpdateType DEF Heartbeat
    <3> QED
      BY <1>10, <2>3, <2>5, <3>1 DEF Monitor, Heartbeat, StoreTypeOK
  <2> QED
    BY <1>10, <2>4, <2>5 DEF Monitor
<1>11. CASE Timeout(w)
  <2>1. [task[w] EXCEPT !.signal = "timeout"] \in Task
    BY <1>11, <1>h, <1>i, HoldTaskType DEF Timeout, HoldPc, WorkPc, OutcomePc, Signal
  <2> QED
    BY <1>11, <2>1 DEF Timeout, storeVars, StoreTypeOK
<1>12. CASE Crash(w)
  BY <1>12, <1>i, CrashAssumption DEF Crash, storeVars, StoreTypeOK
<1> QED
  BY <1>1, <1>2, <1>3, <1>4, <1>5, <1>6, <1>7, <1>8, <1>9, <1>10, <1>11, <1>12 DEF Execute

\* Recovery of expired leases, requeueing and the start of reconcile keep
\* the type invariant.
LEMMA MaintainType ==
  ASSUME TypeOK, NEW w \in Workers,
         StartRecovery(w) \/ RecoverRow(w) \/ Requeue(w) \/ StartReconcile(w)
  PROVE  TypeOK'
<1> USE DEF TypeOK
<1>s. \A js : StaleFor(js) \in [Workers -> Task]
  BY StaleType
<1>i. Idle \in Task /\ RecoverTask \subseteq Task /\ ScanTask \subseteq Task
  BY DEF Task
<1>1. CASE StartRecovery(w)
  <2>1. [pc |-> "recovering", ids |-> ExpiredAttempts] \in RecoverTask
    BY DEF RecoverTask, ExpiredAttempts, AttemptId
  <2> QED
    BY <1>1, <1>i, <2>1 DEF StartRecovery, storeVars, StoreTypeOK
<1>2. CASE RecoverRow(w)
  <2>1. task[w].ids \in SUBSET AttemptId
    BY <1>2, TaskByPc DEF RecoverRow, RecoverTask
  <2>2. PICK a \in task[w].ids :
          /\ FinishAttempt(a[1], a[2], "interrupted", TRUE)
          /\ Advance(w, {a[1]},
                     IF task[w].ids = {a} THEN Idle
                     ELSE [pc |-> "recovering", ids |-> task[w].ids \ {a}])
    BY <1>2 DEF RecoverRow
  <2>3. a[1] \in Jobs /\ a[2] \in Numbers
    BY <2>1 DEF AttemptId
  <2>4. StoreTypeOK'
    BY <2>2, <2>3, FinishAttemptType DEF TerminalAttempt
  <2>5. [pc |-> "recovering", ids |-> task[w].ids \ {a}] \in RecoverTask
    BY <2>1 DEF RecoverTask
  <2> QED
    BY <1>2, <1>s, <1>i, <2>2, <2>4, <2>5 DEF RecoverRow, Advance
<1>3. CASE Requeue(w)
  BY <1>3, <1>s, <1>i, RequeueDueJobsType DEF Requeue, Advance
<1>4. CASE StartReconcile(w)
  <2>1. AllRows \in SUBSET Row
    <3>1. \A j, n : IsOver(j, n) \in BOOLEAN
      BY DEF IsOver
    <3>2. ASSUME NEW a \in AttemptId
          PROVE  [id |-> a, over |-> IsOver(a[1], a[2])] \in Row
      BY <3>1 DEF Row
    <3> QED
      BY <3>2 DEF AllRows
  <2>2. [pc |-> "scanning", rows |-> AllRows] \in ScanTask
    BY <2>1 DEF ScanTask
  <2> QED
    BY <1>4, <1>i, <2>2 DEF StartReconcile, storeVars, StoreTypeOK
<1> QED
  BY <1>1, <1>2, <1>3, <1>4

\* The scan of reconcile, which ends attempts and repairs jobs after their
\* run records, keeps the type invariant.
LEMMA RepairType ==
  ASSUME TypeOK, NEW w \in Workers,
         ScanRow(w) \/ EndAttempt(w) \/ JudgeJob(w) \/ RepairJob(w)
  PROVE  TypeOK'
<1> USE DEF TypeOK
<1>s. \A js : StaleFor(js) \in [Workers -> Task]
  BY StaleType
<1>i. Idle \in Task /\ ScanTask \subseteq Task /\ RepairTask \subseteq Task
  BY DEF Task
<1>r. ASSUME task[w].pc \in {"ending", "judging", "repairing"}
      PROVE  /\ task[w].row.id[1] \in Jobs /\ task[w].row.id[2] \in Numbers
             /\ task[w].status \in TerminalRun
             /\ task[w].status \in TerminalJob \cap JobStatus \cap AttemptStatus
             /\ \A pc \in {"ending", "judging", "repairing"} :
                  [task[w] EXCEPT !.pc = pc] \in RepairTask
             /\ [pc |-> "scanning", rows |-> task[w].rows] \in ScanTask
  <2>1. task[w] \in RepairTask
    BY <1>r, TaskByPc
  <2> QED
    BY <2>1 DEF RepairTask, ScanTask, Row, AttemptId, TerminalRun, TerminalJob,
                JobStatus, AttemptStatus, TerminalAttempt
<1>1. CASE ScanRow(w)
  <2>1. task[w].rows \in SUBSET Row
    BY <1>1, TaskByPc DEF ScanRow, ScanTask
  <2>2. PICK r \in task[w].rows :
          task' = [task EXCEPT ![w] =
                     IF run[r.id[1]][r.id[2]] \in TerminalRun
                       THEN [pc |-> IF r.over THEN "judging" ELSE "ending",
                             rows |-> task[w].rows \ {r}, row |-> r,
                             status |-> run[r.id[1]][r.id[2]]]
                       ELSE [pc |-> "scanning", rows |-> task[w].rows \ {r}]]
    BY <1>1 DEF ScanRow
  <2>3. [pc |-> "scanning", rows |-> task[w].rows \ {r}] \in ScanTask
    BY <2>1 DEF ScanTask
  <2>4. ASSUME run[r.id[1]][r.id[2]] \in TerminalRun
        PROVE  [pc |-> IF r.over THEN "judging" ELSE "ending",
                rows |-> task[w].rows \ {r}, row |-> r,
                status |-> run[r.id[1]][r.id[2]]] \in RepairTask
    BY <2>1, <2>4 DEF RepairTask
  <2> QED
    BY <1>1, <1>i, <2>2, <2>3, <2>4 DEF ScanRow, storeVars, StoreTypeOK
<1>2. CASE EndAttempt(w)
  <2>1. task' \in [Workers -> Task]
    BY <1>2, <1>i, <1>r DEF EndAttempt, At
  <2>2. StoreTypeOK'
    BY <1>2, <1>r, TransitionAttemptType DEF EndAttempt, At, storeVars, StoreTypeOK
  <2> QED
    BY <1>2, <2>1, <2>2 DEF EndAttempt
<1>3. CASE JudgeJob(w)
  BY <1>3, <1>i, <1>r DEF JudgeJob, At, storeVars, StoreTypeOK
<1>4. CASE RepairJob(w)
  <2>1. task' \in [Workers -> Task]
    BY <1>4, <1>s, <1>i, <1>r DEF RepairJob, At, Advance
  <2>2. StoreTypeOK'
    BY <1>4, <1>r, TransitionJobType DEF RepairJob, At, storeVars, StoreTypeOK
  <2> QED
    BY <1>4, <2>1, <2>2 DEF RepairJob
<1> QED
  BY <1>1, <1>2, <1>3, <1>4

\* The drain of the outbox, which brings run records in line with their
\* jobs, keeps the type invariant.
LEMMA DrainType ==
  ASSUME TypeOK, NEW w \in Workers,
         \/ StartDrain(w) \/ ReadEntry(w) \/ ApplyEntry(w)
         \/ SettleEntry(w) \/ EndReconcile(w)
  PROVE  TypeOK'
<1> USE DEF TypeOK
<1>i. Idle \in Task /\ DrainTask \subseteq Task /\ SettleTask \subseteq Task
  BY DEF Task
<1>t. ASSUME task[w].pc \in {"applying", "settling"}
      PROVE  /\ task[w].entry.job \in Jobs
             /\ task[w].status \in TerminalRun \cap RunStatus \cap AttemptStatus
             /\ [task[w] EXCEPT !.pc = "settling"] \in SettleTask
             /\ [pc |-> "draining", entries |-> task[w].entries] \in DrainTask
  <2>1. task[w] \in SettleTask
    BY <1>t, TaskByPc
  <2> QED
    BY <2>1 DEF SettleTask, DrainTask, Entry, TerminalRun, RunStatus, AttemptStatus,
                TerminalAttempt
<1>1. CASE StartDrain(w)
  <2>1. [pc |-> "draining", entries |-> outbox] \in DrainTask
    BY DEF StoreTypeOK, DrainTask
  <2> QED
    BY <1>1, <1>i, <2>1 DEF StartDrain, storeVars, StoreTypeOK
<1>2. CASE ReadEntry(w)
  <2>1. task[w].entries \in SUBSET Entry
    BY <1>2, TaskByPc DEF ReadEntry, DrainTask
  <2>2. PICK e \in task[w].entries :
          task' = [task EXCEPT ![w] =
                     IF IsTerminal(e.job)
                       THEN [pc |-> IF EntryNumber(e) = 0 THEN "settling"
                                    ELSE "applying",
                             entries |-> task[w].entries \ {e}, entry |-> e,
                             number |-> EntryNumber(e),
                             open |-> EntryNumber(e) # 0
                                        /\ ~IsOver(e.job, EntryNumber(e)),
                             status |-> job[e.job].status]
                       ELSE [pc |-> "draining", entries |-> task[w].entries \ {e}]]
    BY <1>2 DEF ReadEntry
  <2>3. [pc |-> "draining", entries |-> task[w].entries \ {e}] \in DrainTask
    BY <2>1 DEF DrainTask
  <2>4. e \in Entry /\ EntryNumber(e) \in 0 .. AttemptBound
    BY <2>1 DEF EntryNumber, Entry, StoreTypeOK
  <2>5. ASSUME IsTerminal(e.job), NEW b \in BOOLEAN,
               NEW pc \in {"applying", "settling"}
        PROVE  [pc |-> pc, entries |-> task[w].entries \ {e}, entry |-> e,
                number |-> EntryNumber(e), open |-> b,
                status |-> job[e.job].status] \in SettleTask
    BY <2>1, <2>4, <2>5 DEF SettleTask, IsTerminal, TerminalJob, TerminalRun
  <2>6. task' \in [Workers -> Task]
    <3>1. CASE IsTerminal(e.job)
      <4>1. (EntryNumber(e) # 0 /\ ~IsOver(e.job, EntryNumber(e))) \in BOOLEAN
        OBVIOUS
      <4>2. (IF EntryNumber(e) = 0 THEN "settling" ELSE "applying")
              \in {"applying", "settling"}
        OBVIOUS
      <4> QED
        BY <1>i, <2>2, <2>5, <3>1, <4>1, <4>2
    <3>2. CASE ~IsTerminal(e.job)
      BY <1>i, <2>2, <2>3, <3>2
    <3> QED
      BY <3>1, <3>2
  <2> QED
    BY <1>2, <2>6 DEF ReadEntry, storeVars, StoreTypeOK
<1>3. CASE ApplyEntry(w)
  <2>1. run' \in [Jobs -> [Numbers -> RunStatus]]
    BY <1>3, <1>t, RunType DEF ApplyEntry, At
  <2>2. task' \in [Workers -> Task]
    BY <1>3, <1>i, <1>t DEF ApplyEntry, At
  <2> QED
    BY <1>3, <2>1, <2>2 DEF ApplyEntry, storeVars, StoreTypeOK
<1>4. CASE SettleEntry(w)
  <2>1. task' \in [Workers -> Task]
    BY <1>4, <1>i, <1>t DEF SettleEntry, At
  <2>2. outbox' \subseteq Entry
    BY <1>4 DEF SettleEntry, StoreTypeOK
  <2>3. attempt' \in [Jobs -> [Numbers -> AttemptRow]]
    <3> DEFINE j == task[w].entry.job
               n == task[w].number
    <3>1. CASE UNCHANGED attempt
      BY <3>1 DEF StoreTypeOK
    <3>2. CASE attempt' = [attempt EXCEPT ![j][n].status = task[w].status]
      <4>1. j \in Jobs /\ task[w].status \in AttemptStatus
        BY <1>4, <1>t DEF SettleEntry, At
      <4>2. CASE n \in Numbers
        BY <3>2, <4>1, <4>2, RowUpdateType
      <4>3. CASE n \notin Numbers
        BY <3>2, <4>1, <4>3 DEF StoreTypeOK
      <4> QED
        BY <4>2, <4>3
    <3> QED
      BY <1>4, <3>1, <3>2 DEF SettleEntry
  <2> QED
    BY <1>4, <2>1, <2>2, <2>3 DEF SettleEntry, StoreTypeOK
<1>5. CASE EndReconcile(w)
  BY <1>5, <1>i DEF EndReconcile, storeVars, StoreTypeOK
<1> QED
  BY <1>1, <1>2, <1>3, <1>4, <1>5

\* The passing of deadlines keeps the type invariant.
LEMMA ClockType ==
  ASSUME TypeOK, NEW j \in Jobs, Clock(j)
  PROVE  TypeOK'
<1> USE DEF TypeOK
<1>1. CASE FallDue(j)
  <2>1. job' \in [Jobs -> JobRow]
    BY <1>1 DEF FallDue, RetryFallsDue, StoreTypeOK, JobRow
  <2> QED
    BY <1>1, <2>1 DEF FallDue, RetryFallsDue, StoreTypeOK
<1>2. ASSUME NEW n \in Numbers, ExpireLease(j, n)
      PROVE  TypeOK'
  <2>1. attempt' \in [Jobs -> [Numbers -> AttemptRow]]
    BY <1>2, RowUpdateType DEF ExpireLease, LeaseExpires
  <2> QED
    BY <1>2, <2>1 DEF ExpireLease, LeaseExpires, StoreTypeOK
<1> QED
  BY <1>1, <1>2 DEF Clock

\* An empty runtime.sqlite3 with idle workers is well typed.
LEMMA InitType == Init => TypeOK
<1> SUFFICES ASSUME Init
             PROVE  TypeOK
  OBVIOUS
<1>1. StoreTypeOK
  <2>1. job \in [Jobs -> JobRow]
    BY MaxAttemptsAssumption DEF Init, StoreInit, JobRow, JobStatus, Numbers
  <2>2. attempt \in [Jobs -> [Numbers -> AttemptRow]]
    BY DEF Init, StoreInit, AttemptRow, AttemptStatus, Class
  <2>3. made \in [Jobs -> 0 .. AttemptBound] /\ outbox \subseteq Entry
    BY BoundAssumption DEF Init, StoreInit
  <2> QED
    BY <2>1, <2>2, <2>3 DEF StoreTypeOK
<1> QED
  BY <1>1, CrashAssumption DEF Init, TypeOK, Task, RunStatus

\* Every step of the runtime keeps the type invariant.
LEMMA NextType == TypeOK /\ [Next]_vars => TypeOK'
<1> SUFFICES ASSUME TypeOK, [Next]_vars
             PROVE  TypeOK'
  OBVIOUS
<1>1. ASSUME NEW j \in Jobs, Web(j) \/ Clock(j)
      PROVE  TypeOK'
  BY <1>1, WebType, ClockType
<1>2. ASSUME NEW w \in Workers, Worker(w)
      PROVE  TypeOK'
  BY <1>2, ExecuteType, MaintainType, RepairType, DrainType DEF Worker, Reconcile
<1>3. CASE WebCrash
  BY <1>3, CrashAssumption DEF WebCrash, TypeOK, storeVars, StoreTypeOK
<1>4. CASE UNCHANGED vars
  BY <1>4 DEF vars, TypeOK, StoreTypeOK
<1> QED
  BY <1>1, <1>2, <1>3, <1>4 DEF Next

(***************************************************************************)
(* TypeOK is an invariant for every set of jobs and workers, every budget  *)
(* and every number of crashes: no step of a worker, a web request or the  *)
(* reconciler leaves a row, an outbox entry or a local variable that the   *)
(* rest of the code does not expect.                                       *)
(***************************************************************************)
THEOREM TypeCorrect == Spec => []TypeOK
BY InitType, NextType, PTL DEF Spec
=============================================================================
