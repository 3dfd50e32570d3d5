----------------------- MODULE RuntimeInvariantProofs -----------------------
(***************************************************************************)
(* RuntimeInv is an invariant of DurableRuntime; it implies UnsafeRunsOnce,*)
(* TurnsStartInOrder, RunSynced and AttemptIsFinal.  The proof has three   *)
(* parts.  The first (NextStep) shows that each step of the runtime is one *)
(* transaction of the store or none, and what it does to the workers'      *)
(* local variables.  The second shows, one transaction at a time, that the *)
(* invariant of the store survives it.  The third adds what a step does to *)
(* the run records, and shows that the two stores stay in step.            *)
(***************************************************************************)
EXTENDS RuntimeInvariants, RuntimeTypeProofs

\* The transactions on the row of one job.
TransactionOf(j) ==
    \/ SubmitJob(j) /\ \A i \in Jobs : i < j => job[i].status # "none"
    \/ \E target \in {"queued", "waiting_approval"} :
         job[j].status = "waiting_input" /\ TransitionJob(j, target)
    \/ job[j].status \in {"waiting_input", "queued"} /\ TransitionJob(j, "canceled")
    \/ \E target \in TerminalJob : made[j] > 0 /\ TransitionJob(j, target)
    \/ \E target \in {"queued", "canceled"} : DecideApproval(j, target)
    \/ RequestCancel(j)
    \/ RetrySafeJob(j)
    \/ RetryFallsDue(j)
    \/ ClaimJob(j) /\ \E w \in Workers : At(w, "candidate") /\ task[w].job = j
    \/ ExhaustJob(j)

\* mark_outbox_processed, for any set of entries.
Processed == outbox' \subseteq outbox /\ UNCHANGED <<job, made>>

\* The last step of _apply_outbox_entry, when it ends an open attempt.
SettleRow(j, n) ==
    /\ ~IsOver(j, n)
    /\ \E s \in TerminalAttempt : attempt' = [attempt EXCEPT ![j][n].status = s]
    /\ Processed

\* The transactions on the row of one attempt.
AttemptTransaction(j, n) ==
    \/ \E s \in TerminalAttempt \cup {"running"} : TransitionAttempt(j, n, s)
    \/ \E c \in Class : (c = "safe" => j \in SafeJobs) /\ SetClass(j, n, c)
    \/ Heartbeat(j, n)
    \/ LeaseExpires(j, n)
    \/ \E s \in TerminalAttempt, retry \in BOOLEAN : FinishAttempt(j, n, s, retry)
    \/ SettleRow(j, n)

\* Everything a step may do to the store.
Transaction ==
    \/ UNCHANGED storeVars
    \/ UNCHANGED attempt /\ Processed
    \/ \E j \in Jobs : TransactionOf(j)
    \/ RequeueDueJobs
    \/ \E j \in Jobs, n \in Numbers : n <= made[j] /\ AttemptTransaction(j, n)

\* Worker w stays where it is, or forgets what it was about; its candidate
\* may have become stale.
Kept(w) ==
    \/ task'[w] = task[w]
    \/ task'[w].pc = "idle"
    \/ At(w, "candidate") /\ task'[w].pc = "candidate" /\ task'[w].job = task[w].job

\* A candidate row that went stale is still of the same job.
LEMMA StaleRow ==
  ASSUME TypeOK, NEW w \in Workers, NEW js
  PROVE  \/ StaleFor(js)[w] = task[w]
         \/ /\ At(w, "candidate")
            /\ StaleFor(js)[w].pc = "candidate"
            /\ StaleFor(js)[w].job = task[w].job
<1>1. CASE task[w].pc = "candidate"
  <2>1. task[w] \in CandidateTask
    BY <1>1, TaskByPc DEF TypeOK, At
  <2>2. /\ [task[w] EXCEPT !.fresh = FALSE].pc = "candidate"
        /\ [task[w] EXCEPT !.fresh = FALSE].job = task[w].job
    BY <2>1 DEF CandidateTask
  <2> QED
    BY <1>1, <2>2 DEF StaleFor, At
<1>2. CASE task[w].pc # "candidate"
  BY <1>2 DEF StaleFor
<1> QED
  BY <1>1, <1>2

\* A web request's write changes at most the freshness of a candidate row in
\* a worker's local variables.
LEMMA StaleKept ==
  ASSUME TypeOK, NEW js, Elsewhere(js)
  PROVE  \A w \in Workers : Kept(w)
BY StaleRow DEF Elsewhere, Kept

\* The same for a write of another worker, which itself goes on to next.
LEMMA AdvanceKept ==
  ASSUME TypeOK, NEW w \in Workers, NEW js, NEW next, Advance(w, js, next)
  PROVE  /\ \A v \in Workers \ {w} : Kept(v)
         /\ task'[w] = next
<1>1. task'[w] = next /\ \A v \in Workers \ {w} : task'[v] = StaleFor(js)[v]
  BY DEF Advance, StaleFor
<1> QED
  BY <1>1, StaleRow DEF Kept

\* A step of a web request or of the clock is one transaction of the store
\* or none, and leaves the workers where they are.
LEMMA WebTransaction ==
  ASSUME TypeOK, NEW j \in Jobs, Web(j) \/ Clock(j), RowsExist
  PROVE  Transaction /\ \A w \in Workers : Kept(w)
<1> USE DEF Transaction
<1>1. CASE Submit(j)
  BY <1>1 DEF Submit, TransactionOf, Kept
<1>2. ASSUME NEW target \in {"queued", "waiting_approval", "canceled"},
             Dispatch(j, target)
      PROVE  Transaction /\ \A w \in Workers : Kept(w)
  BY <1>2, StaleKept DEF Dispatch, TransactionOf, TerminalJob
<1>3. CASE Approve(j) \/ Deny(j)
  BY <1>3, StaleKept DEF Approve, Deny, TransactionOf
<1>4. CASE Cancel(j) \/ CancelUnclaimed(j)
  BY <1>4, StaleKept DEF Cancel, CancelUnclaimed, TransactionOf
<1>5. CASE CancelJobRow(j)
  <2>1. CASE job[j].status = "queued" /\ TransitionJob(j, "canceled") /\ Elsewhere({j})
    BY <2>1, StaleKept DEF TransactionOf
  <2>2. CASE UNCHANGED <<storeVars, task>>
    BY <2>2 DEF Kept
  <2> QED
    BY <1>5, <2>1, <2>2 DEF CancelJobRow
<1>6. CASE CancelRunRecord(j)
  BY <1>6 DEF CancelRunRecord, Kept
<1>7. CASE Retry(j)
  BY <1>7, StaleKept DEF Retry, TransactionOf
<1>8. CASE FallDue(j)
  BY <1>8 DEF FallDue, TransactionOf, Kept
<1>9. ASSUME NEW n \in Numbers, ExpireLease(j, n)
      PROVE  Transaction /\ \A w \in Workers : Kept(w)
  <2>1. n <= made[j]
    BY <1>9 DEF ExpireLease, LeaseExpires, IsLive, LiveAttempt, RowsExist
  <2> QED
    BY <1>9, <2>1 DEF ExpireLease, AttemptTransaction, Kept
<1> QED
  BY <1>1, <1>2, <1>3, <1>4, <1>5, <1>6, <1>7, <1>8, <1>9 DEF Web, Clock

\* An attempt in the hands of w was there before, or w claims it now.
HoldsOn(w) ==
    task'[w].pc \in HoldPc =>
      \/ task[w].pc \in HoldPc /\ task'[w].id = task[w].id
      \/ \E j \in Jobs : ClaimJob(j) /\ task'[w].id = <<j, made[j] + 1>>

\* What is known of a step of worker w.
WorkerStep(w) ==
    /\ Transaction
    /\ \A v \in Workers \ {w} : Kept(v)
    /\ TaskRefersToRows(w)'
    /\ HoldsOn(w)

\* A worker that updates what it knows of its attempt (signal, outcome,
\* position in run_once) goes on holding the same attempt.
LEMMA HoldTaskKeeps ==
  ASSUME NEW t \in HoldTask
  PROVE  /\ \A g : [t EXCEPT !.signal = g].id = t.id /\ [t EXCEPT !.signal = g].pc = t.pc
         /\ \A g, b : /\ [t EXCEPT !.signal = g, !.monitor = b].id = t.id
                      /\ [t EXCEPT !.signal = g, !.monitor = b].pc = t.pc
         /\ \A pc : [t EXCEPT !.pc = pc].id = t.id /\ [t EXCEPT !.pc = pc].pc = pc
         /\ \A pc, o : /\ [t EXCEPT !.pc = pc, !.outcome = o].id = t.id
                       /\ [t EXCEPT !.pc = pc, !.outcome = o].pc = pc
         /\ \A pc, o, b : /\ [t EXCEPT !.pc = pc, !.outcome = o, !.retry = b].id = t.id
                          /\ [t EXCEPT !.pc = pc, !.outcome = o, !.retry = b].pc = pc
BY DEF HoldTask, WorkTask, OutcomeTask

\* A step of run_once or of its monitor is one transaction of the store or
\* none, remembers only rows that exist, and takes an attempt only by
\* claiming it.
LEMMA ExecuteStep ==
  ASSUME TypeOK, RowsExist, NEW w \in Workers,
         \/ \E j \in Jobs : FindCandidate(w, j)
         \/ Execute(w)
         \/ Monitor(w) \/ Timeout(w) \/ Crash(w)
  PROVE  WorkerStep(w)
<1> USE DEF TypeOK, Transaction, Kept
<1>e. made \in [Jobs -> 0 .. AttemptBound] /\ task \in [Workers -> Task]
  BY DEF StoreTypeOK
<1>h. task[w].pc \in HoldPc =>
        /\ task[w] \in HoldTask /\ task[w].id[1] \in Jobs /\ task[w].id[2] \in Numbers
        /\ task[w].id[2] <= made[task[w].id[1]]
  BY TaskByPc, HoldTaskType DEF RowsExist, TaskRefersToRows, Exists
<1>o. task[w].pc \in OutcomePc =>
        task[w].outcome \in TerminalAttempt /\ task[w].retry \in BOOLEAN
  BY <1>h, HoldTaskType DEF HoldPc, OutcomeTask, TerminalAttempt, TerminalRun
\* A step that ends outside every remembered row.
<1>i. ASSUME task'[w].pc \in {"idle", "candidate"}
      PROVE  TaskRefersToRows(w)' /\ HoldsOn(w)
  BY <1>i DEF TaskRefersToRows, HoldsOn, HoldPc, WorkPc, OutcomePc, At
\* A step in which the worker keeps the attempt it holds.
<1>k. ASSUME task[w].pc \in HoldPc, task'[w].pc \in HoldPc,
             task'[w].id = task[w].id, made' = made
      PROVE  TaskRefersToRows(w)' /\ HoldsOn(w)
  BY <1>h, <1>k DEF TaskRefersToRows, HoldsOn, Exists, HoldPc, WorkPc, OutcomePc, At
<1>1. ASSUME NEW j \in Jobs, FindCandidate(w, j)
      PROVE  WorkerStep(w)
  BY <1>1, <1>i DEF FindCandidate, WorkerStep
<1>2. CASE ClaimCandidate(w)
  <2> DEFINE j == task[w].job
  <2>1. j \in Jobs
    BY <1>2, TaskByPc DEF ClaimCandidate, CandidateTask
  <2>2. CASE ClaimJob(j) /\ Advance(w, {j}, Held(j, made[j] + 1))
    <3>1. task'[w] = Held(j, made[j] + 1) /\ \A v \in Workers \ {w} : Kept(v)
      BY <2>2, AdvanceKept
    <3>2. made'[j] = made[j] + 1
      BY <1>e, <2>1, <2>2 DEF ClaimJob
    <3>3. TaskRefersToRows(w)' /\ HoldsOn(w)
      BY <2>1, <2>2, <3>1, <3>2, <1>e
         DEF Held, TaskRefersToRows, HoldsOn, Exists, HoldPc, WorkPc, OutcomePc, At
    <3> QED
      BY <1>2, <2>1, <2>2, <3>1, <3>3 DEF TransactionOf, WorkerStep, ClaimCandidate
  <2>3. CASE ExhaustJob(j) /\ Advance(w, {j}, Idle)
    BY <2>1, <2>3, <1>i, AdvanceKept DEF TransactionOf, WorkerStep, Idle
  <2>4. CASE Advance(w, {}, Idle) /\ UNCHANGED storeVars
    BY <2>4, <1>i, AdvanceKept DEF WorkerStep, Idle
  <2> QED
    BY <1>2, <2>2, <2>3, <2>4 DEF ClaimCandidate
<1>3. CASE ResolveClass(w)
  <2>1. task[w].pc \in HoldPc
    BY <1>3 DEF ResolveClass, At, HoldPc, WorkPc
  <2>2. TaskRefersToRows(w)' /\ HoldsOn(w)
    BY <1>3, <1>e, <1>h, <1>k, <2>1
       DEF ResolveClass, SetClass, HoldPc, WorkPc, HoldTask, WorkTask, OutcomeTask
  <2>3. Transaction
    BY <1>3, <1>h, <2>1 DEF ResolveClass, AttemptTransaction, Class
  <2> QED
    BY <1>3, <2>2, <2>3 DEF ResolveClass, WorkerStep
<1>4. CASE StartAttempt(w)
  <2>1. task[w].pc \in HoldPc
    BY <1>4 DEF StartAttempt, At, HoldPc, WorkPc
  <2>2. CASE /\ TransitionAttempt(task[w].id[1], task[w].id[2], "running")
             /\ task' = [task EXCEPT ![w].pc = "started", ![w].monitor = TRUE]
    <3>1. TaskRefersToRows(w)' /\ HoldsOn(w)
      BY <1>e, <1>h, <1>k, <2>1, <2>2
         DEF TransitionAttempt, HoldPc, WorkPc, HoldTask, WorkTask, OutcomeTask
    <3> QED
      BY <1>h, <2>1, <2>2, <3>1 DEF AttemptTransaction, WorkerStep
  <2>3. CASE task' = [task EXCEPT ![w] = Idle] /\ UNCHANGED storeVars
    BY <1>i, <1>e, <2>3 DEF WorkerStep, Idle
  <2> QED
    BY <1>4, <2>2, <2>3 DEF StartAttempt
<1>5. CASE BeginRun(w) \/ (\E status \in TerminalRun : EndRun(w, status))
             \/ (\E retry \in BOOLEAN : RaiseInRun(w, retry)) \/ SettleOutcome(w)
             \/ Timeout(w)
  <2>1. task[w].pc \in HoldPc
    BY <1>5 DEF BeginRun, EndRun, RaiseInRun, SettleOutcome, Timeout, At, HoldPc,
                WorkPc, OutcomePc
  <2>3. task'[w].pc \in HoldPc /\ task'[w].id = task[w].id
    <3> USE HoldTaskKeeps, <1>e, <1>h, <2>1 DEF HoldPc, WorkPc, OutcomePc
    <3>1. CASE BeginRun(w)
      BY <3>1 DEF BeginRun
    <3>2. CASE \E status \in TerminalRun : EndRun(w, status)
      BY <3>2 DEF EndRun
    <3>3. CASE \E retry \in BOOLEAN : RaiseInRun(w, retry)
      BY <3>3 DEF RaiseInRun
    <3>4. CASE SettleOutcome(w)
      BY <3>4 DEF SettleOutcome
    <3>5. CASE Timeout(w)
      BY <3>5 DEF Timeout
    <3> QED
      BY <1>5, <3>1, <3>2, <3>3, <3>4, <3>5
  <2>2. UNCHANGED storeVars /\ \A v \in Workers \ {w} : task'[v] = task[v]
    BY <1>5 DEF BeginRun, EndRun, RaiseInRun, SettleOutcome, Timeout
  <2> QED
    BY <1>k, <2>1, <2>2, <2>3 DEF WorkerStep, storeVars
<1>6. CASE Finish(w)
  <2> DEFINE j == task[w].id[1]
             n == task[w].id[2]
  <2>1. task[w].pc \in HoldPc /\ task[w].pc \in OutcomePc
    BY <1>6 DEF Finish, At, HoldPc, OutcomePc
  <2>2. FinishAttempt(j, n, task[w].outcome, task[w].retry) /\ Advance(w, {j}, Idle)
    BY <1>6 DEF Finish
  <2>3. Transaction
    BY <1>h, <1>o, <2>1, <2>2 DEF AttemptTransaction
  <2> QED
    BY <1>i, <2>2, <2>3, AdvanceKept DEF WorkerStep, Idle
<1>7. CASE Monitor(w)
  <2>1. task[w].pc \in HoldPc
    BY <1>7 DEF Monitor, HoldPc, WorkPc, OutcomePc
  <2>2. task'[w].pc \in HoldPc /\ task'[w].id = task[w].id
    <3>1. PICK g : \/ task' = [task EXCEPT ![w].signal = g, ![w].monitor = FALSE]
                   \/ task' = [task EXCEPT ![w].signal = g]
      BY <1>7 DEF Monitor
    <3>2. \/ task'[w] = [task[w] EXCEPT !.signal = g, !.monitor = FALSE]
          \/ task'[w] = [task[w] EXCEPT !.signal = g]
      BY <1>e, <3>1
    <3>3. task'[w].pc = task[w].pc /\ task'[w].id = task[w].id
      <4>1. task[w] \in HoldTask
        BY <1>h, <2>1
      <4> QED
        BY <3>2, <4>1 DEF HoldTask, WorkTask, OutcomeTask
    <3> QED
      BY <2>1, <3>3
  <2>3. made' = made /\ \A v \in Workers \ {w} : task'[v] = task[v]
    BY <1>7 DEF Monitor, Heartbeat, storeVars
  <2>4. Transaction
    BY <1>7, <1>h, <2>1 DEF Monitor, AttemptTransaction
  <2> QED
    BY <1>k, <2>1, <2>2, <2>3, <2>4 DEF WorkerStep
<1>8. CASE Crash(w)
  BY <1>8, <1>i, <1>e DEF Crash, WorkerStep, Idle
<1> QED
  BY <1>1, <1>2, <1>3, <1>4, <1>5, <1>6, <1>7, <1>8 DEF Execute

\* The same for recovery, requeueing and the start of reconcile.
LEMMA MaintainStep ==
  ASSUME TypeOK, RowsExist, NEW w \in Workers,
         StartRecovery(w) \/ RecoverRow(w) \/ Requeue(w) \/ StartReconcile(w)
  PROVE  WorkerStep(w)
<1> USE DEF TypeOK, Transaction, Kept
<1>e. made \in [Jobs -> 0 .. AttemptBound] /\ task \in [Workers -> Task]
  BY DEF StoreTypeOK
<1>i. ASSUME task'[w].pc = "idle"
      PROVE  TaskRefersToRows(w)' /\ HoldsOn(w)
  BY <1>i DEF TaskRefersToRows, HoldsOn, HoldPc, WorkPc, OutcomePc, At
<1>1. CASE StartRecovery(w)
  <2>1. \A a \in ExpiredAttempts : Exists(a)
    BY DEF ExpiredAttempts, IsLive, LiveAttempt, RowsExist, Exists
  <2>2. TaskRefersToRows(w)' /\ HoldsOn(w)
    BY <1>1, <1>e, <2>1
       DEF StartRecovery, storeVars, TaskRefersToRows, HoldsOn, Exists,
           HoldPc, WorkPc, OutcomePc, At
  <2> QED
    BY <1>1, <2>2 DEF StartRecovery, WorkerStep
<1>2. CASE RecoverRow(w)
  <2>1. task[w].ids \in SUBSET AttemptId
    BY <1>2, TaskByPc DEF RecoverRow, RecoverTask
  <2>2. PICK a \in task[w].ids :
          /\ FinishAttempt(a[1], a[2], "interrupted", TRUE)
          /\ Advance(w, {a[1]},
                     IF task[w].ids = {a} THEN Idle
                     ELSE [pc |-> "recovering", ids |-> task[w].ids \ {a}])
    BY <1>2 DEF RecoverRow
  <2>3. a[1] \in Jobs /\ a[2] \in Numbers /\ \A b \in task[w].ids : Exists(b)
    BY <1>2, <2>1 DEF AttemptId, RecoverRow, RowsExist, TaskRefersToRows
  <2>4. Transaction
    BY <2>2, <2>3 DEF AttemptTransaction, TerminalAttempt, Exists
  <2>5. /\ task'[w] = IF task[w].ids = {a} THEN Idle
                      ELSE [pc |-> "recovering", ids |-> task[w].ids \ {a}]
        /\ \A v \in Workers \ {w} : Kept(v)
    BY <2>2, AdvanceKept
  <2>6. TaskRefersToRows(w)' /\ HoldsOn(w)
    BY <2>2, <2>3, <2>5
       DEF FinishAttempt, TaskRefersToRows, HoldsOn, Exists, Idle,
           HoldPc, WorkPc, OutcomePc, At
  <2> QED
    BY <2>4, <2>5, <2>6 DEF WorkerStep
<1>3. CASE Requeue(w)
  BY <1>3, <1>i, AdvanceKept DEF Requeue, WorkerStep, Idle
<1>4. CASE StartReconcile(w)
  <2>1. \A r \in AllRows : Exists(r.id)
    BY DEF AllRows, Exists
  <2>2. TaskRefersToRows(w)' /\ HoldsOn(w)
    BY <1>4, <1>e, <2>1
       DEF StartReconcile, storeVars, TaskRefersToRows, HoldsOn, Exists,
           HoldPc, WorkPc, OutcomePc, At
  <2> QED
    BY <1>4, <2>2 DEF StartReconcile, WorkerStep
<1> QED
  BY <1>1, <1>2, <1>3, <1>4

\* The same for the scan of reconcile.
LEMMA RepairStep ==
  ASSUME TypeOK, RowsExist, NEW w \in Workers,
         ScanRow(w) \/ EndAttempt(w) \/ JudgeJob(w) \/ RepairJob(w)
  PROVE  WorkerStep(w)
<1> USE DEF TypeOK, Transaction, Kept
<1>e. made \in [Jobs -> 0 .. AttemptBound] /\ task \in [Workers -> Task]
  BY DEF StoreTypeOK
<1> DEFINE j == task[w].row.id[1]
           n == task[w].row.id[2]
           scan == [pc |-> "scanning", rows |-> task[w].rows]
<1>r. ASSUME task[w].pc \in {"ending", "judging", "repairing"}
      PROVE  /\ task[w] \in RepairTask
             /\ j \in Jobs /\ n \in Numbers /\ n <= made[j]
             /\ task[w].status \in TerminalAttempt \cap TerminalJob
             /\ \A r \in task[w].rows : Exists(r.id)
  <2>1. task[w] \in RepairTask
    BY <1>r, TaskByPc
  <2> QED
    BY <1>r, <2>1 DEF RepairTask, Row, AttemptId, TerminalRun, TerminalAttempt,
                      TerminalJob, RowsExist, TaskRefersToRows, Exists
\* The three ways the local variables change.
<1>i. ASSUME task'[w].pc = "idle"
      PROVE  TaskRefersToRows(w)' /\ HoldsOn(w)
  BY <1>i DEF TaskRefersToRows, HoldsOn, HoldPc, WorkPc, OutcomePc, At
<1>s. ASSUME task[w].pc \in {"ending", "judging", "repairing"},
             task'[w] = scan, made' = made
      PROVE  TaskRefersToRows(w)' /\ HoldsOn(w)
  BY <1>r, <1>s DEF TaskRefersToRows, HoldsOn, Exists, HoldPc, WorkPc, OutcomePc, At
<1>k. ASSUME task[w].pc \in {"ending", "judging", "repairing"}, made' = made,
             NEW pc \in {"ending", "judging", "repairing"},
             task'[w] = [task[w] EXCEPT !.pc = pc]
      PROVE  TaskRefersToRows(w)' /\ HoldsOn(w)
  <2>1. /\ task'[w].pc = pc
        /\ task'[w].row = task[w].row /\ task'[w].rows = task[w].rows
    BY <1>k, <1>r DEF RepairTask
  <2> QED
    BY <1>k, <1>r, <2>1
       DEF TaskRefersToRows, HoldsOn, Exists, HoldPc, WorkPc, OutcomePc, At
<1>1. CASE ScanRow(w)
  <2>1. task[w].rows \in SUBSET Row /\ \A r \in task[w].rows : Exists(r.id)
    BY <1>1, TaskByPc DEF ScanRow, ScanTask, At, RowsExist, TaskRefersToRows
  <2>2. PICK r \in task[w].rows :
          task' = [task EXCEPT ![w] =
                     IF run[r.id[1]][r.id[2]] \in TerminalRun
                       THEN [pc |-> IF r.over THEN "judging" ELSE "ending",
                             rows |-> task[w].rows \ {r}, row |-> r,
                             status |-> run[r.id[1]][r.id[2]]]
                       ELSE [pc |-> "scanning", rows |-> task[w].rows \ {r}]]
    BY <1>1 DEF ScanRow
  <2>3. made' = made
    BY <1>1 DEF ScanRow, storeVars
  <2>4. TaskRefersToRows(w)' /\ HoldsOn(w)
    BY <1>e, <2>1, <2>2, <2>3
       DEF TaskRefersToRows, HoldsOn, Exists, HoldPc, WorkPc, OutcomePc, At
  <2> QED
    BY <1>1, <2>4 DEF ScanRow, WorkerStep
<1>2. CASE EndAttempt(w)
  <2>1. task[w].pc = "ending" /\ \A v \in Workers \ {w} : task'[v] = task[v]
    BY <1>2 DEF EndAttempt, At
  <2>2. Transaction /\ made' = made
    BY <1>2, <1>r, <2>1
       DEF EndAttempt, AttemptTransaction, TransitionAttempt, storeVars
  <2>3. TaskRefersToRows(w)' /\ HoldsOn(w)
    <3>1. task'[w] = Idle \/ task'[w] = [task[w] EXCEPT !.pc = "judging"]
      BY <1>2, <1>e DEF EndAttempt
    <3>2. CASE task'[w] = Idle
      BY <1>i, <3>2 DEF Idle
    <3>3. CASE task'[w] = [task[w] EXCEPT !.pc = "judging"]
      BY <1>k, <2>1, <2>2, <3>3
    <3> QED
      BY <3>1, <3>2, <3>3
  <2> QED
    BY <2>1, <2>2, <2>3 DEF WorkerStep
<1>3. CASE JudgeJob(w)
  <2>1. /\ task[w].pc = "judging" /\ UNCHANGED storeVars
        /\ \A v \in Workers \ {w} : task'[v] = task[v]
    BY <1>3 DEF JudgeJob, At
  <2>2. TaskRefersToRows(w)' /\ HoldsOn(w)
    <3>1. task'[w] = scan \/ task'[w] = [task[w] EXCEPT !.pc = "repairing"]
      BY <1>3, <1>e DEF JudgeJob
    <3>2. made' = made
      BY <2>1 DEF storeVars
    <3>3. CASE task'[w] = scan
      BY <1>s, <2>1, <3>2, <3>3
    <3>4. CASE task'[w] = [task[w] EXCEPT !.pc = "repairing"]
      BY <1>k, <2>1, <3>2, <3>4
    <3> QED
      BY <3>1, <3>3, <3>4
  <2> QED
    BY <2>1, <2>2 DEF WorkerStep
<1>4. CASE RepairJob(w)
  <2>1. task[w].pc = "repairing"
    BY <1>4 DEF RepairJob, At
  <2>2. CASE TransitionJob(j, task[w].status) /\ Advance(w, {j}, scan)
    <3>1. Transaction /\ made' = made
      <4>1. made[j] > 0
        BY <1>e, <1>r, <2>1 DEF Numbers
      <4> QED
        BY <1>r, <2>1, <2>2, <4>1 DEF TransactionOf, TransitionJob
    <3> QED
      BY <1>s, <2>1, <2>2, <3>1, AdvanceKept DEF WorkerStep
  <2>3. CASE Advance(w, {}, scan) /\ UNCHANGED storeVars
    BY <1>s, <2>1, <2>3, AdvanceKept DEF WorkerStep, storeVars
  <2>4. CASE Advance(w, {}, Idle) /\ UNCHANGED storeVars
    BY <1>i, <2>4, AdvanceKept DEF WorkerStep, Idle
  <2> QED
    BY <1>4, <2>2, <2>3, <2>4 DEF RepairJob
<1> QED
  BY <1>1, <1>2, <1>3, <1>4

\* The same for the drain of the outbox; an entry that is done with may also
\* end its attempt.
LEMMA DrainStep ==
  ASSUME TypeOK, RowsExist, NEW w \in Workers,
         \/ StartDrain(w) \/ ReadEntry(w) \/ ApplyEntry(w)
         \/ SettleEntry(w) \/ EndReconcile(w)
  PROVE  WorkerStep(w)
<1> USE DEF TypeOK, Transaction, Kept
<1>e. made \in [Jobs -> 0 .. AttemptBound] /\ task \in [Workers -> Task]
  BY DEF StoreTypeOK
<1> DEFINE drain == [pc |-> "draining", entries |-> task[w].entries]
<1>t. ASSUME task[w].pc \in {"applying", "settling"}
      PROVE  /\ task[w] \in SettleTask
             /\ task[w].entry.job \in Jobs /\ task[w].number \in 0 .. AttemptBound
             /\ task[w].number <= made[task[w].entry.job]
             /\ task[w].status \in TerminalAttempt
             /\ \A e \in task[w].entries : EntryExists(e)
  <2>1. task[w] \in SettleTask
    BY <1>t, TaskByPc
  <2> QED
    BY <1>t, <2>1 DEF SettleTask, Entry, TerminalRun, TerminalAttempt, RowsExist,
                      TaskRefersToRows
<1>d. ASSUME task[w].pc \in {"applying", "settling"}, task'[w] = drain, made' = made
      PROVE  TaskRefersToRows(w)' /\ HoldsOn(w)
  BY <1>d, <1>t
     DEF TaskRefersToRows, HoldsOn, EntryExists, HoldPc, WorkPc, OutcomePc, At
<1>1. CASE StartDrain(w)
  <2>1. TaskRefersToRows(w)' /\ HoldsOn(w)
    BY <1>1, <1>e DEF StartDrain, storeVars, RowsExist, TaskRefersToRows, HoldsOn,
                      EntryExists, HoldPc, WorkPc, OutcomePc, At
  <2> QED
    BY <1>1, <2>1 DEF StartDrain, WorkerStep
<1>2. CASE ReadEntry(w)
  <2>1. task[w].entries \in SUBSET Entry /\ \A e \in task[w].entries : EntryExists(e)
    BY <1>2, TaskByPc DEF ReadEntry, DrainTask, At, RowsExist, TaskRefersToRows
  <2>2. PICK e \in task[w].entries :
          task' = [task EXCEPT ![w] =
                     IF IsTerminal(e.job)
                       THEN [pc |-> IF EntryNumber(e) = 0 THEN "settling"
                                    ELSE "applying",
                             entries |-> task[w].entries \ {e}, entry |-> e,
                             number |-> EntryNumber(e),
                             open |-> EntryNumber(e) # 0
                                        /\ ~IsOver(e.job, EntryNumber(e)),
                             status |-> job[e.job].status]
                       ELSE [pc |-> "draining", entries |-> task[w].entries \ {e}]]
    BY <1>2 DEF ReadEntry
  <2>3. made' = made
    BY <1>2 DEF ReadEntry, storeVars
  <2>4. e.job \in Jobs /\ EntryNumber(e) <= made[e.job]
    BY <1>e, <2>1 DEF Entry, EntryNumber, EntryExists
  <2>5. CASE IsTerminal(e.job)
    <3>1. /\ task'[w].pc \in {"settling", "applying"}
          /\ task'[w].entries = task[w].entries \ {e}
          /\ task'[w].entry = e /\ task'[w].number = EntryNumber(e)
      BY <1>e, <2>2, <2>5
    <3> QED
      BY <1>2, <2>1, <2>3, <2>4, <3>1
         DEF ReadEntry, WorkerStep, TaskRefersToRows, HoldsOn, EntryExists, HoldPc,
             WorkPc, OutcomePc, At
  <2>6. CASE ~IsTerminal(e.job)
    <3>1. task'[w] = [pc |-> "draining", entries |-> task[w].entries \ {e}]
      BY <1>e, <2>2, <2>6
    <3> QED
      BY <1>2, <2>1, <2>3, <3>1
         DEF ReadEntry, WorkerStep, TaskRefersToRows, HoldsOn, EntryExists, HoldPc,
             WorkPc, OutcomePc, At
  <2> QED
    BY <2>5, <2>6
<1>3. CASE ApplyEntry(w)
  <2>1. /\ task[w].pc = "applying" /\ UNCHANGED storeVars
        /\ \A v \in Workers \ {w} : task'[v] = task[v]
        /\ task'[w] = drain \/ task'[w] = [task[w] EXCEPT !.pc = "settling"]
    BY <1>3, <1>e DEF ApplyEntry, At
  <2>2. CASE task'[w] = drain
    BY <1>d, <2>1, <2>2 DEF WorkerStep, storeVars
  <2>3. CASE task'[w] = [task[w] EXCEPT !.pc = "settling"]
    <3>1. /\ task'[w].pc = "settling" /\ task'[w].entries = task[w].entries
          /\ task'[w].entry = task[w].entry /\ task'[w].number = task[w].number
      BY <1>t, <2>1, <2>3 DEF SettleTask
    <3> QED
      BY <1>t, <2>1, <3>1
         DEF WorkerStep, storeVars, TaskRefersToRows, HoldsOn, EntryExists, HoldPc,
             WorkPc, OutcomePc, At
  <2> QED
    BY <2>1, <2>2, <2>3
<1>4. CASE SettleEntry(w)
  <2> DEFINE j == task[w].entry.job
             n == task[w].number
  <2>1. task[w].pc = "settling" /\ task'[w] = drain /\ UNCHANGED <<job, made>>
        /\ \A v \in Workers \ {w} : task'[v] = task[v]
    BY <1>4, <1>e DEF SettleEntry, At
  <2>2. outbox' \subseteq outbox
    BY <1>4 DEF SettleEntry
  <2>3. \/ UNCHANGED attempt
        \/ ~IsOver(j, n) /\ attempt' = [attempt EXCEPT ![j][n].status = task[w].status]
    BY <1>4 DEF SettleEntry
  <2>4. CASE UNCHANGED attempt
    BY <1>d, <2>1, <2>2, <2>4 DEF Processed, WorkerStep
  <2>5. CASE /\ ~IsOver(j, n)
             /\ attempt' = [attempt EXCEPT ![j][n].status = task[w].status]
    <3>1. CASE n \in Numbers
      <4>1. AttemptTransaction(j, n)
        BY <1>t, <2>1, <2>2, <2>5 DEF Processed, SettleRow, AttemptTransaction
      <4>2. Transaction
        BY <1>t, <2>1, <3>1, <4>1
      <4> QED
        BY <1>d, <2>1, <4>2 DEF WorkerStep
    <3>2. CASE n \notin Numbers
      <4>1. UNCHANGED attempt
        <5>1. attempt \in [Jobs -> [Numbers -> AttemptRow]] /\ j \in Jobs
          BY <1>t, <2>1 DEF StoreTypeOK
        <5>2. attempt[j] \in [Numbers -> AttemptRow]
          BY <5>1
        <5>3. \A r : [attempt[j] EXCEPT ![n] = r] = attempt[j]
          BY <3>2, <5>2
        <5> QED
          BY <2>5, <5>1, <5>3
      <4> QED
        BY <1>d, <2>1, <2>2, <4>1 DEF Processed, WorkerStep
    <3> QED
      BY <3>1, <3>2
  <2> QED
    BY <2>3, <2>4, <2>5
<1>5. CASE EndReconcile(w)
  BY <1>5, <1>e DEF EndReconcile, WorkerStep, Idle, TaskRefersToRows, HoldsOn,
                    HoldPc, WorkPc, OutcomePc, At
<1> QED
  BY <1>1, <1>2, <1>3, <1>4, <1>5

\* A step of the runtime is one transaction of the store or none, and at
\* most one worker's local variables change but for stale candidates.
LEMMA NextStep ==
  ASSUME TypeOK, RowsExist, [Next]_vars
  PROVE  /\ Transaction
         /\ \/ \A w \in Workers : Kept(w)
            \/ \E w \in Workers : WorkerStep(w)
<1>1. ASSUME NEW j \in Jobs, Web(j) \/ Clock(j)
      PROVE  Transaction /\ \A w \in Workers : Kept(w)
  BY <1>1, WebTransaction
<1>2. ASSUME NEW w \in Workers, Worker(w)
      PROVE  WorkerStep(w)
  BY <1>2, ExecuteStep, MaintainStep, RepairStep, DrainStep DEF Worker, Reconcile
<1>3. CASE WebCrash
  BY <1>3 DEF WebCrash, Transaction, Kept
<1>4. CASE UNCHANGED vars
  BY <1>4 DEF vars, storeVars, Transaction, Kept
<1> QED
  BY <1>1, <1>2, <1>3, <1>4 DEF Next, WorkerStep

\* What no transaction takes back.
StoreGrows ==
    /\ \A j \in Jobs : made[j] <= made'[j]
    /\ \A j \in Jobs, n \in Numbers :
         attempt'[j][n].status # "none" => attempt[j][n].status # "none" \/ n <= made'[j]
    /\ \A e \in outbox' : e \in outbox \/ EntryExists(e)'
    /\ \A j \in Jobs, n \in Numbers :
         IsOver(j, n) => attempt'[j][n].status = attempt[j][n].status

\* No transaction deletes an attempt, names one that does not exist in the
\* outbox, or gives an attempt that is over another status.
LEMMA TransactionGrows ==
  ASSUME TypeOK, RowsExist, Transaction
  PROVE  StoreGrows
<1>e. made \in [Jobs -> 0 .. AttemptBound]
  BY DEF TypeOK, StoreTypeOK
<1>f. attempt \in [Jobs -> [Numbers -> AttemptRow]]
  BY DEF TypeOK, StoreTypeOK
\* Transactions that leave the attempts alone.
<1>1. ASSUME UNCHANGED <<attempt, made>>,
             \A x \in outbox' : x \in outbox \/ EntryExists(x)
      PROVE  StoreGrows
  BY <1>1, <1>e DEF StoreGrows, EntryExists
\* Transactions that change the row of one attempt.
<1>2. ASSUME NEW j \in Jobs, NEW n \in Numbers, n <= made[j],
             \A i \in Jobs, m \in Numbers :
               \/ i = j /\ m = n /\ ~IsOver(i, m)
               \/ attempt'[i][m].status = attempt[i][m].status,
             made' = made,
             \A x \in outbox' : x \in outbox \/ EntryExists(x)
      PROVE  StoreGrows
  BY <1>2, <1>e DEF StoreGrows, EntryExists
<1>3. ASSUME NEW j \in Jobs, TransactionOf(j)
      PROVE  StoreGrows
  <2>1. CASE ClaimJob(j)
    <3>1. made' = [made EXCEPT ![j] = @ + 1]
      BY <2>1 DEF ClaimJob
    <3>2. ASSUME NEW i \in Jobs, NEW m \in Numbers
          PROVE  attempt'[i][m] = attempt[i][m] \/ (i = j /\ m = made[j] + 1)
      BY <1>f, <2>1, <3>2 DEF ClaimJob
    <3>3. made[j] + 1 \in Numbers => ~IsOver(j, made[j] + 1)
      BY <1>e DEF RowsExist, IsOver, TerminalAttempt
    <3> QED
      BY <1>e, <2>1, <3>1, <3>2, <3>3 DEF StoreGrows, ClaimJob, IsOver
  <2>2. CASE ~ClaimJob(j)
    BY <1>1, <1>3, <2>2, <1>e
       DEF TransactionOf, SubmitJob, TransitionJob, DecideApproval, RequestCancel,
           RetrySafeJob, RetryFallsDue, ExhaustJob, EntryExists, Sync
  <2> QED
    BY <2>1, <2>2
<1>4. ASSUME NEW j \in Jobs, NEW n \in Numbers, n <= made[j], AttemptTransaction(j, n)
      PROVE  StoreGrows
  <2>r. ASSUME NEW r, attempt' = [attempt EXCEPT ![j][n] = r],
               ~IsOver(j, n) \/ r.status = attempt[j][n].status,
               made' = made, \A x \in outbox' : x \in outbox \/ EntryExists(x)
        PROVE  StoreGrows
    <3>1. ASSUME NEW i \in Jobs, NEW m \in Numbers
          PROVE  \/ i = j /\ m = n /\ ~IsOver(i, m)
                 \/ attempt'[i][m].status = attempt[i][m].status
      BY <1>f, <2>r, <3>1
    <3> QED
      BY <1>2, <1>4, <2>r, <3>1
  <2>f. attempt[j][n] \in AttemptRow
    BY <1>f
  <2>1. ASSUME NEW s, TransitionAttempt(j, n, s)
        PROVE  StoreGrows
    BY <2>r, <2>1 DEF TransitionAttempt
  <2>2. ASSUME NEW c, SetClass(j, n, c)
        PROVE  StoreGrows
    BY <2>r, <2>2, <2>f DEF SetClass, AttemptRow
  <2>3. CASE Heartbeat(j, n)
    BY <2>r, <2>3 DEF Heartbeat
  <2>4. CASE LeaseExpires(j, n)
    BY <2>r, <2>4, <2>f DEF LeaseExpires, AttemptRow
  <2>5. ASSUME NEW s, NEW retry, FinishAttempt(j, n, s, retry)
        PROVE  StoreGrows
    <3>1. made' = made /\ \A x \in outbox' : x \in outbox \/ EntryExists(x)
      BY <1>4, <2>5 DEF FinishAttempt, EntryExists, Sync
    <3>2. CASE IsOver(j, n)
      BY <1>1, <2>5, <3>1, <3>2 DEF FinishAttempt
    <3>3. CASE ~IsOver(j, n)
      BY <2>r, <2>5, <3>1, <3>3 DEF FinishAttempt
    <3> QED
      BY <3>2, <3>3
  <2>6. CASE SettleRow(j, n)
    BY <2>r, <2>6 DEF SettleRow, Processed
  <2> QED
    BY <1>4, <2>1, <2>2, <2>3, <2>4, <2>5, <2>6 DEF AttemptTransaction
<1>5. CASE UNCHANGED storeVars \/ (UNCHANGED attempt /\ Processed) \/ RequeueDueJobs
  BY <1>1, <1>5 DEF storeVars, Processed, RequeueDueJobs
<1> QED
  BY <1>3, <1>4, <1>5 DEF Transaction

\* Attempt rows are never deleted: what exists goes on existing.
LEMMA RowsLast ==
  ASSUME TypeOK, TypeOK', StoreGrows
  PROVE  /\ \A a \in AttemptId : Exists(a) => Exists(a)'
         /\ \A e \in Entry : EntryExists(e) => EntryExists(e)'
         /\ \A j \in Jobs, n \in 0 .. AttemptBound : n <= made[j] => n <= made'[j]
<1>1. ASSUME NEW j \in Jobs, NEW n \in 0 .. AttemptBound, n <= made[j]
      PROVE  n <= made'[j]
  BY <1>1 DEF TypeOK, StoreTypeOK, StoreGrows
<1> QED
  BY <1>1 DEF AttemptId, Entry, Exists, EntryExists, Numbers

\* So the rows a worker remembers still exist after a step of another.
LEMMA TaskStaysInRows ==
  ASSUME TypeOK, TypeOK', StoreGrows, NEW w \in Workers, TaskRefersToRows(w), Kept(w)
  PROVE  TaskRefersToRows(w)'
<1>e. task \in [Workers -> Task]
  BY DEF TypeOK
<1>1. CASE task'[w].pc \in {"idle", "candidate"}
  BY <1>1 DEF TaskRefersToRows, HoldPc, WorkPc, OutcomePc, At
<1>2. CASE task'[w] = task[w]
  <2>1. task[w].pc \in HoldPc => Exists(task[w].id)'
    <3>1. task[w].pc \in HoldPc => task[w].id \in AttemptId
      BY <1>e, TaskByPc DEF HoldTask, WorkTask, OutcomeTask
    <3> QED
      BY <1>2, <3>1, RowsLast DEF TaskRefersToRows, Exists
  <2>2. At(w, "recovering") => \A a \in task[w].ids : Exists(a)'
    BY <1>e, TaskByPc, RowsLast DEF TaskRefersToRows, RecoverTask
  <2>3. task[w].pc \in {"scanning", "ending", "judging", "repairing"} =>
          \A r \in task[w].rows : Exists(r.id)'
    <3>1. task[w].pc \in {"scanning", "ending", "judging", "repairing"} =>
            task[w].rows \in SUBSET Row
      BY <1>e, TaskByPc DEF At, ScanTask, RepairTask
    <3> QED
      BY <3>1, RowsLast DEF TaskRefersToRows, Row
  <2>4. task[w].pc \in {"ending", "judging", "repairing"} => Exists(task[w].row.id)'
    <3>1. task[w].pc \in {"ending", "judging", "repairing"} =>
            task[w].row.id \in AttemptId
      BY <1>e, TaskByPc DEF RepairTask, Row
    <3> QED
      BY <1>2, <3>1, RowsLast DEF TaskRefersToRows, Exists
  <2>5. task[w].pc \in {"draining", "applying", "settling"} =>
          \A e \in task[w].entries : EntryExists(e)'
    <3>1. task[w].pc \in {"draining", "applying", "settling"} =>
            task[w].entries \in SUBSET Entry
      BY <1>e, TaskByPc DEF At, DrainTask, SettleTask
    <3> QED
      BY <3>1, RowsLast DEF TaskRefersToRows
  <2>6. task[w].pc \in {"applying", "settling"} =>
          task[w].number <= made'[task[w].entry.job]
    <3>1. task[w].pc \in {"applying", "settling"} =>
            task[w].number \in 0 .. AttemptBound /\ task[w].entry.job \in Jobs
      BY <1>e, TaskByPc DEF SettleTask, Entry
    <3> QED
      BY <3>1, RowsLast DEF TaskRefersToRows
  <2> QED
    BY <1>2, <2>1, <2>2, <2>3, <2>4, <2>5, <2>6 DEF TaskRefersToRows, At, Exists
<1> QED
  BY <1>1, <1>2 DEF Kept

\* RowsExist is inductive.
LEMMA RowsExistKept ==
  ASSUME TypeOK, TypeOK', RowsExist, [Next]_vars
  PROVE  RowsExist'
<1>1. StoreGrows
  BY NextStep, TransactionGrows
<1>2. ASSUME NEW j \in Jobs, NEW n \in Numbers, attempt'[j][n].status # "none"
      PROVE  n <= made'[j]
  <2>1. attempt[j][n].status # "none" => n <= made'[j]
    BY <1>1, RowsLast DEF RowsExist, Numbers
  <2> QED
    BY <1>1, <1>2, <2>1 DEF StoreGrows
<1>3. ASSUME NEW e \in outbox'
      PROVE  EntryExists(e)'
  BY <1>1, <1>3, RowsLast DEF StoreGrows, RowsExist, TypeOK, StoreTypeOK
<1>4. ASSUME NEW w \in Workers
      PROVE  TaskRefersToRows(w)'
  <2>1. Kept(w) => TaskRefersToRows(w)'
    BY <1>1, TaskStaysInRows DEF RowsExist
  <2> QED
    BY <2>1, NextStep DEF WorkerStep
<1> QED
  BY <1>2, <1>3, <1>4 DEF RowsExist

\* OneHolder is inductive: a claim numbers its attempt above every attempt
\* that any worker, alive or late, still holds.
LEMMA OneHolderKept ==
  ASSUME TypeOK, RowsExist, OneHolder, [Next]_vars
  PROVE  OneHolder'
<1> SUFFICES ASSUME NEW v \in Workers, NEW w \in Workers, v # w,
                    task'[v].pc \in HoldPc, task'[w].pc \in HoldPc,
                    task'[v].id = task'[w].id
             PROVE  FALSE
  BY DEF OneHolder
<1>k. ASSUME NEW u \in Workers, Kept(u), task'[u].pc \in HoldPc
      PROVE  task[u].pc \in HoldPc /\ task'[u].id = task[u].id
  BY <1>k DEF Kept, HoldPc, WorkPc, OutcomePc
<1>1. CASE \A u \in Workers : Kept(u)
  BY <1>1, <1>k DEF OneHolder
<1>2. ASSUME NEW u \in Workers, WorkerStep(u)
      PROVE  FALSE
  <2>1. \A x \in Workers \ {u} : task'[x].pc \in HoldPc =>
          task[x].pc \in HoldPc /\ task'[x].id = task[x].id
    BY <1>2, <1>k DEF WorkerStep
  <2>2. CASE task[u].pc \in HoldPc /\ task'[u].id = task[u].id
    BY <2>1, <2>2 DEF OneHolder
  <2>3. CASE u \notin {v, w}
    BY <2>1, <2>3 DEF OneHolder
  <2>4. ASSUME u \in {v, w}, NEW j \in Jobs, task'[u].id = <<j, made[j] + 1>>
        PROVE  FALSE
    <3>1. PICK x \in {v, w} : x # u /\ task'[x].id = task'[u].id
      BY <2>4
    <3>2. task[x].pc \in HoldPc /\ task[x].id = <<j, made[j] + 1>>
      BY <2>1, <2>4, <3>1
    <3>3. made[j] + 1 <= made[j]
      BY <3>2 DEF RowsExist, TaskRefersToRows, Exists
    <3> QED
      BY <3>3 DEF TypeOK, StoreTypeOK
  <2> QED
    BY <1>2, <2>2, <2>3, <2>4 DEF WorkerStep, HoldsOn
<1> QED
  BY <1>1, <1>2, NextStep

\* History is inductive: a job gets back on offer only through _retry_safe,
\* and a class is safe only if the worker resolved it so from the payload.
LEMMA HistoryKept ==
  ASSUME TypeOK, RowsExist, History, Transaction
  PROVE  History'
<1>e. /\ made \in [Jobs -> 0 .. AttemptBound] /\ job \in [Jobs -> JobRow]
      /\ attempt \in [Jobs -> [Numbers -> AttemptRow]]
  BY DEF TypeOK, StoreTypeOK
\* A step that keeps the claims' counters and gives no attempt a new class.
<1>1. ASSUME made' = made,
             \A j \in Jobs, n \in Numbers :
               attempt'[j][n].class = "safe" => attempt[j][n].class = "safe" \/ j \in SafeJobs,
             \A j \in Jobs :
               \/ job'[j].status = job[j].status
               \/ job'[j].status \in TerminalJob
               \/ made[j] = 0
               \/ j \in SafeJobs /\ job'[j].status \in {"queued", "retry_wait"}
      PROVE  History'
  BY <1>1, <1>e DEF History, WaitingJob, TerminalJob
<1>2. ASSUME NEW j \in Jobs, TransactionOf(j)
      PROVE  History'
  <2>1. CASE ClaimJob(j)
    <3>1. ASSUME NEW i \in Jobs
          PROVE  /\ made'[i] = IF i = j THEN made[i] + 1 ELSE made[i]
                 /\ job'[i].status = IF i = j THEN "running" ELSE job[i].status
                 /\ \A n \in Numbers : \/ attempt'[i][n].class = attempt[i][n].class
                                       \/ attempt'[i][n].class = "unknown"
      BY <1>e, <2>1 DEF ClaimJob, JobRow
    <3>2. made[j] > 0 => j \in SafeJobs
      BY <2>1 DEF ClaimJob, CanClaim, History
    <3>3. ASSUME NEW i \in Jobs
          PROVE  /\ job'[i].status \in WaitingJob \cup {"none"} => made'[i] = 0
                 /\ job'[i].status \in {"queued", "retry_wait"} /\ made'[i] > 0
                      => i \in SafeJobs
                 /\ made'[i] > 1 => i \in SafeJobs
                 /\ \A n \in Numbers : attempt'[i][n].class = "safe" => i \in SafeJobs
      <4>1. CASE i = j
        BY <1>e, <3>1, <3>2, <4>1 DEF History, WaitingJob
      <4>2. CASE i # j
        BY <1>e, <3>1, <4>2 DEF History
      <4> QED
        BY <4>1, <4>2
    <3> QED
      BY <3>3 DEF History
  <2>2. CASE RetrySafeJob(j)
    <3>1. attempt[j][made[j]].class = "safe" /\ made[j] \in Numbers
      BY <1>e, <2>2 DEF RetrySafeJob, RetrySafe, Numbers
    <3>2. j \in SafeJobs
      BY <3>1 DEF History
    <3> QED
      BY <1>1, <1>e, <2>2, <3>2 DEF RetrySafeJob
  <2>3. CASE SubmitJob(j) \/ RequestCancel(j) \/ RetryFallsDue(j) \/ ExhaustJob(j)
    <3>1. CASE SubmitJob(j)
      BY <1>1, <1>e, <3>1 DEF History, SubmitJob
    <3>2. CASE RequestCancel(j)
      BY <1>1, <1>e, <3>2 DEF RequestCancel, JobRow
    <3>3. CASE RetryFallsDue(j)
      BY <1>1, <1>e, <3>3 DEF RetryFallsDue, JobRow
    <3>4. CASE ExhaustJob(j)
      BY <1>1, <1>e, <3>4 DEF ExhaustJob, TerminalJob
    <3> QED
      BY <2>3, <3>1, <3>2, <3>3, <3>4
  <2>4. ASSUME NEW target \in {"queued", "waiting_approval"} \cup TerminalJob,
               TransitionJob(j, target),
               target \in TerminalJob \/ job[j].status = "waiting_input"
        PROVE  History'
    BY <1>1, <1>e, <2>4 DEF History, TransitionJob, WaitingJob, JobRow
  <2>5. ASSUME NEW target \in {"queued", "canceled"}, DecideApproval(j, target)
        PROVE  History'
    BY <1>1, <1>e, <2>5 DEF History, DecideApproval, WaitingJob, JobRow
  <2> QED
    BY <1>2, <2>1, <2>2, <2>3, <2>4, <2>5 DEF TransactionOf, TerminalJob
<1>3. ASSUME NEW j \in Jobs, NEW n \in Numbers, AttemptTransaction(j, n)
      PROVE  History'
  <2>1. ASSUME NEW s, NEW retry, FinishAttempt(j, n, s, retry), s \in TerminalAttempt
        PROVE  History'
    <3>1. \A i \in Jobs, m \in Numbers : attempt'[i][m].class = attempt[i][m].class
      BY <1>e, <2>1 DEF FinishAttempt, AttemptRow
    <3>2. CASE Retryable(j, n, s, retry)
      <4>1. j \in SafeJobs
        BY <3>2 DEF Retryable, RetrySafe, History
      <4>2. made' = made /\ job' = [job EXCEPT ![j].status = "retry_wait", ![j].due = FALSE]
        BY <2>1, <3>2 DEF FinishAttempt
      <4>3. \A i \in Jobs : job'[i] = job[i] \/ (i = j /\ job'[i].status = "retry_wait")
        BY <1>e, <4>2 DEF JobRow
      <4> QED
        BY <1>1, <3>1, <4>1, <4>2, <4>3
    <3>3. CASE ~Retryable(j, n, s, retry)
      <4>1. SettledStatus(s) \in TerminalJob
        BY <2>1 DEF SettledStatus, TerminalAttempt, TerminalJob
      <4>2. made' = made /\ job' = [job EXCEPT ![j].status = SettledStatus(s)]
        BY <2>1, <3>3 DEF FinishAttempt
      <4>3. \A i \in Jobs : job'[i] = job[i] \/ job'[i].status = SettledStatus(s)
        BY <1>e, <4>2
      <4> QED
        BY <1>1, <3>1, <4>1, <4>2, <4>3
    <3> QED
      BY <3>2, <3>3
  <2>2. ASSUME NEW c \in Class, c = "safe" => j \in SafeJobs, SetClass(j, n, c)
        PROVE  History'
    <3>1. \A i \in Jobs, m \in Numbers :
            attempt'[i][m].class = "safe" => attempt[i][m].class = "safe" \/ i \in SafeJobs
      BY <1>e, <2>2 DEF SetClass, AttemptRow
    <3> QED
      BY <1>1, <2>2, <3>1 DEF SetClass
  <2>3. ASSUME NEW s, \/ TransitionAttempt(j, n, s)
                      \/ SettleRow(j, n) \/ Heartbeat(j, n) \/ LeaseExpires(j, n)
        PROVE  History'
    <3>1. \A i \in Jobs, m \in Numbers : attempt'[i][m].class = attempt[i][m].class
      <4>1. \/ \E x : attempt' = [attempt EXCEPT ![j][n].status = x]
            \/ \E b : attempt' = [attempt EXCEPT ![j][n].expired = b]
        BY <2>3 DEF TransitionAttempt, SettleRow, Heartbeat, LeaseExpires
      <4>2. \A x : [attempt[j][n] EXCEPT !.status = x].class = attempt[j][n].class
        BY <1>e DEF AttemptRow
      <4>3. \A b : [attempt[j][n] EXCEPT !.expired = b].class = attempt[j][n].class
        BY <1>e DEF AttemptRow
      <4>4. ASSUME NEW r, attempt' = [attempt EXCEPT ![j][n] = r],
                   r.class = attempt[j][n].class
            PROVE  \A i \in Jobs, m \in Numbers :
                     attempt'[i][m].class = attempt[i][m].class
        BY <1>e, <4>4
      <4> QED
        BY <4>1, <4>2, <4>3, <4>4
    <3> QED
      BY <1>1, <2>3, <3>1 DEF TransitionAttempt, SettleRow, Processed, Heartbeat,
                              LeaseExpires
  <2> QED
    BY <1>3, <2>1, <2>2, <2>3 DEF AttemptTransaction
<1>4. CASE RequeueDueJobs
  <2>1. \A j \in Jobs : \/ job'[j].status = job[j].status
                        \/ job[j].status = "retry_wait" /\ job'[j].status = "queued"
    BY <1>e, <1>4 DEF RequeueDueJobs, DueRetries, JobRow
  <2> QED
    BY <1>1, <1>e, <1>4, <2>1 DEF RequeueDueJobs, History
<1>5. CASE UNCHANGED storeVars \/ (UNCHANGED attempt /\ Processed)
  BY <1>1, <1>5 DEF storeVars, Processed
<1> QED
  BY <1>2, <1>3, <1>4, <1>5 DEF Transaction

\* What a transaction does to the turns: a job starts only as some worker's
\* candidate, a settled job stays settled (it can be retried only after an
\* attempt), and jobs come into being in their order.
LEMMA TurnTransaction ==
  ASSUME TypeOK, RowsExist, History, Transaction, NEW j \in Jobs
  PROVE  /\ made'[j] > 0 => \/ made[j] > 0
                            \/ \E w \in Workers : At(w, "candidate") /\ task[w].job = j
         /\ Settled(j) => Settled(j)'
         /\ job[j].status # "none" => job'[j].status # "none"
         /\ job[j].status = "none" /\ job'[j].status # "none" =>
              \A i \in Jobs : i < j => job[i].status # "none"
<1>e. /\ made \in [Jobs -> 0 .. AttemptBound] /\ job \in [Jobs -> JobRow]
      /\ job[j].status \in {"none"} \cup WaitingJob => made[j] = 0
  BY DEF TypeOK, StoreTypeOK, History
\* A transaction that starts nothing.
<1>1. ASSUME made' = made,
             \/ job'[j].status = job[j].status
             \/ job'[j].status # "none" /\ made[j] > 0
             \/ job'[j].status # "none" /\ job[j].status \notin TerminalJob \cup {"none"}
      PROVE  /\ made'[j] > 0 => made[j] > 0
             /\ Settled(j) => Settled(j)'
             /\ job[j].status # "none" => job'[j].status # "none"
             /\ ~(job[j].status = "none" /\ job'[j].status # "none")
  BY <1>e, <1>1 DEF Settled, IsTerminal, TerminalJob
<1>2. ASSUME NEW i \in Jobs, TransactionOf(i)
      PROVE  /\ made'[j] > 0 => \/ made[j] > 0
                                \/ \E w \in Workers : At(w, "candidate") /\ task[w].job = j
             /\ Settled(j) => Settled(j)'
             /\ job[j].status # "none" => job'[j].status # "none"
             /\ job[j].status = "none" /\ job'[j].status # "none" =>
                  \A k \in Jobs : k < j => job[k].status # "none"
  <2>1. CASE SubmitJob(i) /\ \A k \in Jobs : k < i => job[k].status # "none"
    <3>1. made' = made /\ job' = [job EXCEPT ![i].status = "waiting_input"]
          /\ job[i].status = "none"
      BY <2>1 DEF SubmitJob
    <3>2. CASE i = j
      <4>1. job'[j].status = "waiting_input"
        BY <1>e, <3>1, <3>2 DEF JobRow
      <4> QED
        BY <1>e, <2>1, <3>1, <3>2, <4>1 DEF Settled, IsTerminal, TerminalJob
    <3>3. CASE i # j
      <4>1. job'[j] = job[j]
        BY <1>e, <3>1, <3>3
      <4> QED
        BY <1>1, <3>1, <4>1
    <3> QED
      BY <3>2, <3>3
  <2>2. CASE ClaimJob(i) /\ \E w \in Workers : At(w, "candidate") /\ task[w].job = i
    <3>1. /\ made' = [made EXCEPT ![i] = @ + 1] /\ job[i].status = "queued"
          /\ job' = [job EXCEPT ![i].status = "running"]
      BY <2>2 DEF ClaimJob, CanClaim
    <3>2. CASE i = j
      <4>1. made'[j] = made[j] + 1 /\ job'[j].status = "running"
        BY <1>e, <3>1, <3>2 DEF JobRow
      <4>2. Settled(j)'
        BY <1>e, <4>1 DEF Settled
      <4> QED
        BY <2>2, <3>1, <3>2, <4>1, <4>2
    <3>3. CASE i # j
      <4>1. job'[j] = job[j] /\ made'[j] = made[j]
        BY <1>e, <3>1, <3>3
      <4> QED
        BY <4>1 DEF Settled, IsTerminal
    <3> QED
      BY <3>2, <3>3
  <2>3. ASSUME NEW x \in JobRow, x.status # "none", job' = [job EXCEPT ![i] = x],
               made' = made,
               \/ x.status = job[i].status
               \/ made[i] > 0
               \/ job[i].status \notin TerminalJob \cup {"none"}
        PROVE  \/ job'[j].status = job[j].status
               \/ job'[j].status # "none" /\ made[j] > 0
               \/ job'[j].status # "none" /\ job[j].status \notin TerminalJob \cup {"none"}
    BY <1>e, <2>3
  <2>4. ASSUME NEW target \in JobStatus \ {"none"}, TransitionJob(i, target),
               made[i] > 0 \/ job[i].status # "none"
        PROVE  /\ made' = made
               /\ \/ job'[j].status = job[j].status
                  \/ job'[j].status # "none" /\ made[j] > 0
                  \/ /\ job'[j].status # "none"
                     /\ job[j].status \notin TerminalJob \cup {"none"}
    BY <1>e, <2>4 DEF TransitionJob, CanTransition, JobRow
  <2>5. ASSUME NEW target \in {"queued", "canceled"}, DecideApproval(i, target)
        PROVE  /\ made' = made
               /\ \/ job'[j].status = job[j].status
                  \/ /\ job'[j].status # "none"
                     /\ job[j].status \notin TerminalJob \cup {"none"}
    BY <1>e, <2>5 DEF DecideApproval, JobRow, TerminalJob
  <2>6. ASSUME RequestCancel(i) \/ RetryFallsDue(i)
        PROVE  made' = made /\ job'[j].status = job[j].status
    BY <1>e, <2>6 DEF RequestCancel, RetryFallsDue, JobRow
  <2>7. ASSUME RetrySafeJob(i)
        PROVE  /\ made' = made
               /\ \/ job'[j].status = job[j].status
                  \/ job'[j].status # "none" /\ made[j] > 0
    BY <1>e, <2>7 DEF RetrySafeJob, JobRow
  <2>8. ASSUME ExhaustJob(i)
        PROVE  /\ made' = made
               /\ \/ job'[j].status = job[j].status
                  \/ /\ job'[j].status # "none"
                     /\ job[j].status \notin TerminalJob \cup {"none"}
    BY <1>e, <2>8 DEF ExhaustJob, CanClaim, JobRow, TerminalJob
  <2>9. CASE \E target \in JobStatus \ {"none"} :
               TransitionJob(i, target) /\ (made[i] > 0 \/ job[i].status # "none")
    BY <1>1, <2>4, <2>9
  <2>10. CASE \E target \in {"queued", "canceled"} : DecideApproval(i, target)
    BY <1>1, <2>5, <2>10
  <2>11. CASE RequestCancel(i) \/ RetryFallsDue(i) \/ RetrySafeJob(i) \/ ExhaustJob(i)
    BY <1>1, <2>6, <2>7, <2>8, <2>11
  <2> QED
    BY <1>2, <2>1, <2>2, <2>9, <2>10, <2>11
       DEF TransactionOf, JobStatus, TerminalJob, WaitingJob
<1>3. ASSUME NEW i \in Jobs, NEW n \in Numbers, n <= made[i], AttemptTransaction(i, n)
      PROVE  /\ made' = made
             /\ \/ job'[j].status = job[j].status
                \/ job'[j].status # "none" /\ made[j] > 0
  <2>1. ASSUME NEW s \in TerminalAttempt, NEW retry, FinishAttempt(i, n, s, retry)
        PROVE  /\ made' = made
               /\ \/ job'[j].status = job[j].status
                  \/ job'[j].status # "none" /\ made[j] > 0
    <3>1. made[i] > 0
      BY <1>e, <1>3 DEF Numbers
    <3>2. SettledStatus(s) # "none"
      BY <2>1 DEF SettledStatus, TerminalAttempt
    <3>3. \/ job' = [job EXCEPT ![i].status = "retry_wait", ![i].due = FALSE]
          \/ job' = [job EXCEPT ![i].status = SettledStatus(s)]
      BY <2>1 DEF FinishAttempt
    <3>4. job'[j] = job[j] \/ (i = j /\ job'[j].status # "none")
      BY <1>e, <3>2, <3>3 DEF JobRow
    <3> QED
      BY <2>1, <3>1, <3>4 DEF FinishAttempt
  <2>2. CASE ~\E s \in TerminalAttempt, retry \in BOOLEAN : FinishAttempt(i, n, s, retry)
    BY <1>3, <2>2 DEF AttemptTransaction, TransitionAttempt, SetClass, Heartbeat,
                      LeaseExpires, SettleRow, Processed
  <2> QED
    BY <2>1, <2>2
<1>4. CASE RequeueDueJobs
  <2>1. /\ made' = made
        /\ \/ job'[j].status = job[j].status
           \/ job'[j].status = "queued" /\ job[j].status = "retry_wait"
    BY <1>e, <1>4 DEF RequeueDueJobs, DueRetries, JobRow
  <2> QED
    BY <1>1, <2>1 DEF TerminalJob
<1>5. CASE UNCHANGED storeVars \/ (UNCHANGED attempt /\ Processed)
  BY <1>1, <1>5 DEF storeVars, Processed
<1> QED
  BY <1>1, <1>2, <1>3, <1>4, <1>5 DEF Transaction

\* A worker gets a candidate from the query alone.
LEMMA OwnCandidate ==
  ASSUME TypeOK, NEW w \in Workers, Worker(w), task'[w].pc = "candidate"
  PROVE  \E j \in Jobs : FindCandidate(w, j)
<1>e. task \in [Workers -> Task]
  BY DEF TypeOK
<1>h. task[w].pc \in HoldPc => task[w] \in HoldTask
  BY <1>e, TaskByPc
<1>r. task[w].pc \in {"ending", "judging", "repairing"} => task[w] \in RepairTask
  BY <1>e, TaskByPc
<1>s. task[w].pc \in {"applying", "settling"} => task[w] \in SettleTask
  BY <1>e, TaskByPc
\* The steps of an attempt in the worker's hands.
<1>1. CASE \/ ResolveClass(w) \/ StartAttempt(w) \/ BeginRun(w) \/ SettleOutcome(w)
           \/ (\E status \in TerminalRun : EndRun(w, status))
           \/ (\E retry \in BOOLEAN : RaiseInRun(w, retry))
           \/ Monitor(w) \/ Timeout(w)
  <2>1. task[w].pc \in HoldPc
    BY <1>1 DEF ResolveClass, StartAttempt, BeginRun, SettleOutcome, EndRun, RaiseInRun,
                Monitor, Timeout, At, HoldPc, WorkPc, OutcomePc
  <2> USE <1>e, <1>h, <2>1, HoldTaskKeeps DEF HoldPc, WorkPc, OutcomePc
  <2>2. CASE ResolveClass(w)
    BY <2>2 DEF ResolveClass
  <2>3. CASE StartAttempt(w)
    <3>1. \/ task' = [task EXCEPT ![w].pc = "started", ![w].monitor = TRUE]
          \/ task' = [task EXCEPT ![w] = Idle]
      BY <2>3 DEF StartAttempt
    <3>2. \/ task'[w] = [task[w] EXCEPT !.pc = "started", !.monitor = TRUE]
          \/ task'[w] = Idle
      BY <3>1
    <3>3. [task[w] EXCEPT !.pc = "started", !.monitor = TRUE].pc = "started"
      BY DEF HoldTask, WorkTask, OutcomeTask
    <3>4. task'[w].pc \in {"started", "idle"}
      <4>1. CASE task'[w] = Idle
        BY <4>1 DEF Idle
      <4>2. CASE task'[w] = [task[w] EXCEPT !.pc = "started", !.monitor = TRUE]
        <5>1. task'[w].pc = "started"
          BY ONLY <3>3, <4>2, Zenon
        <5> QED
          BY <5>1
      <4> QED
        BY <3>2, <4>1, <4>2
    <3> QED
      BY <3>4
  <2>4. CASE BeginRun(w)
    BY <2>4 DEF BeginRun
  <2>5. CASE SettleOutcome(w)
    BY <2>5 DEF SettleOutcome
  <2>6. CASE \E status \in TerminalRun : EndRun(w, status)
    BY <2>6 DEF EndRun
  <2>7. CASE \E retry \in BOOLEAN : RaiseInRun(w, retry)
    BY <2>7 DEF RaiseInRun
  <2>8. CASE Monitor(w)
    <3>1. PICK g : \/ task' = [task EXCEPT ![w].signal = g, ![w].monitor = FALSE]
                   \/ task' = [task EXCEPT ![w].signal = g]
      BY <2>8 DEF Monitor
    <3>2. \/ task'[w] = [task[w] EXCEPT !.signal = g, !.monitor = FALSE]
          \/ task'[w] = [task[w] EXCEPT !.signal = g]
      BY <3>1
    <3>3. /\ [task[w] EXCEPT !.signal = g, !.monitor = FALSE].pc = task[w].pc
          /\ [task[w] EXCEPT !.signal = g].pc = task[w].pc
      OBVIOUS
    <3>4. task'[w].pc = task[w].pc
      BY ONLY <3>2, <3>3, Zenon
    <3> QED
      BY <3>4
  <2>9. CASE Timeout(w)
    BY <2>9 DEF Timeout
  <2> QED
    BY <1>1, <2>2, <2>3, <2>4, <2>5, <2>6, <2>7, <2>8, <2>9
\* The steps that write rows and go on to another place.
<1>2. CASE ClaimCandidate(w) \/ Finish(w) \/ RecoverRow(w) \/ Requeue(w) \/ RepairJob(w)
  <2>1. \E js, next : Advance(w, js, next) /\ next.pc # "candidate"
    <3> HIDE DEF Advance
    <3>1. Idle.pc # "candidate" /\ \A j, n : Held(j, n).pc # "candidate"
      BY DEF Idle, Held
    <3>2. CASE ClaimCandidate(w)
      BY <3>1, <3>2 DEF ClaimCandidate
    <3>3. CASE Finish(w) \/ Requeue(w)
      BY <3>1, <3>3 DEF Finish, Requeue
    <3>4. CASE RecoverRow(w)
      BY <3>1, <3>4 DEF RecoverRow
    <3>5. CASE RepairJob(w)
      BY <3>1, <3>5 DEF RepairJob
    <3> QED
      BY <1>2, <3>2, <3>3, <3>4, <3>5
  <2> QED
    BY <2>1, AdvanceKept
\* The steps that only read.
<1>3. CASE Crash(w) \/ StartRecovery(w) \/ StartReconcile(w) \/ ScanRow(w)
           \/ StartDrain(w) \/ ReadEntry(w) \/ EndReconcile(w) \/ SettleEntry(w)
  BY <1>3, <1>e DEF Crash, StartRecovery, StartReconcile, ScanRow, StartDrain, ReadEntry,
                    EndReconcile, SettleEntry, Idle
<1>4. CASE EndAttempt(w) \/ JudgeJob(w)
  <2>1. task[w] \in RepairTask
    BY <1>4, <1>r DEF EndAttempt, JudgeJob, At
  <2>2. \A pc : [task[w] EXCEPT !.pc = pc].pc = pc
    BY <2>1 DEF RepairTask
  <2> QED
    <3>1. \/ task'[w] = Idle
          \/ task'[w] = [pc |-> "scanning", rows |-> task[w].rows]
          \/ \E pc \in {"judging", "repairing"} : task'[w] = [task[w] EXCEPT !.pc = pc]
      BY <1>4, <1>e DEF EndAttempt, JudgeJob
    <3>2. task'[w].pc \in {"idle", "scanning", "judging", "repairing"}
      <4>1. CASE task'[w] = Idle
        BY <4>1 DEF Idle
      <4>2. CASE task'[w] = [pc |-> "scanning", rows |-> task[w].rows]
        BY <4>2
      <4>3. ASSUME NEW pc \in {"judging", "repairing"}, task'[w] = [task[w] EXCEPT !.pc = pc]
            PROVE  task'[w].pc = pc
        BY <2>2, <4>3
      <4> QED
        BY <3>1, <4>1, <4>2, <4>3
    <3> QED
      BY <3>2
<1>5. CASE ApplyEntry(w)
  <2>1. task[w] \in SettleTask
    BY <1>5, <1>s DEF ApplyEntry, At
  <2>2. [task[w] EXCEPT !.pc = "settling"].pc = "settling"
    BY <2>1 DEF SettleTask
  <2> QED
    <3>1. \/ task'[w] = [task[w] EXCEPT !.pc = "settling"]
          \/ task'[w] = [pc |-> "draining", entries |-> task[w].entries]
      BY <1>5, <1>e DEF ApplyEntry
    <3>2. CASE task'[w] = [task[w] EXCEPT !.pc = "settling"]
      <4>1. task'[w].pc = "settling"
        BY <2>2, <3>2
      <4> QED
        BY <4>1
    <3>3. CASE task'[w] = [pc |-> "draining", entries |-> task[w].entries]
      BY <3>3
    <3> QED
      BY <3>1, <3>2, <3>3
<1> QED
  BY <1>1, <1>2, <1>3, <1>4, <1>5 DEF Worker, Execute, Reconcile

\* So a candidate is an old one of the same job, or the query's answer.
LEMMA CandidateStep ==
  ASSUME TypeOK, RowsExist, [Next]_vars, NEW w \in Workers, task'[w].pc = "candidate"
  PROVE  \/ At(w, "candidate") /\ task'[w].job = task[w].job
         \/ \E j \in Jobs : FindCandidate(w, j)
<1>1. CASE Kept(w)
  BY <1>1 DEF Kept, At
<1>2. ASSUME NEW v \in Workers, Worker(v)
      PROVE  v = w \/ Kept(w)
  BY <1>2, ExecuteStep, MaintainStep, RepairStep, DrainStep
     DEF Worker, Reconcile, WorkerStep
<1>3. ASSUME NEW j \in Jobs, Web(j) \/ Clock(j)
      PROVE  Kept(w)
  BY <1>3, WebTransaction
<1>4. CASE WebCrash \/ UNCHANGED vars
  BY <1>1, <1>4 DEF WebCrash, vars, Kept
<1> QED
  BY <1>1, <1>2, <1>3, <1>4, OwnCandidate DEF Next

\* Turns is inductive.
LEMMA TurnsKept ==
  ASSUME TypeOK, TypeOK', RowsExist, History, Turns, [Next]_vars
  PROVE  Turns'
<1>t. Transaction
  BY NextStep
<1>s. \A i \in Jobs : Settled(i) => Settled(i)'
  BY <1>t, TurnTransaction
<1>i. Interactive \subseteq Jobs /\ Jobs \subseteq Nat
  BY ClassAssumption, JobsAssumption
<1>1. ASSUME NEW i \in Jobs, NEW j \in Jobs, i < j, job'[j].status # "none"
      PROVE  job'[i].status # "none"
  <2>1. job[i].status # "none"
    BY <1>t, <1>1, TurnTransaction DEF Turns
  <2> QED
    BY <1>t, <2>1, TurnTransaction
<1>2. ASSUME NEW w \in Workers, task'[w].pc = "candidate", task'[w].job \in Interactive,
             NEW i \in Interactive, i < task'[w].job
      PROVE  Settled(i)'
  <2>1. CASE At(w, "candidate") /\ task'[w].job = task[w].job
    BY <1>2, <1>i, <1>s, <2>1 DEF Turns
  <2>2. ASSUME NEW j \in Jobs, FindCandidate(w, j)
        PROVE  Settled(i)'
    <3>1. task'[w].job = j /\ IsCandidate(j)
      BY <2>2 DEF FindCandidate, TypeOK
    <3>2. job[j].status = "queued" /\ ~Blocks(i, j)
      BY <1>2, <1>i, <3>1 DEF IsCandidate
    <3>3. job[i].status # "none"
      BY <1>2, <1>i, <3>1, <3>2 DEF Turns
    <3>4. IsTerminal(i)
      <4>1. job[i].status \in JobStatus
        BY <1>i DEF TypeOK, StoreTypeOK, JobRow
      <4> QED
        BY <1>2, <3>1, <3>2, <3>3, <4>1 DEF Blocks, IsTerminal, JobStatus
    <3> QED
      BY <1>i, <1>s, <3>4 DEF Settled
  <2> QED
    BY <1>2, <2>1, <2>2, CandidateStep
<1>3. ASSUME NEW i \in Interactive, NEW j \in Interactive, i < j, made'[j] > 0
      PROVE  Settled(i)'
  <2>1. Settled(i)
    BY <1>t, <1>i, <1>3, TurnTransaction DEF Turns, TurnsStartInOrder, Settled
  <2> QED
    BY <1>i, <1>s, <2>1
<1> QED
  BY <1>1, <1>2, <1>3 DEF Turns, TurnsStartInOrder, Settled, At, IsTerminal

-----------------------------------------------------------------------------
(***************************************************************************)
(* The two stores (StoresInv), when no lease lapses under a living worker. *)
(* Four things are shown of each step: what its transaction does to a job  *)
(* (Lasting), what it does to records, attempts and entries (Effects),     *)
(* what its worker has in hand afterwards (Own), and that every conjunct   *)
(* of StoresInv survives them.                                             *)
(***************************************************************************)
\* What a transaction does to a job, as far as run records are concerned: it
\* never gives a job that ended without an attempt, or that was canceled
\* before the first one, an attempt; it raises the budget only after the
\* last attempt; and it ends a job that had one attempt with an entry that
\* names it, unless the budget is used up.
Lasting(j) ==
    /\ made'[j] = made[j] \/ (ClaimJob(j) /\ made'[j] = made[j] + 1)
    /\ job[j].max <= job'[j].max
    /\ WithinBudget(j) => WithinBudget(j)'
    /\ NeverRan(j) => NeverRan(j)'
    /\ made[j] = 0 /\ job[j].cancel => made'[j] = 0 /\ job'[j].cancel
    /\ made[j] = 1 /\ ~IsTerminal(j) /\ IsTerminal(j)' =>
         job[j].max <= 1 \/ \E e \in outbox' : e.job = j /\ e.number = 1

LEMMA LastingTransaction ==
  ASSUME TypeOK, RowsExist, History, Transaction, NEW j \in Jobs
  PROVE  Lasting(j)
<1>e. /\ made \in [Jobs -> 0 .. AttemptBound] /\ job \in [Jobs -> JobRow]
      /\ attempt \in [Jobs -> [Numbers -> AttemptRow]]
      /\ job[j].max \in Nat /\ made[j] \in Nat /\ MaxAttempts[j] \in Nat
  BY MaxAttemptsAssumption, BoundAssumption
     DEF TypeOK, StoreTypeOK, JobRow, Numbers
<1>o. \A n \in Numbers : IsOver(j, n) => IsOver(j, n)'
  BY TransactionGrows DEF StoreGrows, IsOver
<1>n. made[j] > 0 => made[j] \in Numbers
  BY <1>e DEF Numbers
\* A step that keeps the budget and does not claim.
<1>1. ASSUME made'[j] = made[j], job'[j].max = job[j].max,
             NeverRan(j) => IsTerminal(j)',
             made[j] = 0 /\ job[j].cancel => job'[j].cancel,
             made[j] = 1 /\ ~IsTerminal(j) /\ IsTerminal(j)' =>
               job[j].max <= 1 \/ \E e \in outbox' : e.job = j /\ e.number = 1
      PROVE  Lasting(j)
  <2>1. WithinBudget(j) => WithinBudget(j)'
    BY <1>1, <1>e, <1>o, <1>n DEF WithinBudget
  <2> QED
    BY <1>1, <1>e, <2>1 DEF Lasting, NeverRan
<1>2. ASSUME job'[j] = job[j], made'[j] = made[j]
      PROVE  Lasting(j)
  BY <1>1, <1>2 DEF NeverRan, IsTerminal
\* A step that leaves the status as it was, or the job open.
<1>3. ASSUME made'[j] = made[j], job'[j].max = job[j].max, job'[j].cancel = job[j].cancel,
             \/ job'[j].status = job[j].status
             \/ ~IsTerminal(j)' /\ ~IsTerminal(j)
             \/ made[j] > 1
             \/ made[j] = 1 /\ ~IsTerminal(j)'
             \/ /\ IsTerminal(j)' \/ made[j] # 0
                /\ \/ made[j] # 1
                   \/ job[j].max <= 1
                   \/ \E e \in outbox' : e.job = j /\ e.number = 1
      PROVE  Lasting(j)
  BY <1>1, <1>3, <1>e DEF NeverRan, IsTerminal
<1>4. ASSUME NEW i \in Jobs, TransactionOf(i)
      PROVE  Lasting(j)
  <2>1. ASSUME NEW x, job' = [job EXCEPT ![i] = x], made' = made, i # j
        PROVE  Lasting(j)
    BY <1>2, <2>1, <1>e
  <2>2. CASE SubmitJob(i)
    BY <1>3, <2>1, <2>2, <1>e DEF SubmitJob, IsTerminal, TerminalJob, JobRow
  <2>3. ASSUME NEW target \in JobStatus, TransitionJob(i, target)
        PROVE  Lasting(j)
    <3>1. CASE i = j
      <4>1. /\ made'[j] = made[j] /\ job'[j].status = target /\ ~IsTerminal(j)
            /\ job'[j].max = job[j].max /\ job'[j].cancel = job[j].cancel
        BY <2>3, <3>1, <1>e DEF TransitionJob, CanTransition, IsTerminal, JobRow
      <4>2. CASE target \notin TerminalJob
        BY <1>3, <4>1, <4>2 DEF IsTerminal
      <4>3. CASE target \in TerminalJob
        <5>1. Sync(j, made[j], target) \in outbox'
          BY <2>3, <3>1, <4>3 DEF TransitionJob
        <5> QED
          BY <1>3, <4>1, <4>3, <5>1 DEF IsTerminal, Sync
      <4> QED
        BY <4>2, <4>3
    <3> QED
      BY <2>1, <2>3, <3>1 DEF TransitionJob
  <2>4. ASSUME NEW target \in {"queued", "canceled"}, DecideApproval(i, target)
        PROVE  Lasting(j)
    <3>1. CASE i = j
      <4>1. /\ made'[j] = made[j] /\ job'[j].status = target /\ ~IsTerminal(j)
            /\ job'[j].max = job[j].max /\ job'[j].cancel = job[j].cancel
            /\ made[j] = 0
        BY <2>4, <3>1, <1>e
           DEF DecideApproval, IsTerminal, JobRow, History, WaitingJob, TerminalJob
      <4> QED
        BY <1>3, <4>1 DEF IsTerminal, TerminalJob
    <3> QED
      BY <2>1, <2>4, <3>1 DEF DecideApproval
  <2>5. CASE RequestCancel(i)
    <3>1. CASE i = j
      <4>1. /\ made'[j] = made[j] /\ job'[j].status = job[j].status
            /\ job'[j].max = job[j].max /\ job'[j].cancel
        BY <2>5, <3>1, <1>e DEF RequestCancel, JobRow
      <4> QED
        BY <1>1, <4>1 DEF IsTerminal, NeverRan
    <3> QED
      BY <2>1, <2>5, <3>1 DEF RequestCancel
  <2>6. CASE RetrySafeJob(i)
    <3>1. CASE i = j
      <4>1. /\ made'[j] = made[j] /\ made[j] > 0 /\ job'[j].status = "queued"
            /\ job'[j].max = IF job[j].max > made[j] THEN job[j].max ELSE made[j] + 1
            /\ IsOver(j, made[j])
        BY <2>6, <3>1, <1>e DEF RetrySafeJob, JobRow, IsOver, TerminalAttempt
      <4>2. WithinBudget(j) => WithinBudget(j)'
        BY <4>1, <1>e, <1>o, <1>n DEF WithinBudget
      <4> QED
        BY <1>e, <4>1, <4>2 DEF Lasting, NeverRan, IsTerminal, TerminalJob
    <3> QED
      BY <2>1, <2>6, <3>1 DEF RetrySafeJob
  <2>7. CASE RetryFallsDue(i)
    <3>1. CASE i = j
      <4>1. /\ made'[j] = made[j] /\ job'[j].status = job[j].status
            /\ job'[j].max = job[j].max /\ job'[j].cancel = job[j].cancel
        BY <2>7, <3>1, <1>e DEF RetryFallsDue, JobRow
      <4> QED
        BY <1>3, <4>1
    <3> QED
      BY <2>1, <2>7, <3>1 DEF RetryFallsDue
  <2>8. CASE ClaimJob(i)
    <3>1. CASE i = j
      <4>1. /\ made'[j] = made[j] + 1 /\ job'[j].max = job[j].max
            /\ job'[j].status = "running" /\ job[j].status = "queued" /\ ~job[j].cancel
        BY <2>8, <3>1, <1>e DEF ClaimJob, CanClaim, JobRow
      <4>2. WithinBudget(j) => WithinBudget(j)'
        BY <4>1, <1>e DEF WithinBudget
      <4> QED
        BY <1>e, <2>8, <3>1, <4>1, <4>2 DEF Lasting, NeverRan, IsTerminal, TerminalJob
    <3>2. CASE i # j
      <4>1. job'[j] = job[j] /\ made'[j] = made[j]
        BY <2>8, <3>2, <1>e DEF ClaimJob
      <4> QED
        BY <1>2, <4>1
    <3> QED
      BY <3>1, <3>2
  <2>9. CASE ExhaustJob(i)
    <3>1. CASE i = j
      <4>1. /\ made'[j] = made[j] /\ job'[j].status = "failed"
            /\ job'[j].max = job[j].max /\ job'[j].cancel = job[j].cancel
            /\ made[j] >= job[j].max
        BY <2>9, <3>1, <1>e DEF ExhaustJob, JobRow
      <4> QED
        BY <1>3, <1>e, <4>1 DEF IsTerminal, TerminalJob
    <3> QED
      BY <2>1, <2>9, <3>1 DEF ExhaustJob
  <2> QED
    BY <1>4, <2>2, <2>3, <2>4, <2>5, <2>6, <2>7, <2>8, <2>9
       DEF TransactionOf, JobStatus, TerminalJob, WaitingJob
<1>5. ASSUME NEW i \in Jobs, NEW n \in Numbers, n <= made[i], AttemptTransaction(i, n)
      PROVE  Lasting(j)
  <2>1. ASSUME NEW s \in TerminalAttempt, NEW retry, FinishAttempt(i, n, s, retry)
        PROVE  Lasting(j)
    <3>1. made' = made
      BY <2>1 DEF FinishAttempt
    <3>2. CASE i # j
      <4>1. job'[j] = job[j]
        BY <2>1, <3>2, <1>e DEF FinishAttempt
      <4> QED
        BY <1>2, <3>1, <4>1
    <3>3. CASE i = j /\ Retryable(i, n, s, retry)
      <4>1. /\ job'[j].status = "retry_wait" /\ job'[j].max = job[j].max
            /\ job'[j].cancel = job[j].cancel /\ made[j] # 0
        BY <2>1, <3>3, <1>e, <1>5 DEF FinishAttempt, JobRow, Numbers
      <4> QED
        BY <1>3, <1>e, <3>1, <4>1 DEF IsTerminal, TerminalJob
    <3>4. CASE i = j /\ ~Retryable(i, n, s, retry)
      <4>1. /\ job'[j].max = job[j].max
            /\ job'[j].cancel = job[j].cancel /\ made[j] # 0
            /\ made[j] = 1 => n = 1
            /\ Sync(j, n, SettledStatus(s)) \in outbox'
        BY <2>1, <3>4, <1>e, <1>5 DEF FinishAttempt, JobRow, Numbers
      <4> QED
        BY <1>3, <1>e, <3>1, <4>1 DEF Sync
    <3> QED
      BY <3>2, <3>3, <3>4
  <2>2. CASE ~\E s \in TerminalAttempt, retry \in BOOLEAN : FinishAttempt(i, n, s, retry)
    BY <1>2, <1>5, <2>2 DEF AttemptTransaction, TransitionAttempt, SetClass, Heartbeat,
                      LeaseExpires, SettleRow, Processed
  <2> QED
    BY <2>1, <2>2
<1>6. CASE RequeueDueJobs
  <2>1. /\ made' = made
        /\ \/ job'[j] = job[j]
           \/ /\ job'[j].status = "queued" /\ job[j].status = "retry_wait"
              /\ job'[j].max = job[j].max /\ job'[j].cancel = job[j].cancel
    BY <1>e, <1>6 DEF RequeueDueJobs, DueRetries, JobRow
  <2> QED
    BY <1>2, <1>3, <2>1 DEF IsTerminal, TerminalJob
<1>7. CASE UNCHANGED storeVars \/ (UNCHANGED attempt /\ Processed)
  BY <1>2, <1>7 DEF storeVars, Processed
<1> QED
  BY <1>4, <1>5, <1>6, <1>7 DEF Transaction

\* What a step may do to the run record of an attempt: the submission opens
\* it, the worker begins or ends its own, the drain gives it the status of
\* its job, and a web request cancels that of a job that never ran.
RunWrite(j, n) ==
    \/ run'[j][n] = run[j][n]
    \/ job[j].status = "none" /\ n = 1 /\ run'[j][n] = "queued"
    \/ /\ run'[j][n] = "running" /\ UNCHANGED attempt
       /\ \E w \in Workers : /\ At(w, "started") /\ task[w].id = <<j, n>>
                             /\ task'[w].pc = "executing"
    \/ /\ run'[j][n] \in TerminalRun
       /\ \/ endpoint[j] = "run" /\ n = 1
          \/ \E w \in Workers : Holds(w, j, n) /\ task'[w].pc \in OutcomePc
          \/ /\ run[j][n] # "none"
             /\ \E w \in Workers : /\ At(w, "applying")
                                   /\ task[w].entry.job = j /\ task[w].number = n

\* What a step may do to an attempt: it ends with its run, or by recovery,
\* which names it in an entry or puts the job off; only a lease whose worker
\* is gone expires.
About(w, j, n) == At(w, "recovering") /\ <<j, n>> \in task[w].ids

Recovered(j, n) ==
    /\ \E w \in Workers : About(w, j, n)
    /\ \/ \E e \in outbox' : e.job = j /\ e.number = n
       \/ /\ attempt'[j][n].status = "interrupted"
          /\ n < job[j].max
          /\ ~IsTerminal(j)'

AttemptWrite(j, n) ==
    /\ IsLive(j, n) => IsLive(j, n)' \/ RunOver(j, n) \/ Recovered(j, n)
    /\ attempt'[j][n].expired =>
         attempt[j][n].expired \/ ~\E w \in Workers : Holds(w, j, n)

\* A job comes into being with its first run record, and a web request has
\* more to do only for a job that never ran and is canceled.
JobWrite(j) ==
    /\ job[j].status = "none" =>
         \/ job'[j].status = "none" /\ run'[j][1] = run[j][1]
         \/ job'[j].status # "none" /\ run'[j][1] = "queued"
    /\ \/ endpoint'[j] \in {endpoint[j], "none"}
       \/ endpoint'[j] = "run" /\ NeverRan(j)'
       \/ endpoint'[j] = "job" /\ made'[j] = 0 /\ job'[j].cancel

\* An entry is made for a job that never ran, for a run that has ended, or by
\* recovery; it goes when the run has ended.
EntryMade(e) ==
    \/ e.number = 0 /\ NeverRan(e.job)'
    \/ e.number > 1
    \/ e.number = 1 /\ RunOver(e.job, 1)
    \/ \E w \in Workers : About(w, e.job, e.number)

EntryGone(e) == e.number = 0 \/ RunOver(e.job, e.number)

Effects ==
    /\ \A j \in Jobs, n \in Numbers : RunWrite(j, n) /\ AttemptWrite(j, n)
    /\ \A j \in Jobs : JobWrite(j)
    /\ \A e \in outbox' : e \in outbox \/ EntryMade(e)
    /\ \A e \in outbox : e \in outbox' \/ EntryGone(e)

\* A step that leaves the run records and the attempts alone.
LEMMA JobEffects ==
  ASSUME UNCHANGED <<run, attempt>>, \A j \in Jobs : JobWrite(j),
         \A e \in outbox' : e \in outbox \/ EntryMade(e), outbox \subseteq outbox'
  PROVE  Effects
BY DEF Effects, RunWrite, AttemptWrite, IsLive

\* A web request, or the clock.
LEMMA WebEffects ==
  ASSUME TypeOK, History, EndpointsInv, ~LeaseSlips, NEW j \in Jobs, Web(j) \/ Clock(j)
  PROVE  Effects
<1>e. /\ made \in [Jobs -> 0 .. AttemptBound] /\ job \in [Jobs -> JobRow]
      /\ attempt \in [Jobs -> [Numbers -> AttemptRow]]
      /\ run \in [Jobs -> [Numbers -> RunStatus]]
      /\ endpoint \in [Jobs -> {"none", "job", "run"}]
      /\ 1 \in Numbers
  BY BoundAssumption DEF TypeOK, StoreTypeOK, Numbers
<1>h. job[j].status \in WaitingJob \cup {"none"} => made[j] = 0
  BY DEF History
\* A write to the row of job j that makes at most an entry without attempt.
<1>1. ASSUME NEW x \in JobRow, job' = [job EXCEPT ![j] = x], UNCHANGED <<run, attempt, made>>,
             job[j].status # "none",
             NEW E, outbox' = outbox \cup E,
             E # {} => made[j] = 0 /\ x.status \in TerminalJob,
             \A e \in E : e.job = j /\ e.number = 0,
             NEW p, endpoint' = [endpoint EXCEPT ![j] = p],
             \/ p \in {endpoint[j], "none"}
             \/ p = "run" /\ made[j] = 0 /\ x.status \in TerminalJob
             \/ p = "job" /\ made[j] = 0 /\ x.cancel
      PROVE  Effects
  <2>1. job'[j] = x /\ \A i \in Jobs \ {j} : job'[i] = job[i]
    BY <1>1, <1>e
  <2>2. endpoint'[j] = p /\ \A i \in Jobs \ {j} : endpoint'[i] = endpoint[i]
    BY <1>1, <1>e
  <2>3. \A i \in Jobs : JobWrite(i)
    BY <1>1, <2>1, <2>2 DEF JobWrite, NeverRan, IsTerminal
  <2>4. \A e \in E : EntryMade(e)
    BY <1>1, <2>1 DEF EntryMade, NeverRan, IsTerminal
  <2> QED
    BY <1>1, <2>3, <2>4, JobEffects
<1>2. ASSUME \A i \in Jobs \ {j} : job'[i] = job[i],
             UNCHANGED <<run, attempt, made, outbox>>, job[j].status # "none",
             \A i \in Jobs : \/ endpoint'[i] = endpoint[i]
                            \/ /\ endpoint'[i] = "job"
                               /\ made[i] = 0 /\ job'[i].cancel /\ job[i].status # "none"
      PROVE  Effects
  <2>1. \A i \in Jobs : JobWrite(i)
    BY <1>2 DEF JobWrite
  <2> QED
    BY <1>2, <2>1, JobEffects
<1>3. CASE Submit(j)
  <2>1. /\ job' = [job EXCEPT ![j].status = "waiting_input"] /\ job[j].status = "none"
        /\ UNCHANGED <<attempt, made, outbox, endpoint>>
        /\ run' = [run EXCEPT ![j][1] = "queued"]
    BY <1>3 DEF Submit, SubmitJob, SetRun
  <2>2. /\ job'[j].status = "waiting_input" /\ \A i \in Jobs \ {j} : job'[i] = job[i]
        /\ run'[j][1] = "queued"
        /\ \A i \in Jobs, n \in Numbers : run'[i][n] = run[i][n] \/ (i = j /\ n = 1 /\ run'[i][n] = "queued")
    <3>1. job'[j].status = "waiting_input" /\ \A i \in Jobs \ {j} : job'[i] = job[i]
      BY <2>1, <1>e DEF JobRow
    <3>2. run' = [run EXCEPT ![j] = [run[j] EXCEPT ![1] = "queued"]]
      BY <2>1
    <3>3. run[j] \in [Numbers -> RunStatus]
      BY <1>e
    <3>4. /\ run'[j] = [run[j] EXCEPT ![1] = "queued"]
          /\ \A i \in Jobs \ {j} : run'[i] = run[i]
      BY <1>e, <3>2
    <3>5. /\ run'[j][1] = "queued"
          /\ \A n \in Numbers : run'[j][n] = run[j][n] \/ (n = 1 /\ run'[j][n] = "queued")
      BY <1>e, <3>3, <3>4
    <3> QED
      BY <3>1, <3>4, <3>5
  <2>3. \A i \in Jobs : JobWrite(i)
    BY <1>e, <2>1, <2>2 DEF JobWrite
  <2>4. \A i \in Jobs, n \in Numbers : RunWrite(i, n) /\ AttemptWrite(i, n)
    BY <2>1, <2>2 DEF RunWrite, AttemptWrite, IsLive
  <2> QED
    BY <2>1, <2>3, <2>4 DEF Effects
<1>4. ASSUME NEW target \in JobStatus, target # "none", TransitionJob(j, target),
             made[j] = 0, job[j].status # "none", UNCHANGED run,
             NEW p, endpoint' = [endpoint EXCEPT ![j] = p],
             p \in {endpoint[j], "none"} \/ (p = "run" /\ target \in TerminalJob)
      PROVE  Effects
  <2> DEFINE E == IF target \in TerminalJob THEN {Sync(j, made[j], target)} ELSE {}
             x == [job[j] EXCEPT !.status = target]
  <2>1. x \in JobRow /\ x.status = target
    BY <1>4, <1>e DEF JobRow
  <2>2. job' = [job EXCEPT ![j] = x] /\ outbox' = outbox \cup E /\ UNCHANGED <<attempt, made>>
    BY <1>4 DEF TransitionJob
  <2>3. \A e \in E : e.job = j /\ e.number = 0
    BY <1>4 DEF Sync
  <2>4. E # {} => target \in TerminalJob
    OBVIOUS
  <2> HIDE DEF E, x
  <2> QED
    BY <1>1, <1>4, <2>1, <2>2, <2>3, <2>4
<1>5. ASSUME NEW target \in {"queued", "waiting_approval", "canceled"}, Dispatch(j, target)
      PROVE  Effects
  <2>1. /\ TransitionJob(j, target) /\ UNCHANGED <<run, endpoint>>
        /\ job[j].status = "waiting_input"
    BY <1>5 DEF Dispatch
  <2>2. endpoint' = [endpoint EXCEPT ![j] = endpoint[j]]
    BY <1>e, <2>1
  <2>3. target \in JobStatus /\ target # "none"
    BY DEF JobStatus, WaitingJob, TerminalJob
  <2> QED
    BY <1>4, <1>h, <2>1, <2>2, <2>3 DEF WaitingJob
<1>6. ASSUME NEW target \in {"queued", "canceled"}, DecideApproval(j, target), UNCHANGED run,
             NEW p, endpoint' = [endpoint EXCEPT ![j] = p],
             p = endpoint[j] \/ (p = "run" /\ target \in TerminalJob)
      PROVE  Effects
  <2> DEFINE E == IF target = "canceled" THEN {Sync(j, 0, "canceled")} ELSE {}
             x == [job[j] EXCEPT !.status = target, !.due = TRUE]
  <2>1. x \in JobRow /\ x.status = target
    BY <1>6, <1>e DEF JobRow, JobStatus, TerminalJob
  <2>2. job' = [job EXCEPT ![j] = x] /\ outbox' = outbox \cup E /\ UNCHANGED <<attempt, made>>
    BY <1>6, <1>e DEF DecideApproval
  <2>3. \A e \in E : e.job = j /\ e.number = 0
    BY DEF Sync
  <2>4. E # {} => target \in TerminalJob
    BY DEF TerminalJob
  <2>5. made[j] = 0 /\ job[j].status # "none"
    BY <1>6, <1>h DEF DecideApproval, WaitingJob
  <2> HIDE DEF E, x
  <2> QED
    BY <1>1, <1>6, <2>1, <2>2, <2>3, <2>4, <2>5
<1>7. CASE Approve(j) \/ Deny(j)
  <2>1. CASE Approve(j)
    <3>1. endpoint' = [endpoint EXCEPT ![j] = endpoint[j]] /\ UNCHANGED run
          /\ DecideApproval(j, "queued")
      BY <1>e, <2>1 DEF Approve
    <3> QED
      BY <1>6, <3>1
  <2>2. CASE Deny(j)
    BY <1>6, <2>2 DEF Deny, TerminalJob
  <2> QED
    BY <1>7, <2>1, <2>2
<1>8. CASE Cancel(j)
  BY <1>2, <1>8, <1>e DEF Cancel, RequestCancel
<1>9. CASE CancelUnclaimed(j)
  <2>1. /\ job' = [job EXCEPT ![j].cancel = TRUE] /\ UNCHANGED <<attempt, made, run, outbox>>
        /\ job[j].status # "none" /\ made[j] = 0
        /\ endpoint' = [endpoint EXCEPT ![j] = "job"]
    BY <1>9 DEF CancelUnclaimed, RequestCancel
  <2>2. job'[j].cancel /\ \A i \in Jobs \ {j} : job'[i] = job[i]
    BY <1>e, <2>1 DEF JobRow
  <2>3. \A i \in Jobs : endpoint'[i] = endpoint[i] \/ (i = j /\ endpoint'[i] = "job")
    BY <1>e, <2>1
  <2> QED
    BY <1>2, <2>1, <2>2, <2>3
<1>10. CASE CancelJobRow(j)
  <2>1. endpoint[j] = "job" /\ made[j] = 0 /\ UNCHANGED run
    BY <1>10 DEF CancelJobRow, EndpointsInv
  <2>2. CASE /\ TransitionJob(j, "canceled") /\ job[j].status = "queued"
             /\ endpoint' = [endpoint EXCEPT ![j] = "run"]
    BY <1>4, <2>1, <2>2 DEF TerminalJob, JobStatus
  <2>3. CASE UNCHANGED storeVars /\ endpoint' = [endpoint EXCEPT ![j] = "none"]
    <3>1. \A i \in Jobs : JobWrite(i)
      BY <1>e, <2>1, <2>3 DEF JobWrite, storeVars
    <3> QED
      BY <2>1, <2>3, <3>1, JobEffects DEF storeVars
  <2> QED
    BY <1>10, <2>2, <2>3 DEF CancelJobRow
<1>11. CASE CancelRunRecord(j)
  <2>1. /\ UNCHANGED storeVars /\ endpoint[j] = "run"
        /\ endpoint' = [endpoint EXCEPT ![j] = "none"]
        /\ run' = [run EXCEPT ![j][1] = "canceled"]
        /\ job[j].status # "none"
    BY <1>11 DEF CancelRunRecord, SetRun, EndpointsInv, IsTerminal, TerminalJob
  <2>2. \A i \in Jobs, n \in Numbers :
          run'[i][n] = run[i][n] \/ (i = j /\ n = 1 /\ run'[i][n] = "canceled")
    BY <2>1, <1>e
  <2>3. \A i \in Jobs : JobWrite(i)
    BY <1>e, <2>1, <2>2 DEF JobWrite, storeVars
  <2>4. \A i \in Jobs, n \in Numbers : RunWrite(i, n) /\ AttemptWrite(i, n)
    BY <2>1, <2>2 DEF RunWrite, AttemptWrite, IsLive, storeVars, TerminalRun
  <2> QED
    BY <2>1, <2>3, <2>4 DEF Effects, storeVars
<1>12. CASE Retry(j)
  BY <1>2, <1>12, <1>e DEF Retry, RetrySafeJob
<1>13. CASE FallDue(j)
  BY <1>2, <1>13, <1>e DEF FallDue, RetryFallsDue
<1>14. ASSUME NEW n \in Numbers, ExpireLease(j, n)
       PROVE  Effects
  <2>1. /\ attempt' = [attempt EXCEPT ![j][n].expired = TRUE]
        /\ UNCHANGED <<job, made, outbox, run, endpoint>>
        /\ ~\E w \in Workers : Holds(w, j, n)
    BY <1>14 DEF ExpireLease, LeaseExpires
  <2>2. \A i \in Jobs, m \in Numbers :
          /\ attempt'[i][m].status = attempt[i][m].status
          /\ attempt'[i][m].expired = attempt[i][m].expired \/ (i = j /\ m = n)
    <3> DEFINE r == [attempt[j][n] EXCEPT !.expired = TRUE]
    <3>1. r.status = attempt[j][n].status
      BY <1>e DEF AttemptRow
    <3>2. attempt' = [attempt EXCEPT ![j] = [attempt[j] EXCEPT ![n] = r]]
      BY <2>1
    <3> HIDE DEF r
    <3>3. /\ attempt'[j] = [attempt[j] EXCEPT ![n] = r]
          /\ \A i \in Jobs \ {j} : attempt'[i] = attempt[i]
      BY <1>e, <3>2
    <3>4. attempt'[j][n] = r /\ \A m \in Numbers \ {n} : attempt'[j][m] = attempt[j][m]
      BY <1>e, <3>3
    <3> QED
      BY <3>1, <3>3, <3>4
  <2>3. \A i \in Jobs, m \in Numbers : RunWrite(i, m) /\ AttemptWrite(i, m)
    BY <2>1, <2>2 DEF RunWrite, AttemptWrite, IsLive
  <2>4. \A i \in Jobs : JobWrite(i)
    BY <2>1 DEF JobWrite
  <2> QED
    BY <2>1, <2>3, <2>4 DEF Effects
<1> QED
  BY <1>3, <1>5, <1>7, <1>8, <1>9, <1>10, <1>11, <1>12, <1>13, <1>14 DEF Web, Clock

\* A write to the record of one run.
LEMMA RunSet ==
  ASSUME TypeOK, NEW j \in Jobs, NEW n \in Numbers, NEW s, SetRun(j, n, s)
  PROVE  /\ run'[j][n] = s
         /\ \A i \in Jobs, m \in Numbers : run'[i][m] = run[i][m] \/ (i = j /\ m = n)
<1>1. run \in [Jobs -> [Numbers -> RunStatus]] /\ run[j] \in [Numbers -> RunStatus]
  BY DEF TypeOK
<1>2. run' = [run EXCEPT ![j] = [run[j] EXCEPT ![n] = s]]
  BY DEF SetRun
<1>3. run'[j] = [run[j] EXCEPT ![n] = s] /\ \A i \in Jobs \ {j} : run'[i] = run[i]
  BY <1>1, <1>2
<1>4. run'[j][n] = s /\ \A m \in Numbers \ {n} : run'[j][m] = run[j][m]
  BY <1>1, <1>3
<1> QED
  BY <1>3, <1>4

\* A write to one column of one attempt.
LEMMA RowSet ==
  ASSUME TypeOK, NEW j \in Jobs, NEW n \in Numbers, NEW s,
         \/ attempt' = [attempt EXCEPT ![j][n].status = s]
         \/ attempt' = [attempt EXCEPT ![j][n].class = s]
         \/ attempt' = [attempt EXCEPT ![j][n].expired = s]
  PROVE  \A i \in Jobs, m \in Numbers : attempt'[i][m] = attempt[i][m] \/ (i = j /\ m = n)
<1>1. /\ attempt \in [Jobs -> [Numbers -> AttemptRow]]
      /\ attempt[j] \in [Numbers -> AttemptRow]
  BY DEF TypeOK, StoreTypeOK
<1>2. PICK r : attempt' = [attempt EXCEPT ![j] = [attempt[j] EXCEPT ![n] = r]]
  OBVIOUS
<1>3. /\ attempt'[j] = [attempt[j] EXCEPT ![n] = r]
      /\ \A i \in Jobs \ {j} : attempt'[i] = attempt[i]
  BY <1>1, <1>2
<1>4. \A m \in Numbers \ {n} : attempt'[j][m] = attempt[j][m]
  BY <1>1, <1>3
<1> QED
  BY <1>3, <1>4

\* A step that writes at most the job rows of jobs that exist.
StatusKept == \A j \in Jobs : job[j].status = "none" <=> job'[j].status = "none"

LEMMA KeptJobs ==
  ASSUME UNCHANGED <<run, endpoint>>, StatusKept
  PROVE  \A j \in Jobs : JobWrite(j)
BY DEF JobWrite, StatusKept

\* A step that keeps the store and the run records.
LEMMA NoEffects ==
  ASSUME UNCHANGED <<storeVars, run, endpoint>>
  PROVE  Effects
BY JobEffects, KeptJobs DEF storeVars, StatusKept

\* finish_attempt, for a run that has ended or by recovery.
LEMMA FinishEffects ==
  ASSUME TypeOK, History, NEW j \in Jobs, NEW n \in Numbers, n <= made[j],
         NEW s \in TerminalAttempt, NEW retry, FinishAttempt(j, n, s, retry),
         UNCHANGED <<run, endpoint>>,
         \/ RunOver(j, n)
         \/ s = "interrupted" /\ \E w \in Workers : About(w, j, n)
  PROVE  Effects
<1>e. job \in [Jobs -> JobRow] /\ made[j] \in Nat /\ n \in Nat /\ n > 0 /\ made[j] # 0
  BY DEF TypeOK, StoreTypeOK, Numbers
<1>1. StatusKept
  <2>1. job[j].status # "none"
    BY <1>e DEF History
  <2>2. SettledStatus(s) # "none"
    BY DEF SettledStatus, TerminalAttempt
  <2>3. job'[j].status # "none" /\ \A i \in Jobs \ {j} : job'[i] = job[i]
    BY <1>e, <2>2 DEF FinishAttempt, JobRow
  <2> QED
    BY <2>1, <2>3 DEF StatusKept
<1>2. \A i \in Jobs, m \in Numbers : AttemptWrite(i, m)
  <2>1. CASE IsOver(j, n)
    BY <2>1 DEF FinishAttempt, AttemptWrite, IsLive
  <2>2. CASE ~IsOver(j, n)
    <3>1. attempt' = [attempt EXCEPT ![j][n].status = s]
      BY <2>2 DEF FinishAttempt
    <3>2. /\ \A i \in Jobs, m \in Numbers : attempt'[i][m] = attempt[i][m] \/ (i = j /\ m = n)
          /\ attempt'[j][n].expired = attempt[j][n].expired
          /\ attempt'[j][n].status = s
      <4>1. attempt[j][n] \in AttemptRow
        BY DEF TypeOK, StoreTypeOK
      <4>2. [attempt[j][n] EXCEPT !.status = s].expired = attempt[j][n].expired
        BY <4>1 DEF AttemptRow
      <4>3. attempt'[j][n] = [attempt[j][n] EXCEPT !.status = s]
        BY <3>1 DEF TypeOK, StoreTypeOK
      <4> QED
        BY <3>1, <4>1, <4>2, <4>3, RowSet DEF AttemptRow
    <3>3. ASSUME ~RunOver(j, n)
          PROVE  Recovered(j, n)
      <4>1. s = "interrupted" /\ \E w \in Workers : About(w, j, n)
        BY <3>3
      <4>2. CASE Retryable(j, n, s, retry)
        <5>1. job'[j].status = "retry_wait" /\ n < job[j].max
          BY <1>e, <4>2 DEF FinishAttempt, Retryable, JobRow
        <5> QED
          BY <3>2, <4>1, <5>1 DEF Recovered, IsTerminal, TerminalJob
      <4>3. CASE ~Retryable(j, n, s, retry)
        <5>1. Sync(j, n, SettledStatus(s)) \in outbox'
          BY <4>3 DEF FinishAttempt
        <5> QED
          BY <4>1, <5>1 DEF Recovered, Sync
      <4> QED
        BY <4>2, <4>3
    <3> QED
      BY <3>2, <3>3 DEF AttemptWrite, IsLive
  <2> QED
    BY <2>1, <2>2
<1>3. \A e \in outbox' : e \in outbox \/ EntryMade(e)
  <2>1. EntryMade(Sync(j, n, SettledStatus(s)))
    BY <1>e DEF EntryMade, Sync, RunOver, Numbers
  <2> QED
    BY <2>1 DEF FinishAttempt
<1>4. outbox \subseteq outbox'
  BY DEF FinishAttempt
<1> QED
  BY <1>1, <1>2, <1>3, <1>4, KeptJobs DEF Effects, RunWrite

\* A step that writes one attempt, ending it only if its run has ended, and
\* takes at most an entry away whose run has ended.
LEMMA RowEffects ==
  ASSUME TypeOK, NEW j \in Jobs, NEW n \in Numbers, NEW s,
         UNCHANGED <<job, run, endpoint>>,
         \/ /\ attempt' = [attempt EXCEPT ![j][n].status = s]
            /\ s \in LiveAttempt \/ RunOver(j, n)
         \/ attempt' = [attempt EXCEPT ![j][n].class = s]
         \/ attempt' = [attempt EXCEPT ![j][n].expired = FALSE],
         outbox' \subseteq outbox,
         \A e \in outbox : e \in outbox' \/ EntryGone(e)
  PROVE  Effects
<1>1. \A i \in Jobs, m \in Numbers : AttemptWrite(i, m)
  <2>1. CASE attempt' = [attempt EXCEPT ![j][n].status = s] /\ (s \in LiveAttempt \/ RunOver(j, n))
    <3>1. attempt[j][n] \in AttemptRow /\ attempt'[j][n] = [attempt[j][n] EXCEPT !.status = s]
      BY <2>1 DEF TypeOK, StoreTypeOK
    <3>2. attempt'[j][n].status = s /\ attempt'[j][n].expired = attempt[j][n].expired
      BY <3>1 DEF AttemptRow
    <3>3. \A i \in Jobs, m \in Numbers : attempt'[i][m] = attempt[i][m] \/ (i = j /\ m = n)
      BY <2>1, RowSet
    <3> QED
      BY <2>1, <3>2, <3>3 DEF AttemptWrite, IsLive
  <2>2. CASE attempt' = [attempt EXCEPT ![j][n].class = s]
    <3>1. attempt[j][n] \in AttemptRow /\ attempt'[j][n] = [attempt[j][n] EXCEPT !.class = s]
      BY <2>2 DEF TypeOK, StoreTypeOK
    <3>2. /\ attempt'[j][n].status = attempt[j][n].status
          /\ attempt'[j][n].expired = attempt[j][n].expired
      BY <3>1 DEF AttemptRow
    <3>3. \A i \in Jobs, m \in Numbers : attempt'[i][m] = attempt[i][m] \/ (i = j /\ m = n)
      BY <2>2, RowSet
    <3> QED
      BY <3>2, <3>3 DEF AttemptWrite, IsLive
  <2>3. CASE attempt' = [attempt EXCEPT ![j][n].expired = FALSE]
    <3>1. attempt[j][n] \in AttemptRow /\ attempt'[j][n] = [attempt[j][n] EXCEPT !.expired = FALSE]
      BY <2>3 DEF TypeOK, StoreTypeOK
    <3>2. attempt'[j][n].status = attempt[j][n].status /\ attempt'[j][n].expired = FALSE
      BY <3>1 DEF AttemptRow
    <3>3. \A i \in Jobs, m \in Numbers : attempt'[i][m] = attempt[i][m] \/ (i = j /\ m = n)
      BY <2>3, RowSet
    <3> QED
      BY <3>2, <3>3 DEF AttemptWrite, IsLive
  <2> QED
    BY <2>1, <2>2, <2>3
<1>2. StatusKept
  BY DEF StatusKept
<1> QED
  BY <1>1, <1>2, KeptJobs DEF Effects, RunWrite

\* A step of a worker that writes the record of a run it holds or, when it
\* applies an entry, of a run that exists.
LEMMA RunEffects ==
  ASSUME TypeOK, History, NEW w \in Workers, NEW j \in Jobs, NEW n \in Numbers, n <= made[j],
         NEW s, SetRun(j, n, s), UNCHANGED <<storeVars, endpoint>>,
         \/ /\ s = "running" /\ At(w, "started") /\ task[w].id = <<j, n>>
            /\ task'[w].pc = "executing"
         \/ s \in TerminalRun /\ Holds(w, j, n) /\ task'[w].pc \in OutcomePc
         \/ /\ s \in TerminalRun /\ run[j][n] # "none" /\ At(w, "applying")
            /\ task[w].entry.job = j /\ task[w].number = n
  PROVE  Effects
<1>1. /\ run'[j][n] = s
      /\ \A i \in Jobs, m \in Numbers : run'[i][m] = run[i][m] \/ (i = j /\ m = n)
  BY RunSet
<1>2. \A i \in Jobs, m \in Numbers : RunWrite(i, m)
  BY <1>1 DEF RunWrite, storeVars
<1>3. job[j].status # "none" /\ 1 \in Numbers
  BY BoundAssumption DEF History, TypeOK, StoreTypeOK, Numbers
<1>4. \A i \in Jobs : JobWrite(i)
  BY <1>1, <1>3 DEF JobWrite, storeVars
<1> QED
  BY <1>2, <1>4 DEF Effects, AttemptWrite, IsLive, storeVars

\* A step of run_once or of its monitor.
LEMMA ExecuteEffects ==
  ASSUME TypeOK, RowsExist, History, NEW w \in Workers, KnowsEnd(w),
         \/ \E j \in Jobs : FindCandidate(w, j)
         \/ Execute(w)
         \/ Monitor(w) \/ Timeout(w) \/ Crash(w)
  PROVE  Effects
<1> DEFINE j == task[w].id[1]
           n == task[w].id[2]
<1>e. task \in [Workers -> Task] /\ made \in [Jobs -> 0 .. AttemptBound]
      /\ job \in [Jobs -> JobRow]
  BY DEF TypeOK, StoreTypeOK
<1>h. task[w].pc \in HoldPc =>
        /\ task[w] \in HoldTask /\ j \in Jobs /\ n \in Numbers
        /\ n <= made[j] /\ task[w].id = <<j, n>>
  <2>1. task[w].pc \in HoldPc => task[w] \in HoldTask
    BY <1>e, TaskByPc
  <2>2. task[w].pc \in HoldPc => task[w].id \in Jobs \X Numbers
    BY <2>1 DEF HoldTask, WorkTask, OutcomeTask, AttemptId
  <2> QED
    BY <2>1, <2>2 DEF RowsExist, TaskRefersToRows, Exists
<1>1. CASE (\E i \in Jobs : FindCandidate(w, i)) \/ Timeout(w) \/ Crash(w)
  BY <1>1, NoEffects DEF FindCandidate, Timeout, Crash
<1>2. CASE ClaimCandidate(w)
  <2> DEFINE i == task[w].job
  <2>1. i \in Jobs /\ UNCHANGED <<run, endpoint>>
    BY <1>2, <1>e, TaskByPc DEF ClaimCandidate, CandidateTask
  <2>2. CASE ClaimJob(i)
    <3>1. /\ attempt' = [attempt EXCEPT ![i][made[i] + 1] =
                           [status |-> "claimed", class |-> "unknown", expired |-> FALSE]]
          /\ job' = [job EXCEPT ![i].status = "running"] /\ UNCHANGED outbox
          /\ job[i].status = "queued"
      BY <2>2 DEF ClaimJob, CanClaim
    <3>2. made[i] + 1 \in Numbers
      BY <2>1, <2>2, ClaimJobType DEF TypeOK
    <3>3. /\ attempt'[i][made[i] + 1] =
                [status |-> "claimed", class |-> "unknown", expired |-> FALSE]
          /\ \A k \in Jobs, m \in Numbers :
               attempt'[k][m] = attempt[k][m] \/ (k = i /\ m = made[i] + 1)
      BY <2>1, <3>1, <3>2 DEF TypeOK, StoreTypeOK
    <3>4. \A k \in Jobs, m \in Numbers : AttemptWrite(k, m)
      BY <3>3 DEF AttemptWrite, IsLive, LiveAttempt
    <3>5. StatusKept
      BY <2>1, <3>1, <1>e DEF StatusKept, JobRow
    <3> QED
      BY <2>1, <3>1, <3>4, <3>5, KeptJobs DEF Effects, RunWrite
  <2>3. CASE ExhaustJob(i)
    <3>1. StatusKept
      BY <2>1, <2>3, <1>e DEF ExhaustJob, CanClaim, StatusKept, JobRow
    <3> QED
      BY <2>1, <2>3, <3>1, KeptJobs, JobEffects DEF ExhaustJob
  <2>4. CASE UNCHANGED storeVars
    BY <2>1, <2>4, NoEffects
  <2> QED
    BY <1>2, <2>2, <2>3, <2>4 DEF ClaimCandidate
<1>3. CASE ResolveClass(w)
  <2>1. task[w].pc \in HoldPc
    BY <1>3 DEF ResolveClass, At, HoldPc, WorkPc
  <2>2. PICK c : SetClass(j, n, c)
    BY <1>3 DEF ResolveClass
  <2>3. /\ attempt' = [attempt EXCEPT ![j][n].class = c]
        /\ UNCHANGED <<job, run, endpoint, outbox>>
    BY <1>3, <2>2 DEF SetClass, ResolveClass
  <2> HIDE DEF j, n
  <2> QED
    BY <1>h, <2>1, <2>3, RowEffects
<1>4. CASE StartAttempt(w)
  <2>1. task[w].pc \in HoldPc
    BY <1>4 DEF StartAttempt, At, HoldPc, WorkPc
  <2>2. CASE TransitionAttempt(j, n, "running")
    <3>1. /\ attempt' = [attempt EXCEPT ![j][n].status = "running"]
          /\ UNCHANGED <<job, run, endpoint, outbox>> /\ "running" \in LiveAttempt
      BY <1>4, <2>2 DEF TransitionAttempt, StartAttempt, LiveAttempt
    <3> HIDE DEF j, n
    <3> QED
      BY <1>h, <2>1, <3>1, RowEffects
  <2>3. CASE UNCHANGED storeVars
    BY <1>4, <2>3, NoEffects DEF StartAttempt
  <2> QED
    BY <1>4, <2>2, <2>3 DEF StartAttempt
<1>5. CASE BeginRun(w)
  <2>1. /\ At(w, "started") /\ SetRun(j, n, "running") /\ UNCHANGED <<storeVars, endpoint>>
        /\ task[w].pc \in HoldPc
    BY <1>5 DEF BeginRun, At, HoldPc, WorkPc
  <2>2. task'[w].pc = "executing"
    BY <1>5, <1>e, <1>h, <2>1, HoldTaskKeeps DEF BeginRun
  <2> HIDE DEF j, n
  <2> QED
    BY <1>h, <2>1, <2>2, RunEffects
\* The run ends in the hands of its worker.
<1>6. ASSUME NEW s \in TerminalRun, SetRun(j, n, s), UNCHANGED <<storeVars, endpoint>>,
             task[w].pc \in HoldPc, task'[w].pc \in OutcomePc
      PROVE  Effects
  <2>1. Holds(w, j, n)
    BY <1>6, <1>h DEF Holds
  <2> HIDE DEF j, n
  <2> QED
    BY <1>6, <1>h, <2>1, RunEffects
<1>7. ASSUME NEW s \in TerminalRun, EndRun(w, s)
      PROVE  Effects
  <2>1. task[w].pc \in HoldPc
    BY <1>7 DEF EndRun, At, HoldPc, WorkPc
  <2>2. task'[w].pc = "ended"
    BY <1>7, <1>e, <1>h, <2>1, HoldTaskKeeps DEF EndRun
  <2> QED
    BY <1>6, <1>7, <2>1, <2>2 DEF EndRun, OutcomePc
<1>8. ASSUME NEW retry \in BOOLEAN, RaiseInRun(w, retry)
      PROVE  Effects
  <2>1. task[w].pc \in HoldPc
    BY <1>8 DEF RaiseInRun, HoldPc, WorkPc
  <2>2. task'[w].pc = "settled"
    BY <1>8, <1>e, <1>h, <2>1, HoldTaskKeeps DEF RaiseInRun
  <2> QED
    BY <1>6, <1>8, <2>1, <2>2 DEF RaiseInRun, OutcomePc, TerminalRun
<1>9. CASE SettleOutcome(w)
  <2>1. task[w].pc \in HoldPc
    BY <1>9 DEF SettleOutcome, At, HoldPc, OutcomePc
  <2>2. task'[w].pc = "settled"
    BY <1>9, <1>e, <1>h, <2>1, HoldTaskKeeps DEF SettleOutcome
  <2>3. CASE SetRun(j, n, "failed")
    BY <1>6, <1>9, <2>1, <2>2, <2>3 DEF SettleOutcome, OutcomePc, TerminalRun
  <2>4. CASE UNCHANGED run
    BY <1>9, <2>4, NoEffects DEF SettleOutcome
  <2> QED
    BY <1>9, <2>3, <2>4 DEF SettleOutcome
<1>10. CASE Finish(w)
  <2>1. task[w].pc \in HoldPc /\ task[w].pc \in OutcomePc
    BY <1>10 DEF Finish, At, HoldPc, OutcomePc
  <2>2. /\ FinishAttempt(j, n, task[w].outcome, task[w].retry) /\ UNCHANGED <<run, endpoint>>
        /\ RunOver(j, n)
    BY <1>10, <2>1 DEF Finish, KnowsEnd
  <2>3. task[w].outcome \in TerminalAttempt
    BY <1>h, <2>1, HoldTaskType DEF OutcomeTask, TerminalAttempt, TerminalRun
  <2> HIDE DEF j, n
  <2> QED
    BY <1>h, <2>1, <2>2, <2>3, FinishEffects
<1>11. CASE Monitor(w)
  <2>1. task[w].pc \in HoldPc
    BY <1>11 DEF Monitor, HoldPc, WorkPc, OutcomePc
  <2>2. CASE UNCHANGED storeVars
    BY <1>11, <2>2, NoEffects DEF Monitor
  <2>3. CASE Heartbeat(j, n)
    <3>1. /\ attempt' = [attempt EXCEPT ![j][n].expired = FALSE]
          /\ UNCHANGED <<job, run, endpoint, outbox>>
      BY <1>11, <2>3 DEF Heartbeat, Monitor
    <3> HIDE DEF j, n
    <3> QED
      BY <1>h, <2>1, <3>1, RowEffects
  <2> QED
    BY <1>11, <2>2, <2>3 DEF Monitor
<1> QED
  BY <1>1, <1>2, <1>3, <1>4, <1>5, <1>7, <1>8, <1>9, <1>10, <1>11 DEF Execute

\* A step of recovery, requeueing or reconcile.
LEMMA MaintainEffects ==
  ASSUME TypeOK, RowsExist, History, NEW w \in Workers, KnowsEnd(w),
         \A e \in outbox : e.number = 0 => NeverRan(e.job),
         \/ StartRecovery(w) \/ RecoverRow(w) \/ Requeue(w) \/ StartReconcile(w)
         \/ Reconcile(w)
  PROVE  Effects
<1>e. task \in [Workers -> Task] /\ made \in [Jobs -> 0 .. AttemptBound]
      /\ job \in [Jobs -> JobRow]
  BY DEF TypeOK, StoreTypeOK
<1>1. CASE \/ StartRecovery(w) \/ StartReconcile(w) \/ ScanRow(w) \/ JudgeJob(w)
           \/ StartDrain(w) \/ ReadEntry(w) \/ EndReconcile(w)
  BY <1>1, NoEffects DEF StartRecovery, StartReconcile, ScanRow, JudgeJob, StartDrain,
                         ReadEntry, EndReconcile
<1>2. CASE RecoverRow(w)
  <2>1. task[w].ids \in SUBSET AttemptId /\ At(w, "recovering")
    BY <1>2, <1>e, TaskByPc DEF RecoverRow, RecoverTask
  <2>2. PICK a \in task[w].ids : FinishAttempt(a[1], a[2], "interrupted", TRUE)
    BY <1>2 DEF RecoverRow
  <2>3. a[1] \in Jobs /\ a[2] \in Numbers /\ a = <<a[1], a[2]>>
    BY <2>1 DEF AttemptId
  <2>4. a[2] <= made[a[1]] /\ About(w, a[1], a[2]) /\ UNCHANGED <<run, endpoint>>
    BY <1>2, <2>1, <2>2, <2>3 DEF RowsExist, TaskRefersToRows, Exists, About, RecoverRow
  <2> QED
    BY <2>2, <2>3, <2>4, FinishEffects DEF TerminalAttempt
<1>3. CASE Requeue(w)
  <2>1. StatusKept
    BY <1>3, <1>e DEF Requeue, RequeueDueJobs, DueRetries, StatusKept, JobRow
  <2> QED
    BY <1>3, <2>1, KeptJobs, JobEffects DEF Requeue, RequeueDueJobs
<1> DEFINE j == task[w].row.id[1]
           n == task[w].row.id[2]
<1>r. ASSUME task[w].pc \in {"ending", "judging", "repairing"}
      PROVE  /\ j \in Jobs /\ n \in Numbers /\ n <= made[j] /\ RunOver(j, n)
             /\ task[w].status \in TerminalJob
  <2>1. task[w] \in RepairTask
    BY <1>e, <1>r, TaskByPc
  <2> QED
    BY <1>r, <2>1 DEF RepairTask, Row, AttemptId, TerminalRun,
                      TerminalJob, RowsExist, TaskRefersToRows, Exists, KnowsEnd
<1>4. CASE EndAttempt(w)
  <2>1. task[w].pc = "ending" /\ UNCHANGED <<run, endpoint>>
    BY <1>4 DEF EndAttempt, At
  <2>2. CASE UNCHANGED storeVars
    BY <2>1, <2>2, NoEffects
  <2>3. CASE TransitionAttempt(j, n, task[w].status)
    <3>1. /\ attempt' = [attempt EXCEPT ![j][n].status = task[w].status]
          /\ UNCHANGED <<job, outbox>>
      BY <2>3 DEF TransitionAttempt
    <3>2. j \in Jobs /\ n \in Numbers /\ RunOver(j, n)
      BY <1>r, <2>1
    <3> HIDE DEF j, n
    <3> QED
      BY <2>1, <3>1, <3>2, RowEffects
  <2> QED
    BY <1>4, <2>2, <2>3 DEF EndAttempt
<1>5. CASE RepairJob(w)
  <2>1. task[w].pc = "repairing" /\ UNCHANGED <<run, endpoint>>
    BY <1>5 DEF RepairJob, At
  <2>2. CASE UNCHANGED storeVars
    BY <2>1, <2>2, NoEffects
  <2>3. CASE TransitionJob(j, task[w].status)
    <3>1. /\ j \in Jobs /\ n \in Nat /\ n > 0 /\ n <= made[j] /\ RunOver(j, n)
          /\ task[w].status \in TerminalJob /\ made[j] \in Nat
      BY <1>e, <1>r, <2>1 DEF Numbers
    <3>2. EntryMade(Sync(j, made[j], task[w].status))
      BY <3>1 DEF EntryMade, Sync
    <3>3. StatusKept
      BY <1>e, <2>3, <3>1
         DEF TransitionJob, CanTransition, StatusKept, JobRow, TerminalJob, History
    <3>4. /\ outbox \subseteq outbox'
          /\ \A e \in outbox' : e \in outbox \/ EntryMade(e)
          /\ UNCHANGED attempt
      BY <2>3, <3>2 DEF TransitionJob
    <3> QED
      BY <2>1, <3>3, <3>4, KeptJobs, JobEffects
  <2> QED
    BY <1>5, <2>2, <2>3 DEF RepairJob
<1> DEFINE k == task[w].entry.job
           m == task[w].number
<1>t. ASSUME task[w].pc \in {"applying", "settling"}
      PROVE  /\ k \in Jobs /\ m \in 0 .. AttemptBound /\ m <= made[k]
             /\ m = task[w].entry.number
             /\ task[w].status \in TerminalRun
  <2>1. task[w] \in SettleTask
    BY <1>e, <1>t, TaskByPc
  <2> QED
    BY <1>t, <2>1 DEF SettleTask, Entry, RowsExist, TaskRefersToRows, KnowsEnd
<1>6. CASE ApplyEntry(w)
  <2>1. /\ task[w].pc = "applying" /\ UNCHANGED <<storeVars, endpoint>>
    BY <1>6 DEF ApplyEntry, At
  <2>2. CASE UNCHANGED run
    BY <2>1, <2>2, NoEffects
  <2>3. CASE run[k][m] # "none" /\ SetRun(k, m, task[w].status)
    <3>1. CASE m \in Numbers
      <4>1. k \in Jobs /\ m <= made[k] /\ task[w].status \in TerminalRun
        BY <1>t, <2>1
      <4>2. At(w, "applying") /\ task[w].entry.job = k /\ task[w].number = m
        BY <2>1 DEF At
      <4> HIDE DEF k, m
      <4> QED
        BY <2>1, <2>3, <3>1, <4>1, <4>2, RunEffects
    <3>2. CASE m \notin Numbers
      <4>1. run' = [run EXCEPT ![k] = [run[k] EXCEPT ![m] = task[w].status]]
        BY <2>3 DEF SetRun
      <4>2. k \in Jobs /\ run \in [Jobs -> [Numbers -> RunStatus]]
        BY <1>t, <2>1 DEF TypeOK
      <4>3. [run[k] EXCEPT ![m] = task[w].status] = run[k]
        BY <3>2, <4>2
      <4>4. run' = run
        BY <4>1, <4>2, <4>3
      <4> QED
        BY <2>1, <4>4, NoEffects
    <3> QED
      BY <3>1, <3>2
  <2> QED
    BY <1>6, <2>2, <2>3 DEF ApplyEntry
<1>7. CASE SettleEntry(w)
  <2>1. /\ task[w].pc = "settling" /\ UNCHANGED <<job, made, run, endpoint>>
        /\ outbox' = outbox \ {task[w].entry} \/ outbox' = outbox
    BY <1>7 DEF SettleEntry, At
  <2>2. /\ k \in Jobs /\ m \in 0 .. AttemptBound /\ m = task[w].entry.number
        /\ m > 0 => m \in Numbers /\ RunOver(k, m)
    BY <1>t, <2>1 DEF KnowsEnd, At, Numbers
  <2>3. \A e \in outbox : e \in outbox' \/ EntryGone(e)
    BY <2>1, <2>2 DEF EntryGone
  <2>4. CASE UNCHANGED attempt
    <3>1. StatusKept
      BY <2>1 DEF StatusKept
    <3> QED
      BY <2>1, <2>3, <2>4, <3>1, KeptJobs DEF Effects, RunWrite, AttemptWrite, IsLive
  <2>5. CASE attempt' = [attempt EXCEPT ![k][m].status = task[w].status]
    <3>1. CASE m > 0
      <4>1. outbox' \subseteq outbox
        BY <2>1
      <4> HIDE DEF k, m
      <4> QED
        BY <2>1, <2>2, <2>3, <2>5, <3>1, <4>1, RowEffects
    <3>2. CASE m = 0
      <4>1. /\ attempt \in [Jobs -> [Numbers -> AttemptRow]]
            /\ attempt[k] \in [Numbers -> AttemptRow] /\ m \notin Numbers
        BY <2>2, <3>2 DEF TypeOK, StoreTypeOK, Numbers
      <4>2. [attempt[k] EXCEPT ![m] = [attempt[k][m] EXCEPT !.status = task[w].status]] = attempt[k]
        BY <4>1
      <4>3. attempt' = attempt
        BY <2>2, <2>5, <4>1, <4>2
      <4> QED
        BY <2>4, <4>3
    <3> QED
      BY <2>2, <3>1, <3>2
  <2> QED
    BY <1>7, <2>4, <2>5 DEF SettleEntry
<1> QED
  BY <1>1, <1>2, <1>3, <1>4, <1>5, <1>6, <1>7 DEF Reconcile

\* Every step of the runtime.
LEMMA NextEffects ==
  ASSUME TypeOK, RowsExist, History, StoresInv, ~LeaseSlips, [Next]_vars
  PROVE  Effects
<1>1. ASSUME NEW j \in Jobs, Web(j) \/ Clock(j)
      PROVE  Effects
  BY <1>1, WebEffects DEF StoresInv
<1>2. ASSUME NEW w \in Workers, Worker(w)
      PROVE  Effects
  BY <1>2, ExecuteEffects, MaintainEffects DEF Worker, StoresInv, EntriesInv
<1>3. CASE WebCrash
  <2>1. StatusKept
    BY <1>3 DEF WebCrash, storeVars, StatusKept
  <2>2. \A j \in Jobs : JobWrite(j)
    BY <1>3, <2>1 DEF WebCrash, JobWrite, StatusKept
  <2> QED
    BY <1>3, <2>2, JobEffects DEF WebCrash, storeVars
<1>4. CASE UNCHANGED vars
  BY <1>4, NoEffects DEF vars, storeVars
<1> QED
  BY <1>1, <1>2, <1>3, <1>4 DEF Next

\* A run record that has ended stays so.
LEMMA RunLasts ==
  ASSUME TypeOK, History, StoresInv, Effects, NEW j \in Jobs, NEW n \in Numbers, RunOver(j, n)
  PROVE  RunOver(j, n)'
<1>1. RunWrite(j, n)
  BY DEF Effects
<1>2. CASE job[j].status = "none" /\ n = 1 /\ run'[j][n] = "queued"
  BY <1>2 DEF StoresInv, RunsInv, RunOver, TerminalRun
<1>3. ASSUME NEW w \in Workers, At(w, "started"), task[w].id = <<j, n>>
      PROVE  FALSE
  <2>1. FreshRun(j, n)
    BY <1>3 DEF StoresInv, WillBegin, BeforeRun, At
  <2> QED
    BY <2>1 DEF FreshRun, RunOver, TerminalRun
<1> QED
  BY <1>1, <1>2, <1>3 DEF RunWrite, RunOver

\* What a worker's own step does to what it has in hand.
Own(w) ==
    /\ KnowsEnd(w)'
    /\ task'[w].pc \in BeforeRun =>
         \/ task[w].pc \in BeforeRun /\ task'[w].id = task[w].id
         \/ \E j \in Jobs : ClaimJob(j) /\ task'[w].id = <<j, made[j] + 1>>
    /\ task'[w].pc = "recovering" => \A a \in task'[w].ids : About(w, a[1], a[2])
                                                         \/ a \in ExpiredAttempts
    /\ \A e \in InHand(w)' : e \in InHand(w) \/ e \in outbox

LEMMA ExecuteOwn ==
  ASSUME TypeOK, NEW w \in Workers, KnowsEnd(w),
         \/ \E j \in Jobs : FindCandidate(w, j)
         \/ Execute(w)
         \/ Monitor(w) \/ Timeout(w) \/ Crash(w)
  PROVE  Own(w)
<1> DEFINE j == task[w].id[1]
           n == task[w].id[2]
<1>e. task \in [Workers -> Task]
  BY DEF TypeOK
<1>h. task[w].pc \in HoldPc => task[w] \in HoldTask /\ j \in Jobs /\ n \in Numbers
  <2>1. task[w].pc \in HoldPc => task[w] \in HoldTask
    BY <1>e, TaskByPc
  <2> QED
    BY <2>1, HoldTaskType
\* A worker that has nothing in hand afterwards.
<1>q. ASSUME task'[w].pc \in {"idle", "candidate"}
      PROVE  Own(w)
  BY <1>q DEF Own, KnowsEnd, BeforeRun, InHand, At, OutcomePc
\* One that goes on with its attempt.
<1>k. ASSUME task[w].pc \in HoldPc, task'[w].pc \in HoldPc, task'[w].id = task[w].id,
             task'[w].pc \in BeforeRun => task[w].pc \in BeforeRun,
             task'[w].pc \in OutcomePc => run'[j][n] \in TerminalRun
      PROVE  Own(w)
  BY <1>k DEF Own, RunOver, KnowsEnd, BeforeRun, InHand, At, HoldPc, WorkPc, OutcomePc
<1>1. CASE (\E i \in Jobs : FindCandidate(w, i)) \/ Crash(w)
  <2>1. task'[w].pc \in {"idle", "candidate"}
    BY <1>1, <1>e DEF FindCandidate, Crash, Idle
  <2> QED
    BY <1>q, <2>1
<1>2. CASE ClaimCandidate(w)
  <2> DEFINE i == task[w].job
  <2>1. i \in Jobs
    BY <1>2, <1>e, TaskByPc DEF ClaimCandidate, CandidateTask
  <2>2. CASE ClaimJob(i) /\ Advance(w, {i}, Held(i, made[i] + 1))
    <3>1. task'[w] = Held(i, made[i] + 1)
      BY <2>2, AdvanceKept
    <3>2. task'[w].pc = "claimed" /\ task'[w].id = <<i, made[i] + 1>>
      BY <3>1 DEF Held
    <3> QED
      BY <2>1, <2>2, <3>2 DEF Own, KnowsEnd, BeforeRun, InHand, At, OutcomePc
  <2>3. CASE \E js : Advance(w, js, Idle)
    <3>1. task'[w].pc = "idle"
      BY <2>3, AdvanceKept DEF Idle
    <3> QED
      BY <1>q, <3>1
  <2> QED
    BY <1>2, <2>2, <2>3 DEF ClaimCandidate
<1>3. CASE ResolveClass(w)
  <2>1. task[w].pc = "claimed" /\ task[w].pc \in HoldPc
    BY <1>3 DEF ResolveClass, At, HoldPc, WorkPc
  <2>2. task'[w].pc = "classed" /\ task'[w].id = task[w].id
    BY <1>3, <1>e, <1>h, <2>1, HoldTaskKeeps DEF ResolveClass
  <2> QED
    BY <1>k, <2>1, <2>2 DEF BeforeRun, HoldPc, WorkPc, OutcomePc
<1>4. CASE StartAttempt(w)
  <2>1. task[w].pc = "classed" /\ task[w].pc \in HoldPc
    BY <1>4 DEF StartAttempt, At, HoldPc, WorkPc
  <2>2. CASE task' = [task EXCEPT ![w].pc = "started", ![w].monitor = TRUE]
    <3>1. task'[w] = [task[w] EXCEPT !.pc = "started", !.monitor = TRUE]
      BY <1>e, <2>2
    <3>2. task[w] \in HoldTask
      BY <1>h, <2>1
    <3>3. /\ [task[w] EXCEPT !.pc = "started", !.monitor = TRUE].pc = "started"
          /\ [task[w] EXCEPT !.pc = "started", !.monitor = TRUE].id = task[w].id
      BY <3>2 DEF HoldTask, WorkTask, OutcomeTask
    <3>4. task'[w].pc = "started" /\ task'[w].id = task[w].id
      BY ONLY <3>1, <3>3, Zenon
    <3> QED
      BY <1>k, <2>1, <3>4 DEF BeforeRun, HoldPc, WorkPc, OutcomePc
  <2>3. CASE task' = [task EXCEPT ![w] = Idle]
    <3>1. task'[w].pc = "idle"
      BY <1>e, <2>3 DEF Idle
    <3> QED
      BY <1>q, <3>1
  <2> QED
    BY <1>4, <2>2, <2>3 DEF StartAttempt
<1>5. CASE BeginRun(w)
  <2>1. task[w].pc = "started" /\ task[w].pc \in HoldPc
    BY <1>5 DEF BeginRun, At, HoldPc, WorkPc
  <2>2. task'[w].pc = "executing" /\ task'[w].id = task[w].id
    BY <1>5, <1>e, <1>h, <2>1, HoldTaskKeeps DEF BeginRun
  <2> QED
    BY <1>k, <2>1, <2>2 DEF BeforeRun, HoldPc, WorkPc, OutcomePc
\* The end of a run.
<1>6. ASSUME NEW s \in TerminalRun, SetRun(j, n, s), task[w].pc \in HoldPc,
             task'[w].pc \in OutcomePc, task'[w].id = task[w].id
      PROVE  Own(w)
  <2>1. run'[j][n] = s
    BY <1>6, <1>h, RunSet
  <2> QED
    BY <1>6, <1>k, <2>1 DEF BeforeRun, HoldPc, OutcomePc
<1>7. ASSUME NEW s \in TerminalRun, EndRun(w, s)
      PROVE  Own(w)
  <2>1. task[w].pc \in HoldPc
    BY <1>7 DEF EndRun, At, HoldPc, WorkPc
  <2>2. task'[w].pc = "ended" /\ task'[w].id = task[w].id
    BY <1>7, <1>e, <1>h, <2>1, HoldTaskKeeps DEF EndRun
  <2> QED
    BY <1>6, <1>7, <2>1, <2>2 DEF EndRun, OutcomePc
<1>8. ASSUME NEW retry \in BOOLEAN, RaiseInRun(w, retry)
      PROVE  Own(w)
  <2>1. task[w].pc \in HoldPc
    BY <1>8 DEF RaiseInRun, HoldPc, WorkPc
  <2>2. task'[w].pc = "settled" /\ task'[w].id = task[w].id
    BY <1>8, <1>e, <1>h, <2>1, HoldTaskKeeps DEF RaiseInRun
  <2> QED
    BY <1>6, <1>8, <2>1, <2>2 DEF RaiseInRun, OutcomePc, TerminalRun
<1>9. CASE SettleOutcome(w)
  <2>1. task[w].pc = "ended" /\ task[w].pc \in HoldPc
    BY <1>9 DEF SettleOutcome, At, HoldPc, OutcomePc
  <2>2. task'[w].pc = "settled" /\ task'[w].id = task[w].id
    BY <1>9, <1>e, <1>h, <2>1, HoldTaskKeeps DEF SettleOutcome
  <2>3. CASE SetRun(j, n, "failed")
    BY <1>6, <2>1, <2>2, <2>3 DEF OutcomePc, TerminalRun
  <2>4. CASE UNCHANGED run
    <3>1. run'[j][n] \in TerminalRun
      BY <2>1, <2>4 DEF KnowsEnd, OutcomePc, RunOver
    <3> QED
      BY <1>k, <2>1, <2>2, <3>1 DEF BeforeRun, HoldPc, OutcomePc
  <2> QED
    BY <1>9, <2>3, <2>4 DEF SettleOutcome
<1>10. CASE Finish(w)
  <2>1. \E js : Advance(w, js, Idle)
    BY <1>10 DEF Finish
  <2>2. task'[w].pc = "idle"
    BY <2>1, AdvanceKept DEF Idle
  <2> QED
    BY <1>q, <2>2
<1>11. CASE Monitor(w) \/ Timeout(w)
  <2>1. task[w].pc \in {"started", "executing", "ended"} /\ UNCHANGED run
    BY <1>11 DEF Monitor, Timeout
  <2>2. task[w].pc \in HoldPc
    BY <2>1 DEF HoldPc, WorkPc, OutcomePc
  <2>3. task'[w].pc = task[w].pc /\ task'[w].id = task[w].id
    <3>1. PICK g : \/ task' = [task EXCEPT ![w].signal = g, ![w].monitor = FALSE]
                   \/ task' = [task EXCEPT ![w].signal = g]
      BY <1>11 DEF Monitor, Timeout
    <3>2. \/ task'[w] = [task[w] EXCEPT !.signal = g, !.monitor = FALSE]
          \/ task'[w] = [task[w] EXCEPT !.signal = g]
      BY <1>e, <3>1
    <3>3. task[w] \in HoldTask
      BY <1>h, <2>2
    <3>4. /\ [task[w] EXCEPT !.signal = g, !.monitor = FALSE].pc = task[w].pc
          /\ [task[w] EXCEPT !.signal = g].pc = task[w].pc
          /\ [task[w] EXCEPT !.signal = g, !.monitor = FALSE].id = task[w].id
          /\ [task[w] EXCEPT !.signal = g].id = task[w].id
      BY <3>3 DEF HoldTask, WorkTask, OutcomeTask
    <3> QED
      BY ONLY <3>2, <3>4, Zenon
  <2>4. task'[w].pc \in OutcomePc => run'[j][n] \in TerminalRun
    BY <2>1, <2>3 DEF KnowsEnd, RunOver
  <2> QED
    BY <1>k, <2>2, <2>3, <2>4
<1> QED
  BY <1>1, <1>2, <1>3, <1>4, <1>5, <1>7, <1>8, <1>9, <1>10, <1>11 DEF Execute

LEMMA MaintainOwn ==
  ASSUME TypeOK, RowsExist, History, StoresInv, Effects, NEW w \in Workers,
         \/ StartRecovery(w) \/ RecoverRow(w) \/ Requeue(w) \/ StartReconcile(w)
         \/ Reconcile(w)
  PROVE  Own(w)
<1>e. task \in [Workers -> Task] /\ KnowsEnd(w)
  BY DEF TypeOK, StoresInv
\* A worker that has nothing in hand afterwards.
<1>q. ASSUME task'[w].pc \in {"idle", "scanning"}
      PROVE  Own(w)
  BY <1>q DEF Own, KnowsEnd, BeforeRun, InHand, At, OutcomePc
<1>1. CASE Requeue(w)
  BY <1>1, <1>q, AdvanceKept DEF Requeue, Idle
<1>2. CASE StartReconcile(w) \/ EndReconcile(w)
  <2>1. task'[w].pc \in {"idle", "scanning"}
    BY <1>2, <1>e DEF StartReconcile, EndReconcile, Idle
  <2> QED
    BY <1>q, <2>1
<1>3. CASE StartRecovery(w)
  <2>1. task'[w] = [pc |-> "recovering", ids |-> ExpiredAttempts]
    BY <1>3, <1>e DEF StartRecovery
  <2>2. task'[w].pc = "recovering" /\ task'[w].ids = ExpiredAttempts
    BY <2>1
  <2> QED
    BY <2>2 DEF Own, KnowsEnd, BeforeRun, InHand, At, OutcomePc, ExpiredAttempts
<1>4. CASE RecoverRow(w)
  <2>1. task[w].ids \in SUBSET AttemptId /\ At(w, "recovering")
    BY <1>4, <1>e, TaskByPc DEF RecoverRow, RecoverTask
  <2>2. PICK a \in task[w].ids :
          Advance(w, {a[1]}, IF task[w].ids = {a} THEN Idle
                             ELSE [pc |-> "recovering", ids |-> task[w].ids \ {a}])
    BY <1>4 DEF RecoverRow
  <2>3. task'[w] = IF task[w].ids = {a} THEN Idle
                   ELSE [pc |-> "recovering", ids |-> task[w].ids \ {a}]
    BY <2>2, AdvanceKept
  <2>4. CASE task[w].ids = {a}
    BY <1>q, <2>3, <2>4 DEF Idle
  <2>5. CASE task[w].ids # {a}
    <3>1. task'[w].pc = "recovering" /\ task'[w].ids = task[w].ids \ {a}
      BY <2>3, <2>5
    <3>2. \A b \in task'[w].ids : About(w, b[1], b[2])
      BY <2>1, <3>1 DEF About, AttemptId
    <3> QED
      BY <3>1, <3>2 DEF Own, KnowsEnd, BeforeRun, InHand, At, OutcomePc
  <2> QED
    BY <2>4, <2>5
\* The scan: the row in hand is one whose run has ended.
<1>s. ASSUME task'[w].pc \in {"ending", "judging", "repairing"},
             task'[w].row.id[1] \in Jobs, task'[w].row.id[2] \in Numbers,
             RunOver(task'[w].row.id[1], task'[w].row.id[2])
      PROVE  Own(w)
  <2>1. PICK i \in Jobs, m \in Numbers : i = task'[w].row.id[1] /\ m = task'[w].row.id[2]
    BY <1>s
  <2>2. RunOver(i, m)
    BY <1>s, <2>1
  <2>3. run'[i][m] \in TerminalRun
    BY <2>2, RunLasts DEF RunOver
  <2>4. run'[task'[w].row.id[1]][task'[w].row.id[2]] \in TerminalRun
    BY <2>1, <2>3
  <2> QED
    BY <1>s, <2>4 DEF Own, RunOver, KnowsEnd, BeforeRun, InHand, At, OutcomePc
<1>r. ASSUME task[w].pc \in {"ending", "judging", "repairing"}
      PROVE  /\ task[w].row.id[1] \in Jobs /\ task[w].row.id[2] \in Numbers
             /\ RunOver(task[w].row.id[1], task[w].row.id[2])
             /\ \A pc : /\ [task[w] EXCEPT !.pc = pc].pc = pc
                       /\ [task[w] EXCEPT !.pc = pc].row = task[w].row
  <2>1. task[w] \in RepairTask
    BY <1>e, <1>r, TaskByPc
  <2> QED
    BY <1>e, <1>r, <2>1 DEF RepairTask, Row, AttemptId, KnowsEnd
<1>k. ASSUME task[w].pc \in {"ending", "judging", "repairing"},
             NEW pc \in {"ending", "judging", "repairing"},
             task'[w] = [task[w] EXCEPT !.pc = pc]
      PROVE  Own(w)
  <2>1. task'[w].pc = pc /\ task'[w].row = task[w].row
    BY <1>k, <1>r
  <2> QED
    BY <1>s, <1>k, <1>r, <2>1
<1>5. CASE ScanRow(w)
  <2>1. task[w].rows \in SUBSET Row
    BY <1>5, <1>e, TaskByPc DEF ScanRow, ScanTask
  <2>2. PICK r \in task[w].rows :
          task' = [task EXCEPT ![w] =
                     IF run[r.id[1]][r.id[2]] \in TerminalRun
                       THEN [pc |-> IF r.over THEN "judging" ELSE "ending",
                             rows |-> task[w].rows \ {r}, row |-> r,
                             status |-> run[r.id[1]][r.id[2]]]
                       ELSE [pc |-> "scanning", rows |-> task[w].rows \ {r}]]
    BY <1>5 DEF ScanRow
  <2>3. CASE run[r.id[1]][r.id[2]] \in TerminalRun
    <3>1. task'[w].pc \in {"judging", "ending"} /\ task'[w].row = r
      BY <1>e, <2>2, <2>3
    <3>2. r.id[1] \in Jobs /\ r.id[2] \in Numbers
      BY <2>1 DEF Row, AttemptId
    <3> QED
      BY <1>s, <2>3, <3>1, <3>2 DEF RunOver
  <2>4. CASE run[r.id[1]][r.id[2]] \notin TerminalRun
    <3>1. task'[w].pc = "scanning"
      BY <1>e, <2>2, <2>4
    <3> QED
      BY <1>q, <3>1
  <2> QED
    BY <2>3, <2>4
<1>6. CASE EndAttempt(w)
  <2>1. task[w].pc = "ending"
    BY <1>6 DEF EndAttempt, At
  <2>2. task'[w] = Idle \/ task'[w] = [task[w] EXCEPT !.pc = "judging"]
    BY <1>6, <1>e DEF EndAttempt
  <2> QED
    BY <1>q, <1>k, <2>1, <2>2 DEF Idle
<1>7. CASE JudgeJob(w)
  <2>1. task[w].pc = "judging"
    BY <1>7 DEF JudgeJob, At
  <2>2. \/ task'[w] = [pc |-> "scanning", rows |-> task[w].rows]
        \/ task'[w] = [task[w] EXCEPT !.pc = "repairing"]
    BY <1>7, <1>e DEF JudgeJob
  <2> QED
    BY <1>q, <1>k, <2>1, <2>2
<1>8. CASE RepairJob(w)
  <2>1. \E js, next : Advance(w, js, next) /\ next.pc \in {"idle", "scanning"}
    <3>1. Idle.pc = "idle" /\ [pc |-> "scanning", rows |-> task[w].rows].pc = "scanning"
      BY DEF Idle
    <3> QED
      BY <1>8, <3>1 DEF RepairJob
  <2>2. task'[w].pc \in {"idle", "scanning"}
    BY <2>1, AdvanceKept
  <2> QED
    BY <1>q, <2>2
\* The drain: the entries in hand come from the outbox.
<1>d. ASSUME task'[w].pc = "draining", \A e \in task'[w].entries : e \in InHand(w) \/ e \in outbox
      PROVE  Own(w)
  BY <1>d DEF Own, KnowsEnd, BeforeRun, InHand, At, OutcomePc
<1>9. CASE StartDrain(w)
  <2>1. task'[w].pc = "draining" /\ task'[w].entries = outbox
    BY <1>9, <1>e DEF StartDrain
  <2> QED
    BY <1>d, <2>1
<1>10. CASE ReadEntry(w)
  <2>1. task[w].entries \in SUBSET Entry /\ InHand(w) = task[w].entries
    BY <1>10, <1>e, TaskByPc DEF ReadEntry, DrainTask, InHand, At
  <2>2. PICK e \in task[w].entries :
          task' = [task EXCEPT ![w] =
                     IF IsTerminal(e.job)
                       THEN [pc |-> IF EntryNumber(e) = 0 THEN "settling"
                                    ELSE "applying",
                             entries |-> task[w].entries \ {e}, entry |-> e,
                             number |-> EntryNumber(e),
                             open |-> EntryNumber(e) # 0
                                        /\ ~IsOver(e.job, EntryNumber(e)),
                             status |-> job[e.job].status]
                       ELSE [pc |-> "draining", entries |-> task[w].entries \ {e}]]
    BY <1>10 DEF ReadEntry
  <2>3. CASE IsTerminal(e.job)
    <3>1. /\ task'[w].pc = IF EntryNumber(e) = 0 THEN "settling" ELSE "applying"
          /\ task'[w].entries = task[w].entries \ {e}
          /\ task'[w].entry = e /\ task'[w].number = EntryNumber(e)
      BY <1>e, <2>2, <2>3
    <3>2. e \in InHand(w) /\ e.number \in Nat
      BY <2>1 DEF Entry
    <3>3. EntryNumber(e) = e.number
      BY <3>2 DEF EntryNumber, StoresInv, EntriesInv, NeverRan
    <3>4. InHand(w)' \subseteq InHand(w)
      BY <2>1, <3>1 DEF InHand, At
    <3>5. KnowsEnd(w)'
      BY <3>1, <3>2, <3>3 DEF KnowsEnd, OutcomePc, At
    <3> QED
      BY <3>1, <3>4, <3>5 DEF Own, BeforeRun
  <2>4. CASE ~IsTerminal(e.job)
    <3>1. task'[w].pc = "draining" /\ task'[w].entries = task[w].entries \ {e}
      BY <1>e, <2>2, <2>4
    <3> QED
      BY <1>d, <2>1, <3>1
  <2> QED
    BY <2>3, <2>4
<1>t. ASSUME task[w].pc \in {"applying", "settling"}
      PROVE  /\ task[w] \in SettleTask /\ task[w].entry.job \in Jobs
             /\ task[w].number = task[w].entry.number /\ task[w].number \in 0 .. AttemptBound
             /\ task[w].status \in TerminalRun
             /\ InHand(w) = task[w].entries \cup {task[w].entry}
  <2>1. task[w] \in SettleTask
    BY <1>e, <1>t, TaskByPc
  <2> QED
    BY <1>e, <1>t, <2>1 DEF SettleTask, Entry, KnowsEnd, InHand, At
<1>11. CASE ApplyEntry(w)
  <2>1. task[w].pc = "applying"
    BY <1>11 DEF ApplyEntry, At
  <2>2. CASE task'[w] = [pc |-> "draining", entries |-> task[w].entries]
    BY <1>d, <1>t, <2>1, <2>2
  <2>3. CASE /\ task'[w] = [task[w] EXCEPT !.pc = "settling"]
             /\ SetRun(task[w].entry.job, task[w].number, task[w].status)
    <3>1. /\ task'[w].pc = "settling" /\ task'[w].entries = task[w].entries
          /\ task'[w].entry = task[w].entry /\ task'[w].number = task[w].number
      BY <1>t, <2>1, <2>3 DEF SettleTask
    <3>2. ASSUME task[w].number > 0
          PROVE  RunOver(task[w].entry.job, task[w].number)'
      <4>1. task[w].number \in Numbers /\ task[w].entry.job \in Jobs
        BY <1>t, <2>1, <3>2 DEF Numbers
      <4>2. run'[task[w].entry.job][task[w].number] = task[w].status
        BY <2>3, <4>1, RunSet
      <4>3. task'[w].entry.job = task[w].entry.job
        BY <3>1
      <4> QED
        BY <1>t, <2>1, <3>1, <4>2, <4>3 DEF RunOver
    <3>3. KnowsEnd(w)'
      BY <1>t, <2>1, <3>1, <3>2 DEF KnowsEnd, OutcomePc, At, RunOver
    <3>4. InHand(w)' \subseteq InHand(w)
      BY <1>t, <2>1, <3>1 DEF InHand, At
    <3> QED
      BY <3>1, <3>3, <3>4 DEF Own, BeforeRun
  <2> QED
    BY <1>11, <1>e, <2>2, <2>3 DEF ApplyEntry
<1>12. CASE SettleEntry(w)
  <2>1. /\ task[w].pc = "settling"
        /\ task'[w] = [pc |-> "draining", entries |-> task[w].entries]
    BY <1>12, <1>e DEF SettleEntry, At
  <2> QED
    BY <1>d, <1>t, <2>1
<1> QED
  BY <1>1, <1>2, <1>3, <1>4, <1>5, <1>6, <1>7, <1>8, <1>9, <1>10, <1>11, <1>12 DEF Reconcile

\* A worker that another one, a web request or the clock passes by.
LEMMA KeptOwn ==
  ASSUME TypeOK, History, StoresInv, Effects, NEW w \in Workers, Kept(w)
  PROVE  Own(w)
<1>e. task \in [Workers -> Task] /\ KnowsEnd(w)
  BY DEF TypeOK, StoresInv
<1>1. CASE task'[w].pc \in {"idle", "candidate"}
  BY <1>1 DEF Own, KnowsEnd, BeforeRun, InHand, At, OutcomePc
<1>2. CASE task'[w] = task[w]
  <2>1. task[w].pc \in OutcomePc => run'[task[w].id[1]][task[w].id[2]] \in TerminalRun
    <3>1. task[w].pc \in OutcomePc => task[w].id[1] \in Jobs /\ task[w].id[2] \in Numbers
      BY <1>e, TaskByPc, HoldTaskType DEF HoldPc
    <3> QED
      BY <1>e, <3>1, RunLasts DEF KnowsEnd, RunOver
  <2>2. task[w].pc \in {"ending", "judging", "repairing"} =>
          run'[task[w].row.id[1]][task[w].row.id[2]] \in TerminalRun
    <3>1. task[w].pc \in {"ending", "judging", "repairing"} =>
            task[w].row.id[1] \in Jobs /\ task[w].row.id[2] \in Numbers
      BY <1>e, TaskByPc DEF RepairTask, Row, AttemptId
    <3> QED
      BY <1>e, <3>1, RunLasts DEF KnowsEnd, RunOver
  <2>3. At(w, "settling") /\ task[w].number > 0 =>
          run'[task[w].entry.job][task[w].number] \in TerminalRun
    <3>1. At(w, "settling") /\ task[w].number > 0 =>
            task[w].entry.job \in Jobs /\ task[w].number \in Numbers
      BY <1>e, TaskByPc DEF SettleTask, Entry, At, Numbers
    <3> QED
      BY <1>e, <3>1, RunLasts DEF KnowsEnd, RunOver
  <2>4. KnowsEnd(w)'
    BY <1>e, <1>2, <2>1, <2>2, <2>3 DEF KnowsEnd, RunOver, At
  <2>5. InHand(w)' = InHand(w)
    BY <1>2 DEF InHand, At
  <2>6. task'[w].pc = "recovering" => \A a \in task'[w].ids : About(w, a[1], a[2])
    <3>1. task[w].pc = "recovering" => task[w].ids \subseteq AttemptId
      BY <1>e, TaskByPc DEF RecoverTask, At
    <3> QED
      BY <1>2, <3>1 DEF About, At, AttemptId
  <2> QED
    BY <1>2, <2>4, <2>5, <2>6 DEF Own
<1> QED
  BY <1>1, <1>2 DEF Kept

\* What a step may do to each worker, whoever takes it.
Progress ==
    /\ Transaction
    /\ StoreGrows
    /\ Effects
    /\ \A w \in Workers : Own(w) /\ HoldsOn(w)
    /\ \A j \in Jobs : Lasting(j)

LEMMA NextProgress ==
  ASSUME TypeOK, RowsExist, History, StoresInv, ~LeaseSlips, [Next]_vars
  PROVE  Progress
<1>1. Transaction
  BY NextStep
<1>2. Effects
  BY NextEffects
<1>3. StoreGrows
  BY <1>1, TransactionGrows
<1>4. \A j \in Jobs : Lasting(j)
  BY <1>1, LastingTransaction
<1>5. ASSUME NEW w \in Workers, Kept(w)
      PROVE  Own(w) /\ HoldsOn(w)
  <2>1. HoldsOn(w)
    BY <1>5 DEF Kept, HoldsOn, HoldPc, WorkPc, OutcomePc
  <2> QED
    BY <1>2, <1>5, <2>1, KeptOwn
<1>6. ASSUME NEW w \in Workers, Worker(w)
      PROVE  \A v \in Workers : Own(v) /\ HoldsOn(v)
  <2>1. WorkerStep(w)
    BY <1>6, ExecuteStep, MaintainStep, RepairStep, DrainStep DEF Worker, Reconcile
  <2>2. KnowsEnd(w)
    BY DEF StoresInv
  <2>3. Own(w)
    BY <1>2, <1>6, <2>2, ExecuteOwn, MaintainOwn DEF Worker
  <2> QED
    BY <1>5, <2>1, <2>3 DEF WorkerStep
<1>7. ASSUME NEW j \in Jobs, Web(j) \/ Clock(j)
      PROVE  \A v \in Workers : Own(v) /\ HoldsOn(v)
  BY <1>5, <1>7, WebTransaction
<1>8. ASSUME UNCHANGED task
      PROVE  \A v \in Workers : Own(v) /\ HoldsOn(v)
  BY <1>5, <1>8 DEF Kept
<1>9. \A v \in Workers : Own(v) /\ HoldsOn(v)
  <2>1. WebCrash \/ UNCHANGED vars => UNCHANGED task
    BY DEF WebCrash, vars
  <2>2. CASE Next
    BY <1>6, <1>7, <1>8, <2>1, <2>2 DEF Next
  <2> QED
    BY <1>8, <2>1, <2>2
<1> QED
  BY <1>1, <1>2, <1>3, <1>4, <1>9 DEF Progress

\* Nobody is about to act on the run of an attempt that was not made yet.
LEMMA NoRow ==
  ASSUME TypeOK, RowsExist, StoresInv, NEW j \in Jobs, NEW n \in Numbers, n > made[j]
  PROVE  /\ \A w \in Workers : task[w].pc \in HoldPc => task[w].id # <<j, n>>
         /\ \A w \in Workers : ~About(w, j, n)
         /\ \A w \in Workers : ~(At(w, "applying") /\ task[w].entry.job = j /\ task[w].number = n)
         /\ ~IsLive(j, n)
         /\ \A e \in outbox : ~(e.job = j /\ e.number = n)
         /\ \A w \in Workers : \A e \in InHand(w) : ~(e.job = j /\ e.number = n)
<1>e. made[j] \in Nat /\ n \in Nat
  BY DEF TypeOK, StoreTypeOK, Numbers
<1>1. \A w \in Workers : task[w].pc \in HoldPc => task[w].id # <<j, n>>
  BY <1>e DEF RowsExist, TaskRefersToRows, Exists
<1>2. \A w \in Workers : ~About(w, j, n)
  BY <1>e DEF RowsExist, TaskRefersToRows, Exists, About
<1>3. \A w \in Workers : ~(At(w, "applying") /\ task[w].entry.job = j /\ task[w].number = n)
  BY <1>e DEF RowsExist, TaskRefersToRows, At
<1>4. ~IsLive(j, n)
  BY <1>e DEF RowsExist, IsLive, LiveAttempt
<1>5. \A e \in outbox : ~(e.job = j /\ e.number = n)
  BY <1>e DEF RowsExist, EntryExists
<1>6. ASSUME NEW w \in Workers, NEW e \in InHand(w), e.job = j, e.number = n
      PROVE  FALSE
  <2>1. CASE At(w, "draining")
    BY <1>e, <1>6, <2>1 DEF InHand, At, RowsExist, TaskRefersToRows, EntryExists
  <2>2. CASE task[w].pc \in {"applying", "settling"}
    <3>1. e \in task[w].entries \cup {task[w].entry}
      BY <1>6, <2>2 DEF InHand, At
    <3>2. task[w].number = task[w].entry.number
      BY <2>2 DEF StoresInv, KnowsEnd
    <3> QED
      BY <1>e, <1>6, <2>2, <3>1, <3>2 DEF RowsExist, TaskRefersToRows, EntryExists
  <2> QED
    BY <1>6, <2>1, <2>2 DEF InHand
<1> QED
  BY <1>1, <1>2, <1>3, <1>4, <1>5, <1>6

\* Its record stays as it is until the submission or a web request writes it.
LEMMA NoRowKeeps ==
  ASSUME TypeOK, RowsExist, StoresInv, Effects,
         NEW j \in Jobs, NEW n \in Numbers, n > made[j]
  PROVE  \/ run'[j][n] = run[j][n]
         \/ n = 1 /\ job[j].status = "none" /\ run'[j][n] = "queued"
         \/ n = 1 /\ endpoint[j] = "run"
<1>1. RunWrite(j, n)
  BY DEF Effects
<1>2. \A w \in Workers : ~Holds(w, j, n)
  BY NoRow DEF Holds
<1>3. \A w \in Workers : ~(At(w, "started") /\ task[w].id = <<j, n>>)
  BY NoRow DEF At, HoldPc, WorkPc
<1> QED
  BY <1>1, <1>2, <1>3, NoRow DEF RunWrite

\* EndpointsInv, WithinBudget and EntriesInv: what they say of a job lasts.
LEMMA PromisesKept ==
  ASSUME TypeOK, TypeOK', StoresInv, Progress
  PROVE  /\ EndpointsInv'
         /\ \A j \in Jobs : WithinBudget(j)'
         /\ EntriesInv'
<1>e. ASSUME NEW j \in Jobs
      PROVE  /\ NeverRan(j) => NeverRan(j)'
             /\ made[j] = 0 /\ job[j].cancel => made'[j] = 0 /\ job'[j].cancel
             /\ WithinBudget(j) => WithinBudget(j)'
  BY DEF Progress, Lasting
<1>1. ASSUME NEW j \in Jobs
      PROVE  /\ endpoint'[j] # "none" => made'[j] = 0 /\ (job'[j].cancel \/ IsTerminal(j)')
             /\ endpoint'[j] = "run" => IsTerminal(j)'
  <2>1. /\ endpoint[j] # "none" => made[j] = 0 /\ (job[j].cancel \/ IsTerminal(j))
        /\ endpoint[j] = "run" => IsTerminal(j)
    BY DEF StoresInv, EndpointsInv
  <2>2. \/ endpoint'[j] \in {endpoint[j], "none"}
        \/ endpoint'[j] = "run" /\ NeverRan(j)'
        \/ endpoint'[j] = "job" /\ made'[j] = 0 /\ job'[j].cancel
    BY DEF Progress, Effects, JobWrite
  <2> QED
    BY <1>e, <2>1, <2>2 DEF NeverRan
<1>2. ASSUME NEW j \in Jobs
      PROVE  WithinBudget(j)'
  BY <1>e DEF StoresInv
<1>3. ASSUME NEW e, e.number = 0, e.job \in Jobs, e \in outbox \/ \E w \in Workers : e \in InHand(w)
      PROVE  NeverRan(e.job)'
  BY <1>e, <1>3 DEF StoresInv, EntriesInv
<1>4. \A e \in outbox' : e \in Entry /\ e.job \in Jobs
  BY DEF TypeOK, StoreTypeOK, Entry
<1>5. ASSUME NEW e \in outbox', e.number = 0
      PROVE  NeverRan(e.job)'
  <2>1. \A w \in Workers : ~About(w, e.job, 0)
    <3>1. \A w \in Workers : At(w, "recovering") => task[w].ids \subseteq AttemptId
      BY TaskByPc DEF TypeOK, RecoverTask
    <3> QED
      BY <3>1 DEF About, AttemptId, Numbers
  <2>2. EntryMade(e) => NeverRan(e.job)'
    BY <1>5, <2>1 DEF EntryMade
  <2> QED
    BY <1>3, <1>4, <1>5, <2>2 DEF Progress, Effects
<1>6. ASSUME NEW w \in Workers, NEW e \in InHand(w)', e.number = 0
      PROVE  NeverRan(e.job)'
  <2>1. e \in InHand(w) \/ e \in outbox
    BY <1>6 DEF Progress, Own
  <2>2. InHand(w) \cup outbox \subseteq Entry
    BY TaskByPc DEF TypeOK, StoreTypeOK, InHand, At, DrainTask, SettleTask
  <2>3. e.job \in Jobs
    BY <2>1, <2>2 DEF Entry
  <2> QED
    BY <1>3, <1>6, <2>1, <2>3
<1>7. EntriesInv'
  BY <1>5, <1>6 DEF EntriesInv
<1> QED
  BY <1>1, <1>2, <1>7 DEF EndpointsInv

\* A record is written when there is a job or an attempt to go with it.
LEMMA RunsKept ==
  ASSUME TypeOK, TypeOK', RowsExist, History, StoresInv, Progress
  PROVE  RunsInv'
<1> SUFFICES ASSUME NEW j \in Jobs
             PROVE  /\ job'[j].status = "none" => run'[j][1] = "none"
                    /\ made'[j] = 0 /\ job'[j].status \notin TerminalJob \cup {"none"}
                         => FreshRun(j, 1)'
                    /\ \A n \in Numbers : n > 1 /\ n > made'[j] => FreshRun(j, n)'
  BY DEF RunsInv
<1>e. /\ made[j] \in Nat /\ made'[j] \in Nat /\ made[j] <= made'[j] /\ 1 \in Numbers
      /\ Numbers \subseteq Nat
  BY BoundAssumption DEF Progress, StoreGrows, TypeOK, StoreTypeOK, Numbers
<1>o. /\ job[j].status = "none" => run[j][1] = "none"
      /\ made[j] = 0 /\ job[j].status \notin TerminalJob \cup {"none"} => FreshRun(j, 1)
      /\ \A n \in Numbers : n > 1 /\ n > made[j] => FreshRun(j, n)
  BY DEF StoresInv, RunsInv
<1>j. job[j].status = "none" =>
        \/ job'[j].status = "none" /\ run'[j][1] = run[j][1]
        \/ job'[j].status # "none" /\ run'[j][1] = "queued"
  BY DEF Progress, Effects, JobWrite
<1>n. \A n \in Numbers : n > made[j] =>
        \/ run'[j][n] = run[j][n]
        \/ n = 1 /\ job[j].status = "none" /\ run'[j][n] = "queued"
        \/ n = 1 /\ endpoint[j] = "run"
  BY NoRowKeeps DEF Progress
<1>1. job'[j].status = "none" => run'[j][1] = "none"
  <2>1. job[j].status # "none" => job'[j].status # "none"
    BY TurnTransaction DEF Progress
  <2> QED
    BY <1>j, <1>o, <2>1
<1>2. ASSUME made'[j] = 0, job'[j].status \notin TerminalJob \cup {"none"}
      PROVE  FreshRun(j, 1)'
  <2>1. made[j] = 0 /\ 1 > made[j]
    BY <1>2, <1>e
  <2>2. ~IsTerminal(j)
    BY <1>2, <2>1 DEF Progress, Lasting, NeverRan, IsTerminal
  <2>3. endpoint[j] # "run"
    BY <2>2 DEF StoresInv, EndpointsInv
  <2>4. CASE job[j].status = "none"
    BY <1>2, <1>j, <2>4 DEF FreshRun
  <2>5. CASE job[j].status # "none"
    <3>1. FreshRun(j, 1)
      BY <1>o, <2>1, <2>2, <2>5 DEF IsTerminal
    <3>2. run'[j][1] = run[j][1]
      BY <1>e, <1>n, <2>1, <2>3, <2>5
    <3> QED
      BY <3>1, <3>2 DEF FreshRun
  <2> QED
    BY <2>4, <2>5
<1>3. ASSUME NEW n \in Numbers, n > 1, n > made'[j]
      PROVE  FreshRun(j, n)'
  <2>1. n > made[j] /\ n # 1
    BY <1>3, <1>e
  <2>2. run'[j][n] = run[j][n] /\ FreshRun(j, n)
    BY <1>3, <1>n, <1>o, <2>1
  <2> QED
    BY <2>2 DEF FreshRun
<1> QED
  BY <1>1, <1>2, <1>3


\* Who holds an attempt after a step held it before, or claims it now.
LEMMA HolderCases ==
  ASSUME TypeOK, RowsExist, StoresInv, Progress, NEW w \in Workers, task'[w].pc \in HoldPc
  PROVE  \E j \in Jobs, n \in Numbers :
           /\ task'[w].id = <<j, n>>
           /\ \/ Holds(w, j, n) /\ n <= made[j]
              \/ ClaimJob(j) /\ n = made[j] + 1
<1>1. CASE task[w].pc \in HoldPc /\ task'[w].id = task[w].id
  <2>1. task[w].id \in Jobs \X Numbers
    BY <1>1, TaskByPc DEF TypeOK, HoldTask, WorkTask, OutcomeTask, AttemptId
  <2>2. PICK j \in Jobs, n \in Numbers : task[w].id = <<j, n>>
    BY <2>1
  <2>3. n <= made[j]
    BY <1>1, <2>2 DEF RowsExist, TaskRefersToRows, Exists
  <2> QED
    BY <1>1, <2>2, <2>3 DEF Holds
<1>2. ASSUME NEW j \in Jobs, ClaimJob(j), task'[w].id = <<j, made[j] + 1>>
      PROVE  \E n \in Numbers : n = made[j] + 1
  BY <1>2, ClaimJobType DEF TypeOK
<1> QED
  BY <1>1, <1>2 DEF Progress, HoldsOn

\* The row that ClaimJob inserts.
LEMMA ClaimedRow ==
  ASSUME TypeOK, NEW j \in Jobs, ClaimJob(j)
  PROVE  /\ made[j] + 1 \in Numbers
         /\ made'[j] = made[j] + 1
         /\ attempt'[j][made[j] + 1] =
              [status |-> "claimed", class |-> "unknown", expired |-> FALSE]
<1>1. made[j] + 1 \in Numbers
  BY ClaimJobType DEF TypeOK
<1>2. attempt \in [Jobs -> [Numbers -> AttemptRow]] /\ made \in [Jobs -> 0 .. AttemptBound]
  BY DEF TypeOK, StoreTypeOK
<1> QED
  BY <1>1, <1>2 DEF ClaimJob

\* Recovery reaches for expired leases only, and no living worker's expires.
LEMMA LeaseStaysKept ==
  ASSUME TypeOK, RowsExist, StoresInv, Progress, NEW w \in Workers
  PROVE  LeaseKept(w)'
<1> SUFFICES ASSUME task'[w].pc \in HoldPc
             PROVE  /\ ~attempt'[task'[w].id[1]][task'[w].id[2]].expired
                    /\ \A v \in Workers : task'[v].pc = "recovering" => task'[w].id \notin task'[v].ids
  BY DEF LeaseKept, At
<1>1. PICK j \in Jobs, n \in Numbers :
        /\ task'[w].id = <<j, n>>
        /\ \/ Holds(w, j, n) /\ n <= made[j]
           \/ ClaimJob(j) /\ n = made[j] + 1
  BY HolderCases
<1>2. ASSUME NEW v \in Workers, task'[v].pc = "recovering", <<j, n>> \in task'[v].ids
      PROVE  About(v, j, n) \/ (attempt[j][n].expired /\ IsLive(j, n))
  BY <1>2 DEF Progress, Own, ExpiredAttempts
<1>3. CASE Holds(w, j, n) /\ n <= made[j]
  <2>1. ~attempt[j][n].expired /\ \A v \in Workers : ~About(v, j, n)
    BY <1>3 DEF StoresInv, LeaseKept, Holds, About
  <2>2. ~attempt'[j][n].expired
    BY <1>3, <2>1 DEF Progress, Effects, AttemptWrite
  <2> QED
    BY <1>1, <1>2, <2>1, <2>2
<1>4. CASE ClaimJob(j) /\ n = made[j] + 1
  <2>1. ~attempt'[j][n].expired
    BY <1>4, ClaimedRow
  <2>2. n > made[j]
    BY <1>4 DEF TypeOK, StoreTypeOK
  <2>3. ~IsLive(j, n) /\ \A v \in Workers : ~About(v, j, n)
    BY <2>2, NoRow
  <2> QED
    BY <1>1, <1>2, <2>1, <2>3
<1> QED
  BY <1>1, <1>3, <1>4

\* An attempt whose worker has yet to begin the run keeps its record, and no
\* entry comes to name it.
LEMMA WillStillBegin ==
  ASSUME TypeOK, RowsExist, History, OneHolder, StoresInv, Progress, NEW w \in Workers
  PROVE  WillBegin(w)'
<1> SUFFICES ASSUME task'[w].pc \in BeforeRun
             PROVE  WillBegin(w)'
  BY DEF WillBegin
<1>h. task'[w].pc \in HoldPc
  BY DEF BeforeRun, HoldPc, WorkPc
<1>1. PICK j \in Jobs, n \in Numbers :
        /\ task'[w].id = <<j, n>>
        /\ \/ Holds(w, j, n) /\ n <= made[j]
           \/ ClaimJob(j) /\ n = made[j] + 1
  BY <1>h, HolderCases
<1>e. made[j] \in Nat /\ n \in Nat /\ n > 0
  BY DEF TypeOK, StoreTypeOK, Numbers
<1>2. /\ \A e \in outbox' : e \in outbox \/ EntryMade(e)
      /\ \A v \in Workers : \A e \in InHand(v)' : e \in InHand(v) \/ e \in outbox
  BY DEF Progress, Effects, Own
\* It is enough to see to the attempt itself.
<1>g. ASSUME attempt'[j][n].status \in LiveAttempt,
             run'[j][n] = IF n = 1 THEN "queued" ELSE "none",
             n = 1 => /\ \A e \in outbox' : ~NamesFirst(j, e)
                      /\ \A v \in Workers : \A e \in InHand(v)' : ~NamesFirst(j, e)
      PROVE  WillBegin(w)'
  BY <1>1, <1>g DEF WillBegin, IsLive, FreshRun, NamesFirst
<1>3. CASE Holds(w, j, n) /\ n <= made[j]
  <2>1. task[w].pc \in BeforeRun
    <3>1. \/ task[w].pc \in BeforeRun
          \/ \E i \in Jobs : ClaimJob(i) /\ task'[w].id = <<i, made[i] + 1>>
      BY DEF Progress, Own
    <3> QED
      BY <1>1, <1>3, <1>e, <3>1
  <2>2. /\ IsLive(j, n) /\ FreshRun(j, n)
        /\ n = 1 => /\ \A e \in outbox : ~NamesFirst(j, e)
                    /\ \A v \in Workers : \A e \in InHand(v) : ~NamesFirst(j, e)
    BY <1>3, <2>1 DEF StoresInv, WillBegin, Holds
  <2>3. \A v \in Workers : ~About(v, j, n)
    BY <1>3 DEF StoresInv, LeaseKept, Holds, About
  <2>4. ~RunOver(j, n)
    BY <2>2 DEF FreshRun, RunOver, TerminalRun
  <2>5. IsLive(j, n)'
    BY <2>2, <2>3, <2>4 DEF Progress, Effects, AttemptWrite, Recovered
  <2>6. run'[j][n] = run[j][n]
    <3>1. RunWrite(j, n)
      BY DEF Progress, Effects
    <3>2. job[j].status # "none"
      BY <1>3, <1>e DEF History
    <3>3. endpoint[j] # "run"
      BY <1>3, <1>e DEF StoresInv, EndpointsInv
    <3>4. ASSUME NEW v \in Workers, Holds(v, j, n)
          PROVE  task'[v].pc \in BeforeRun
      BY <1>3, <3>4 DEF OneHolder, Holds
    <3>5. ASSUME NEW v \in Workers, At(v, "applying"), task[v].entry.job = j,
                 task[v].number = n, run[j][n] # "none"
          PROVE  FALSE
      <4>1. n = 1
        BY <2>2, <3>5 DEF FreshRun
      <4>2. task[v].entry \in InHand(v)
        BY <3>5 DEF InHand, At
      <4>3. task[v].entry.number = n
        BY <3>5 DEF StoresInv, KnowsEnd, At
      <4> QED
        BY <2>2, <3>5, <4>1, <4>2, <4>3 DEF NamesFirst
    <3>6. \A v \in Workers : At(v, "started") /\ task[v].id = <<j, n>> => Holds(v, j, n)
      BY DEF Holds, At, HoldPc, WorkPc
    <3> QED
      BY <3>1, <3>2, <3>3, <3>4, <3>5, <3>6 DEF RunWrite, BeforeRun, OutcomePc
  <2>7. ASSUME n = 1
        PROVE  \A e \in outbox' : ~NamesFirst(j, e)
    BY <1>2, <2>2, <2>3, <2>4, <2>7 DEF EntryMade, NamesFirst
  <2>8. ASSUME n = 1
        PROVE  \A v \in Workers : \A e \in InHand(v)' : ~NamesFirst(j, e)
    BY <1>2, <2>2, <2>8
  <2> QED
    BY <1>g, <2>2, <2>5, <2>6, <2>7, <2>8 DEF IsLive, FreshRun
<1>4. CASE ClaimJob(j) /\ n = made[j] + 1
  <2>1. attempt'[j][n].status \in LiveAttempt
    BY <1>4, ClaimedRow DEF LiveAttempt
  <2>2. n > made[j]
    BY <1>4, <1>e
  <2>3. job[j].status = "queued" /\ UNCHANGED outbox
    BY <1>4 DEF ClaimJob, CanClaim
  <2>4. run'[j][n] = run[j][n]
    BY <2>2, <2>3, NoRowKeeps DEF Progress, StoresInv, EndpointsInv, IsTerminal, TerminalJob
  <2>5. FreshRun(j, n)
    <3>1. CASE n = 1
      BY <1>4, <1>e, <2>3, <3>1 DEF StoresInv, RunsInv, TerminalJob
    <3>2. CASE n > 1
      BY <2>2, <3>2 DEF StoresInv, RunsInv
    <3> QED
      BY <1>e, <3>1, <3>2
  <2>6. ASSUME n = 1
        PROVE  \A e \in outbox' : ~NamesFirst(j, e)
    BY <2>2, <2>3, <2>6, NoRow DEF NamesFirst
  <2>7. ASSUME n = 1
        PROVE  \A v \in Workers : \A e \in InHand(v)' : ~NamesFirst(j, e)
    BY <1>2, <2>2, <2>7, NoRow DEF NamesFirst
  <2> QED
    BY <1>g, <2>1, <2>4, <2>5, <2>6, <2>7 DEF FreshRun
<1> QED
  BY <1>1, <1>3, <1>4

\* The record of the last attempt of a job is not forgotten.
LEMMA SyncedKept ==
  ASSUME TypeOK, TypeOK', RowsExist, History, OneHolder, StoresInv, Progress
  PROVE  SyncedInv'
<1> SUFFICES ASSUME NEW j \in Jobs, made'[j] > 0
             PROVE  Synced(j, made[j])'
  BY DEF SyncedInv
<1>e. made[j] \in Nat /\ MaxAttempts[j] \in Nat /\ job[j].max \in Nat /\ job'[j].max \in Nat
  <2>1. made[j] \in Nat /\ MaxAttempts[j] \in Nat
    BY MaxAttemptsAssumption DEF TypeOK, StoreTypeOK
  <2>2. job[j].max \in Nat
    BY DEF TypeOK, StoreTypeOK, JobRow, Numbers
  <2>3. job'[j].max \in Nat
    BY DEF TypeOK, StoreTypeOK, JobRow, Numbers
  <2> QED
    BY <2>1, <2>2, <2>3
<1>l. Lasting(j)
  BY DEF Progress
\* The goal, with the number of the attempt fixed.
<1>g. ASSUME NEW n, n = made'[j],
             \/ run'[j][n] \in TerminalRun \cup {"none"}
             \/ \E e \in outbox' : e.job = j /\ e.number = n
             \/ attempt'[j][n].status \in LiveAttempt
             \/ /\ attempt'[j][n].status = "interrupted" /\ n < job'[j].max
                /\ IF n = 1 THEN ~IsTerminal(j)' ELSE MaxAttempts[j] > 2
      PROVE  Synced(j, made[j])'
  BY <1>g DEF Synced, IsLive, PutOff
<1>1. CASE ClaimJob(j) /\ made'[j] = made[j] + 1
  <2>1. attempt'[j][made[j] + 1].status \in LiveAttempt
    BY <1>1, ClaimedRow DEF LiveAttempt
  <2> QED
    BY <1>1, <1>g, <2>1
<1>2. CASE made'[j] = made[j]
  <2> DEFINE n == made[j]
  <2>n. n \in Numbers /\ n > 0 /\ n = made'[j]
    BY <1>2, <1>e DEF TypeOK, StoreTypeOK, Numbers
  <2>s. Synced(j, n)
    BY <2>n DEF StoresInv, SyncedInv
  <2>w. /\ RunWrite(j, n) /\ AttemptWrite(j, n)
        /\ \A e \in outbox : e \in outbox' \/ EntryGone(e)
    BY <2>n DEF Progress, Effects
  <2>o. ASSUME RunOver(j, n)
        PROVE  run'[j][n] \in TerminalRun
    BY <2>n, <2>o, RunLasts DEF Progress, RunOver
  <2>m. job[j].max <= job'[j].max
    BY <1>l DEF Lasting
  <2> HIDE DEF n
  <2>1. CASE run[j][n] \in TerminalRun
    BY <1>g, <2>n, <2>o, <2>1 DEF RunOver
  <2>2. CASE run[j][n] = "none"
    <3>1. job[j].status # "none"
      BY <2>n DEF History, n
    <3>2. ASSUME NEW w \in Workers, At(w, "started"), task[w].id = <<j, n>>
          PROVE  IsLive(j, n)
      BY <3>2 DEF StoresInv, WillBegin, BeforeRun, At
    <3> QED
      BY <1>g, <2>n, <2>w, <2>2, <3>1, <3>2 DEF RunWrite, IsLive
  <2>3. CASE \E e \in outbox : e.job = j /\ e.number = n
    <3>1. PICK e \in outbox : e.job = j /\ e.number = n
      BY <2>3
    <3>2. CASE e \in outbox'
      BY <1>g, <2>n, <3>1, <3>2
    <3>3. CASE EntryGone(e)
      BY <1>g, <2>n, <2>o, <3>1, <3>3 DEF EntryGone
    <3> QED
      BY <2>w, <3>2, <3>3
  <2>4. CASE IsLive(j, n)
    <3>1. CASE RunOver(j, n)
      BY <1>g, <2>n, <2>o, <3>1
    <3>2. CASE Recovered(j, n)
      <4>1. CASE \E e \in outbox' : e.job = j /\ e.number = n
        BY <1>g, <2>n, <4>1
      <4>2. CASE attempt'[j][n].status = "interrupted" /\ n < job[j].max /\ ~IsTerminal(j)'
        <5>1. n < job'[j].max
          BY <1>e, <2>m, <2>n, <4>2 DEF Numbers
        <5>2. n # 1 => MaxAttempts[j] > 2
          <6>1. ~IsOver(j, n)
            BY <2>4 DEF IsLive, IsOver, LiveAttempt, TerminalAttempt
          <6>2. WithinBudget(j)
            BY DEF StoresInv
          <6> QED
            BY <1>e, <2>n, <4>2, <6>1, <6>2 DEF WithinBudget, Numbers, n
        <5> QED
          BY <1>g, <2>n, <4>2, <5>1, <5>2
      <4> QED
        BY <3>2, <4>1, <4>2 DEF Recovered
    <3>3. CASE IsLive(j, n)'
      BY <1>g, <2>n, <3>3 DEF IsLive, n
    <3> QED
      BY <2>w, <2>4, <3>1, <3>2, <3>3 DEF AttemptWrite
  <2>5. CASE PutOff(j, n) /\ IF n = 1 THEN ~IsTerminal(j) ELSE MaxAttempts[j] > 2
    <3>1. attempt'[j][n].status = "interrupted"
      BY <2>n, <2>5 DEF Progress, StoreGrows, PutOff, IsOver, TerminalAttempt
    <3>2. n < job'[j].max /\ n < job[j].max
      BY <1>e, <2>m, <2>n, <2>5 DEF PutOff, Numbers
    <3>3. CASE n = 1 /\ IsTerminal(j)'
      <4>1. \E e \in outbox' : e.job = j /\ e.number = n
        BY <1>e, <1>l, <2>5, <3>2, <3>3 DEF Lasting, n
      <4> QED
        BY <1>g, <2>n, <4>1
    <3> QED
      BY <1>g, <2>n, <2>5, <3>1, <3>2, <3>3
  <2> QED
    BY <2>s, <2>1, <2>2, <2>3, <2>4, <2>5 DEF Synced
<1> QED
  BY <1>l, <1>1, <1>2 DEF Lasting

\* The two stores stay in step.
LEMMA StoresKept ==
  ASSUME TypeOK, TypeOK', RowsExist, History, OneHolder, StoresInv, ~LeaseSlips, [Next]_vars
  PROVE  StoresInv'
<1>1. Progress
  BY NextProgress
<1>2. ASSUME NEW w \in Workers
      PROVE  (KnowsEnd(w) /\ WillBegin(w) /\ LeaseKept(w))'
  <2>1. KnowsEnd(w)'
    BY <1>1 DEF Progress, Own
  <2> QED
    BY <1>1, <2>1, WillStillBegin, LeaseStaysKept
<1> QED
  BY <1>1, <1>2, PromisesKept, RunsKept, SyncedKept DEF StoresInv

LEMMA InitStores == Init => StoresInv
<1> SUFFICES ASSUME Init
             PROVE  StoresInv
  OBVIOUS
<1>e. /\ \A j \in Jobs : /\ made[j] = 0 /\ job[j].status = "none" /\ endpoint[j] = "none"
                        /\ job[j].max = MaxAttempts[j]
                        /\ \A n \in Numbers : run[j][n] = "none"
      /\ outbox = {} /\ 1 \in Numbers
      /\ \A w \in Workers : task[w].pc = "idle"
  BY BoundAssumption DEF Init, StoreInit, Idle, Numbers
<1>1. EndpointsInv
  BY <1>e DEF EndpointsInv
<1>2. RunsInv
  <2>1. ASSUME NEW j \in Jobs
        PROVE  /\ run[j][1] = "none" /\ job[j].status = "none"
               /\ \A n \in Numbers : n > 1 => FreshRun(j, n)
    BY <1>e DEF FreshRun, Numbers
  <2> QED
    BY <2>1 DEF RunsInv
<1>3. ASSUME NEW j \in Jobs
      PROVE  WithinBudget(j)
  <2>1. job[j].max = MaxAttempts[j] /\ MaxAttempts[j] \in Nat
    BY <1>e, MaxAttemptsAssumption
  <2> QED
    BY <2>1 DEF WithinBudget
<1>4. EntriesInv
  BY <1>e DEF EntriesInv, InHand, At
<1>5. \A w \in Workers : KnowsEnd(w) /\ WillBegin(w) /\ LeaseKept(w)
  BY <1>e DEF KnowsEnd, WillBegin, LeaseKept, OutcomePc, BeforeRun, HoldPc, WorkPc, At
<1>6. SyncedInv
  BY <1>e DEF SyncedInv
<1> QED
  BY <1>1, <1>2, <1>3, <1>4, <1>5, <1>6 DEF StoresInv

-----------------------------------------------------------------------------
(***************************************************************************)
(* RuntimeInv is an invariant of every instance of the runtime, whatever   *)
(* the number of workers, jobs, attempts and crashes, and also if leases   *)
(* lapse under living workers.                                             *)
(***************************************************************************)
THEOREM Invariance == Spec => []RuntimeInv
<1>1. Init => RuntimeInv
  <2> SUFFICES ASSUME Init
               PROVE  RuntimeInv
    OBVIOUS
  <2>1. TypeOK
    BY InitType
  <2>2. RowsExist
    BY DEF Init, StoreInit, RowsExist, TaskRefersToRows, Idle, At, HoldPc, WorkPc,
           OutcomePc
  <2>3. History
    <3>1. \A j \in Jobs : made[j] = 0 /\ job[j].status = "none"
      BY DEF Init, StoreInit
    <3>2. \A j \in Jobs, n \in Numbers : attempt[j][n].class = "unknown"
      BY DEF Init, StoreInit
    <3>3. ASSUME NEW j \in Jobs
          PROVE  /\ ~(job[j].status \in {"queued", "retry_wait"} /\ made[j] > 0)
                 /\ ~(made[j] > 1)
      BY <3>1
    <3> QED
      BY <3>1, <3>2, <3>3 DEF History
  <2>4. OneHolder
    BY DEF Init, OneHolder, Idle, HoldPc, WorkPc, OutcomePc
  <2>5. Turns
    <3>1. \A j \in Jobs : made[j] = 0 /\ job[j].status = "none"
      BY DEF Init, StoreInit
    <3>2. \A w \in Workers : ~At(w, "candidate")
      BY DEF Init, Idle, At
    <3> QED
      BY <3>1, <3>2, ClassAssumption DEF Turns, TurnsStartInOrder
  <2> QED
    BY <2>1, <2>2, <2>3, <2>4, <2>5, InitStores DEF RuntimeInv
<1>2. RuntimeInv /\ [Next]_vars => RuntimeInv'
  <2> SUFFICES ASSUME RuntimeInv, [Next]_vars
               PROVE  RuntimeInv'
    OBVIOUS
  <2> USE DEF RuntimeInv
  <2>1. TypeOK'
    BY NextType
  <2>2. RowsExist'
    BY <2>1, RowsExistKept
  <2>3. History'
    BY NextStep, HistoryKept
  <2>4. OneHolder'
    BY OneHolderKept
  <2>5. Turns'
    BY <2>1, TurnsKept
  <2>6. ~LeaseSlips' => StoresInv'
    BY <2>1, StoresKept
  <2> QED
    BY <2>1, <2>2, <2>3, <2>4, <2>5, <2>6
<1> QED
  BY <1>1, <1>2, PTL DEF Spec

(***************************************************************************)
(* Work that is not retry-safe is started at most once and held by one     *)
(* worker (_retry_safe in finish_attempt and retry_safe_job), in every     *)
(* instance: no crash, recovery, reconciliation or operator retry repeats  *)
(* it.                                                                     *)
(***************************************************************************)
THEOREM OnceTheorem == Spec => []UnsafeRunsOnce
<1>1. RuntimeInv => UnsafeRunsOnce
  <2> SUFFICES ASSUME RuntimeInv, NEW j \in Jobs \ SafeJobs
               PROVE  /\ made[j] <= 1
                      /\ \A v, w \in Workers : Holds(v, j, 1) /\ Holds(w, j, 1) => v = w
    BY DEF UnsafeRunsOnce
  <2>1. made[j] <= 1
    BY DEF RuntimeInv, TypeOK, StoreTypeOK, History
  <2>2. \A v, w \in Workers : Holds(v, j, 1) /\ Holds(w, j, 1) => v = w
    BY DEF RuntimeInv, OneHolder, Holds
  <2> QED
    BY <2>1, <2>2
<1> QED
  BY <1>1, Invariance, PTL

(***************************************************************************)
(* The interactive turns of a session start in the order they were         *)
(* submitted in, or are given up (the blocker clause of _candidate_query), *)
(* in every instance: neither a candidate row that grows old before the    *)
(* claim nor a retry lets a later turn overtake an earlier one.            *)
(***************************************************************************)
THEOREM TurnsTheorem == Spec => []TurnsStartInOrder
<1>1. RuntimeInv => TurnsStartInOrder
  BY DEF RuntimeInv, Turns
<1> QED
  BY <1>1, Invariance, PTL

(***************************************************************************)
(* No crash window between the session store and the runtime database is   *)
(* lost (_enqueue_terminal_sync in the transaction that ends the job), in  *)
(* every instance without lapsing leases: wherever the worker, the web     *)
(* process, recovery or the reconciler dies, an ended job whose run record *)
(* is still open has an open attempt or an entry that names it, but for a  *)
(* third attempt that recovery put off.                                    *)
(***************************************************************************)
THEOREM SyncTheorem == Spec => []RunSynced
<1>1. RuntimeInv => RunSynced
  <2> SUFFICES ASSUME RuntimeInv, ~LeaseSlips, NEW j \in Jobs, IsTerminal(j), made[j] > 0
               PROVE  LET n == made[j]
                      IN  \/ run[j][n] \in TerminalRun \cup {"none"}
                          \/ \E e \in outbox : e.job = j /\ e.number = n
                          \/ IsLive(j, n)
                          \/ MaxAttempts[j] > 2 /\ n > 1 /\ PutOff(j, n)
    BY DEF RunSynced
  <2>1. Synced(j, made[j]) /\ made[j] \in Nat
    BY DEF RuntimeInv, StoresInv, SyncedInv, TypeOK, StoreTypeOK
  <2> QED
    BY <2>1 DEF Synced
<1> QED
  BY <1>1, Invariance, PTL

(***************************************************************************)
(* An attempt that is over keeps its status in every instance, although its*)
(* worker, recovery, reconciliation and the outbox all try to end it.      *)
(***************************************************************************)
THEOREM FinalTheorem == Spec => AttemptIsFinal
<1> DEFINE Final == \A j \in Jobs, n \in Numbers :
                      IsOver(j, n) => attempt'[j][n].status = attempt[j][n].status
<1>1. RuntimeInv /\ [Next]_vars => Final
  BY NextStep, TransactionGrows DEF RuntimeInv, StoreGrows
<1>2. AttemptIsFinal <=> [][Final]_vars
  BY PTL DEF AttemptIsFinal
<1> QED
  BY <1>1, <1>2, Invariance, PTL DEF Spec
=============================================================================
