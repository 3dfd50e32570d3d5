-------------------------- MODULE RuntimeProperties --------------------------
(***************************************************************************)
(* What DurableRuntime should guarantee: the properties the code has, and  *)
(* at the end those its documentation, its comments or its tests state and *)
(* its behaviour does not have.                                            *)
(***************************************************************************)
EXTENDS DurableRuntime

(***************************************************************************)
(* Work whose class is not retry-safe is started once and has one owner:   *)
(* whatever crashes, recovers, races or is retried by an operator, an edit *)
(* or an external write is never done again (_retry_safe in finish_attempt *)
(* and retry_safe_job, against the claim's and the recovery's races).      *)
(***************************************************************************)
UnsafeRunsOnce ==
    \A j \in Jobs \ SafeJobs :
      /\ made[j] <= 1
      /\ \A v, w \in Workers : Holds(v, j, 1) /\ Holds(w, j, 1) => v = w

(***************************************************************************)
(* The retry history is append-only: an attempt that is over keeps its     *)
(* status, although its worker, the recovery of its lease, the repair of   *)
(* its run record and the outbox all try to end it (transition_attempt and *)
(* the check in finish_attempt).                                           *)
(***************************************************************************)
AttemptIsFinal ==
    [][\A j \in Jobs, n \in Numbers :
         IsOver(j, n) => attempt'[j][n].status = attempt[j][n].status]_vars

(***************************************************************************)
(* No crash window between the two stores is lost: if a job is terminal    *)
(* and the run record of its last attempt is still open, then the attempt  *)
(* is open too (its worker lives, or its lease will expire), or an outbox  *)
(* entry that names it waits to be applied (_enqueue_terminal_sync in the  *)
(* transaction that ends the job).  Two things do break it, and are left   *)
(* out by what it assumes: leases that lapse under a living worker, whose  *)
(* late run_in_session opens the record again; and, of a job that may be   *)
(* tried more than twice, a retry that recovery put off, when the late     *)
(* finish_attempt of an earlier attempt ends the job in between.           *)
(***************************************************************************)
PutOff(j, n) ==
    /\ attempt[j][n].status = "interrupted"
    /\ n < job[j].max

RunSynced ==
    ~LeaseSlips =>
      \A j \in Jobs :
        LET n == made[j]
        IN  IsTerminal(j) /\ n > 0 =>
              \/ run[j][n] \in TerminalRun \cup {"none"}
              \/ \E e \in outbox : e.job = j /\ e.number = n
              \/ IsLive(j, n)
              \/ MaxAttempts[j] > 2 /\ n > 1 /\ PutOff(j, n)

(***************************************************************************)
(* A later interactive turn of the session never starts before an earlier  *)
(* one has started or been given up (the blocker clause of                 *)
(* _candidate_query, with a claim that may come long after the query).     *)
(***************************************************************************)
TurnsStartInOrder ==
    \A i, j \in Interactive :
      i < j /\ made[j] > 0 => made[i] > 0 \/ IsTerminal(i)

(***************************************************************************)
(* The job queue implements the promises of WorkLedger.                    *)
(***************************************************************************)
Ledger == INSTANCE WorkLedger WITH
            Repeatable <- SafeJobs,
            Budget <- MaxAttempts,
            offered <- [j \in Jobs |-> job[j].status \in {"queued", "retry_wait"}],
            started <- made,
            budget <- [j \in Jobs |-> job[j].max],
            canceled <- [j \in Jobs |-> job[j].cancel]

ImplementsLedger == Ledger!LedgerSpec

(***************************************************************************)
(* The job queue implements ChildJobs, the job as the components see it    *)
(* that submit work to it: no worker, recovery, reconciliation or operator *)
(* changes a job in a way that a workflow or a schedule does not expect.   *)
(***************************************************************************)
Children == INSTANCE ChildJobs WITH
              child <- [j \in Jobs |-> [status |-> job[j].status,
                                        cancel |-> job[j].cancel,
                                        ran |-> made[j] > 0]]

ImplementsChildren == Children!ChildSpec

-----------------------------------------------------------------------------
(***************************************************************************)
(* Fairness.  A worker process that lives carries on with what it began,   *)
(* and an adapter ends (its turn has a deadline).  Between jobs the loop   *)
(* of run_forever comes to every duty that is due again and again, however *)
(* often another duty, or another worker, was first: strong fairness.      *)
(* Deadlines pass, and a web request runs to its end.  Nobody has to       *)
(* submit, approve, cancel or retry, and nothing has to crash.             *)
(***************************************************************************)
Fairness ==
    /\ \A w \in Workers :
         /\ WF_vars(Execute(w))
         /\ WF_vars(RecoverRow(w))
         /\ WF_vars(Reconcile(w))
         /\ SF_vars(\E j \in Jobs : FindCandidate(w, j))
         /\ SF_vars(StartRecovery(w))
         /\ SF_vars(Requeue(w))
         /\ SF_vars(StartReconcile(w))
    /\ \A j \in Jobs :
         /\ WF_vars(FallDue(j))
         /\ \A n \in Numbers : WF_vars(ExpireLease(j, n))
         /\ WF_vars(CancelJobRow(j) \/ CancelRunRecord(j))

FairSpec == Spec /\ Fairness

(***************************************************************************)
(* A queued job that nobody cancels ends, across crashes at any step:      *)
(* leases expire, recovery finds them, retries fall due and are claimed.   *)
(***************************************************************************)
QueuedJobEnds ==
    \A j \in Jobs : (job[j].status = "queued" /\ ~job[j].cancel)
                      ~> (IsTerminal(j) \/ job[j].cancel)

(***************************************************************************)
(* A job canceled while it runs ends, also if its worker dies first: the   *)
(* cancellation stops the retry that would take it away from its end.      *)
(***************************************************************************)
CanceledRunEnds ==
    \A j \in Jobs : (job[j].status = "running" /\ job[j].cancel) ~> IsTerminal(j)

(***************************************************************************)
(* The run record of an ended job's last attempt ends too, unless the job  *)
(* is put back to work first: the reconciler gets to it in the end.  With  *)
(* one worker process this is always so.  With several it is said only of  *)
(* jobs of at most two attempts whose leases are renewed in time: what     *)
(* RunSynced leaves out, a lease that lapses under a living worker and the *)
(* third attempt, can leave a record open for ever.                        *)
(***************************************************************************)
Undisturbed(j) ==
    \/ \A v, w \in Workers : v = w
    \/ ~LeaseSlips /\ MaxAttempts[j] <= 2

RunRecordFollows ==
    \A j \in Jobs, n \in Numbers :
      (Undisturbed(j) /\ IsTerminal(j) /\ made[j] = n /\ run[j][n] # "none")
        ~> (run[j][n] \in TerminalRun \/ ~IsTerminal(j))

-----------------------------------------------------------------------------
(***************************************************************************)
(* Statements of the documentation and the tests that the code refutes.    *)
(***************************************************************************)

(***************************************************************************)
(* Reconciliation moves a finished run's outcome to its job, as            *)
(* tests/harness/test_runtime_store.py:837 has it, so a run that succeeded *)
(* stays so once its worker is gone.  Recovery runs before reconciliation  *)
(* and turns the attempt to interrupted; then the run is marked failed.    *)
(***************************************************************************)
SuccessIsKept ==
    [][\A j \in Jobs, n \in Numbers :
         /\ run[j][n] = "succeeded"
         /\ \A w \in Workers : ~Holds(w, j, n)
         => run'[j][n] = "succeeded"]_vars

(***************************************************************************)
(* A cancellation ends the job it was requested for: it "propagates to     *)
(* every active child job" (docs/harness.md:888).  The cancel of a         *)
(* workflow only sets the flag (coordinator.py:537-543): a job that waits  *)
(* in the queue, before its first attempt too, is never claimed and never  *)
(* ended then, and one that waits for its retry is never requeued.         *)
(***************************************************************************)
CanceledJobEnds ==
    \A j \in Jobs :
      (job[j].status \in {"queued", "running", "retry_wait"} /\ job[j].cancel)
        ~> IsTerminal(j)
=============================================================================
