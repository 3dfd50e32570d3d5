------------------------------ MODULE JobStore ------------------------------
(***************************************************************************)
(* The coordination rows of runtime.sqlite3: logical jobs, their attempts  *)
(* and the transactional outbox, with one operator per repository method   *)
(* of src/gigaloom/runtime/jobs, workers and outbox.  Every method runs in *)
(* one BEGIN IMMEDIATE transaction, so each operator is one atomic step;   *)
(* what is not atomic (a SELECT on another connection, the file based run  *)
(* records, a worker's local variables) is the business of DurableRuntime. *)
(*                                                                         *)
(* Time is abstracted: an attempt's lease is either good or expired, and a *)
(* job's available_at either has passed ("due") or has not.  The version   *)
(* columns are read by the claim alone (in a method they cannot change     *)
(* between the SELECT and the UPDATE of the same transaction); the module  *)
(* that holds the claim's stale row keeps track of them.                   *)
(***************************************************************************)
EXTENDS Naturals

CONSTANTS
    Jobs,          \* logical jobs of one session, numbered by created_at
    AttemptBound,  \* bound on the attempt rows of a job (operator retries add)
    MaxAttempts,   \* max_attempts each job is submitted with
    SafeJobs,      \* jobs whose payload resolves to a retry-safe class
    Interactive    \* jobs submitted with origin "interactive"

ASSUME JobsAssumption == Jobs \subseteq Nat
ASSUME BoundAssumption == AttemptBound \in Nat \ {0}
ASSUME MaxAttemptsAssumption == MaxAttempts \in [Jobs -> 1 .. AttemptBound]
ASSUME ClassAssumption == SafeJobs \subseteq Jobs /\ Interactive \subseteq Jobs

VARIABLES
    job,       \* the jobs table
    attempt,   \* the job_attempts table, by job and attempt_number
    made,      \* MAX(attempt_number) of each job, 0 when it has no attempt
    outbox     \* unprocessed job_terminal entries of runtime_outbox

storeVars == <<job, attempt, made, outbox>>

Numbers == 1 .. AttemptBound

TerminalJob == {"succeeded", "failed", "canceled"}
WaitingJob == {"waiting_input", "waiting_approval"}
JobStatus == TerminalJob \cup WaitingJob
               \cup {"none", "queued", "running", "retry_wait"}

TerminalAttempt == {"succeeded", "failed", "canceled", "interrupted"}
LiveAttempt == {"claimed", "running"}
AttemptStatus == TerminalAttempt \cup LiveAttempt \cup {"none"}

(***************************************************************************)
(* idempotency_class: a claim inserts "unknown", the worker replaces it by *)
(* what the payload resolves to; only the classes of _retry_safe count.    *)
(***************************************************************************)
Class == {"unknown", "safe", "unsafe"}
\* Faulty variant of RetrySafe: an unresolved class counts as safe.
RetryUnlessUnsafe(class) == class # "unsafe"

RetrySafe(class) == class = "safe"

JobRow == [status : JobStatus, cancel : BOOLEAN, max : Numbers, due : BOOLEAN]
AttemptRow == [status : AttemptStatus, class : Class, expired : BOOLEAN]

\* An outbox payload names the job, its attempt (0: none) and the status.
Entry == [job : Jobs, number : 0 .. AttemptBound, status : TerminalJob]

StoreTypeOK ==
    /\ job \in [Jobs -> JobRow]
    /\ attempt \in [Jobs -> [Numbers -> AttemptRow]]
    /\ made \in [Jobs -> 0 .. AttemptBound]
    /\ outbox \subseteq Entry

StoreInit ==
    /\ job = [j \in Jobs |-> [status |-> "none", cancel |-> FALSE,
                              max |-> MaxAttempts[j], due |-> TRUE]]
    /\ attempt = [j \in Jobs |-> [n \in Numbers |->
                    [status |-> "none", class |-> "unknown", expired |-> FALSE]]]
    /\ made = [j \in Jobs |-> 0]
    /\ outbox = {}

IsTerminal(j) == job[j].status \in TerminalJob
IsLive(j, n) == attempt[j][n].status \in LiveAttempt
IsOver(j, n) == attempt[j][n].status \in TerminalAttempt

Sync(j, n, status) == [job |-> j, number |-> n, status |-> status]

-----------------------------------------------------------------------------
(***************************************************************************)
(* Jobs.                                                                   *)
(***************************************************************************)

\* submit_job as the dispatcher calls it: the row starts in waiting_input.
SubmitJob(j) ==
    /\ job[j].status = "none"
    /\ job' = [job EXCEPT ![j].status = "waiting_input"]
    /\ UNCHANGED <<attempt, made, outbox>>

\* transition_job refuses to leave a terminal status and to enter its own.
CanTransition(j, target) == job[j].status \notin TerminalJob \cup {target}

TransitionJob(j, target) ==
    /\ CanTransition(j, target)
    /\ job' = [job EXCEPT ![j].status = target]
    /\ outbox' = IF target \in TerminalJob
                   THEN outbox \cup {Sync(j, made[j], target)}
                   ELSE outbox
    /\ UNCHANGED <<attempt, made>>

\* The job part of decide_approval_request; a denied job has no attempt.
DecideApproval(j, target) ==
    /\ job[j].status = "waiting_approval"
    /\ job' = [job EXCEPT ![j].status = target, ![j].due = TRUE]
    /\ outbox' = IF target = "canceled"
                   THEN outbox \cup {Sync(j, 0, "canceled")}
                   ELSE outbox
    /\ UNCHANGED <<attempt, made>>

\* Faulty variant of RequestCancel: an ended job is marked as well.
RequestCancelAlways(j) ==
    /\ job[j].status # "none"
    /\ job' = [job EXCEPT ![j].cancel = TRUE]
    /\ UNCHANGED <<attempt, made, outbox>>

RequestCancel(j) ==
    /\ job[j].status \notin TerminalJob \cup {"none"}
    /\ job' = [job EXCEPT ![j].cancel = TRUE]
    /\ UNCHANGED <<attempt, made, outbox>>

\* retry_safe_job; made[j] < AttemptBound is the model's bound.
RetrySafeJob(j) ==
    /\ job[j].status = "failed"
    /\ made[j] \in 1 .. AttemptBound - 1
    /\ attempt[j][made[j]].status \in {"failed", "interrupted"}
    /\ RetrySafe(attempt[j][made[j]].class)
    /\ job' = [job EXCEPT
                 ![j] = [status |-> "queued", cancel |-> FALSE, due |-> TRUE,
                         max |-> IF @.max > made[j] THEN @.max ELSE made[j] + 1]]
    /\ UNCHANGED <<attempt, made, outbox>>

\* requeue_due_jobs moves every due retry at once.
DueRetries == {j \in Jobs : /\ job[j].status = "retry_wait"
                            /\ job[j].due
                            /\ ~job[j].cancel}

RequeueDueJobs ==
    /\ DueRetries # {}
    /\ job' = [j \in Jobs |-> IF j \in DueRetries
                                THEN [job[j] EXCEPT !.status = "queued"]
                                ELSE job[j]]
    /\ UNCHANGED <<attempt, made, outbox>>

-----------------------------------------------------------------------------
(***************************************************************************)
(* Claims.                                                                 *)
(***************************************************************************)

\* Faulty variant of Blocks: a turn that waits for input or approval is
\* overtaken.
BlocksUnlessWaiting(b, j) ==
    \/ job[b].status = "running"
    \/ job[b].status \in {"queued", "retry_wait"} /\ b < j

\* The NOT EXISTS clause that keeps the turns of one session in order.
Blocks(b, j) ==
    \/ job[b].status = "running"
    \/ /\ job[b].status \in WaitingJob \cup {"queued", "retry_wait"}
       /\ b < j

\* A row the candidate query may return; priority and capability
\* fingerprint decide among them and are left open.
IsCandidate(j) ==
    /\ job[j].status = "queued"
    /\ job[j].due
    /\ ~job[j].cancel
    /\ j \in Interactive => \A b \in Jobs \ {j} : ~Blocks(b, j)

\* The WHERE clause of the compare-and-swap, but for the version.
CanClaim(j) == job[j].status = "queued" /\ job[j].due /\ ~job[j].cancel

\* _claim_candidate after its UPDATE matched: the next attempt is inserted,
\* or the job fails because it has no attempt left (and nothing is synced).
ClaimJob(j) ==
    /\ CanClaim(j)
    /\ made[j] < job[j].max
    /\ job' = [job EXCEPT ![j].status = "running"]
    /\ made' = [made EXCEPT ![j] = @ + 1]
    /\ attempt' = [attempt EXCEPT ![j][made[j] + 1] =
                     [status |-> "claimed", class |-> "unknown", expired |-> FALSE]]
    /\ UNCHANGED outbox

ExhaustJob(j) ==
    /\ CanClaim(j)
    /\ made[j] >= job[j].max
    /\ job' = [job EXCEPT ![j].status = "failed"]
    /\ UNCHANGED <<attempt, made, outbox>>

-----------------------------------------------------------------------------
(***************************************************************************)
(* Attempts.                                                               *)
(***************************************************************************)

SetClass(j, n, class) ==
    /\ attempt' = [attempt EXCEPT ![j][n].class = class]
    /\ UNCHANGED <<job, made, outbox>>

\* transition_attempt refuses to leave a terminal status.
TransitionAttempt(j, n, target) ==
    /\ ~IsOver(j, n)
    /\ attempt' = [attempt EXCEPT ![j][n].status = target]
    /\ UNCHANGED <<job, made, outbox>>

\* heartbeat_worker_attempt; the lease owner never changes after the claim.
Heartbeat(j, n) ==
    /\ ~IsOver(j, n)
    /\ attempt' = [attempt EXCEPT ![j][n].expired = FALSE]
    /\ UNCHANGED <<job, made, outbox>>

\* Faulty variants of the next three: a pending cancellation does not stop
\* the retry; "interrupted" is stored as a job status; an ended attempt gets
\* a new status; the run record of an ended job is not synced.
RetryableThoughCanceled(j, n, status, retry) ==
    /\ status \in {"failed", "interrupted"}
    /\ retry
    /\ n < job[j].max
    /\ RetrySafe(attempt[j][n].class)

SameStatus(status) == status

\* finish_attempt keeps the status of an attempt that is over already, and
\* rewrites the job in every case.
Retryable(j, n, status, retry) ==
    /\ status \in {"failed", "interrupted"}
    /\ retry
    /\ n < job[j].max
    /\ RetrySafe(attempt[j][n].class)
    /\ ~job[j].cancel

SettledStatus(status) == IF status = "interrupted" THEN "failed" ELSE status

FinishAttemptAgain(j, n, status, retry) ==
    /\ attempt' = [attempt EXCEPT ![j][n].status = status]
    /\ IF Retryable(j, n, status, retry)
         THEN /\ job' = [job EXCEPT ![j].status = "retry_wait", ![j].due = FALSE]
              /\ UNCHANGED outbox
         ELSE /\ job' = [job EXCEPT ![j].status = SettledStatus(status)]
              /\ outbox' = outbox \cup {Sync(j, n, SettledStatus(status))}
    /\ UNCHANGED made

FinishAttemptUnsynced(j, n, status, retry) ==
    /\ attempt' = IF IsOver(j, n) THEN attempt
                  ELSE [attempt EXCEPT ![j][n].status = status]
    /\ job' = IF Retryable(j, n, status, retry)
                THEN [job EXCEPT ![j].status = "retry_wait", ![j].due = FALSE]
                ELSE [job EXCEPT ![j].status = SettledStatus(status)]
    /\ UNCHANGED <<made, outbox>>

FinishAttempt(j, n, status, retry) ==
    /\ attempt' = IF IsOver(j, n) THEN attempt
                  ELSE [attempt EXCEPT ![j][n].status = status]
    /\ IF Retryable(j, n, status, retry)
         THEN /\ job' = [job EXCEPT ![j].status = "retry_wait", ![j].due = FALSE]
              /\ UNCHANGED outbox
         ELSE /\ job' = [job EXCEPT ![j].status = SettledStatus(status)]
              /\ outbox' = outbox \cup {Sync(j, n, SettledStatus(status))}
    /\ UNCHANGED made

\* Faulty variant of ExpiredAttempts: attempts claimed and not yet started
\* are forgotten.
ExpiredRunning == {a \in Jobs \X Numbers :
                     /\ attempt[a[1]][a[2]].status = "running"
                     /\ attempt[a[1]][a[2]].expired}

\* The rows recover_expired_attempts selects.
ExpiredAttempts == {a \in Jobs \X Numbers : /\ IsLive(a[1], a[2])
                                            /\ attempt[a[1]][a[2]].expired}

-----------------------------------------------------------------------------
(***************************************************************************)
(* The clock.                                                              *)
(***************************************************************************)

LeaseExpires(j, n) ==
    /\ IsLive(j, n)
    /\ ~attempt[j][n].expired
    /\ attempt' = [attempt EXCEPT ![j][n].expired = TRUE]
    /\ UNCHANGED <<job, made, outbox>>

RetryFallsDue(j) ==
    /\ job[j].status = "retry_wait"
    /\ ~job[j].due
    /\ job' = [job EXCEPT ![j].due = TRUE]
    /\ UNCHANGED <<attempt, made, outbox>>
=============================================================================
