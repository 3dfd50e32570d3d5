---------------------------- MODULE LedgerProofs ----------------------------
(***************************************************************************)
(* DurableRuntime implements WorkLedger and ChildJobs.  What either sees   *)
(* of a job is its row alone, so the proofs go from the transactions of    *)
(* the store (NextStep) to changes of one row, and from these to steps of  *)
(* the abstract specification.                                             *)
(***************************************************************************)
EXTENDS RuntimeInvariantProofs

\* Is job j on offer?
Offered(j) == job[j].status \in {"queued", "retry_wait"}

\* The ways in which a transaction changes what the ledger sees of a job:
\* not at all, and as the five actions of the ledger.
SameRow(j) == /\ Offered(j)' = Offered(j)
              /\ made'[j] = made[j]
              /\ job'[j].max = job[j].max
              /\ job'[j].cancel = job[j].cancel

RowOffered(j) == /\ ~Offered(j)
                 /\ made[j] = 0 \/ (j \in SafeJobs /\ ~job[j].cancel)
                 /\ Offered(j)'
                 /\ made'[j] = made[j]
                 /\ job'[j].max = job[j].max
                 /\ job'[j].cancel = job[j].cancel

RowStarted(j) == /\ Offered(j) /\ ~job[j].cancel /\ made[j] < job[j].max
                 /\ ~Offered(j)'
                 /\ made'[j] = made[j] + 1
                 /\ job'[j].max = job[j].max
                 /\ job'[j].cancel = job[j].cancel

RowWithdrawn(j) == /\ Offered(j)
                   /\ ~Offered(j)'
                   /\ made'[j] = made[j]
                   /\ job'[j].max = job[j].max
                   /\ job'[j].cancel = job[j].cancel

RowCanceled(j) == /\ Offered(j)' = Offered(j)
                  /\ made'[j] = made[j]
                  /\ job'[j].max = job[j].max
                  /\ job'[j].cancel = TRUE

RowRenewed(j) == /\ ~Offered(j) /\ made[j] > 0 /\ j \in SafeJobs
                 /\ Offered(j)'
                 /\ made'[j] = made[j]
                 /\ job'[j].max = IF job[j].max > made[j] THEN job[j].max ELSE made[j] + 1
                 /\ job'[j].cancel = FALSE

\* Two predicates on the jobs that differ in one job at most.
LEMMA PointUpdate ==
  ASSUME NEW S, NEW f \in [S -> BOOLEAN], NEW g \in [S -> BOOLEAN], NEW x \in S,
         NEW b \in BOOLEAN, g[x] = b, \A y \in S \ {x} : g[y] = f[y]
  PROVE  g = [f EXCEPT ![x] = b]
OBVIOUS

\* If one job's row changes in one of five ways and the others keep what the
\* ledger sees of them, the ledger takes a step.
LEMMA RowStep ==
  ASSUME TypeOK, TypeOK', NEW j \in Jobs,
         \A i \in Jobs \ {j} : SameRow(i),
         \/ RowOffered(j) \/ RowStarted(j) \/ RowWithdrawn(j)
         \/ RowCanceled(j) \/ RowRenewed(j)
  PROVE  Ledger!LedgerNext
<1> DEFINE offered == [i \in Jobs |-> job[i].status \in {"queued", "retry_wait"}]
           budget == [i \in Jobs |-> job[i].max]
           canceled == [i \in Jobs |-> job[i].cancel]
<1>e. made \in [Jobs -> 0 .. AttemptBound] /\ made' \in [Jobs -> 0 .. AttemptBound]
  BY DEF TypeOK, StoreTypeOK
<1>o. offered \in [Jobs -> BOOLEAN] /\ offered' \in [Jobs -> BOOLEAN]
  OBVIOUS
<1>s. \A i \in Jobs : Offered(i)' = Offered(i) => offered'[i] = offered[i]
  BY DEF Offered
<1>u. ASSUME NEW b \in BOOLEAN, offered'[j] = b
      PROVE  offered' = [offered EXCEPT ![j] = b]
  BY <1>o, <1>s, <1>u, PointUpdate DEF SameRow
<1>v. Offered(j)' = Offered(j) => offered' = offered
  BY <1>s DEF SameRow
<1>t. /\ Offered(j)' => offered'[j] = TRUE
      /\ ~Offered(j)' => offered'[j] = FALSE
  <2>1. offered'[j] = (job'[j].status \in {"queued", "retry_wait"})
    OBVIOUS
  <2>2. Offered(j)' <=> job'[j].status \in {"queued", "retry_wait"}
    BY DEF Offered
  <2>3. offered'[j] \in BOOLEAN
    BY <2>1
  <2>4. offered'[j] <=> Offered(j)'
    BY <2>1, <2>2
  <2> QED
    BY <2>3, <2>4
<1>1. CASE RowOffered(j)
  <2>1. offered' = [offered EXCEPT ![j] = TRUE]
    BY <1>1, <1>t, <1>u DEF RowOffered
  <2>2. UNCHANGED <<made, budget, canceled>>
    BY <1>1, <1>e DEF RowOffered, SameRow
  <2> QED
    BY <1>1, <2>1, <2>2 DEF RowOffered, Offered, Ledger!LedgerNext, Ledger!Offer
<1>2. CASE RowStarted(j)
  <2>1. offered' = [offered EXCEPT ![j] = FALSE]
    BY <1>2, <1>t, <1>u DEF RowStarted
  <2>2. made' = [made EXCEPT ![j] = @ + 1] /\ UNCHANGED <<budget, canceled>>
    BY <1>2, <1>e DEF RowStarted, SameRow
  <2> QED
    BY <1>2, <2>1, <2>2 DEF RowStarted, Offered, Ledger!LedgerNext, Ledger!Start
<1>3. CASE RowWithdrawn(j)
  <2>1. offered' = [offered EXCEPT ![j] = FALSE]
    BY <1>3, <1>t, <1>u DEF RowWithdrawn
  <2>2. UNCHANGED <<made, budget, canceled>>
    BY <1>3, <1>e DEF RowWithdrawn, SameRow
  <2> QED
    BY <1>3, <2>1, <2>2 DEF RowWithdrawn, Offered, Ledger!LedgerNext, Ledger!Withdraw
<1>4. CASE RowCanceled(j)
  <2>1. canceled' = [canceled EXCEPT ![j] = TRUE]
    BY <1>4 DEF RowCanceled, SameRow
  <2>2. UNCHANGED offered
    BY <1>4, <1>v DEF RowCanceled
  <2>3. UNCHANGED <<made, budget>>
    BY <1>4, <1>e DEF RowCanceled, SameRow
  <2> QED
    BY <2>1, <2>2, <2>3 DEF Ledger!LedgerNext, Ledger!AskToCancel
<1>5. CASE RowRenewed(j)
  <2>1. offered' = [offered EXCEPT ![j] = TRUE]
    BY <1>5, <1>t, <1>u DEF RowRenewed
  <2>2. canceled' = [canceled EXCEPT ![j] = FALSE]
    BY <1>5 DEF RowRenewed, SameRow
  <2>3. UNCHANGED made
    BY <1>5, <1>e DEF RowRenewed, SameRow
  <2>4. budget' = [budget EXCEPT ![j] = IF @ > made[j] THEN @ ELSE made[j] + 1]
    BY <1>5, <1>e DEF RowRenewed, SameRow
  <2> QED
    BY <1>5, <2>1, <2>2, <2>3, <2>4 DEF RowRenewed, Offered, Ledger!LedgerNext,
                                        Ledger!Renew
<1> QED
  BY <1>1, <1>2, <1>3, <1>4, <1>5

\* If every row keeps what the ledger sees of it, the ledger stutters.
LEMMA RowsStutter ==
  ASSUME TypeOK, TypeOK', \A i \in Jobs : SameRow(i)
  PROVE  UNCHANGED Ledger!ledgerVars
<1> DEFINE offered == [i \in Jobs |-> job[i].status \in {"queued", "retry_wait"}]
<1>1. offered' = offered
  <2>1. \A i \in Jobs : offered'[i] = offered[i]
    BY DEF SameRow, Offered
  <2> QED
    BY <2>1
<1>2. UNCHANGED made
  BY DEF SameRow, TypeOK, StoreTypeOK
<1>3. /\ UNCHANGED [i \in Jobs |-> job[i].max]
      /\ UNCHANGED [i \in Jobs |-> job[i].cancel]
  BY DEF SameRow
<1> QED
  BY <1>1, <1>2, <1>3 DEF Ledger!ledgerVars

\* Every transaction of the store (submit, transition, decision, cancel,
\* retry, claim, finish, requeue, ...) is a step of the ledger or a stutter.
LEMMA TransactionLedger ==
  ASSUME TypeOK, TypeOK', History, Transaction
  PROVE  [Ledger!LedgerNext]_(Ledger!ledgerVars)
<1> DEFINE Goal == [Ledger!LedgerNext]_(Ledger!ledgerVars)
<1>e. /\ made \in [Jobs -> 0 .. AttemptBound] /\ job \in [Jobs -> JobRow]
      /\ attempt \in [Jobs -> [Numbers -> AttemptRow]]
  BY DEF TypeOK, StoreTypeOK
<1>s. ASSUME \A i \in Jobs : SameRow(i)
      PROVE  Goal
  BY <1>s, RowsStutter
<1>j. ASSUME NEW j \in Jobs, \A i \in Jobs \ {j} : SameRow(i),
             \/ SameRow(j)
             \/ RowOffered(j) \/ RowStarted(j) \/ RowWithdrawn(j)
             \/ RowCanceled(j) \/ RowRenewed(j)
      PROVE  Goal
  <2>1. CASE SameRow(j)
    BY <1>j, <1>s, <2>1
  <2> QED
    BY <1>j, <2>1, RowStep
\* Only the row of job j changes, and of it only the status and availability.
<1>r. ASSUME NEW j \in Jobs, NEW r \in JobRow, job' = [job EXCEPT ![j] = r],
             made' = made, r.max = job[j].max, r.cancel = job[j].cancel,
             r.status \in {"queued", "retry_wait"} /\ ~Offered(j) =>
               made[j] = 0 \/ (j \in SafeJobs /\ ~job[j].cancel)
      PROVE  Goal
  <2>1. \A i \in Jobs \ {j} : SameRow(i)
    BY <1>e, <1>r DEF SameRow, Offered
  <2>2. job'[j] = r
    BY <1>e, <1>r
  <2>3. SameRow(j) \/ RowOffered(j) \/ RowWithdrawn(j)
    BY <1>r, <2>2 DEF SameRow, RowOffered, RowWithdrawn, Offered
  <2> QED
    BY <1>j, <2>1, <2>3
<1>1. ASSUME NEW j \in Jobs, TransactionOf(j)
      PROVE  Goal
  <2>1. CASE SubmitJob(j)
    <3>1. [job[j] EXCEPT !.status = "waiting_input"] \in JobRow
      BY <1>e DEF JobRow, JobStatus, WaitingJob
    <3> QED
      BY <1>r, <2>1, <3>1, <1>e DEF SubmitJob, JobRow
  <2>2. ASSUME NEW target \in {"queued", "waiting_approval"},
               job[j].status = "waiting_input", TransitionJob(j, target)
        PROVE  Goal
    <3>1. [job[j] EXCEPT !.status = target] \in JobRow
      BY <1>e DEF JobRow, JobStatus, WaitingJob
    <3>2. made[j] = 0
      BY <2>2 DEF History, WaitingJob
    <3> QED
      BY <1>r, <2>2, <3>1, <3>2, <1>e DEF TransitionJob, JobRow
  <2>3. ASSUME NEW target \in TerminalJob, TransitionJob(j, target)
        PROVE  Goal
    <3>1. [job[j] EXCEPT !.status = target] \in JobRow
      BY <1>e DEF JobRow, JobStatus
    <3> QED
      BY <1>r, <2>3, <3>1, <1>e DEF TransitionJob, TerminalJob, JobRow
  <2>4. ASSUME NEW target \in {"queued", "canceled"}, DecideApproval(j, target)
        PROVE  Goal
    <3>1. [job[j] EXCEPT !.status = target, !.due = TRUE] \in JobRow
      BY <1>e DEF JobRow, JobStatus, TerminalJob
    <3>2. made[j] = 0
      BY <2>4 DEF DecideApproval, History, WaitingJob
    <3> QED
      BY <1>r, <2>4, <3>1, <3>2, <1>e DEF DecideApproval, JobRow
  <2>5. CASE RequestCancel(j)
    <3>1. RowCanceled(j) /\ \A i \in Jobs \ {j} : SameRow(i)
      BY <1>e, <2>5 DEF RequestCancel, RowCanceled, SameRow, Offered, JobRow
    <3> QED
      BY <1>j, <3>1
  <2>6. CASE RetrySafeJob(j)
    <3>1. made[j] \in Numbers /\ j \in SafeJobs
      BY <1>e, <2>6 DEF RetrySafeJob, RetrySafe, History, Numbers
    <3>2. RowRenewed(j)
      BY <1>e, <2>6, <3>1 DEF RetrySafeJob, RowRenewed, Offered, Numbers
    <3>3. \A i \in Jobs \ {j} : SameRow(i)
      BY <1>e, <2>6 DEF RetrySafeJob, SameRow, Offered
    <3> QED
      BY <1>j, <3>2, <3>3
  <2>7. CASE RetryFallsDue(j)
    <3>1. [job[j] EXCEPT !.due = TRUE] \in JobRow
      BY <1>e DEF JobRow
    <3> QED
      BY <1>r, <2>7, <3>1, <1>e DEF RetryFallsDue, JobRow, Offered
  <2>8. CASE ClaimJob(j)
    <3>1. RowStarted(j) /\ \A i \in Jobs \ {j} : SameRow(i)
      BY <1>e, <2>8 DEF ClaimJob, CanClaim, RowStarted, SameRow, Offered, JobRow
    <3> QED
      BY <1>j, <3>1
  <2>9. CASE ExhaustJob(j)
    <3>1. [job[j] EXCEPT !.status = "failed"] \in JobRow
      BY <1>e DEF JobRow, JobStatus, TerminalJob
    <3> QED
      BY <1>r, <2>9, <3>1, <1>e DEF ExhaustJob, JobRow
  <2> QED
    BY <1>1, <2>1, <2>2, <2>3, <2>4, <2>5, <2>6, <2>7, <2>8, <2>9
       DEF TransactionOf, TerminalJob
<1>2. ASSUME NEW j \in Jobs, NEW n \in Numbers, AttemptTransaction(j, n)
      PROVE  Goal
  <2>1. ASSUME NEW s \in TerminalAttempt, NEW retry, FinishAttempt(j, n, s, retry)
        PROVE  Goal
    <3>1. CASE Retryable(j, n, s, retry)
      <4>1. [job[j] EXCEPT !.status = "retry_wait", !.due = FALSE] \in JobRow
        BY <1>e DEF JobRow, JobStatus
      <4>2. j \in SafeJobs /\ ~job[j].cancel
        BY <3>1 DEF Retryable, RetrySafe, History
      <4>3. PICK r \in JobRow : r = [job[j] EXCEPT !.status = "retry_wait", !.due = FALSE]
        BY <4>1
      <4>4. job' = [job EXCEPT ![j] = r] /\ made' = made
        BY <1>e, <2>1, <3>1, <4>3 DEF FinishAttempt
      <4>5. r.max = job[j].max /\ r.cancel = job[j].cancel
        BY <1>e, <4>3 DEF JobRow
      <4> QED
        BY <1>r, <4>2, <4>4, <4>5
    <3>2. CASE ~Retryable(j, n, s, retry)
      <4>1. SettledStatus(s) \in TerminalJob
        BY DEF SettledStatus, TerminalAttempt, TerminalJob
      <4>2. [job[j] EXCEPT !.status = SettledStatus(s)] \in JobRow
        BY <1>e, <4>1 DEF JobRow, JobStatus
      <4>3. /\ job' = [job EXCEPT ![j] = [job[j] EXCEPT !.status = SettledStatus(s)]]
            /\ made' = made
        BY <2>1, <3>2 DEF FinishAttempt
      <4>4. /\ [job[j] EXCEPT !.status = SettledStatus(s)].max = job[j].max
            /\ [job[j] EXCEPT !.status = SettledStatus(s)].cancel = job[j].cancel
            /\ [job[j] EXCEPT !.status = SettledStatus(s)].status = SettledStatus(s)
        BY <1>e DEF JobRow
      <4>5. SettledStatus(s) \notin {"queued", "retry_wait"}
        BY <4>1 DEF TerminalJob
      <4>6. PICK r \in JobRow : r = [job[j] EXCEPT !.status = SettledStatus(s)]
        BY <4>2
      <4> QED
        BY <1>r, <4>3, <4>4, <4>5, <4>6
    <3> QED
      BY <3>1, <3>2
  <2>2. CASE UNCHANGED <<job, made>>
    BY <1>s, <2>2 DEF SameRow, Offered
  <2> QED
    BY <1>2, <2>1, <2>2 DEF AttemptTransaction, TransitionAttempt, SetClass, Heartbeat,
                            LeaseExpires, SettleRow, Processed
<1>3. CASE RequeueDueJobs
  <2>1. \A i \in Jobs : SameRow(i)
    BY <1>e, <1>3 DEF RequeueDueJobs, DueRetries, SameRow, Offered, JobRow
  <2> QED
    BY <1>s, <2>1
<1>4. CASE UNCHANGED <<job, made>>
  BY <1>s, <1>4 DEF SameRow, Offered
<1> QED
  BY <1>1, <1>2, <1>3, <1>4 DEF Transaction, storeVars, Processed

(***************************************************************************)
(* The durable runtime implements WorkLedger in every instance: work       *)
(* starts only while on offer, within its budget and without a pending     *)
(* cancellation, and what has been started is offered again only if it is  *)
(* retry-safe.                                                             *)
(***************************************************************************)
THEOREM LedgerTheorem == Spec => ImplementsLedger
<1>1. Init => Ledger!LedgerInit
  <2> SUFFICES ASSUME Init
               PROVE  Ledger!LedgerInit
    OBVIOUS
  <2>1. /\ \A j \in Jobs : job[j].status = "none" /\ job[j].max = MaxAttempts[j]
                           /\ job[j].cancel = FALSE
        /\ made = [j \in Jobs |-> 0]
    BY DEF Init, StoreInit
  <2>2. [j \in Jobs |-> job[j].status \in {"queued", "retry_wait"}]
          = [j \in Jobs |-> FALSE]
    <3>1. \A j \in Jobs : job[j].status \notin {"queued", "retry_wait"}
      BY <2>1
    <3>2. \A j \in Jobs : (job[j].status \in {"queued", "retry_wait"}) \in BOOLEAN
      OBVIOUS
    <3>3. \A j \in Jobs : (job[j].status \in {"queued", "retry_wait"}) = FALSE
      BY <3>1, <3>2, Zenon
    <3> QED
      BY <3>3, Zenon
  <2>3. [j \in Jobs |-> job[j].max] = MaxAttempts
    BY <2>1, MaxAttemptsAssumption
  <2>4. [j \in Jobs |-> job[j].cancel] = [j \in Jobs |-> FALSE]
    BY <2>1
  <2> QED
    BY <2>1, <2>2, <2>3, <2>4 DEF Ledger!LedgerInit
<1>2. RuntimeInv /\ RuntimeInv' /\ [Next]_vars
        => [Ledger!LedgerNext]_(Ledger!ledgerVars)
  BY NextStep, TransactionLedger DEF RuntimeInv
<1> QED
  BY <1>1, <1>2, Invariance, PTL DEF Spec, ImplementsLedger, Ledger!LedgerSpec

-----------------------------------------------------------------------------
(***************************************************************************)
(* DurableRuntime implements ChildJobs: a transaction changes what a       *)
(* client sees of one job at most, but for requeue_due_jobs.               *)
(***************************************************************************)
Seen(j) == [status |-> job[j].status, cancel |-> job[j].cancel, ran |-> made[j] > 0]
View == [j \in Jobs |-> Seen(j)]

\* If only job j looks different, the whole view changes in j.
LEMMA ViewUpdate ==
  ASSUME NEW j \in Jobs, \A i \in Jobs \ {j} : Seen(i)' = Seen(i)
  PROVE  View' = [View EXCEPT ![j] = Seen(j)']
BY DEF View

\* Writing a row and a counter: what the client sees of it.
LEMMA SeenFields ==
  ASSUME NEW j \in Jobs
  PROVE  /\ View[j] = Seen(j)
         /\ View[j].status = job[j].status
         /\ View[j].cancel = job[j].cancel
         /\ View[j].ran <=> made[j] > 0
BY DEF View, Seen

\* Every transaction of the store is a step of ChildJobs or a stutter.
LEMMA TransactionChildren ==
  ASSUME TypeOK, TypeOK', History, Transaction
  PROVE  View' = View \/ Children!ChildNext
<1> DEFINE Goal == View' = View \/ Children!ChildNext
<1>e. /\ made \in [Jobs -> 0 .. AttemptBound] /\ job \in [Jobs -> JobRow]
      /\ attempt \in [Jobs -> [Numbers -> AttemptRow]]
  BY DEF TypeOK, StoreTypeOK
<1>v. /\ View = [j \in Jobs |-> [status |-> job[j].status, cancel |-> job[j].cancel,
                                 ran |-> made[j] > 0]]
      /\ View' = [j \in Jobs |-> [status |-> job'[j].status, cancel |-> job'[j].cancel,
                                  ran |-> made'[j] > 0]]
  BY DEF View, Seen
\* One job gets another status and keeps the rest.
<1>s. ASSUME NEW j \in Jobs, NEW x, job'[j].status = x, job'[j].cancel = job[j].cancel,
             made' = made, \A i \in Jobs \ {j} : job'[i] = job[i]
      PROVE  View' = [View EXCEPT ![j].status = x]
  <2>1. \A i \in Jobs \ {j} : Seen(i)' = Seen(i)
    BY <1>s DEF Seen
  <2>2. Seen(j)' = [Seen(j) EXCEPT !.status = x]
    BY <1>s DEF Seen
  <2> QED
    BY <2>1, <2>2, ViewUpdate, SeenFields
<1>1. ASSUME NEW j \in Jobs, TransactionOf(j)
      PROVE  Goal
  <2>1. CASE SubmitJob(j)
    <3>1. View[j].status = "none" /\ View' = [View EXCEPT ![j].status = "waiting_input"]
      BY <1>e, <1>s, <2>1, SeenFields DEF SubmitJob, JobRow
    <3>a. Children!Submit(j)
      BY <1>v, <3>1 DEF Children!Submit, Children!Become
    <3> QED
      BY <3>a DEF Children!ChildNext
  <2>2. ASSUME NEW target \in {"queued", "waiting_approval", "canceled"},
               job[j].status = "waiting_input", TransitionJob(j, target)
        PROVE  Goal
    <3>1. View[j].status = "waiting_input" /\ View' = [View EXCEPT ![j].status = target]
      BY <1>e, <1>s, <2>2, SeenFields DEF TransitionJob, JobRow
    <3>a. Children!Release(j, target)
      BY <1>v, <3>1 DEF Children!Release, Children!Become
    <3> QED
      BY <3>a DEF Children!ChildNext
  <2>3. CASE job[j].status = "queued" /\ TransitionJob(j, "canceled")
    <3>1. View[j].status = "queued" /\ View' = [View EXCEPT ![j].status = "canceled"]
      BY <1>e, <1>s, <2>3, SeenFields DEF TransitionJob, JobRow
    <3>a. Children!Withdraw(j)
      BY <1>v, <3>1 DEF Children!Withdraw, Children!Become
    <3> QED
      BY <3>a DEF Children!ChildNext
  <2>4. ASSUME NEW target \in TerminalJob, made[j] > 0, TransitionJob(j, target)
        PROVE  Goal
    <3>0. View[j].ran
      BY <2>4, SeenFields, Zenon
    <3>1. View' = [View EXCEPT ![j].status = target]
      BY <1>e, <1>s, <2>4, SeenFields DEF TransitionJob, JobRow
    <3>a. Children!Settle(j, target)
      BY <1>v, <3>0, <3>1 DEF Children!Settle, Children!Become, Children!Ended, TerminalJob
    <3> QED
      BY <3>a DEF Children!ChildNext, Children!Ended, TerminalJob
  <2>5. ASSUME NEW target \in {"queued", "canceled"}, DecideApproval(j, target)
        PROVE  Goal
    <3>1. View[j].status = "waiting_approval" /\ View' = [View EXCEPT ![j].status = target]
      BY <1>e, <1>s, <2>5, SeenFields DEF DecideApproval, JobRow
    <3>a. Children!DecideStart(j, target)
      BY <1>v, <3>1 DEF Children!DecideStart, Children!Become
    <3> QED
      BY <3>a DEF Children!ChildNext
  <2>6. CASE RequestCancel(j)
    <3>1. \A i \in Jobs \ {j} : Seen(i)' = Seen(i)
      BY <1>e, <2>6 DEF RequestCancel, Seen
    <3>2. Seen(j)' = [status |-> View[j].status, cancel |-> TRUE, ran |-> View[j].ran]
      <4>1. /\ job'[j].status = job[j].status /\ job'[j].cancel = TRUE
            /\ made'[j] = made[j]
        BY <1>e, <2>6 DEF RequestCancel, JobRow
      <4>2. View[j].ran = (made[j] > 0)
        BY Zenon DEF View, Seen
      <4> QED
        BY <4>1, <4>2, SeenFields, Zenon DEF Seen
    <3>3. View[j].status \notin {"succeeded", "failed", "canceled", "none"}
      BY <2>6, SeenFields DEF RequestCancel, TerminalJob
    <3>4. View' = [i \in Jobs |-> IF i \in {j} /\ View[i].status \notin
                                       {"succeeded", "failed", "canceled"} \cup {"none"}
                                    THEN [status |-> View[i].status, cancel |-> TRUE,
                                          ran |-> View[i].ran]
                                    ELSE View[i]]
      BY <3>1, <3>2, <3>3 DEF View
    <3>a. Children!AskCancel({j})
      BY <1>v, <3>4 DEF Children!AskCancel, Children!Active, Children!Ended
    <3> QED
      BY <3>a DEF Children!ChildNext
  <2>7. CASE RetrySafeJob(j)
    <3>1. \A i \in Jobs \ {j} : Seen(i)' = Seen(i)
      BY <1>e, <2>7 DEF RetrySafeJob, Seen
    <3>2. made[j] > 0 /\ made' = made /\ job[j].status = "failed"
      BY <1>e, <2>7 DEF RetrySafeJob
    <3>3. View[j].status = "failed" /\ View[j].ran
      BY <3>2, SeenFields, Zenon
    <3>4. job'[j].status = "queued" /\ job'[j].cancel = FALSE
      BY <1>e, <2>7 DEF RetrySafeJob
    <3>5. Seen(j)' = [status |-> "queued", cancel |-> FALSE, ran |-> TRUE]
      <4>1. Seen(j)' = [status |-> job'[j].status, cancel |-> job'[j].cancel,
                        ran |-> made[j] > 0]
        BY <3>2, Zenon DEF Seen
      <4>2. (made[j] > 0) = TRUE
        BY <3>2, Zenon
      <4> QED
        BY <3>4, <4>1, <4>2, Zenon
    <3>6. View' = [View EXCEPT ![j] = [status |-> "queued", cancel |-> FALSE,
                                       ran |-> TRUE]]
      BY <3>1, <3>5, ViewUpdate, Zenon
    <3>a. Children!Renew(j)
      BY <1>v, <3>3, <3>6 DEF Children!Renew
    <3> QED
      BY <3>a DEF Children!ChildNext
  <2>8. CASE RetryFallsDue(j)
    <3>1. \A i \in Jobs : Seen(i)' = Seen(i)
      BY <1>e, <2>8 DEF RetryFallsDue, Seen, JobRow
    <3> QED
      BY <3>1 DEF View
  <2>9. CASE ClaimJob(j)
    <3>1. \A i \in Jobs \ {j} : Seen(i)' = Seen(i)
      BY <1>e, <2>9 DEF ClaimJob, Seen
    <3>2. Seen(j)' = [status |-> "running", cancel |-> FALSE, ran |-> TRUE]
      <4>1. /\ made'[j] > 0
            /\ job'[j].status = "running" /\ job'[j].cancel = FALSE
        BY <1>e, <2>9 DEF ClaimJob, CanClaim, JobRow
      <4>2. (made'[j] > 0) = TRUE
        BY <4>1, Zenon
      <4> QED
        BY <4>1, <4>2, Zenon DEF Seen
    <3>3. View[j].status = "queued" /\ ~View[j].cancel
      BY <2>9, SeenFields DEF ClaimJob, CanClaim
    <3>4. View' = [View EXCEPT ![j] = [status |-> "running", cancel |-> FALSE,
                                       ran |-> TRUE]]
      BY <3>1, <3>2, ViewUpdate, Zenon
    <3>a. Children!Claim(j)
      BY <1>v, <3>3, <3>4 DEF Children!Claim
    <3> QED
      BY <3>a DEF Children!ChildNext
  <2>10. CASE ExhaustJob(j)
    <3>0. made[j] > 0
      BY <1>e, <2>10 DEF ExhaustJob, JobRow, Numbers
    <3>1. View[j].status = "queued" /\ ~View[j].cancel /\ View[j].ran
      BY <2>10, <3>0, SeenFields, Zenon DEF ExhaustJob, CanClaim
    <3>2. View' = [View EXCEPT ![j].status = "failed"]
      BY <1>e, <1>s, <2>10 DEF ExhaustJob, JobRow
    <3>a. Children!Exhaust(j)
      BY <1>v, <3>1, <3>2 DEF Children!Exhaust, Children!Become
    <3> QED
      BY <3>a DEF Children!ChildNext
  <2> QED
    BY <1>1, <2>1, <2>2, <2>3, <2>4, <2>5, <2>6, <2>7, <2>8, <2>9, <2>10
       DEF TransactionOf
<1>2. ASSUME NEW j \in Jobs, NEW n \in Numbers, n <= made[j], AttemptTransaction(j, n)
      PROVE  Goal
  <2>1. ASSUME NEW s \in TerminalAttempt, NEW retry, FinishAttempt(j, n, s, retry)
        PROVE  Goal
    <3>1. PICK x \in {"succeeded", "failed", "canceled", "retry_wait"} :
            /\ x = "retry_wait" => ~job[j].cancel
            /\ job'[j].status = x /\ job'[j].cancel = job[j].cancel /\ made' = made
            /\ \A i \in Jobs \ {j} : job'[i] = job[i]
      BY <1>e, <2>1 DEF FinishAttempt, Retryable, SettledStatus, TerminalAttempt, JobRow
    <3>0. made[j] > 0
      BY <1>2, <1>e DEF Numbers
    <3>2. View[j].ran /\ (x = "retry_wait" => ~View[j].cancel)
      BY <3>0, <3>1, SeenFields, Zenon
    <3>3. View' = [View EXCEPT ![j].status = x]
      BY <1>s, <3>1
    <3>a. Children!Settle(j, x)
      BY <1>v, <3>2, <3>3 DEF Children!Settle, Children!Become, Children!Ended
    <3> QED
      BY <3>a DEF Children!ChildNext, Children!Ended, TerminalJob
  <2>2. CASE UNCHANGED <<job, made>>
    BY <2>2 DEF View, Seen
  <2> QED
    BY <1>2, <2>1, <2>2 DEF AttemptTransaction, TransitionAttempt, SetClass, Heartbeat,
                            LeaseExpires, SettleRow, Processed
<1>3. CASE RequeueDueJobs
  <2>1. \A i \in Jobs : Seen(i)' = IF i \in DueRetries
                                     THEN [Seen(i) EXCEPT !.status = "queued"]
                                     ELSE Seen(i)
    BY <1>e, <1>3 DEF RequeueDueJobs, Seen, JobRow
  <2>2. View' = [i \in Jobs |-> IF i \in DueRetries
                                  THEN [View[i] EXCEPT !.status = "queued"]
                                  ELSE View[i]]
    BY <2>1 DEF View
  <2>3. DueRetries \in SUBSET Jobs
    BY DEF DueRetries
  <2>4. \A i \in DueRetries : View[i].status = "retry_wait" /\ ~View[i].cancel
    BY SeenFields DEF DueRetries
  <2> QED
    <3>1. Children!Requeue(DueRetries)
      BY <1>v, <2>2, <2>4 DEF Children!Requeue
    <3> QED
      BY <2>3, <3>1 DEF Children!ChildNext, Children!Requeue
<1>4. CASE UNCHANGED <<job, made>>
  BY <1>4 DEF View, Seen
<1> QED
  BY <1>1, <1>2, <1>3, <1>4 DEF Transaction, storeVars, Processed

(***************************************************************************)
(* The durable runtime implements ChildJobs in every instance: what the    *)
(* workflows and the schedules assume of the jobs they submit holds of the *)
(* queue, whatever workers, recovery, reconciliation and operators do.     *)
(***************************************************************************)
THEOREM ChildrenTheorem == Spec => ImplementsChildren
<1>1. Init => Children!ChildInit
  <2> SUFFICES ASSUME Init
               PROVE  Children!ChildInit
    OBVIOUS
  <2>1. \A j \in Jobs : job[j].status = "none" /\ job[j].cancel = FALSE
    BY DEF Init, StoreInit
  <2>0. \A j \in Jobs : ~(made[j] > 0)
    <3>1. \A j \in Jobs : made[j] = 0
      BY DEF Init, StoreInit
    <3>2. ~(0 > 0)
      OBVIOUS
    <3> QED
      BY <3>1, <3>2, Zenon
  <2>2. \A j \in Jobs : (made[j] > 0) = FALSE
    <3>1. \A j \in Jobs : (made[j] > 0) \in BOOLEAN
      OBVIOUS
    <3> QED
      BY <2>0, <3>1, Zenon
  <2> QED
    BY <2>1, <2>2, Zenon DEF Children!ChildInit
<1>2. RuntimeInv /\ RuntimeInv' /\ [Next]_vars => View' = View \/ Children!ChildNext
  BY NextStep, TransactionChildren DEF RuntimeInv
<1>3. RuntimeInv /\ RuntimeInv' /\ [Next]_vars
        => [Children!ChildNext]_([j \in Jobs |-> [status |-> job[j].status,
                                                  cancel |-> job[j].cancel,
                                                  ran |-> made[j] > 0]])
  BY <1>2 DEF View, Seen
<1> QED
  BY <1>1, <1>3, Invariance, PTL DEF Spec, ImplementsChildren, Children!ChildSpec
=============================================================================
