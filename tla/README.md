# GigaLoom: a specification of the durable runtime

GigaLoom runs coding agents ("harnesses") for a user: interactively from a web
UI, and durably in worker processes that survive the UI. This directory holds
TLA+ models of the part of it where processes, crashes and retries meet: the
**durable runtime** (`src/gigaloom/runtime`) and what is built on it, **workflows**
and **schedules** (`automation`) and supervised **native processes** (`native`).
With them come the TLC runs that check them and proofs checked by TLAPS. Paths below
are relative to the repository.

## 1. Inventory

All processes share one data directory: `runtime.sqlite3` (coordination rows,
one `BEGIN IMMEDIATE` transaction per repository method) and the session store
(JSON and JSONL files). There is **no transaction across the two stores**, and
there is no server: every worker and the web process opens both.

| Component | State | Operations | What makes it correct |
|---|---|---|---|
| Job repository `jobs/repository.py` | `jobs` | submit, transition, request_cancel, retry_safe_job | terminal jobs leave only by an operator's retry; unsafe work is never retried |
| Attempt repository `jobs/attempts.py` | `job_attempts` | transition, set class, finish, recover expired | ended attempts are final; a retry needs a safe class, budget, no cancellation |
| Claim `jobs/claims.py` | - | candidate query, compare-and-swap | one winner; a session's turns stay in order |
| Worker repository `workers/repository.py` | `workers`, leases | register, heartbeat, requeue due retries | a lease is renewed by its owner only while the attempt is open |
| Durable worker `worker.py`, `session_runner.py` | local variables, run record | run_once, monitor thread, run_forever | whatever it dies between, the job ends |
| Dispatcher `worker.py` | - | submit, resolve policy | a run record exists for each submitted job |
| Maintenance scheduler `workers/scheduler.py` | deadlines per duty | run_due, request, complete | every duty recurs |
| Reconciler `reconcile.py`, outbox `outbox/repository.py` | `runtime_outbox` | scan attempts, drain entries | run records and jobs end up in agreement |
| Run actions of the web process `ui/routers/*`, `application/sessions.py` | - | cancel, retry, decide approval | a request reaches the job it is for |
| Approvals `approvals/*` | requests, grants | create, decide, expire, consume | one decision; a once grant is used once |
| Side effects `side_effects/*` | reservations | reserve, complete, enqueue event | an external write happens once per token |
| Workflows `automation/workflows/*` | workflow runs, step rows | advance (under a file lock), cancel (outside it) | steps begin in order and within the limit; a run ends when its work has |
| Schedules `automation/schedules/*` | schedule state, occurrences, definition file | tick, recover, test_now, run_now, enable, pause, upsert | no instant is passed over, no copies, only what was tested is enabled |
| Native processes `native/process.py`, `runtime/native/repository.py` | process rows with leases, output rows; handle, threads and memory of the owner | start, supervise, stop, read, recover | a row ends once and truly, for every reason to end; a chunk that says exited comes with the tail |
| Wake-up channel `wakeup.py` | socket endpoints | signal, wait | a lost signal only delays |

The rest (session storage, execution and harness adapters, thread relay, reviews,
installation, structured sessions, inbox, cost, credentials, policy, evaluations,
providers, projects, UI, CLI) is listed in `PROJECT.json` with the reason why it
is not modelled: data handling, I/O, pure decision tables, or read models.

**Interactions.** The dispatcher writes a run record (file) and a job (row). A
worker reads a candidate row, claims it with a compare-and-swap that inserts an
attempt with a lease, executes while a monitor thread renews the lease, writes
the run record and finishes the attempt; finishing also settles the job (retry,
or terminal plus an outbox entry, in one transaction). Every worker, between
jobs, recovers the expired leases *of all workers*, requeues due retries and
reconciles: finished runs end their attempts and jobs, and outbox entries bring
run records up to terminal jobs. Web requests cancel, retry and decide approvals
in the same rows, and follow up in the run records.

Workflows and schedules are clients of the queue: they submit child jobs and read
their status, by key, at later calls; nothing tells them but the worker that settles
a job, if it lives. `advance` runs in workers and in web requests under a file lock of
the run, `cancel` takes none. Every worker ticks every schedule; the claim of a
dispatch is the only step of `tick` that compares before it writes. A native process
belongs to the server that started it; the others see its rows, ask through
`cancel_requested_at`, and end the row when its lease has lapsed.

**What is hard.** Rows read in one transaction and used in another (recovery,
candidates, reconciliation); two stores written one after the other with a crash
between; late workers whose attempt others have ended; cancellations and retries
that meet a job between two owners; a projection that lags behind what it projects,
and is decided upon; a process, its pipe, its threads and its row that end in any
order. `PROJECT.json` lists these hazards at the
lines where they bite, with the properties aimed at them.

## 2. Modules

| Module | Models | Lines |
|---|---|---|
| `JobStore` | the coordination rows; **one operator per repository method** | `runtime/jobs`, `workers`, `outbox`, job part of `approvals` |
| `DurableRuntime` (extends it) | workers, web process, reconciler, clock: one action per transaction, file write or read | `worker.py`, `reconcile.py`, `session_runner.py`, `ui/routers` |
| `WorkLedger` | abstract: what the queue promises a submitter | - |
| `RuntimeProperties` | the properties, fairness, the refinement mapping, and statements the code refutes | - |
| `RuntimeInvariants` | the inductive invariant | - |
| `MCDurableRuntime` | constants for TLC; one `.cfg` file per run | - |
| `RuntimeTypeProofs`, `RuntimeInvariantProofs`, `LedgerProofs` | theorems | - |
| `SideEffects` | write-once tokens, the recovery marker, delivery of its event | `runtime/side_effects`, side-effect part of `outbox`, `reconcile.py` |
| `EffectRegister` | abstract: a register that is written once per token, and announced | - |
| `SideEffectProperties`, `MCSideEffects`, `SideEffectProofs` | properties and refinement; constants; theorems | - |
| `Approvals` | requests, expiry, decisions, grants, and who asks for them | `runtime/approvals`, `ui/services/approvals.py`, adapters that poll, the dispatcher |
| `ApprovalProperties`, `MCApprovals`, `ApprovalProofs` | properties; constants; theorems | - |
| `ChildJobs` | abstract: a job as whoever submitted it sees it | - |
| `Workflows` (extends it) | one run: `advance`, `cancel`, and everybody who moves its work | `workflows/coordinator.py`, `repository.py` |
| `WorkflowProperties`, `MCWorkflows`, `WorkflowProofs` | properties, fairness; constants; theorems | - |
| `Schedules` (extends `ChildJobs`) | one schedule: `tick` of every worker, and the web process | `schedules/dispatch.py`, `lifecycle.py`, `definitions.py` |
| `ScheduleProperties`, `MCSchedules`, `ScheduleProofs` | properties, fairness; constants; theorems | - |
| `NativeProcesses` | one process: owner with its threads, other servers, a client | `native/process.py`, `runtime/native/repository.py` |
| `NativeProperties`, `MCNative`, `NativeProofs` | properties, fairness; constants; theorems | - |

`DurableRuntime` keeps in `task[w]` what worker `w` holds in local variables
between two transactions, and where it is (`pc`):

    idle -> candidate -> claimed -> classed -> started -> executing -> ended -> settled -> idle
    idle -> recovering -> idle
    idle -> scanning -> ending -> judging -> repairing -> ... -> draining -> applying -> settling -> idle

so any other process may act in between; in a method's own transaction nothing
may. `run[j][n]` is the status in the run record of attempt `n` of job `j`, and
`endpoint[j]` the step a canceling or denying web request has still to take.
`CancelUnclaimed`, `CancelJobRow`, `CancelRunRecord` are the three writes of
`cancel_run`; `Deny` and `CancelRunRecord` the two of `decide_approval`.

**Abstractions.** Time is two flags: a lease is good or expired, a retry is due or
not; any order of expirations is possible. `LeaseSlips = FALSE` says that the lease of a
live worker is renewed in time, `TRUE` that it may lapse (a stalled process). The
version column is the `fresh` flag of a candidate, which every write to the job
clears. Priority, capability fingerprint and the order of scans and entries are
nondeterministic. Outbox entries with the same payload are one entry. An
exception that leaves `run_once` ends the process, as it does in
`run_forever`; a worker that comes back is a new one under the same name. The
dispatcher's run record and `submit_job` are one step, as is reading a run and
writing it in `_apply_outbox_entry`; `ReadEntry` takes the entry's job and attempt by one read where the
code makes two (`reconcile.py:134-137`), and `SettleEntry` the transition, its event and the
mark by one write (`reconcile.py:150-156`, 112); `waiting_approval` and the approval request
are one too, but nothing forces a decision, so "the request never came to be" is
included. Jobs are numbered by `created_at`; that a row may become visible after
one with a later `created_at` is not modelled. A session deleted during a run
(`final_run` is `None`), descriptive columns, trace events and logs are left out.

**`SideEffects`.** `effect[t]` is the row of token `t`, `pending` the outbox entries
of side effects, `log[t]` how many events of `t` the trace has, `answer[a]` what
attempt `a` was told when it recorded its marker, `drain[r]` what reconciler `r`
holds. `enqueue_side_effect_event` is one transaction with five outcomes: created,
reused, blocked by a reservation, in conflict with another job or intent, and
refused because the attempt is over. Delivery is three steps (read the trace,
append, mark), and each may fail or be the last before a crash. Nothing in `src/`
but the tests calls `reserve_side_effect` and `complete_side_effect`; they are
modelled since the store offers them and the marker has to live beside them.

**`Approvals`.** `request` and `grant` are the rows in the order they were inserted;
`dispatch[j]`, `task[c]` are what a dispatcher and a caller hold between
transactions, `outcome` the answers adapters were given. `admission` is a history:
which operation a grant let through, and which grant, what the code tells only by
returning "allow". A job is started with `_submit_locked`: grant consumed, or job
set waiting and request created, in two transactions between which the dispatcher
may die. The gate of reviewed actions resolves and creates in two as well; an
adapter looks for a request, creates one, polls and gives up. Time is the lapse of a
request or a grant, at any moment; a late request becomes `expired` when somebody
next uses the table, as in `_expire_approvals`. The operations are those the
profile wants reviewed; what it allows or denies outright never comes here.
Canceling a job that waits only marks it (`DurableRuntime!Cancel`) and does not
touch its request. The audit rows and the listings are left out.

**`ChildJobs`** joins the queue to its clients. It says what may become of a job that
somebody submitted, as seen from outside: its status, the flag of its cancellation,
whether it ever had an attempt. `DurableRuntime` implements it
(`RuntimeProperties!ImplementsChildren`, checked in `retry` and proved), and
`Workflows` and `Schedules` are built on its operators, so what is said of them
rests on the queue as the code has it, without its workers and attempts in the state
space. It is as loose as the queue is: a late attempt may settle a job that has ended.

**`Workflows`.** `run`, `step` and `ref` are the rows, `child`, `requests` and `batch` the
work steps refer to (a child job; an approval request; an arena or evaluation, which
is one item with an end). `proc` holds what `advance` and `cancel` have read:

    free -> listing -> syncing -> starting -> [submitted ->] recording -> starting ... -> concluding -> free
    free -> listing -> asking -> marking -> free                  (cancel, and advance after a cancellation)

One loop of the code is one `pc`; each iteration that does something is a step, by
the rows read before (`view`). `cancel` takes no lock, so `CancelRun`, `MarkStep` and the
writes of `advance` interleave and all are unconditional. Canceling the children
one after the other is one step (each is a flag of its own, and only set). A job's
key is its step, so jobs are numbered like steps. `due` is a call of `advance` that is
on its way from the worker that settled a child; `LoseCall` is its death.

**`Schedules`.** `occ` and `state` are the rows, `file` the definition's version (its hash),
`clock` the last instant that has come, `left` (a history) the instants that `enable` or an
edit went past when it set `next_run_at` anew. Three more histories serve the properties:
`late` (the instants that a tick found beyond their grace; any instant that is due may be),
`over` and `won` (the jobs that have ended, and succeeded, once: a job may come back, as
`ChildJobs` says, by a late `finish_attempt` or the operator's retry). `JobMoves` is the straight
way of a job; `JobTurns` the rest, cancellation, `retry_wait` and every return. `enable` may be
called for a schedule that is enabled. `proc[p]` is a worker inside `tick` or the web
process inside `test_now`, `run_now` or `enable`; the `pc`s are the places between two
transactions, and `in` the loop of `tick` they return to:

    idle -> syncing (-> projects -> grants) -> recovering (-> loads -> claims...) -> due
         -> creates -> claims -> submits -> releases -> finishes -> advances -> ...

An instant is named by its number, so its row is unique by the table's constraint;
rows of `test_now` and `run_now` have names of their own. A crash leaves the rows as
they are; the tick that finds a `dispatching` row dispatches it again.

**`NativeProcesses`.** `os` and `made` are the process and its output so far; `row` and
`stored` what the database has; `owner`, `ref`, `reader`, `read` the memory of the server
that started it; `sup`, `stopper`, `rec` its supervisor thread, a call of `stop` there, and
the recovery of another server, between their lock sections and transactions;
`client` follows the output stream with a cursor, from either server. On the owner one
lock section reads outputs and status. Elsewhere `wait_for_output` reads the row and the
outputs (`ReadRow`, `ReadOutputs`: the chunk carries that row's status), then the row again
(`ReadStatus`, process.py:418-420): by that last status the handler ends the stream
(`cut`) and projects the run. The web client closes only on the status a chunk carries
(`native-process-stream.ts`); otherwise it opens the stream again with its cursor
(`Reconnect`), as it does when a stream breaks off. Everything under the
owner's lock is one step (`Refresh` is `_refresh_locked` with both early returns).
The lease is good or lapsed and may lapse at any moment: the heartbeat is one thread
without a deadline. A lapsed owner that is alive is the interesting case. The operating
system answers for a process that is gone with "exited", or with "alive" or
"unknown" (a zombie of its owner, a reused number). A terminal has one reader, pipes have
two, which append under the same lock; an error of the table ends the one that met it
(`AppendFails`) and the other may go on past the chunk the table refused, which `unstored`
remembers.

**Bounds.** `Jobs`, `Workers`, `AttemptBound` (attempt rows per job: operator
retries are refused beyond it), `MaxAttempts` (per job), `CrashBound`;
`MishapBound` (failures and crashes of reconcilers); `RequestBound`,
`AdmissionBound` (rows inserted, operations let through); `BatchBound`, `EditBound`,
`SlotCount` (arenas of a step, edits, instants); `TroubleBound` (cancellations and
mishaps of a workflow; of a schedule, mishaps - crashes and failed submissions - and turns:
jobs canceled, put off or come back, `enable` of what is enabled);
`ChunkBound`, `MaxOutputChunks`, `FaultBound` (output, retention, database errors
of a native process). The proofs are for all
their values.

## 3. Runs

| Run | Instance | Checks |
|---|---|---|
| `retry` | 1 safe job, 2 attempts, 2 workers, 1 crash | `TypeOK`, `RunSynced`, `AttemptIsFinal`, `ImplementsLedger`, `ImplementsChildren` |
| `unsafe` | 2 interactive turns that are not retry-safe, 2 workers, 1 crash, only the earlier turn canceled | `UnsafeRunsOnce`, `TurnsStartInOrder`, `RuntimeInv` |
| `live` | 1 safe job, 2 attempts, 1 worker that may die twice and whose leases may lapse | `QueuedJobEnds`, `CanceledRunEnds`, `RunRecordFollows` |
| `effects` | 2 attempts of one job and 1 of another that share a token, 2 reconcilers, 2 mishaps | `EffectTypeOK`, `RunsWithEvidence`, `EventNotLost`, `CopiesBounded`, `AmbiguousStays`, `EventArrives`, `ImplementsRegister` |
| `approvals` | 2 jobs to start, 2 previews of one action, 1 relayed operation, 2 callers, 3 requests, 2 admissions | `ApprovalTypeOK`, `OnceIsOnce`, `AdmittedWasApproved`, `AllowedWasApproved`, `SpawnAnswered`, `DecisionIsFinal` |
| `workflows` | 4 steps, one of each kind, a join defined before what it waits for, limit 1; 1 cancellation or mishap | `LimitKept`, `EndIsQuiet`, `JobFoundAgain`, `BeginsInOrder`, `WatchedRunEnds` |
| `native` | 2 chunks of which 1 is kept, 1 database error | `EndMeansGone`, `TailIsDelivered`, `HolesAreTold`, `EndIsWrittenOnce`, `ReasonEndsRow`, `FencedProcessEnds` |
| `schedules` | 2 instants, 2 workers, 1 crash, failed submission or turn | `NoCopies`, `InstantsAreRecorded` |
| `grants` | a test, 2 workers, 1 edit, 1 crash, failed submission or turn | `GrantIsEarned`, `DispatchGoesOn`, `ResultArrives` |

- `AttemptIsFinal`: worker, recovery, scan and outbox all try to end an attempt;
  the first one wins.
- `RunSynced`: if a job is terminal and its last run is not, somebody is still
  going to write it: the live worker, recovery of the open attempt, or an entry. It
  assumes that leases of living workers are renewed, and leaves out the third and
  later attempts that recovery has put off (both exceptions are explained below).
- `UnsafeRunsOnce`: an edit or an external write is not started again by any
  sequence of crash, recovery, late finish and operator retry.
- `TurnsStartInOrder`: survives the gap between candidate query and claim,
  because an earlier turn that was not ended when the candidate was read keeps
  blocking. (That two turns never *run* at once is false, see below.)
- `ImplementsLedger`: work starts only while on offer, within its budget, without
  a pending cancellation, and is offered again only if repeatable.
- `QueuedJobEnds`, `CanceledRunEnds`, `RunRecordFollows` hold across crashes at every step. The
  run has one worker process: a second makes the graph too large for its liveness. For one
  process `RunRecordFollows` has no exception; for several it says so of jobs of at most two
  attempts whose leases are renewed in time, since the two ways to leave a record `running`
  for ever (below) need a second worker. Two workers with renewed leases, one attempt and two
  crashes (52 thousand states), and one worker with three attempts, were checked once
  and pass.
- `RunsWithEvidence`: a worker that goes on to its run has a completed marker, its own
  or one of a lost attempt of the same job; a reservation left behind blocks.
- `AmbiguousStays`: a reservation whose attempt has ended is never completed or
  taken over by anybody: whether its effect happened is not known.
- `EventNotLost`, `EventArrives`: an event is in the log or pending, whatever
  becomes of the reconcilers, and arrives when mishaps end. `CopiesBounded`: reading
  the log before appending leaves one copy per reconciler at most.
- `OnceIsOnce`, `AdmittedWasApproved`: the approval of one preview lets that preview
  through, once, though both previews have the same action and scope and two
  callers come back to the gate in any order.
- `AllowedWasApproved`: an adapter is told "allow" only for an approved request, even
  where another caller created the request it polls.
- `SpawnAnswered`: a job that waits for approval has an open request that will not
  expire, and leaves that state only with the decision on it. A dispatcher that
  dies before it creates the request is the exception the property names.
- `DecisionIsFinal`: of two decisions, or a decision and an expiry, the first counts.
- `BeginsInOrder`: work begins when nothing it depends on is under way, although it is
  decided by rows read before and `cancel` rewrites them. A job that comes back from
  its end, by an operator's retry or a late worker, is the exception (`revived`), and so
  is a step that depends on one.
- `LimitKept`, `EndIsQuiet`: `max_concurrency` and the end of a run are about the
  work and not only about the rows. They do not survive a crash between beginning a
  step and recording it, nor a job that comes back, and say so (`mishaps = 0`).
  Batches of a canceled run do not count: `cancel` marks their step and lets them go on.
- `JobFoundAgain`: that crash does not lose the child; the next call finds it by key,
  unless what it depends on came back in between and ended otherwise.
- `WatchedRunEnds`: with every crash, lost call and cancellation, a run that somebody
  looks at ends, unless a child is `Lost`: its end is one that `advance` cannot use.
- `NoCopies`: the overlap policy counts rows that lag behind the jobs; it holds while
  nothing fails and nobody edits, for the jobs that have not ended before. One that comes
  back after its end may overlap the next (below).
- `InstantsAreRecorded`: in every state, each instant before `next_run_at` has a row that was
  dispatched, skipped or misfired, or was left behind by `enable` or an edit, although `tick`
  writes `next_run_at` without looking at it. A row that is still only claimed is passed in
  one way: a tick finds its instant beyond the grace (below).
- `DispatchGoesOn`, `ResultArrives`: whichever process died where, a row that is being
  dispatched reaches the queue or an end, and the end of its job reaches the row. Both are
  checked on a Test now, which the request and both workers dispatch and follow; an instant
  goes through the same statements, and with one beside the test the instance is too large.
- `GrantIsEarned`: an edit during a test does not get the test's grant.
- `EndIsWrittenOnce`: owner, recovery, stop and timeout all try to end a row.
- `EndMeansGone`: exited, stopped and timed out mean that no process is left.
- `TailIsDelivered`, `HolesAreTold`: what a client has when a chunk carries the exit its
  owner recorded, on any server, or when the owner's server ends the stream by it; and that
  a hole in what it was given is announced. Excepted are outputs of which the table
  refused a chunk, and how the stream of another server ends: see below.
- `ReasonEndsRow`, `FencedProcessEnds`: every reason to end reaches the row, and a
  slow owner that was taken for dead kills its process when it is back.

Three requests are enough for a request, the one that follows its expiry or
consumption and one of another operation beside them; two admissions for one
grant used twice. Three attempts give a marker its creator, a later attempt of the
same job and a stranger; two reconcilers the race of readers. Callers are
symmetric in `approvals`, where no liveness is checked.

One job suffices for the properties of one job because the only clause that
looks at another job is the blocker clause, which `unsafe` exercises with two. There a
state constraint, `MCFirstCanceled`, stops at the states in which the later turn is canceled:
cancellation, at every point of a job's life, is `retry`'s question, the only one of the later
turn's steps that matters to the order is its start, and the theorems of §4 need no such bound.
The same instance without the constraint, 3 million states, was checked once and passes.

A workflow of
four steps has each kind, each condition, a diamond and an order of definition that is
not the order of dependency; limit 1 is the tightest, and 1 mishap or cancellation
already meets `advance` at each of its statements. Two instants and two workers let
one worker handle an instant twice, overtake the other, or leave it behind; one
chunk kept of two makes a hole for a cursor before, at and after it. Two cancellations
of one workflow were checked for the safety properties when the module was written. Two
workers give every race of a holder with a reconciler or a recoverer; a third
actor, the operator, is always there. Two attempts are the least with a retry and
with an old worker beside a new attempt. The runs stop by themselves where every
bound is used up and nobody submits more, hence `CHECK_DEADLOCK FALSE`.
Symmetry in the workers is used where no liveness is checked.

**Fairness** (`RuntimeProperties!Fairness`). Weak fairness for what a living worker
has begun: `run_once` has no wait but the adapter, whose turn has a deadline. Strong
fairness for each duty of the idle loop: `run_forever` comes round to recovery,
retries, reconciliation and the claim again and again at fixed cadences, whichever
other duty was first. Leases and retry delays run out. A web request once begun goes
on. Submission, dispatch, approval, cancellation, operator retries, crashes, timeouts
and the monitor need never happen. `SideEffects!Fairness` asks for the same of
delivery: a reconciler that lives goes on draining. `Approvals` states none: operators
need not answer. `Workflows`: `advance` and `cancel` go on while their process lives,
somebody looks at the run (`Enter`: the page of a run calls `advance`), jobs and
batches end and requests are decided; strong only for "a running job settles for
good", since it may be retried in between. `Schedules`: each worker goes on, and ticks
again; a request goes on; nothing is asked of the queue. `NativeProcesses`: the
threads of a live owner and what they have begun, the lapse of a dead supervisor's
lease, and recovery by other servers, which rests on their clients polling `status`.
The process need not exit, and a grandchild may hold the terminal open, so that the
reader never ends (`Drained` has no fairness): such a row stays `running`, as the code
wants it.

### Statements the code does not keep

Three further runs end in a counterexample; `PROJECT.json` quotes the documents.

| Run | Statement | Behaviour |
|---|---|---|
| `success` | `SuccessIsKept`: a finished run's outcome is kept when its worker dies | Recovery comes before reconciliation in `run_due` (`scheduler.py:105`) and turns success into failure. |
| `cancel` | `CanceledJobEnds`: a requested cancellation ends the job | A workflow's `cancel` only sets the flag (`coordinator.py:537-543`). A queued job with the flag, here one never attempted, is skipped by candidate query and claim (`claims.py:118`), and stays queued for ever; one in `retry_wait` is skipped by `requeue_due_jobs` (`workers/repository.py:40`) just so. |
| `wffollow` | `StepFollowsJob`: an ended child ends its step or the run | A child canceled from the queue has no attempt; `list_attempts(job.id)[-1]` raises in every call of `advance` (`coordinator.py:301`): step queued and run running for ever. |

Met on the way, each found by TLC with a statement that was then weakened to what
holds, or is the reason for an exception that a property names:

- *Queue.* A late `finish_attempt` of an attempt that the reconciler ended rewrites the
  job (`attempts.py:319`) while its next attempt runs, and a third starts beside it. A
  job denied by policy leaves its run `queued`: an entry without an attempt is
  dropped (`reconcile.py:139`). Two turns of a session may run at once: the blocker
  clause is not in the compare-and-swap (`claims.py:117`). Two reconcilers both append
  the event of one token (`reconcile.py:158-192`). Run and job may end up terminal with
  different statuses (`reconcile.py:134-149`); `transition_job` judges by an old read
  (`repository.py:270`).
- *Run records.* Two ways to leave one `running` for ever, which `RunSynced` excepts. Where
  leases lapse under live workers, `run_in_session` puts a record back to `running` that
  recovery and the reconciler had ended; if the worker dies then, its entry is gone. And
  of a job with three attempts: worker A raises in the first and is slow to finish; the
  reconciler ends attempt and job, the operator retries, B claims the second attempt,
  begins and dies; recovery puts the job off for a third, without an entry, as it
  should; then A's late `finish_attempt` ends the job, with an entry for the first.
- *Workflows.* A child that `advance` submits after `cancel` listed the children is not
  canceled, and the last write of `advance` may take the run back from `canceled`
  (`coordinator.py:251`). A child that was canceled while no step failed leaves its run
  `running` with nothing to do: `Verdict` knows success and failure only. A step
  whose job waits for the approval of its start is taken for an approval step
  (line 261) and never looks at its job again. Three came with the proofs, from larger
  instances than the runs: `cancel` marks the step of an arena or evaluation `canceled`
  while it goes on (lines 534-549), and `advance`, which was inside, begins beside it a step
  that is to run always; a job submitted by an `advance` that died before recording it is
  passed over when the job it waited for comes back and succeeds, its step being for
  failure - the job goes on unrecorded, and steps after the skipped one begin.
- *Schedules.* A tick that dies between creating and claiming an occurrence leaves it
  `claimed`. If another tick finds the row after the grace of the instant and the policy for
  misfires is to skip, it moves `next_run_at` on (`lifecycle.py:317`); so does `enable`, within
  the grace too, of a schedule that is enabled. The row is never dispatched, and counts as
  an overlap from then on: every later instant is skipped (`late` and `left` in
  `InstantsAreRecorded`). Two ticks at once show the same for a moment: one, within the
  grace, has yet to claim what the other, beyond it, has passed. A job that has ended and
  comes back - a worker whose attempt the reconciler had ended (`reconcile.py:85-98`) finishes it
  as failed and to be repeated (`attempts.py:292-333`), or the operator retries it - runs
  beside the next instant's job: its row has left the count, and no tick looks at it again
  (`over` in `NoCopies`). A manual occurrence whose request died stays
  claimed in the same way. Recovery takes a slow dispatcher for a dead one and may
  write `failed` over an occurrence whose job then runs: the next instant starts a
  copy. `enable` checks the tested hash, and writes later what an edit in between has
  changed; `tick` runs the file as it is: an untested definition may run
  (docs/harness.md:548). The grant of a test is lost when the process dies between
  projecting its result and writing `tested_hash`. `next_run_at` may pass an instant without a
  row in one way: a worker that handled an instant and is slow to write
  (`lifecycle.py:335-344`) takes `next_run_at` back to before one that `enable` had
  started beyond (192-199), and another, slow as well, writes what follows its own.
- *Native processes.* "terminal status never races ahead of terminal output"
  (`process.py:706`) holds of the status that chunks carry, not of what another server
  reads after the chunk (`process.py:418-420`): when output and exit are recorded in
  between, the chunk says running and lacks the tail, and the handler ends the stream and
  projects the run as ended (11 states for TLC, when asked of `client.at = "cut"`). The
  web client reconnects and gets the rest; one that goes by the run does not. With pipes,
  a chunk the table refuses is a hole that no truncation announces to other servers, if
  the other reader goes on. A server that dies between `Popen` and the row leaves a process
  nobody tracks. `stop` racing the timeout shows one status in the owner's memory
  and writes the other. `exit_reported` is set before the row is written
  (`process.py:733`): an error there is never retried by the owner, and only recovery
  ends the row, as `exited` or `unknown` whatever the owner knew.

## 4. Proofs

All for arbitrary constants satisfying the named assumptions of `JobStore` and
`DurableRuntime` (job numbers are naturals, at least one attempt row, every
`max_attempts` within the bound, and the two sets of jobs are sets of jobs), of
`SideEffects` (each attempt has a job, each job a token, reconcilers are finite,
the names of operations and evidence are not those the code itself writes)
of `Approvals` (each job is started by one operation of its own, which has no
binding; what an adapter polls has one), and of `NativeProcesses` (counts are naturals,
at least one chunk is kept), of `Workflows` (the steps depend on others without a cycle, each
has a kind and a condition, the limit is at least one) and of `Schedules` (instants and
jobs are finite, the limit is at least one, the web process is none of the workers).

1. `TypeCorrect == Spec => []TypeOK` (`RuntimeTypeProofs`): action by action; the
   variants of `Task` are the work, since a step must be shown to leave a worker
   in one of them.
2. `Invariance == Spec => []RuntimeInv` (`RuntimeInvariantProofs`). `UnsafeRunsOnce`
   alone is not inductive: a state with an unsafe job queued after an attempt, or
   with a worker that holds an attempt not inserted yet, satisfies it and leads
   out of it. `RuntimeInv` adds
   - `RowsExist`: whoever remembers an attempt (rows, entries, workers) remembers
     one that was inserted, so a claim's new number is new to everybody;
   - `History`: a job that waits for dispatch never ran, one on offer again or
     started twice is retry-safe, and only such a job's attempts have class safe;
   - `OneHolder`: a claimed attempt is held by one worker;
   - `Turns`: a candidate in a worker's hands was found when every earlier interactive
     turn was settled (started or ended), and a settled turn stays so. That is why a
     candidate that has grown old does no harm;
   - `StoresInv`, for instances without lapsing leases: what everybody who handles the end
     of a run knows of the two stores (below).

   The step proof does not go through the forty actions three times. The lemma
   `NextStep` says once that each step is one store transaction or leaves the
   store alone, and how it changes the tasks; `TransactionGrows` that attempt
   numbers only grow; `HistoryKept`, `OneHolderKept`, `RowsExistKept` and `TurnsKept` follow.
3. `OnceTheorem == Spec => []UnsafeRunsOnce`, `TurnsTheorem == Spec => []TurnsStartInOrder` and
   `FinalTheorem == Spec => AttemptIsFinal` follow from the invariant, and so does
   `SyncTheorem == Spec => []RunSynced`. `RunSynced` speaks of ended jobs only, and says
   nothing of the worker about to end one. `StoresInv` adds: the record of the last
   attempt is accounted for before the job ends, too (`SyncedInv`); whoever reports,
   repairs or removes an entry knows a record that has ended (`KnowsEnd`), and records
   stay ended (`RunLasts`) since only a worker that has not begun could reopen one, and
   its record is still as the claim found it, its attempt open and in no entry
   (`WillBegin`), because recovery reaches for expired leases only (`LeaseKept`); entries
   that name no attempt are of jobs that will never have one (`EntriesInv`), which the
   reading of such an entry (`EntryNumber`) relies on; web requests act late only on
   jobs that never ran (`EndpointsInv`); and a job gets an attempt beyond its budget
   only after its last one is over (`WithinBudget`), which separates two attempts from
   three. The proof says once what each step does to a job (`Lasting`), to records,
   attempts and entries (`Effects`) and to what its worker has in hand (`Own`); the conjuncts
   follow from these three.
4. `LedgerTheorem == Spec => ImplementsLedger` (`LedgerProofs`): `NextStep` again;
   each transaction changes one row of the ledger or none, requeueing stutters
   (both statuses are on offer), and `History` gives what `Offer` asks for.
5. `SideEffectProofs`. `EffectInv` strengthens the types with `Known` (pending and
   drained entries have a completed row), `Written` (who is about to mark has its
   event in the log), `RunsWithEvidence` and `EventNotLost`; from it follow
   `EvidenceTheorem`, `NotLostTheorem`, `AmbiguousTheorem` and the refinement
   `RegisterTheorem`. `CopiesTheorem` needs a count: `Counted` says that the copies
   written and those still to be appended never exceed the reconcilers.
6. `ApprovalProofs`. `AdmissionInv` adds to `AdmittedWasApproved` that grants rest on
   approved requests and those of a preview are once grants (`Granted`), and that a
   once grant which admitted something is spent and admitted nothing else
   (`Differ`); whence `CoveredTheorem` and `OnceTheorem`. `SpawnInv` adds to
   `SpawnAnswered` how far each dispatcher and its job are (`Stages`), that the
   request for a job's start is unique and has no expiry (`Own`, `InTime`), and that
   whatever else is asked for a job is asked after its release (`AskedLater`): else
   the decision on another request of the job would release it. Hence
   `SpawnTheorem`. `FinalTheorem` and `AllowedTheorem` need the types only.

7. `ChildrenTheorem == Spec => ImplementsChildren` (`LedgerProofs`): `NextStep` once
   more; each transaction moves one job as `ChildJobs` allows, or requeues several.
8. `NativeProofs`, in layers, each an invariant on the one before: `RowOK` (types);
   `GoneInv` (whoever is about to write an end has seen the process gone), whence
   `GoneTheorem` and `OnceWrittenTheorem`; `ThreadInv` (who may say exited, and
   what the snapshots of the threads still mean), which is needed because the owner's
   memory may have been replaced by a row that recovery wrote; `CountInv` (the table keeps
   the end of what was read up to the last chunk it took, without those it refused). Two
   lemmas on sets of chunks, `NewIsLast` and `NewHasNoHole`, say what a cursor finds among
   the last chunks; with them `HolesTheorem`. `TailInv` adds that once the readers are done
   a client that was shown an exit, or whose stream the owner ended, has the tail;
   `EndedRow`, that the owner writes no exit after it has ended a stream. From all of it
   `TailTheorem`: like the property, it is about the status chunks carry and the owner's
   own streams. `NativeTypes` collects the types.

9. `WorkflowProofs`, in three layers. `BasicInv`: types; steps refer to rows that exist
   (`RefsInv`); what `advance` has in hand (`HandInv`); what a cancellation in progress
   means (`CancelInv`). `OrderInv` adds what the rows that `advance` has read still say: an
   end it has read is the job's end unless the job was revived (`TruthInv`), and a job that
   is not recorded belongs to a step that this or a later call comes to (`FoundInv`: while
   the run is open, `OpenInv`; while `cancel` asks and marks beside it, `AskedInv`; among the
   steps the loop has passed, `PassedInv`; at the end, `EndInv`). Hence
   `JobFoundAgainTheorem` and `BeginsInOrderTheorem`. `SmoothInv`, while there are no mishaps,
   says that all work is recorded or in hand (`AllRecorded`, `BatchesInv`) and that work under
   way is seen as such (`AskInv`, `JobsSeen`), so that the slots `Ready` counts (`Holds`, `Within`) are at
   least those in use: `LimitKeptTheorem`, `EndIsQuietTheorem`.
10. `ScheduleProofs`. `SchedulesInv` adds to the types what each process holds at each of its
   statements (`ProcsHeld`), above all that who is about to write `next_run_at` has accounted for
   the instant it handled (`ProcsRecorded`: dispatched, or found beyond its grace), what the
   histories keep of jobs that come back (`HistoryInv`), and that a test's row keeps the version
   it ran (`Earned`): `InstantsTheorem`, `GrantTheorem`. `QuietInv` adds, while nothing fails and
   nobody edits, that active jobs that never ended have active rows and that a worker past the
   overlap check has a place (`Quiet`): `NoCopiesTheorem`.

Every invariant and every action property that a run checks, and the three
refinements, are theorems; the runs show them on small instances.

**Model-checked only.** The liveness properties: fairness and `ENABLED` are out of the prover's
reach, so `QueuedJobEnds`, `CanceledRunEnds`, `RunRecordFollows`, `EventArrives`, `WatchedRunEnds`,
`DispatchGoesOn`, `ResultArrives`, `ReasonEndsRow` and `FencedProcessEnds` rest on the runs.
`WorkflowTypeOK`, `ScheduleTypeOK` and `NativeTypeOK` held in the runs of their modules, are theorems, and are
no longer part of the runs.

## 5. Plan

1. **Core**, **Approvals**, **SideEffects**, with their proofs. *Done.*
2. **Workflows** and **Schedules** over `ChildJobs`; **NativeProcesses** with its proofs. *Done.*
3. Proofs of all safety properties. *Done.* Left: how far `RunSynced` goes where leases
   lapse, and the safety half of the liveness arguments (what is enabled meanwhile).
4. **Maintenance** (deadlines of the duties, `request` during `complete`) and wake-ups, small.
5. **Structured sessions** and **session storage**: their locks and journals.

### Not modelled

- Of workflows: handoffs, artifacts and data that steps pass on; the lock around `start`;
  several runs at once (they share only approval requests, which `AskApproval`
  shares among steps already).
- Of schedules: targets that are evaluations or workflows, resumed sessions (a
  recovered occurrence gets a new session), `archive`, instants that do not exist in
  local time, jobs that wait for approval. A job left
  in `waiting_input` by a crash of its dispatcher keeps its occurrence `queued`, and the
  overlap policy skips what follows: modelled, and no property says otherwise.
- Of native processes: `write`, `resize`, homes and their leases, adapters of the
  individual agents, redaction, session events, `close` (it ends the supervisor, as
  `SupFails` does, and is `stop` for each record); the polled `/output`, which is read like the
  stream and takes the status of its chunk too.
- Everything else of section 1, for the reasons in `PROJECT.json`. The mapped lines are
  a small part of the repository's: most of it is adapters, user interface, command
  line and data handling, where state is not shared between processes.

A model gets one run for what holds and one for each statement the code refutes.
