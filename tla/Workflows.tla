----------------------------- MODULE Workflows ------------------------------
(***************************************************************************)
(* One workflow run (src/gigaloom/automation/workflows): a graph of steps, *)
(* numbered in the order of the definition, that advance() drives by       *)
(* projecting the state of their work - a child job, an approval request,  *)
(* an arena or evaluation - on the step rows and beginning what has become *)
(* ready.  advance() holds a file lock of the run, so one process at a     *)
(* time is inside; cancel() takes no lock.  Both keep rows they have read  *)
(* (view) while the other writes, and every write is unconditional.  Runs  *)
(* of different workflows share nothing that is modelled here.             *)
(*                                                                         *)
(* The child job of an agent step has the idempotency key of the step, so  *)
(* jobs are named by their steps.                                          *)
(***************************************************************************)
EXTENDS ChildJobs, Sequences, FiniteSets

CONSTANTS
    StepCount,       \* steps of the definition
    Kind,            \* what each step does
    DependsOn,       \* the steps it waits for
    Condition,       \* when it is run once they are over
    ActionOf,        \* the permission an approval step asks for
    MaxConcurrency,  \* the run's limit of steps at work
    RequestBound,    \* bound on approval requests
    BatchBound,      \* bound on the arenas or evaluations of a step
    TroubleBound     \* bound on calls of cancel() and mishaps together

Steps == 1 .. StepCount

ASSUME CountAssumption == StepCount \in Nat
ASSUME KindAssumption ==
    /\ Kind \in [Steps -> {"agent", "approval", "batch", "local"}]
    /\ Jobs = {s \in Steps : Kind[s] = "agent"}
\* _validate_graph: dependencies are steps, without a cycle.
ASSUME GraphAssumption ==
    /\ DependsOn \in [Steps -> SUBSET Steps]
    /\ \E rank \in [Steps -> Steps] :
         \A s \in Steps : \A d \in DependsOn[s] : rank[d] < rank[s]
ASSUME ConditionAssumption ==
    Condition \in [Steps -> {"on_success", "on_failure", "always"}]
ASSUME LimitAssumption ==
    /\ MaxConcurrency \in Nat \ {0}
    /\ {RequestBound, BatchBound, TroubleBound} \subseteq Nat

VARIABLES
    run,       \* the row of the workflow run
    step,      \* the status in each step row
    ref,       \* what the step row refers to: its job, request or batch (0: none)
    requests,  \* the approval requests, in order of creation
    batch,     \* the arenas or evaluations queued for each step, in order
    proc,      \* advance() under its lock, and cancel()
    due,       \* has advance() been called, and not entered yet?
    revived,   \* history: jobs that left a terminal status
    cancels,   \* calls of cancel() so far
    mishaps    \* crashes, lost calls, and jobs settled late or retried by an
               \* operator, so far

rowVars == <<run, step, ref>>
workVars == <<child, requests, batch, revived>>
vars == <<rowVars, workVars, proc, due, cancels, mishaps>>

EndedRun == {"succeeded", "failed", "canceled"}
RunStatus == EndedRun \cup {"queued", "running", "waiting_approval"}
EndedStep == Ended \cup {"skipped"}
ActiveStep == {"queued", "running", "waiting_approval"}
\* An agent step is given the status of its job as it is.
StepStatus == EndedStep \cup ActiveStep \cup {"pending", "waiting_input", "retry_wait"}

View == [Steps -> StepStatus]
Process == [pc : {"free", "listing", "syncing", "starting", "submitted", "recording",
                  "concluding", "asking", "marking"},
            stop : BOOLEAN, view : View, at : Nat,
            status : StepStatus \cup RunStatus, ref : Nat]

Free == [pc |-> "free", stop |-> FALSE, view |-> [s \in Steps |-> "pending"],
         at |-> 1, status |-> "pending", ref |-> 0]

\* create_run inserts the run and all its steps; start() then calls advance().
Init ==
    /\ ChildInit
    /\ run = [status |-> "queued", cancel |-> FALSE]
    /\ step = [s \in Steps |-> "pending"]
    /\ ref = [s \in Steps |-> 0]
    /\ requests = <<>>
    /\ batch = [s \in Steps |-> <<>>]
    /\ proc = [p \in {"advance", "cancel"} |-> Free]
    /\ due = TRUE
    /\ revived = {}
    /\ cancels = 0
    /\ mishaps = 0

At(p, pc) == proc[p].pc = pc
Go(p, pc) == proc' = [proc EXCEPT ![p].pc = pc, ![p].at = 1]
Leave(p) == proc' = [proc EXCEPT ![p] = Free]

\* update_step is unconditional; the caller goes on with the row it returns.
WriteStep(p, s, status) ==
    /\ step' = [step EXCEPT ![s] = status]
    /\ proc' = [proc EXCEPT ![p].view[s] = status, ![p].at = s + 1]

-----------------------------------------------------------------------------
(***************************************************************************)
(* The loops over the steps, in the order of the definition, by the rows   *)
(* that the process has read.  A loop passes over a step that has nothing  *)
(* to do without a step of its own; at is where it goes on.                *)
(***************************************************************************)
Known(s) == proc["advance"].view[s]
AtWork == {s \in Steps : Known(s) \in ActiveStep}

\* _sync_child: what is looked up for a step.  Its first branch is for every
\* step that waits for approval; it gives up where the row names no request,
\* as the row of an agent step does.
Watched(s) ==
    \/ Kind[s] = "approval" /\ Known(s) = "waiting_approval"
    \/ Kind[s] = "agent" /\ ref[s] # 0 /\ Known(s) # "waiting_approval"
    \/ Kind[s] = "batch" /\ Known(s) = "running"

\* Faulty variants of Ready: a step is begun beyond the limit, or before its
\* dependencies are over.
ReadyBeyondLimit(s) ==
    /\ Known(s) = "pending"
    /\ \A d \in DependsOn[s] : Known(d) \in EndedStep

ReadyTooEarly(s) ==
    /\ Known(s) = "pending"
    /\ Cardinality(AtWork) < MaxConcurrency
    /\ \A d \in DependsOn[s] : Known(d) # "pending"

Ready(s) ==
    /\ Known(s) = "pending"
    /\ Cardinality(AtWork) < MaxConcurrency
    /\ \A d \in DependsOn[s] : Known(d) \in EndedStep

ToDo(p, s) ==
    /\ proc[p].at <= s
    /\ CASE At(p, "syncing") -> Watched(s)
         [] At(p, "starting") -> Ready(s)
         [] At(p, "marking") -> proc[p].view[s] \notin EndedStep
         [] OTHER -> TRUE

\* The step a loop is at, and the end of the loop.
Here(p, s) == ToDo(p, s) /\ \A t \in Steps : t < s => ~ToDo(p, t)
Over(p, pc) == At(p, pc) /\ \A s \in Steps : ~ToDo(p, s)

-----------------------------------------------------------------------------
(***************************************************************************)
(* advance(): called by start(), by the worker that has settled a child    *)
(* job, and whenever somebody looks at the run.                            *)
(***************************************************************************)
Enter ==
    /\ At("advance", "free")
    /\ due' = FALSE
    /\ proc' = IF run.status \in EndedRun THEN proc
               ELSE [proc EXCEPT !["advance"].pc = "listing",
                                 !["advance"].stop = run.cancel]
    /\ UNCHANGED <<rowVars, workVars, cancels, mishaps>>

\* list_steps, one transaction after the run was read or written.
List(p) ==
    /\ At(p, "listing")
    /\ proc' = [proc EXCEPT ![p].pc = IF p = "advance" THEN "syncing" ELSE "asking",
                            ![p].view = step]
    /\ UNCHANGED <<rowVars, workVars, due, cancels, mishaps>>

(***************************************************************************)
(* _sync_child.                                                            *)
(***************************************************************************)
Mapped(status) == IF status \in {"retry_wait", "waiting_input"} THEN "queued"
                  ELSE status

Reported(s) ==
    CASE Kind[s] = "agent" -> Mapped(child[s].status)
      [] Kind[s] = "batch" -> batch[s][ref[s]]
      [] Kind[s] = "approval" ->
           CASE requests[ref[s]].status = "approved" -> "succeeded"
             [] requests[ref[s]].status = "pending" -> Known(s)
             [] OTHER -> "failed"

\* A job that ended without an attempt has no run to refer to: [-1] of an
\* empty list raises, and the exception leaves advance().
Raises(s) ==
    /\ Kind[s] = "agent"
    /\ Known(s) # child[s].status
    /\ HasEnded(s)
    /\ ~child[s].ran

SyncStep(s) ==
    /\ At("advance", "syncing")
    /\ Here("advance", s)
    /\ \/ Raises(s) /\ Leave("advance") /\ UNCHANGED step
       \/ /\ ~Raises(s)
          /\ Reported(s) # Known(s)
          /\ WriteStep("advance", s, Reported(s))
       \/ /\ Reported(s) = Known(s)
          /\ proc' = [proc EXCEPT !["advance"].at = s + 1]
          /\ UNCHANGED step
    /\ UNCHANGED <<run, ref, workVars, due, cancels, mishaps>>

\* The cancellation request is the one read with the run.
Synced ==
    /\ Over("advance", "syncing")
    /\ Go("advance", IF proc["advance"].stop THEN "asking" ELSE "starting")
    /\ UNCHANGED <<rowVars, workVars, due, cancels, mishaps>>

-----------------------------------------------------------------------------
(***************************************************************************)
(* The loop that begins what is ready, and _start_step.                    *)
(***************************************************************************)
\* _condition_matches.
Matches(s) ==
    LET failed == \E d \in DependsOn[s] : Known(d) \in {"failed", "canceled"}
    IN  \/ Condition[s] = "always" \/ DependsOn[s] = {}
        \/ Condition[s] = "on_failure" /\ failed
        \/ Condition[s] = "on_success" /\ ~failed

Starting(s) == At("advance", "starting") /\ Here("advance", s)
Begins(s, kind) == Starting(s) /\ Matches(s) /\ Kind[s] = kind

SkipStep(s) ==
    /\ Starting(s)
    /\ ~Matches(s)
    /\ WriteStep("advance", s, "skipped")
    /\ UNCHANGED <<run, ref, workVars, due, cancels, mishaps>>

\* A transform or a join runs in place.
RunLocal(s) ==
    /\ Begins(s, "local")
    /\ WriteStep("advance", s, "succeeded")
    /\ UNCHANGED <<run, ref, workVars, due, cancels, mishaps>>

\* The work is begun in one transaction, and recorded in another.
ToRecord(s, status, number) ==
    proc' = [proc EXCEPT !["advance"].pc = "recording", !["advance"].at = s,
                         !["advance"].status = status, !["advance"].ref = number]

\* create_approval_request: no binding and no run, so a pending request for
\* the same action is taken as it is.
AskApproval(s) ==
    /\ Begins(s, "approval")
    /\ LET same == {r \in DOMAIN requests : /\ requests[r].status = "pending"
                                            /\ requests[r].action = ActionOf[s]}
       IN \/ /\ same = {}
             /\ Len(requests) < RequestBound
             /\ requests' = Append(requests, [action |-> ActionOf[s],
                                              status |-> "pending"])
             /\ ToRecord(s, "waiting_approval", Len(requests) + 1)
          \/ \E r \in same : /\ ToRecord(s, "waiting_approval", r)
                             /\ UNCHANGED requests
    /\ UNCHANGED <<rowVars, child, batch, revived, due, cancels, mishaps>>

\* DurableJobDispatcher.submit: a job with the step's key is returned as it
\* is; a new one is inserted and, in another transaction, released.
SubmitChild(s) ==
    /\ Begins(s, "agent")
    /\ \/ /\ Submit(s)
          /\ proc' = [proc EXCEPT !["advance"].pc = "submitted", !["advance"].at = s]
       \/ /\ child[s].status # "none"
          /\ ToRecord(s, child[s].status, 1)
          /\ UNCHANGED child
    /\ UNCHANGED <<rowVars, requests, batch, revived, due, cancels, mishaps>>

ReleaseChild(s) ==
    /\ At("advance", "submitted")
    /\ Here("advance", s)
    /\ \E target \in {"queued", "waiting_approval", "canceled"} :
         Release(s, target) /\ ToRecord(s, target, 1)
    /\ UNCHANGED <<rowVars, requests, batch, revived, due, cancels, mishaps>>

\* queue_arena and queue_eval have no key.
QueueBatch(s) ==
    /\ Begins(s, "batch")
    /\ Len(batch[s]) < BatchBound
    /\ batch' = [batch EXCEPT ![s] = Append(@, "running")]
    /\ ToRecord(s, "running", Len(batch[s]) + 1)
    /\ UNCHANGED <<rowVars, child, requests, revived, due, cancels, mishaps>>

\* Faulty variant of RecordStep: the reference is not kept.
RecordStatus(s) ==
    /\ At("advance", "recording")
    /\ Here("advance", s)
    /\ step' = [step EXCEPT ![s] = proc["advance"].status]
    /\ proc' = [proc EXCEPT !["advance"].pc = "starting", !["advance"].at = s + 1]
    /\ UNCHANGED <<run, ref, workVars, due, cancels, mishaps>>

RecordStep(s) ==
    /\ At("advance", "recording")
    /\ Here("advance", s)
    /\ step' = [step EXCEPT ![s] = proc["advance"].status]
    /\ ref' = [ref EXCEPT ![s] = proc["advance"].ref]
    /\ proc' = [proc EXCEPT !["advance"] =
         [Free EXCEPT !.pc = "starting", !.at = s + 1,
                      !.view = [proc["advance"].view EXCEPT ![s] = proc["advance"].status]]]
    /\ UNCHANGED <<run, workVars, due, cancels, mishaps>>

(***************************************************************************)
(* The status of the run, from the step rows as they are by now.           *)
(***************************************************************************)
\* Faulty variants of Verdict: a failure ends the run while other steps work;
\* a skipped step keeps it from success.
VerdictHasty ==
    LET statuses == {step[s] : s \in Steps}
    IN  CASE statuses \subseteq {"succeeded", "skipped"} -> "succeeded"
          [] "failed" \in statuses -> "failed"
          [] OTHER -> "running"

VerdictStrict ==
    LET statuses == {step[s] : s \in Steps}
    IN  CASE statuses \subseteq {"succeeded"} -> "succeeded"
          [] "failed" \in statuses /\ statuses \cap ActiveStep = {} -> "failed"
          [] OTHER -> "running"

Verdict ==
    LET statuses == {step[s] : s \in Steps}
        rescue == \E s \in Steps : /\ step[s] = "pending"
                                   /\ Condition[s] \in {"on_failure", "always"}
    IN  CASE statuses \subseteq {"succeeded", "skipped"} -> "succeeded"
          [] "failed" \in statuses /\ statuses \cap ActiveStep = {} /\ ~rescue -> "failed"
          [] OTHER -> IF "waiting_approval" \in statuses THEN "waiting_approval"
                      ELSE "running"

Judge ==
    /\ Over("advance", "starting")
    /\ proc' = [proc EXCEPT !["advance"] = [Free EXCEPT !.pc = "concluding",
                                                       !.status = Verdict]]
    /\ UNCHANGED <<rowVars, workVars, due, cancels, mishaps>>

\* update_run does not look at the status it replaces.
Conclude ==
    /\ At("advance", "concluding")
    /\ run' = [run EXCEPT !.status = proc["advance"].status]
    /\ Leave("advance")
    /\ UNCHANGED <<step, ref, workVars, due, cancels, mishaps>>

-----------------------------------------------------------------------------
(***************************************************************************)
(* cancel(), and _cancel_children, which advance() runs too.               *)
(***************************************************************************)
CancelRun ==
    /\ cancels + mishaps < TroubleBound
    /\ At("cancel", "free")
    /\ run' = [status |-> "canceled", cancel |-> TRUE]
    /\ Go("cancel", "listing")
    /\ cancels' = cancels + 1
    /\ UNCHANGED <<step, ref, workVars, due, mishaps>>

\* The jobs are listed, and asked one by one.
AskChildren(p) ==
    /\ At(p, "asking")
    /\ AskCancel(Jobs)
    /\ Go(p, "marking")
    /\ UNCHANGED <<rowVars, requests, batch, revived, due, cancels, mishaps>>

MarkStep(p, s) ==
    /\ At(p, "marking")
    /\ Here(p, s)
    /\ WriteStep(p, s, "canceled")
    /\ UNCHANGED <<run, ref, workVars, due, cancels, mishaps>>

ConcludeCancel(p) ==
    /\ Over(p, "marking")
    /\ run' = [status |-> "canceled", cancel |-> TRUE]
    /\ Leave(p)
    /\ UNCHANGED <<step, ref, workVars, due, cancels, mishaps>>

-----------------------------------------------------------------------------
(***************************************************************************)
(* Everybody else: the queue and its operators, arenas and evaluations,    *)
(* the Approval Center, crashes.                                           *)
(***************************************************************************)
Others == <<rowVars, requests, batch, proc, cancels>>

\* run_once: the worker calls advance() once it has settled the attempt.
WorkerSettles(s) ==
    /\ child[s].status = "running"
    /\ \E status \in Ended \cup {"retry_wait"} : Settle(s, status)
    /\ due' = TRUE
    /\ UNCHANGED <<Others, revived, mishaps>>

\* Recovery, reconciliation, or a worker that dies or comes too late.
OtherSettles(s) ==
    /\ cancels + mishaps < TroubleBound
    /\ mishaps' = mishaps + 1
    /\ \E status \in Ended \cup {"retry_wait"} :
         /\ Settle(s, status)
         /\ revived' = IF HasEnded(s) /\ status # child[s].status
                         THEN revived \cup {s} ELSE revived
    /\ UNCHANGED <<Others, due>>

QueueMoves(s) ==
    /\ \/ Claim(s) \/ Exhaust(s) \/ Requeue({s})
       \/ \E target \in {"queued", "canceled"} : DecideStart(s, target)
    /\ UNCHANGED <<Others, revived, due, mishaps>>

\* The operator cancels the run of one child, or retries it.
OperatorCancels(s) ==
    /\ AskCancel({s}) \/ Withdraw(s)
    /\ UNCHANGED <<Others, revived, due, mishaps>>

OperatorRetries(s) ==
    /\ cancels + mishaps < TroubleBound
    /\ mishaps' = mishaps + 1
    /\ Renew(s)
    /\ revived' = revived \cup {s}
    /\ UNCHANGED <<Others, due>>

\* Children of a batch that are linked in time call advance() as well.
BatchEnds(s) ==
    /\ \E n \in DOMAIN batch[s], status \in {"succeeded", "failed"} :
         /\ batch[s][n] = "running"
         /\ batch' = [batch EXCEPT ![s][n] = status]
    /\ due' \in {due, TRUE}
    /\ UNCHANGED <<rowVars, child, requests, revived, proc, cancels, mishaps>>

DecideRequest(r) ==
    /\ requests[r].status = "pending"
    /\ \E status \in {"approved", "denied", "expired"} :
         requests' = [requests EXCEPT ![r].status = status]
    /\ UNCHANGED <<rowVars, child, batch, revived, proc, due, cancels, mishaps>>

\* The process inside advance() or cancel() dies; the lock goes with it.
\* Any call of cancel() may.
Crash(p) ==
    /\ ~At(p, "free")
    /\ p = "cancel" \/ cancels + mishaps < TroubleBound
    /\ mishaps' = mishaps + 1
    /\ Leave(p)
    /\ UNCHANGED <<rowVars, workVars, due, cancels>>

\* A caller dies before it has the lock.
LoseCall ==
    /\ cancels + mishaps < TroubleBound
    /\ mishaps' = mishaps + 1
    /\ due
    /\ due' = FALSE
    /\ UNCHANGED <<rowVars, workVars, proc, cancels>>

-----------------------------------------------------------------------------
Begin(s) ==
    \/ SkipStep(s) \/ RunLocal(s) \/ AskApproval(s)
    \/ SubmitChild(s) \/ ReleaseChild(s) \/ QueueBatch(s) \/ RecordStep(s)

CancelOn(p) ==
    \/ List(p) \/ AskChildren(p) \/ ConcludeCancel(p)
    \/ \E s \in Steps : MarkStep(p, s)

AdvanceOn ==
    \/ Synced \/ Judge \/ Conclude
    \/ \E s \in Steps : SyncStep(s) \/ Begin(s)
    \/ CancelOn("advance")

Elsewhere ==
    \/ \E s \in Jobs : \/ WorkerSettles(s) \/ OtherSettles(s)
                       \/ QueueMoves(s) \/ OperatorCancels(s)
                       \/ OperatorRetries(s)
    \/ \E s \in Steps : BatchEnds(s)
    \/ \E r \in DOMAIN requests : DecideRequest(r)
    \/ \E p \in {"advance", "cancel"} : Crash(p)
    \/ LoseCall

Next == Enter \/ AdvanceOn \/ CancelRun \/ CancelOn("cancel") \/ Elsewhere

Spec == Init /\ [][Next]_vars
=============================================================================
