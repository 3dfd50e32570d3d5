----------------------------- MODULE ChildJobs ------------------------------
(***************************************************************************)
(* A durable job as whoever submitted it sees it, for the components that  *)
(* run work through the queue (workflows, schedules): its status, whether  *)
(* its cancellation was requested, and whether it ever had an attempt.     *)
(* DurableRuntime implements this module, so that what is said of its      *)
(* clients rests on the queue as the code has it.                          *)
(***************************************************************************)
EXTENDS Naturals

CONSTANT Jobs

VARIABLE child

Ended == {"succeeded", "failed", "canceled"}
ChildStatus == Ended \cup {"none", "waiting_input", "waiting_approval",
                           "queued", "running", "retry_wait"}
Child == [status : ChildStatus, cancel : BOOLEAN, ran : BOOLEAN]

ChildTypeOK == child \in [Jobs -> Child]

ChildInit == child = [j \in Jobs |-> [status |-> "none", cancel |-> FALSE,
                                      ran |-> FALSE]]

HasEnded(j) == child[j].status \in Ended
Active(j) == child[j].status \notin Ended \cup {"none"}

Become(j, status) == child' = [child EXCEPT ![j].status = status]

\* The dispatcher: the row first, then what the policy decides.
Submit(j) == child[j].status = "none" /\ Become(j, "waiting_input")

Release(j, target) ==
    /\ child[j].status = "waiting_input"
    /\ Become(j, target)

\* The decision on the start of the job.
DecideStart(j, target) ==
    /\ child[j].status = "waiting_approval"
    /\ Become(j, target)

\* request_cancel for each job of js that is not over.
AskCancel(js) ==
    child' = [j \in Jobs |-> IF j \in js /\ Active(j)
                               THEN [status |-> child[j].status, cancel |-> TRUE,
                                     ran |-> child[j].ran]
                               ELSE child[j]]

\* A canceled run that nobody had claimed.
Withdraw(j) == child[j].status = "queued" /\ Become(j, "canceled")

Claim(j) ==
    /\ child[j].status = "queued"
    /\ ~child[j].cancel
    /\ child' = [child EXCEPT ![j] = [status |-> "running", cancel |-> FALSE,
                                      ran |-> TRUE]]

\* A claim that finds no attempt left.
Exhaust(j) ==
    /\ child[j].status = "queued"
    /\ ~child[j].cancel
    /\ child[j].ran
    /\ Become(j, "failed")

\* finish_attempt, recovery or reconciliation; a late one may settle a job
\* that has ended already.
Settle(j, status) ==
    /\ child[j].ran
    /\ status = "retry_wait" => ~child[j].cancel
    /\ Become(j, status)

\* requeue_due_jobs moves several at once.
Requeue(js) ==
    /\ \A j \in js : child[j].status = "retry_wait" /\ ~child[j].cancel
    /\ child' = [j \in Jobs |-> IF j \in js
                                  THEN [child[j] EXCEPT !.status = "queued"]
                                  ELSE child[j]]

\* The operator retries a failed job.
Renew(j) ==
    /\ child[j].status = "failed"
    /\ child[j].ran
    /\ child' = [child EXCEPT ![j] = [status |-> "queued", cancel |-> FALSE,
                                      ran |-> TRUE]]

ChildNext ==
    \/ \E j \in Jobs :
         \/ Submit(j) \/ Withdraw(j) \/ Claim(j) \/ Exhaust(j) \/ Renew(j)
         \/ AskCancel({j})
         \/ \E target \in {"queued", "waiting_approval", "canceled"} : Release(j, target)
         \/ \E target \in {"queued", "canceled"} : DecideStart(j, target)
         \/ \E status \in Ended \cup {"retry_wait"} : Settle(j, status)
    \/ \E js \in SUBSET Jobs : Requeue(js)

ChildSpec == ChildInit /\ [][ChildNext]_child
=============================================================================
