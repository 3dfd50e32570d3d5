----------------------------- MODULE WorkLedger -----------------------------
(***************************************************************************)
(* What the durable queue promises to whoever submits work, without a word *)
(* about workers, leases, run records or crashes: a job's work is started  *)
(* only while it is on offer, never more often than its budget allows and  *)
(* never while its cancellation is pending; work that was started before   *)
(* is offered again only if it may be repeated, and then either on its own *)
(* account (a retry, which a pending cancellation rules out) or because    *)
(* the operator renewed it.                                                *)
(***************************************************************************)
EXTENDS Naturals

CONSTANTS
    Jobs,        \* the submitted jobs
    Repeatable,  \* jobs whose work may be done again
    Budget       \* how often each job may start unless it is renewed

VARIABLES
    offered,   \* is the job's work on offer (queued, or waiting for a retry)?
    started,   \* how often the work was started
    budget,    \* how often it may be started
    canceled   \* is a cancellation pending?

ledgerVars == <<offered, started, budget, canceled>>

LedgerInit ==
    /\ offered = [j \in Jobs |-> FALSE]
    /\ started = [j \in Jobs |-> 0]
    /\ budget = Budget
    /\ canceled = [j \in Jobs |-> FALSE]

Offer(j) ==
    /\ ~offered[j]
    /\ started[j] = 0 \/ (j \in Repeatable /\ ~canceled[j])
    /\ offered' = [offered EXCEPT ![j] = TRUE]
    /\ UNCHANGED <<started, budget, canceled>>

Start(j) ==
    /\ offered[j]
    /\ ~canceled[j]
    /\ started[j] < budget[j]
    /\ offered' = [offered EXCEPT ![j] = FALSE]
    /\ started' = [started EXCEPT ![j] = @ + 1]
    /\ UNCHANGED <<budget, canceled>>

Withdraw(j) ==
    /\ offered[j]
    /\ offered' = [offered EXCEPT ![j] = FALSE]
    /\ UNCHANGED <<started, budget, canceled>>

AskToCancel(j) ==
    /\ canceled' = [canceled EXCEPT ![j] = TRUE]
    /\ UNCHANGED <<offered, started, budget>>

Renew(j) ==
    /\ ~offered[j]
    /\ started[j] > 0
    /\ j \in Repeatable
    /\ offered' = [offered EXCEPT ![j] = TRUE]
    /\ budget' = [budget EXCEPT ![j] = IF @ > started[j] THEN @ ELSE started[j] + 1]
    /\ canceled' = [canceled EXCEPT ![j] = FALSE]
    /\ UNCHANGED started

LedgerNext == \E j \in Jobs : Offer(j) \/ Start(j) \/ Withdraw(j)
                                \/ AskToCancel(j) \/ Renew(j)

LedgerSpec == LedgerInit /\ [][LedgerNext]_ledgerVars
=============================================================================
