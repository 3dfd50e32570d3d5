----------------------------- MODULE Approvals -----------------------------
(***************************************************************************)
(* Approvals (src/gigaloom/runtime/approvals, policy.py): actions that the *)
(* policy makes ask first.  A request is created by the dispatcher for the *)
(* start of a job, by the gate of a reviewed action, which answers "ask    *)
(* again", or by an adapter, which polls for the decision.  The operator's *)
(* decision leaves a grant; the gate consumes grants.                      *)
(*                                                                         *)
(* An operation is what one asks for: its action together with the owner   *)
(* that enforces it, its scope and its binding (the digest of the exact    *)
(* preview, if it has one).  Every method is one transaction and one step; *)
(* between the steps of a caller others may act.                           *)
(***************************************************************************)
EXTENDS Naturals, Sequences

CONSTANTS
    Operations,      \* what is asked for
    ActionOf,        \* action and enforcement owner of each operation
    ScopeOf,         \* its job, run, session and project ids, or Unset
    BindingOf,       \* its approval binding, or Unset
    Unset,
    Jobs,            \* jobs whose profile reviews every action
    SpawnOf,         \* the operation that starts a job
    Polled,          \* operations an adapter asks for and polls
    Callers,         \* processes that gate or poll
    RequestBound,    \* bound on requests
    AdmissionBound   \* bound on admissions

Kinds == {"job", "run", "session", "project"}

ASSUME SpawnAssumption ==
    /\ SpawnOf \in [Jobs -> Operations]
    /\ \A j \in Jobs : /\ ScopeOf[SpawnOf[j]].job = j
                       /\ BindingOf[SpawnOf[j]] = Unset
    /\ \A i, j \in Jobs : i # j => SpawnOf[i] # SpawnOf[j]
ASSUME PolledAssumption ==
    /\ Polled \subseteq Operations
    /\ \A p \in Polled : BindingOf[p] # Unset /\ p \notin {SpawnOf[j] : j \in Jobs}
ASSUME BoundsAssumption == RequestBound \in Nat /\ AdmissionBound \in Nat

VARIABLES
    job,        \* status of each job, as far as its start goes
    dispatch,   \* where its dispatcher is
    request,    \* approval_requests, in order of creation
    grant,      \* approval_grants, in order of creation
    task,       \* what each caller is about
    admission,  \* what a grant let pass so far: the operation and the grant
    outcome     \* answers of adapters: pairs of request and answer

approvalVars == <<job, dispatch, request, grant, task, admission, outcome>>

Gated == Operations \ {SpawnOf[j] : j \in Jobs}

Init ==
    /\ job = [j \in Jobs |-> "waiting_input"]
    /\ dispatch = [j \in Jobs |-> "resolving"]
    /\ request = <<>>
    /\ grant = <<>>
    /\ task = [c \in Callers |-> [pc |-> "idle"]]
    /\ admission = <<>>
    /\ outcome = {}

\* Two operations share a request if they have the same dedupe key.
Same(o, p) == /\ ActionOf[o] = ActionOf[p]
              /\ ScopeOf[o] = ScopeOf[p]
              /\ BindingOf[o] = BindingOf[p]

IsPending(r) == request[r].status = "pending"

\* _expire_approvals: every method on requests begins so.
Lapse(row) == IF row.status = "pending" /\ row.late
                THEN [row EXCEPT !.status = "expired"] ELSE row
Lapsed == [r \in DOMAIN request |-> Lapse(request[r])]

-----------------------------------------------------------------------------
(***************************************************************************)
(* Requests.                                                               *)
(***************************************************************************)

NewRow(o, expires) ==
    [operation |-> o, expires |-> expires, late |-> FALSE, status |-> "pending"]

\* The pending request the unique index finds, if there is one.
Twins(o) == {r \in DOMAIN request : /\ Lapsed[r].status = "pending"
                                    /\ Same(request[r].operation, o)}

CreateRequest(o, expires) ==
    /\ Twins(o) = {}
    /\ Len(request) < RequestBound
    /\ request' = Append(Lapsed, NewRow(o, expires))

ReuseRequest(o) ==
    /\ Twins(o) # {}
    /\ request' = Lapsed

-----------------------------------------------------------------------------
(***************************************************************************)
(* Grants.                                                                 *)
(***************************************************************************)

\* _approval_once_scope
OnceKind(o) == IF ScopeOf[o].job # Unset THEN "job"
               ELSE IF ScopeOf[o].run # Unset THEN "run"
               ELSE "project"

Usable(g) == ~grant[g].spent /\ ~grant[g].lapsed

\* Faulty variant of Matches: a grant serves whatever has its action and scope.
MatchesUnbound(g, o) ==
    LET asked == request[grant[g].request].operation IN
      /\ ActionOf[asked] = ActionOf[o]
      /\ ScopeOf[asked][grant[g].kind] = ScopeOf[o][grant[g].kind]
      /\ ScopeOf[o][grant[g].kind] # Unset

\* The WHERE clause and the two comparisons of consume_matching_approval_grant.
Matches(g, o) ==
    LET asked == request[grant[g].request].operation IN
      /\ ActionOf[asked] = ActionOf[o]
      /\ BindingOf[asked] = BindingOf[o]
      /\ ScopeOf[asked][grant[g].kind] = ScopeOf[o][grant[g].kind]
      /\ ScopeOf[o][grant[g].kind] # Unset

Rank == [job |-> 0, run |-> 1, session |-> 2, project |-> 3]

\* Its ORDER BY: narrowest scope first, then newest.
Before(g, h) == \/ Rank[grant[g].kind] < Rank[grant[h].kind]
                \/ Rank[grant[g].kind] = Rank[grant[h].kind] /\ g > h

Candidates(o) == {g \in DOMAIN grant : Usable(g) /\ Matches(g, o)}

Admit(o, g) ==
    /\ Len(admission) < AdmissionBound
    /\ admission' = Append(admission, [operation |-> o, grant |-> g])

\* Faulty variant of Consume: a once grant is observed, not consumed.
ConsumeNothing(o) ==
    \E g \in Candidates(o) :
      /\ \A h \in Candidates(o) \ {g} : Before(g, h)
      /\ Admit(o, g)
      /\ UNCHANGED grant

\* A once grant is used up; a scoped one is only observed.
Consume(o) ==
    \E g \in Candidates(o) :
      /\ \A h \in Candidates(o) \ {g} : Before(g, h)
      /\ Admit(o, g)
      /\ grant' = [grant EXCEPT ![g].spent = grant[g].once]

-----------------------------------------------------------------------------
(***************************************************************************)
(* The dispatcher: the job is put in waiting_approval first, and its       *)
(* request is created in a transaction of its own.  (Canceling a job that  *)
(* waits only marks it: DurableRuntime, Cancel.)                           *)
(***************************************************************************)

\* A grant of the session or the project lets the job start at once.
DispatchGranted(j) ==
    /\ dispatch[j] = "resolving"
    /\ Consume(SpawnOf[j])
    /\ job' = [job EXCEPT ![j] = "queued"]
    /\ dispatch' = [dispatch EXCEPT ![j] = "done"]
    /\ UNCHANGED <<request, task, outcome>>

DispatchAsking(j) ==
    /\ dispatch[j] = "resolving"
    /\ Candidates(SpawnOf[j]) = {}
    /\ job' = [job EXCEPT ![j] = "waiting_approval"]
    /\ dispatch' = [dispatch EXCEPT ![j] = "asking"]
    /\ UNCHANGED <<request, grant, task, admission, outcome>>

\* Faulty variant of AskToSpawn: the request is given an expiry.
AskToSpawnInTime(j) ==
    /\ dispatch[j] = "asking"
    /\ CreateRequest(SpawnOf[j], TRUE)
    /\ dispatch' = [dispatch EXCEPT ![j] = "done"]
    /\ UNCHANGED <<job, grant, task, admission, outcome>>

AskToSpawn(j) ==
    /\ dispatch[j] = "asking"
    /\ CreateRequest(SpawnOf[j], FALSE)
    /\ dispatch' = [dispatch EXCEPT ![j] = "done"]
    /\ UNCHANGED <<job, grant, task, admission, outcome>>

DispatcherDies(j) ==
    /\ dispatch[j] \in {"resolving", "asking"}
    /\ dispatch' = [dispatch EXCEPT ![j] = "dead"]
    /\ UNCHANGED <<job, request, grant, task, admission, outcome>>

-----------------------------------------------------------------------------
(***************************************************************************)
(* Decisions.                                                              *)
(***************************************************************************)

Decisions == {"once", "run", "session", "project", "deny"}

\* Hash-bound requests are allowed once or denied; wider grants need the id.
MayDecide(o, decision) ==
    /\ BindingOf[o] # Unset => decision \in {"once", "deny"}
    /\ decision \in Kinds => ScopeOf[o][decision] # Unset
    /\ decision = "once" => ScopeOf[o][OnceKind(o)] # Unset

GrantOf(r, decision) ==
    [request |-> r,
     kind |-> IF decision = "once" THEN OnceKind(request[r].operation) ELSE decision,
     once |-> decision = "once", spent |-> FALSE, lapsed |-> FALSE]

\* The job of the request, if it waits for approval.
Released(o) == {j \in Jobs : ScopeOf[o].job = j /\ job[j] = "waiting_approval"}

\* Faulty variant of Decide: an expired request is decided.
DecideLate(r, decision) ==
    LET o == request[r].operation IN
      /\ request[r].status \in {"pending", "expired"}
      /\ MayDecide(o, decision)
      /\ request' = [Lapsed EXCEPT ![r].status =
                       IF decision = "deny" THEN "denied" ELSE "approved"]
      /\ grant' = IF decision = "deny" THEN grant
                  ELSE Append(grant, GrantOf(r, decision))
      /\ job' = [j \in Jobs |->
                   IF j \notin Released(o) THEN job[j]
                   ELSE IF decision = "deny" THEN "canceled" ELSE "queued"]
      /\ UNCHANGED <<dispatch, task, admission, outcome>>

\* decide_approval_request; where it raises nothing is kept.
Decide(r, decision) ==
    LET o == request[r].operation IN
      /\ Lapsed[r].status = "pending"
      /\ MayDecide(o, decision)
      /\ request' = [Lapsed EXCEPT ![r].status =
                       IF decision = "deny" THEN "denied" ELSE "approved"]
      /\ grant' = IF decision = "deny" THEN grant
                  ELSE Append(grant, GrantOf(r, decision))
      /\ job' = [j \in Jobs |->
                   IF j \notin Released(o) THEN job[j]
                   ELSE IF decision = "deny" THEN "canceled" ELSE "queued"]
      /\ UNCHANGED <<dispatch, task, admission, outcome>>

-----------------------------------------------------------------------------
(***************************************************************************)
(* The gate of reviewed actions, which callers pass again and again.       *)
(***************************************************************************)

At(c, pc) == task[c].pc = pc
Goto(c, next) == task' = [task EXCEPT ![c] = next]

\* An operation of a job can be asked for once the job was released.
Possible(o) == \A j \in Jobs : ScopeOf[o].job = j => job[j] = "queued"

GateAdmits(c, o) ==
    /\ At(c, "idle")
    /\ Possible(o)
    /\ Consume(o)
    /\ UNCHANGED <<job, dispatch, request, task, outcome>>

GateAsks(c, o) ==
    /\ At(c, "idle")
    /\ Possible(o)
    /\ Candidates(o) = {}
    /\ Goto(c, [pc |-> "gated", operation |-> o])
    /\ UNCHANGED <<job, dispatch, request, grant, admission, outcome>>

GateRequests(c) ==
    /\ At(c, "gated")
    /\ LET o == task[c].operation IN CreateRequest(o, FALSE) \/ ReuseRequest(o)
    /\ Goto(c, [pc |-> "idle"])
    /\ UNCHANGED <<job, dispatch, grant, admission, outcome>>

-----------------------------------------------------------------------------
(***************************************************************************)
(* Adapters: find a request with the binding or create one, then poll.     *)
(***************************************************************************)

Known(o) == {r \in DOMAIN request :
               BindingOf[request[r].operation] = BindingOf[o]}

FindRequest(c, o) ==
    /\ At(c, "idle")
    /\ Possible(o)
    /\ \/ Known(o) = {} /\ Goto(c, [pc |-> "found", operation |-> o])
       \/ \E r \in Known(o) : /\ \A s \in Known(o) : s <= r
                              /\ Goto(c, [pc |-> "polling", request |-> r])
    /\ request' = Lapsed
    /\ UNCHANGED <<job, dispatch, grant, admission, outcome>>

\* Faulty variant of RequestAndPoll: the identifier of the new row is polled
\* though an older row was returned.
PollFresh(c) ==
    /\ At(c, "found")
    /\ LET o == task[c].operation IN CreateRequest(o, TRUE) \/ ReuseRequest(o)
    /\ Goto(c, [pc |-> "polling", request |-> Len(request) + 1])
    /\ UNCHANGED <<job, dispatch, grant, admission, outcome>>

\* Another caller may have created the request since.
RequestAndPoll(c) ==
    /\ At(c, "found")
    /\ LET o == task[c].operation IN
         \/ /\ CreateRequest(o, TRUE)
            /\ Goto(c, [pc |-> "polling", request |-> Len(request) + 1])
         \/ /\ ReuseRequest(o)
            /\ \E r \in Twins(o) : Goto(c, [pc |-> "polling", request |-> r])
    /\ UNCHANGED <<job, dispatch, grant, admission, outcome>>

\* Faulty variant of Answer: whatever was decided admits.
AnswerDecided(c) ==
    /\ At(c, "polling")
    /\ LET r == task[c].request IN
         /\ Lapsed[r].status # "pending"
         /\ outcome' = outcome \cup {<<r, "allow">>}
    /\ request' = Lapsed
    /\ Goto(c, [pc |-> "idle"])
    /\ UNCHANGED <<job, dispatch, grant, admission>>

Answer(c) ==
    /\ At(c, "polling")
    /\ LET r == task[c].request IN
         /\ Lapsed[r].status # "pending"
         /\ outcome' = outcome \cup
              {<<r, IF Lapsed[r].status = "approved" THEN "allow" ELSE "deny">>}
    /\ request' = Lapsed
    /\ Goto(c, [pc |-> "idle"])
    /\ UNCHANGED <<job, dispatch, grant, admission>>

\* The deadline passes between two polls, or the turn is canceled.
GiveUp(c) ==
    /\ At(c, "polling")
    /\ outcome' = outcome \cup {<<task[c].request, "deny">>}
    /\ Goto(c, [pc |-> "idle"])
    /\ UNCHANGED <<job, dispatch, request, grant, admission>>

-----------------------------------------------------------------------------
(***************************************************************************)
(* The clock.                                                              *)
(***************************************************************************)

RequestLate(r) ==
    /\ IsPending(r)
    /\ request[r].expires
    /\ ~request[r].late
    /\ request' = [request EXCEPT ![r].late = TRUE]
    /\ UNCHANGED <<job, dispatch, grant, task, admission, outcome>>

GrantLate(g) ==
    /\ grant[g].kind = "project"
    /\ ~grant[g].once
    /\ ~grant[g].lapsed
    /\ grant' = [grant EXCEPT ![g].lapsed = TRUE]
    /\ UNCHANGED <<job, dispatch, request, task, admission, outcome>>

-----------------------------------------------------------------------------
Dispatch(j) ==
    DispatchGranted(j) \/ DispatchAsking(j) \/ AskToSpawn(j) \/ DispatcherDies(j)

Call(c) ==
    \/ \E o \in Gated : GateAdmits(c, o)
    \/ \E o \in Gated \ Polled : GateAsks(c, o)
    \/ GateRequests(c)
    \/ \E o \in Polled : FindRequest(c, o)
    \/ RequestAndPoll(c)
    \/ Answer(c)
    \/ GiveUp(c)

Next ==
    \/ \E j \in Jobs : Dispatch(j)
    \/ \E c \in Callers : Call(c)
    \/ \E r \in DOMAIN request, decision \in Decisions : Decide(r, decision)
    \/ \E r \in DOMAIN request : RequestLate(r)
    \/ \E g \in DOMAIN grant : GrantLate(g)

Spec == Init /\ [][Next]_approvalVars
=============================================================================
