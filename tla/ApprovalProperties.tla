------------------------ MODULE ApprovalProperties ------------------------
(***************************************************************************)
(* What the approvals promise: a decision is final, it admits what was     *)
(* asked for and, if it allows once, only once; and no job waits for an    *)
(* answer that nobody can give.                                            *)
(***************************************************************************)
EXTENDS Approvals

RequestRow == [operation : Operations, expires : BOOLEAN, late : BOOLEAN,
               status : {"pending", "approved", "denied", "expired"}]
GrantRow == [request : Nat \ {0}, kind : Kinds, once : BOOLEAN, spent : BOOLEAN,
             lapsed : BOOLEAN]
Admission == [operation : Operations, grant : Nat \ {0}]
Task == [pc : {"idle"}]
          \cup [pc : {"gated", "found"}, operation : Operations]
          \cup [pc : {"polling"}, request : Nat \ {0}]

\* Types of the state.  What rows refer to exists: a grant its request (the
\* foreign key of approval_grants), an admission its grant, a poll and an
\* answer their request.
ApprovalTypeOK ==
    /\ job \in [Jobs -> {"waiting_input", "waiting_approval", "queued", "canceled"}]
    /\ dispatch \in [Jobs -> {"resolving", "asking", "done", "dead"}]
    /\ request \in Seq(RequestRow)
    /\ grant \in Seq(GrantRow)
    /\ admission \in Seq(Admission)
    /\ task \in [Callers -> Task]
    /\ outcome \in SUBSET ((Nat \ {0}) \X {"allow", "deny"})
    /\ \A g \in DOMAIN grant : grant[g].request \in DOMAIN request
    /\ \A n \in DOMAIN admission : admission[n].grant \in DOMAIN grant
    /\ \A c \in Callers : task[c].pc = "polling" => task[c].request \in DOMAIN request
    /\ \A answer \in outcome : answer[1] \in DOMAIN request

-----------------------------------------------------------------------------
Reviewed(n) == BindingOf[admission[n].operation] # Unset

\* "Consume a matching allow-once grant" (decisions.py): the approval of an
\* exact preview lets it pass once, in whatever order callers come back to
\* the gate and whatever else was granted in the same scope.
OnceIsOnce ==
    \A m, n \in DOMAIN admission :
      m # n /\ Reviewed(n) => admission[m].grant # admission[n].grant

\* Covers: the decision on request r lets o pass.
Covers(r, o) ==
    LET asked == request[r].operation IN
      /\ request[r].status = "approved"
      /\ ActionOf[asked] = ActionOf[o]
      /\ BindingOf[asked] = BindingOf[o]
      /\ \E kind \in Kinds : /\ ScopeOf[asked][kind] = ScopeOf[o][kind]
                             /\ ScopeOf[o][kind] # Unset

\* Whatever the gate let pass, somebody approved: this action, for this
\* owner, with this binding, in a scope it belongs to; and the request still
\* says so.
AdmittedWasApproved ==
    \A n \in DOMAIN admission :
      Covers(grant[admission[n].grant].request, admission[n].operation)

\* An adapter that was told "allow" had a request that was approved, and no
\* later step makes it look otherwise (the audit trail and the outcome agree).
AllowedWasApproved ==
    \A answer \in outcome :
      answer[2] = "allow" => request[answer[1]].status = "approved"

\* A job that waits for approval can be answered: its request is open and
\* stays open (an expiry would leave the job waiting for ever), unless the
\* dispatcher has not come to create it, or died before it did.  And a job
\* leaves this state only with the decision on its own request.
SpawnAnswered ==
    \A j \in Jobs :
      LET Mine(status) == {r \in DOMAIN request : /\ request[r].operation = SpawnOf[j]
                                                  /\ request[r].status = status}
      IN /\ job[j] = "waiting_approval" /\ dispatch[j] \notin {"asking", "dead"} =>
              \E r \in Mine("pending") : ~request[r].expires
         /\ job[j] # "waiting_approval" => Mine("pending") = {}
         /\ job[j] = "canceled" => Mine("denied") # {}
         /\ job[j] = "queued" =>
              \/ Mine("approved") # {}
              \/ \E n \in DOMAIN admission : admission[n].operation = SpawnOf[j]

\* decide_approval_request raises unless the request is pending: of two
\* decisions, or of a decision and an expiry, the first counts.
DecisionIsFinal ==
    [][\A r \in DOMAIN request :
         request[r].status # "pending" => request'[r].status = request[r].status
      ]_approvalVars
=============================================================================
