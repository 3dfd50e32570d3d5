--------------------------- MODULE ApprovalProofs ---------------------------
(***************************************************************************)
(* Safety of the approvals for any number of jobs, callers, requests and   *)
(* grants, and any actions, scopes and bindings.                           *)
(***************************************************************************)
EXTENDS ApprovalProperties, SequenceTheorems, TLAPS

USE SpawnAssumption, PolledAssumption, BoundsAssumption

-----------------------------------------------------------------------------
(***************************************************************************)
(* Rows.  A step appends requests and grants and changes little of the     *)
(* ones there are.                                                         *)
(***************************************************************************)
LEMMA LapsedRows ==
    ASSUME request \in Seq(RequestRow)
    PROVE  /\ Lapsed \in Seq(RequestRow)
           /\ Len(Lapsed) = Len(request)
           /\ DOMAIN Lapsed = DOMAIN request
           /\ \A r \in DOMAIN request :
                /\ request[r] \in RequestRow
                /\ Lapsed[r] \in RequestRow
                /\ Lapsed[r].operation = request[r].operation
                /\ Lapsed[r].expires = request[r].expires
                /\ Lapsed[r].late = request[r].late
                /\ \/ Lapsed[r].status = request[r].status
                   \/ /\ Lapsed[r].status = "expired"
                      /\ request[r].status = "pending"
                      /\ request[r].late
<1>1. \A r \in DOMAIN request : request[r] \in RequestRow
      OBVIOUS
<1>2. \A r \in DOMAIN request : Lapse(request[r]) \in RequestRow
  <2> TAKE r \in DOMAIN request
  <2> QED BY <1>1 DEF Lapse, RequestRow
<1>3. DOMAIN request = 1 .. Len(request) /\ Len(request) \in Nat
      OBVIOUS
<1>4. Lapsed \in Seq(RequestRow) /\ Len(Lapsed) = Len(request)
      BY <1>2, <1>3, IsASeq DEF Lapsed
<1>5. ASSUME NEW r \in DOMAIN request
      PROVE  /\ Lapsed[r].operation = request[r].operation
             /\ Lapsed[r].expires = request[r].expires
             /\ Lapsed[r].late = request[r].late
             /\ \/ Lapsed[r].status = request[r].status
                \/ /\ Lapsed[r].status = "expired"
                   /\ request[r].status = "pending"
                   /\ request[r].late
      BY <1>1, <1>5 DEF Lapsed, Lapse, RequestRow
<1> QED BY <1>1, <1>2, <1>4, <1>5 DEF Lapsed

\* Rows that a step leaves or touches: nothing that was decided changes.
Kept(old, new) ==
    /\ DOMAIN old \subseteq DOMAIN new
    /\ \A r \in DOMAIN old :
         /\ new[r].operation = old[r].operation
         /\ new[r].expires = old[r].expires
         /\ new[r].late => old[r].late \/ old[r].expires
         /\ old[r].status # "pending" => new[r].status = old[r].status

\* What a method that decides nothing leaves of the requests.
Refreshed(old, new) ==
    /\ new \in Seq(RequestRow)
    /\ DOMAIN new = DOMAIN old
    /\ Kept(old, new)
    /\ \A r \in DOMAIN old :
         \/ new[r].status = old[r].status
         \/ new[r].status = "expired" /\ old[r].status = "pending" /\ old[r].late

LEMMA LapsedRefreshed ==
    ASSUME request \in Seq(RequestRow)
    PROVE  Refreshed(request, Lapsed)
BY LapsedRows DEF Refreshed, Kept

LEMMA Created ==
    ASSUME request \in Seq(RequestRow), NEW o \in Operations,
           NEW expires \in BOOLEAN, CreateRequest(o, expires)
    PROVE  /\ request' \in Seq(RequestRow)
           /\ DOMAIN request' = DOMAIN request \cup {Len(request) + 1}
           /\ request'[Len(request) + 1] = NewRow(o, expires)
           /\ Kept(request, request')
           /\ \A r \in DOMAIN request :
                \/ request'[r].status = request[r].status
                \/ /\ request'[r].status = "expired"
                   /\ request[r].status = "pending"
                   /\ request[r].late
<1>1. NewRow(o, expires) \in RequestRow
      BY DEF NewRow, RequestRow
<1>2. request' = Append(Lapsed, NewRow(o, expires))
      BY DEF CreateRequest
<1>3. /\ request' \in Seq(RequestRow)
      /\ Len(request') = Len(request) + 1
      /\ request'[Len(request) + 1] = NewRow(o, expires)
      /\ \A r \in 1 .. Len(request) : request'[r] = Lapsed[r]
      BY <1>1, <1>2, LapsedRows
<1>4. DOMAIN request = 1 .. Len(request) /\ Len(request) \in Nat
      OBVIOUS
<1>5. DOMAIN request' = 1 .. Len(request) + 1
      BY <1>3
<1> QED BY <1>3, <1>4, <1>5, LapsedRows DEF Kept

-----------------------------------------------------------------------------
(***************************************************************************)
(* Types.                                                                  *)
(***************************************************************************)
LEMMA InitTypes == Init => ApprovalTypeOK
  BY DEF Init, ApprovalTypeOK, Task

LEMMA ConsumeGrants ==
    ASSUME ApprovalTypeOK, NEW o \in Operations, Consume(o)
    PROVE  /\ grant' \in Seq(GrantRow)
           /\ admission' \in Seq(Admission)
           /\ DOMAIN grant' = DOMAIN grant
           /\ \A g \in DOMAIN grant :
                /\ grant'[g].request = grant[g].request
                /\ grant'[g].once = grant[g].once
                /\ grant[g].spent => grant'[g].spent
           /\ DOMAIN admission' = DOMAIN admission \cup {Len(admission) + 1}
           /\ \A n \in DOMAIN admission : admission'[n] = admission[n]
           /\ \E g \in DOMAIN grant :
                /\ admission'[Len(admission) + 1] = [operation |-> o, grant |-> g]
                /\ Matches(g, o)
                /\ ~grant[g].spent
                /\ grant'[g].spent = grant[g].once
<1>1. PICK g \in Candidates(o) :
           /\ Admit(o, g)
           /\ grant' = [grant EXCEPT ![g].spent = grant[g].once]
      BY DEF Consume
<1>2. /\ g \in DOMAIN grant
      /\ g \in Nat \ {0}
      /\ Matches(g, o)
      /\ ~grant[g].spent
      BY DEF Candidates, Usable, ApprovalTypeOK
<1>3. \A h \in DOMAIN grant : grant[h] \in GrantRow
      BY DEF ApprovalTypeOK
<1>4. [grant[g] EXCEPT !.spent = grant[g].once] \in GrantRow
      BY <1>2, <1>3 DEF GrantRow
<1>5. grant' \in Seq(GrantRow) /\ DOMAIN grant' = DOMAIN grant
  <2>1. /\ grant' = [grant EXCEPT ![g] = [grant[g] EXCEPT !.spent = grant[g].once]]
        /\ grant \in Seq(GrantRow)
        BY <1>1 DEF ApprovalTypeOK
  <2> QED BY <1>2, <1>4, <2>1, ExceptSeq
<1>6. \A h \in DOMAIN grant :
        /\ grant'[h].request = grant[h].request
        /\ grant'[h].once = grant[h].once
        /\ grant[h].spent => grant'[h].spent
      BY <1>1, <1>2, <1>3 DEF GrantRow
<1>7. grant'[g].spent = grant[g].once
      BY <1>1, <1>2, <1>3 DEF GrantRow
<1>8. /\ admission' \in Seq(Admission)
      /\ DOMAIN admission' = DOMAIN admission \cup {Len(admission) + 1}
      /\ \A n \in DOMAIN admission : admission'[n] = admission[n]
      /\ admission'[Len(admission) + 1] = [operation |-> o, grant |-> g]
  <2>1. [operation |-> o, grant |-> g] \in Admission /\ admission \in Seq(Admission)
        BY <1>2 DEF Admission, ApprovalTypeOK
  <2>2. admission' = Append(admission, [operation |-> o, grant |-> g])
        BY <1>1 DEF Admit
  <2> QED BY <2>1, <2>2
<1> QED BY <1>2, <1>5, <1>6, <1>7, <1>8

\* The effect of a decision on requests, grants and jobs.
LEMMA Decided ==
    ASSUME ApprovalTypeOK, NEW r \in DOMAIN request, NEW decision \in Decisions,
           Decide(r, decision)
    PROVE  /\ request' \in Seq(RequestRow)
           /\ DOMAIN request' = DOMAIN request
           /\ Kept(request, request')
           /\ request[r].status = "pending"
           /\ request'[r].status = IF decision = "deny" THEN "denied" ELSE "approved"
           /\ \A s \in DOMAIN request \ {r} :
                \/ request'[s].status = request[s].status
                \/ /\ request'[s].status = "expired"
                   /\ request[s].status = "pending"
                   /\ request[s].late
<1> DEFINE status == IF decision = "deny" THEN "denied" ELSE "approved"
           row == [Lapsed[r] EXCEPT !.status = status]
<1>1. /\ request \in Seq(RequestRow)
      /\ DOMAIN request = 1 .. Len(request)
      BY DEF ApprovalTypeOK
<1>2. Lapsed[r].status = "pending" /\ request' = [Lapsed EXCEPT ![r] = row]
      BY DEF Decide
<1>3. row \in RequestRow
  <2>1. Lapsed[r] \in RequestRow /\ status \in {"denied", "approved"}
        BY <1>1, LapsedRows
  <2> QED BY <2>1 DEF RequestRow
<1>4. /\ request' \in Seq(RequestRow)
      /\ DOMAIN request' = DOMAIN request
      /\ request'[r] = row
      /\ \A s \in DOMAIN request \ {r} : request'[s] = Lapsed[s]
      BY <1>1, <1>2, <1>3, LapsedRows, ExceptSeq
<1>5. request[r].status = "pending"
      BY <1>1, <1>2, LapsedRows
<1>6. /\ row.operation = Lapsed[r].operation
      /\ row.expires = Lapsed[r].expires
      /\ row.late = Lapsed[r].late
      /\ row.status = status
  <2>1. Lapsed[r] \in RequestRow
        BY <1>1, LapsedRows
  <2> QED BY <2>1 DEF RequestRow
<1>7. Kept(request, request')
  <2>1. ASSUME NEW s \in DOMAIN request
        PROVE  /\ request'[s].operation = request[s].operation
               /\ request'[s].expires = request[s].expires
               /\ request'[s].late = request[s].late
               /\ request[s].status # "pending" =>
                    request'[s].status = request[s].status
    <3>1. CASE s = r
          BY <1>1, <1>4, <1>5, <1>6, <3>1, LapsedRows
    <3>2. CASE s # r
      <4>1. request'[s] = Lapsed[s]
            BY <1>4, <2>1, <3>2
      <4> QED BY <1>1, <2>1, <4>1, LapsedRows
    <3> QED BY <3>1, <3>2
  <2>2. DOMAIN request \subseteq DOMAIN request'
        BY <1>4
  <2> QED BY <2>1, <2>2 DEF Kept
<1> QED BY <1>1, <1>4, <1>5, <1>6, <1>7, LapsedRows

LEMMA DecidedGrants ==
    ASSUME ApprovalTypeOK, NEW r \in DOMAIN request, NEW decision \in Decisions,
           Decide(r, decision)
    PROVE  /\ grant' \in Seq(GrantRow)
           /\ \/ grant' = grant
              \/ /\ decision # "deny"
                 /\ DOMAIN grant' = DOMAIN grant \cup {Len(grant) + 1}
                 /\ grant'[Len(grant) + 1] = GrantOf(r, decision)
                 /\ \A g \in DOMAIN grant : grant'[g] = grant[g]
<1>1. /\ grant \in Seq(GrantRow)
      /\ request \in Seq(RequestRow)
      BY DEF ApprovalTypeOK
<1>2. grant' = IF decision = "deny" THEN grant ELSE Append(grant, GrantOf(r, decision))
      BY DEF Decide
<1>3. CASE decision = "deny"
      BY <1>1, <1>2, <1>3
<1>4. CASE decision # "deny"
  <2>1. GrantOf(r, decision) \in GrantRow
        BY <1>1, <1>4 DEF GrantOf, GrantRow, OnceKind, Kinds, Decisions
  <2> QED BY <1>1, <1>2, <1>4, <2>1
<1> QED BY <1>3, <1>4

\* Gates and adapters ask for the operation of their task.
LEMMA Asked ==
    ASSUME ApprovalTypeOK, NEW c \in Callers, At(c, "gated") \/ At(c, "found"),
           NEW expires \in BOOLEAN,
           LET o == task[c].operation IN CreateRequest(o, expires) \/ ReuseRequest(o)
    PROVE  /\ task[c].operation \in Operations
           /\ request' \in Seq(RequestRow)
           /\ Kept(request, request')
<1>1. task[c].operation \in Operations
      BY DEF ApprovalTypeOK, Task, At
<1>2. request \in Seq(RequestRow)
      BY DEF ApprovalTypeOK
<1>3. CASE CreateRequest(task[c].operation, expires)
      BY <1>1, <1>2, <1>3, Created
<1>4. CASE ReuseRequest(task[c].operation)
      BY <1>1, <1>2, <1>4, LapsedRefreshed DEF ReuseRequest, Refreshed
<1> QED BY <1>1, <1>3, <1>4

LEMMA StepRequests ==
    ASSUME ApprovalTypeOK, [Next]_approvalVars
    PROVE  request' \in Seq(RequestRow) /\ Kept(request, request')
<1>1. /\ request \in Seq(RequestRow)
      /\ Lapsed \in Seq(RequestRow)
      /\ Kept(request, Lapsed)
      BY LapsedRefreshed DEF ApprovalTypeOK, Refreshed
<1>2. CASE request' = request
      BY <1>1, <1>2 DEF Kept
<1>3. CASE request' = Lapsed
      BY <1>1, <1>3
<1>4. ASSUME NEW j \in Jobs, Dispatch(j)
      PROVE  request' \in Seq(RequestRow) /\ Kept(request, request')
  <2>1. CASE AskToSpawn(j)
        BY <1>1, <2>1, Created DEF AskToSpawn
  <2> QED BY <1>2, <1>4, <2>1
          DEF Dispatch, DispatchGranted, DispatchAsking, DispatcherDies
<1>5. ASSUME NEW c \in Callers, Call(c)
      PROVE  request' \in Seq(RequestRow) /\ Kept(request, request')
  <2>1. CASE GateRequests(c)
        BY <2>1, Asked DEF GateRequests
  <2>2. CASE RequestAndPoll(c)
        BY <2>2, Asked DEF RequestAndPoll
  <2> QED BY <1>2, <1>3, <1>5, <2>1, <2>2
          DEF Call, GateAdmits, GateAsks, FindRequest, Answer, GiveUp
<1>6. ASSUME NEW r \in DOMAIN request, NEW decision \in Decisions, Decide(r, decision)
      PROVE  request' \in Seq(RequestRow) /\ Kept(request, request')
      BY <1>6, Decided
<1>7. ASSUME NEW r \in DOMAIN request, RequestLate(r)
      PROVE  request' \in Seq(RequestRow) /\ Kept(request, request')
  <2> DEFINE row == [request[r] EXCEPT !.late = TRUE]
  <2>1. request[r] \in RequestRow
        BY <1>1
  <2>2. /\ row \in RequestRow
        /\ row.operation = request[r].operation
        /\ row.expires = request[r].expires
        /\ row.status = request[r].status
        BY <2>1 DEF RequestRow
  <2>3. request' = [request EXCEPT ![r] = row] /\ request[r].expires
        BY <1>7 DEF RequestLate
  <2>4. /\ request' \in Seq(RequestRow)
        /\ DOMAIN request' = DOMAIN request
        /\ \A s \in DOMAIN request : request'[s] = IF s = r THEN row ELSE request[s]
        BY <1>1, <2>2, <2>3, ExceptSeq
  <2> QED BY <2>2, <2>3, <2>4 DEF Kept
<1> QED BY <1>2, <1>4, <1>5, <1>6, <1>7 DEF Next, approvalVars, GrantLate

\* A grant is for good; what is spent stays spent.
GrantsKept(old, new) ==
    /\ DOMAIN old \subseteq DOMAIN new
    /\ \A g \in DOMAIN old : /\ new[g].request = old[g].request
                             /\ new[g].once = old[g].once
                             /\ old[g].spent => new[g].spent

LEMMA StepGrants ==
    ASSUME ApprovalTypeOK, [Next]_approvalVars
    PROVE  grant' \in Seq(GrantRow) /\ GrantsKept(grant, grant')
<1>1. grant \in Seq(GrantRow)
      BY DEF ApprovalTypeOK
<1>2. CASE grant' = grant
      BY <1>1, <1>2 DEF GrantsKept
<1>3. ASSUME NEW o \in Operations, Consume(o)
      PROVE  grant' \in Seq(GrantRow) /\ GrantsKept(grant, grant')
      BY <1>3, ConsumeGrants DEF GrantsKept
<1>4. ASSUME NEW r \in DOMAIN request, NEW decision \in Decisions, Decide(r, decision)
      PROVE  grant' \in Seq(GrantRow) /\ GrantsKept(grant, grant')
      BY <1>4, DecidedGrants DEF GrantsKept
<1>5. ASSUME NEW g \in DOMAIN grant, GrantLate(g)
      PROVE  grant' \in Seq(GrantRow) /\ GrantsKept(grant, grant')
  <2> DEFINE row == [grant[g] EXCEPT !.lapsed = TRUE]
  <2>1. grant[g] \in GrantRow
        BY <1>1
  <2>2. /\ row \in GrantRow
        /\ row.request = grant[g].request
        /\ row.once = grant[g].once
        /\ row.spent = grant[g].spent
        BY <2>1 DEF GrantRow
  <2>3. grant' = [grant EXCEPT ![g] = row]
        BY <1>5 DEF GrantLate
  <2>4. /\ grant' \in Seq(GrantRow)
        /\ DOMAIN grant' = DOMAIN grant
        /\ \A h \in DOMAIN grant : grant'[h] = IF h = g THEN row ELSE grant[h]
        BY <1>1, <2>2, <2>3, ExceptSeq
  <2> QED BY <2>2, <2>4 DEF GrantsKept
<1>6. ASSUME NEW j \in Jobs, Dispatch(j)
      PROVE  grant' \in Seq(GrantRow) /\ GrantsKept(grant, grant')
      BY <1>2, <1>3, <1>6
      DEF Dispatch, DispatchGranted, DispatchAsking, AskToSpawn, DispatcherDies
<1>7. ASSUME NEW c \in Callers, Call(c)
      PROVE  grant' \in Seq(GrantRow) /\ GrantsKept(grant, grant')
      BY <1>2, <1>3, <1>7
      DEF Call, GateAdmits, Gated, GateAsks, GateRequests, FindRequest,
          RequestAndPoll, Answer, GiveUp
<1> QED BY <1>2, <1>4, <1>5, <1>6, <1>7 DEF Next, approvalVars, RequestLate

\* What callers are about, and the answers they gave.
LEMMA StepTasks ==
    ASSUME ApprovalTypeOK, [Next]_approvalVars
    PROVE  /\ task' \in [Callers -> Task]
           /\ \A c \in Callers :
                task'[c].pc = "polling" => task'[c].request \in DOMAIN request'
           /\ outcome' \in SUBSET ((Nat \ {0}) \X {"allow", "deny"})
           /\ \A answer \in outcome' : answer[1] \in DOMAIN request'
<1> DEFINE Good == /\ task' \in [Callers -> Task]
                   /\ \A c \in Callers :
                        task'[c].pc = "polling" => task'[c].request \in DOMAIN request'
           GoodAnswers == /\ outcome' \in SUBSET ((Nat \ {0}) \X {"allow", "deny"})
                          /\ \A answer \in outcome' : answer[1] \in DOMAIN request'
<1>1. /\ request' \in Seq(RequestRow)
      /\ DOMAIN request \subseteq DOMAIN request'
      BY StepRequests DEF Kept
<1>2. ASSUME task' = task PROVE Good
      BY <1>1, <1>2 DEF ApprovalTypeOK
<1>3. ASSUME outcome' = outcome PROVE GoodAnswers
      BY <1>1, <1>3 DEF ApprovalTypeOK
<1>4. ASSUME NEW c \in Callers, NEW next \in Task, Goto(c, next),
             next.pc = "polling" => next.request \in DOMAIN request'
      PROVE  Good
      BY <1>1, <1>4 DEF ApprovalTypeOK, Goto
<1>5. ASSUME NEW r \in DOMAIN request, NEW word \in {"allow", "deny"},
             outcome' = outcome \cup {<<r, word>>}
      PROVE  GoodAnswers
  <2>1. r \in Nat \ {0}
        BY DEF ApprovalTypeOK
  <2> QED BY <1>1, <1>5, <2>1 DEF ApprovalTypeOK
<1>6. [pc |-> "idle"] \in Task
      BY DEF Task
<1>7. ASSUME NEW c \in Callers, Call(c)
      PROVE  Good /\ GoodAnswers
  <2>1. ASSUME NEW o \in Gated, GateAdmits(c, o)
        PROVE  Good /\ GoodAnswers
        BY <1>2, <1>3, <2>1 DEF GateAdmits
  <2>2. ASSUME NEW o \in Gated \ Polled, GateAsks(c, o)
        PROVE  Good /\ GoodAnswers
    <3>1. [pc |-> "gated", operation |-> o] \in Task
          BY DEF Task, Gated
    <3> QED BY <1>3, <1>4, <2>2, <3>1 DEF GateAsks
  <2>3. CASE GateRequests(c)
        BY <1>3, <1>4, <1>6, <2>3 DEF GateRequests
  <2>4. ASSUME NEW o \in Polled, FindRequest(c, o)
        PROVE  Good /\ GoodAnswers
    <3>1. CASE Goto(c, [pc |-> "found", operation |-> o])
      <4>1. [pc |-> "found", operation |-> o] \in Task
            BY DEF Task
      <4> QED BY <1>3, <1>4, <2>4, <3>1, <4>1 DEF FindRequest
    <3>2. ASSUME NEW r \in Known(o), Goto(c, [pc |-> "polling", request |-> r])
          PROVE  Good /\ GoodAnswers
      <4>1. r \in DOMAIN request /\ r \in Nat \ {0}
            BY DEF Known, ApprovalTypeOK
      <4>2. [pc |-> "polling", request |-> r] \in Task
            BY <4>1 DEF Task
      <4> QED BY <1>1, <1>3, <1>4, <2>4, <3>2, <4>1, <4>2 DEF FindRequest
    <3> QED BY <2>4, <3>1, <3>2 DEF FindRequest
  <2>5. CASE RequestAndPoll(c)
    <3> DEFINE o == task[c].operation
    <3>1. o \in Operations /\ request \in Seq(RequestRow)
          BY <2>5 DEF RequestAndPoll, ApprovalTypeOK, Task, At
    <3>2. CASE /\ CreateRequest(o, TRUE)
               /\ Goto(c, [pc |-> "polling", request |-> Len(request) + 1])
      <4>1. Len(request) + 1 \in DOMAIN request'
            BY <3>1, <3>2, Created
      <4>2. Len(request) + 1 \in Nat \ {0}
            BY <3>1
      <4>3. [pc |-> "polling", request |-> Len(request) + 1] \in Task
            BY <4>2 DEF Task
      <4> QED BY <1>3, <1>4, <2>5, <3>2, <4>1, <4>3 DEF RequestAndPoll
    <3>3. ASSUME NEW r \in Twins(o), Goto(c, [pc |-> "polling", request |-> r])
          PROVE  Good /\ GoodAnswers
      <4>1. r \in DOMAIN request /\ r \in Nat \ {0}
            BY <3>1 DEF Twins
      <4>2. [pc |-> "polling", request |-> r] \in Task
            BY <4>1 DEF Task
      <4> QED BY <1>1, <1>3, <1>4, <2>5, <3>3, <4>1, <4>2 DEF RequestAndPoll
    <3> QED BY <2>5, <3>2, <3>3 DEF RequestAndPoll
  <2>6. CASE Answer(c) \/ GiveUp(c)
    <3>1. task[c].request \in DOMAIN request
          BY <2>6 DEF Answer, GiveUp, At, ApprovalTypeOK
    <3>2. \E word \in {"allow", "deny"} :
            outcome' = outcome \cup {<<task[c].request, word>>}
          BY <2>6 DEF Answer, GiveUp
    <3> QED BY <1>4, <1>5, <1>6, <2>6, <3>1, <3>2 DEF Answer, GiveUp
  <2> QED BY <1>7, <2>1, <2>2, <2>3, <2>4, <2>5, <2>6 DEF Call
<1>8. ASSUME NEW j \in Jobs, Dispatch(j)
      PROVE  Good /\ GoodAnswers
      BY <1>2, <1>3, <1>8
      DEF Dispatch, DispatchGranted, DispatchAsking, AskToSpawn, DispatcherDies
<1> QED BY <1>2, <1>3, <1>7, <1>8
        DEF Next, approvalVars, Decide, RequestLate, GrantLate

\* Every grant comes from a request.
LEMMA StepSources ==
    ASSUME ApprovalTypeOK, [Next]_approvalVars
    PROVE  \A g \in DOMAIN grant' : grant'[g].request \in DOMAIN request'
<1>1. DOMAIN request \subseteq DOMAIN request'
      BY StepRequests DEF Kept
<1>2. ASSUME NEW g \in DOMAIN grant
      PROVE  grant'[g].request \in DOMAIN request'
      BY <1>1, StepGrants DEF GrantsKept, ApprovalTypeOK
<1>3. CASE DOMAIN grant' = DOMAIN grant
      BY <1>2, <1>3
<1>4. ASSUME NEW r \in DOMAIN request, NEW decision \in Decisions, Decide(r, decision)
      PROVE  \A g \in DOMAIN grant' : grant'[g].request \in DOMAIN request'
  <2>1. CASE grant' = grant
        BY <1>3, <2>1
  <2>2. CASE /\ DOMAIN grant' = DOMAIN grant \cup {Len(grant) + 1}
             /\ grant'[Len(grant) + 1] = GrantOf(r, decision)
        BY <1>1, <1>2, <2>2 DEF GrantOf
  <2> QED BY <1>4, <2>1, <2>2, DecidedGrants
<1>5. ASSUME NEW o \in Operations, Consume(o)
      PROVE  DOMAIN grant' = DOMAIN grant
      BY <1>5, ConsumeGrants
<1>6. ASSUME NEW g \in DOMAIN grant, GrantLate(g)
      PROVE  DOMAIN grant' = DOMAIN grant
      BY <1>6 DEF GrantLate
<1>7. ASSUME NEW j \in Jobs, Dispatch(j)
      PROVE  DOMAIN grant' = DOMAIN grant
      BY <1>5, <1>7
      DEF Dispatch, DispatchGranted, DispatchAsking, AskToSpawn, DispatcherDies
<1>8. ASSUME NEW c \in Callers, Call(c)
      PROVE  DOMAIN grant' = DOMAIN grant
      BY <1>5, <1>8
      DEF Call, GateAdmits, Gated, GateAsks, GateRequests, FindRequest,
          RequestAndPoll, Answer, GiveUp
<1> QED BY <1>3, <1>4, <1>6, <1>7, <1>8 DEF Next, approvalVars, RequestLate

\* A step admits at most one operation, on a grant that matched it and that
\* was not spent; a once grant is spent with it.
Passed(o, g) ==
    /\ Matches(g, o)
    /\ ~grant[g].spent
    /\ grant'[g].spent = grant[g].once
    /\ DOMAIN grant' = DOMAIN grant
    /\ DOMAIN admission' = DOMAIN admission \cup {Len(admission) + 1}
    /\ admission'[Len(admission) + 1] = [operation |-> o, grant |-> g]
    /\ \A n \in DOMAIN admission : admission'[n] = admission[n]

LEMMA StepAdmissions ==
    ASSUME ApprovalTypeOK, [Next]_approvalVars
    PROVE  /\ admission' \in Seq(Admission)
           /\ \/ admission' = admission
              \/ \E o \in Operations, g \in DOMAIN grant : Passed(o, g)
<1>1. CASE admission' = admission
      BY <1>1 DEF ApprovalTypeOK
<1>2. ASSUME NEW o \in Operations, Consume(o)
      PROVE  /\ admission' \in Seq(Admission)
             /\ \E g \in DOMAIN grant : Passed(o, g)
      BY <1>2, ConsumeGrants DEF Passed
<1>3. ASSUME NEW j \in Jobs, DispatchGranted(j)
      PROVE  /\ admission' \in Seq(Admission)
             /\ \E o \in Operations, g \in DOMAIN grant : Passed(o, g)
      BY <1>2, <1>3 DEF DispatchGranted
<1>4. ASSUME NEW c \in Callers, NEW o \in Gated, GateAdmits(c, o)
      PROVE  /\ admission' \in Seq(Admission)
             /\ \E p \in Operations, g \in DOMAIN grant : Passed(p, g)
      BY <1>2, <1>4 DEF GateAdmits, Gated
<1>5. ASSUME NEW j \in Jobs, Dispatch(j), ~DispatchGranted(j)
      PROVE  admission' = admission
      BY <1>5 DEF Dispatch, DispatchAsking, AskToSpawn, DispatcherDies
<1>6. ASSUME NEW c \in Callers, Call(c), \A o \in Gated : ~GateAdmits(c, o)
      PROVE  admission' = admission
      BY <1>6 DEF Call, GateAsks, GateRequests, FindRequest, RequestAndPoll,
                  Answer, GiveUp
<1> QED BY <1>1, <1>3, <1>4, <1>5, <1>6
        DEF Next, approvalVars, Decide, RequestLate, GrantLate

LEMMA StepTypes == ApprovalTypeOK /\ [Next]_approvalVars => ApprovalTypeOK'
<1> SUFFICES ASSUME ApprovalTypeOK, [Next]_approvalVars
             PROVE  ApprovalTypeOK'
    OBVIOUS
<1> DEFINE GoodJobs ==
      /\ job' \in [Jobs -> {"waiting_input", "waiting_approval", "queued", "canceled"}]
      /\ dispatch' \in [Jobs -> {"resolving", "asking", "done", "dead"}]
<1>1. GoodJobs
  <2>1. CASE UNCHANGED <<job, dispatch>>
        BY <2>1 DEF ApprovalTypeOK
  <2>2. ASSUME NEW j \in Jobs, Dispatch(j)
        PROVE  GoodJobs
        BY <2>2 DEF ApprovalTypeOK, Dispatch, DispatchGranted, DispatchAsking,
                    AskToSpawn, DispatcherDies
  <2>3. ASSUME NEW r \in DOMAIN request, NEW decision \in Decisions, Decide(r, decision)
        PROVE  GoodJobs
        BY <2>3 DEF ApprovalTypeOK, Decide
  <2>4. ASSUME NEW c \in Callers, Call(c)
        PROVE  UNCHANGED <<job, dispatch>>
        BY <2>4 DEF Call, GateAdmits, GateAsks, GateRequests, FindRequest,
                    RequestAndPoll, Answer, GiveUp
  <2> QED BY <2>1, <2>2, <2>3, <2>4 DEF Next, approvalVars, RequestLate, GrantLate
<1>2. \A n \in DOMAIN admission' : admission'[n].grant \in DOMAIN grant'
  <2>1. DOMAIN grant \subseteq DOMAIN grant'
        BY StepGrants DEF GrantsKept
  <2>2. \A n \in DOMAIN admission : admission[n].grant \in DOMAIN grant
        BY DEF ApprovalTypeOK
  <2>3. ASSUME NEW o \in Operations, NEW g \in DOMAIN grant, Passed(o, g),
               NEW n \in DOMAIN admission'
        PROVE  admission'[n].grant \in DOMAIN grant'
    <3>1. CASE n \in DOMAIN admission
          BY <2>1, <2>2, <2>3, <3>1 DEF Passed
    <3>2. CASE n = Len(admission) + 1
          BY <2>1, <2>3, <3>2 DEF Passed
    <3> QED BY <2>3, <3>1, <3>2 DEF Passed
  <2> QED BY <2>1, <2>2, <2>3, StepAdmissions
<1> QED BY <1>1, <1>2, StepRequests, StepGrants, StepTasks, StepSources,
           StepAdmissions
        DEF ApprovalTypeOK

\* The types hold in every state of the approvals.
THEOREM ApprovalTypes == Spec => []ApprovalTypeOK
  BY InitTypes, StepTypes, PTL DEF Spec

\* A decided or expired request never changes its status again
\* (decide_approval_request and _expire_approvals).
THEOREM FinalTheorem == Spec => DecisionIsFinal
<1>1. ApprovalTypeOK /\ [Next]_approvalVars =>
        [\A r \in DOMAIN request :
           request[r].status # "pending" => request'[r].status = request[r].status
        ]_approvalVars
      BY StepRequests DEF Kept
<1> QED BY <1>1, ApprovalTypes, PTL DEF Spec, DecisionIsFinal

-----------------------------------------------------------------------------
(***************************************************************************)
(* What is admitted.  Granted: a grant rests on an approval, and the       *)
(* approval of a preview gives a once grant.  Differ: a once grant that    *)
(* admitted something is spent, so it admits nothing else.                 *)
(***************************************************************************)
Granted ==
    \A g \in DOMAIN grant :
      LET r == grant[g].request IN
        /\ request[r].status = "approved"
        /\ BindingOf[request[r].operation] # Unset => grant[g].once

Differ ==
    /\ \A n \in DOMAIN admission :
         grant[admission[n].grant].once => grant[admission[n].grant].spent
    /\ \A m, n \in DOMAIN admission :
         m # n /\ grant[admission[n].grant].once =>
           admission[m].grant # admission[n].grant

AdmissionInv ==
    /\ ApprovalTypeOK
    /\ Granted
    /\ Differ
    /\ AdmittedWasApproved

LEMMA StepGranted == ApprovalTypeOK /\ Granted /\ [Next]_approvalVars => Granted'
<1> SUFFICES ASSUME ApprovalTypeOK, Granted, [Next]_approvalVars,
                    NEW g \in DOMAIN grant'
             PROVE  LET r == grant'[g].request IN
                      /\ request'[r].status = "approved"
                      /\ BindingOf[request'[r].operation] # Unset => grant'[g].once
    BY DEF Granted
<1>1. CASE g \in DOMAIN grant
  <2> DEFINE r == grant[g].request
  <2>1. r \in DOMAIN request
        BY <1>1 DEF ApprovalTypeOK
  <2>2. grant'[g].request = r /\ grant'[g].once = grant[g].once
        BY <1>1, StepGrants DEF GrantsKept
  <2>3. /\ request'[r].operation = request[r].operation
        /\ request[r].status # "pending" => request'[r].status = request[r].status
        BY <2>1, StepRequests DEF Kept
  <2>4. /\ request[r].status = "approved"
        /\ BindingOf[request[r].operation] # Unset => grant[g].once
        BY <1>1 DEF Granted
  <2> QED BY <2>2, <2>3, <2>4
<1>2. CASE g \notin DOMAIN grant
  <2>1. PICK r \in DOMAIN request, decision \in Decisions : Decide(r, decision)
    <3>1. ASSUME NEW o \in Operations, Consume(o) PROVE FALSE
          BY <1>2, <3>1, ConsumeGrants
    <3>2. ASSUME NEW j \in Jobs, Dispatch(j) PROVE FALSE
          BY <1>2, <3>1, <3>2
          DEF Dispatch, DispatchGranted, DispatchAsking, AskToSpawn, DispatcherDies
    <3>3. ASSUME NEW c \in Callers, Call(c) PROVE FALSE
          BY <1>2, <3>1, <3>3
          DEF Call, GateAdmits, Gated, GateAsks, GateRequests, FindRequest,
              RequestAndPoll, Answer, GiveUp
    <3> QED BY <1>2, <3>2, <3>3 DEF Next, approvalVars, RequestLate, GrantLate
  <2>2. decision # "deny" /\ grant'[g] = GrantOf(r, decision)
        BY <1>2, <2>1, DecidedGrants
  <2>3. /\ request'[r].status = "approved"
        /\ request'[r].operation = request[r].operation
        BY <2>1, <2>2, Decided DEF Kept
  <2>4. BindingOf[request[r].operation] # Unset => decision = "once"
        BY <2>1, <2>2 DEF Decide, MayDecide
  <2>5. grant'[g].request = r /\ (decision = "once" => grant'[g].once)
    <3>1. GrantOf(r, decision).request = r
          BY DEF GrantOf
    <3>2. ASSUME decision = "once" PROVE GrantOf(r, decision).once
          BY <3>2 DEF GrantOf
    <3> QED BY <2>2, <3>1, <3>2
  <2> QED BY <2>3, <2>4, <2>5
<1> QED BY <1>1, <1>2

LEMMA StepDiffer == ApprovalTypeOK /\ Differ /\ [Next]_approvalVars => Differ'
<1> SUFFICES ASSUME ApprovalTypeOK, Differ, [Next]_approvalVars
             PROVE  Differ'
    OBVIOUS
<1>1. ASSUME NEW n \in DOMAIN admission
      PROVE  /\ admission[n].grant \in DOMAIN grant
             /\ grant'[admission[n].grant].once = grant[admission[n].grant].once
             /\ grant[admission[n].grant].spent => grant'[admission[n].grant].spent
      BY StepGrants DEF GrantsKept, ApprovalTypeOK
<1>2. CASE admission' = admission
      BY <1>1, <1>2 DEF Differ
<1>3. ASSUME NEW o \in Operations, NEW g \in DOMAIN grant, Passed(o, g)
      PROVE  Differ'
  <2> DEFINE last == Len(admission) + 1
  <2>1. /\ DOMAIN admission' = DOMAIN admission \cup {last}
        /\ last \notin DOMAIN admission
        /\ admission'[last].grant = g
        /\ \A n \in DOMAIN admission : admission'[n] = admission[n]
        /\ ~grant[g].spent
        /\ grant'[g].once = grant[g].once
        /\ grant'[g].once => grant'[g].spent
        BY <1>3, StepGrants DEF Passed, GrantsKept, ApprovalTypeOK
  <2>2. \A n \in DOMAIN admission : grant[g].once => admission[n].grant # g
        BY <1>1, <2>1 DEF Differ
  <2>3. \A n \in DOMAIN admission' :
          grant'[admission'[n].grant].once => grant'[admission'[n].grant].spent
        BY <1>1, <2>1 DEF Differ
  <2>4. ASSUME NEW m \in DOMAIN admission', NEW n \in DOMAIN admission', m # n,
               grant'[admission'[n].grant].once
        PROVE  admission'[m].grant # admission'[n].grant
    <3>1. CASE m # last /\ n # last
          BY <1>1, <2>1, <2>4, <3>1 DEF Differ
    <3>2. CASE m = last
          BY <1>1, <2>1, <2>2, <2>4, <3>2
    <3>3. CASE n = last
          BY <1>1, <2>1, <2>2, <2>4, <3>3
    <3> QED BY <3>1, <3>2, <3>3
  <2> QED BY <2>3, <2>4 DEF Differ
<1> QED BY <1>2, <1>3, StepAdmissions

LEMMA StepCovered ==
    AdmissionInv /\ [Next]_approvalVars => AdmittedWasApproved'
<1> SUFFICES ASSUME AdmissionInv, [Next]_approvalVars
             PROVE  AdmittedWasApproved'
    OBVIOUS
<1> USE DEF AdmissionInv
<1>1. \A r \in DOMAIN request, o \in Operations : Covers(r, o) => Covers(r, o)'
      BY StepRequests DEF Covers, Kept
<1>2. ASSUME NEW n \in DOMAIN admission
      PROVE  Covers(grant[admission[n].grant].request, admission[n].operation)'
             \/ admission'[n] # admission[n]
  <2>1. /\ admission[n] \in Admission
        /\ admission[n].grant \in DOMAIN grant
        /\ \A g \in DOMAIN grant : grant[g].request \in DOMAIN request
        BY DEF ApprovalTypeOK
  <2>2. admission[n].operation \in Operations
        BY <2>1 DEF Admission
  <2>3. \A g \in DOMAIN grant : grant'[g].request = grant[g].request
        BY StepGrants DEF GrantsKept
  <2>4. Covers(grant[admission[n].grant].request, admission[n].operation)
        BY DEF AdmittedWasApproved
  <2>5. PICK r \in DOMAIN request, o \in Operations :
          r = grant[admission[n].grant].request /\ o = admission[n].operation
        BY <2>1, <2>2
  <2>6. Covers(r, o)'
        BY <1>1, <2>4, <2>5
  <2>7. ASSUME admission'[n] = admission[n]
        PROVE  /\ grant'[admission'[n].grant].request = r
               /\ admission'[n].operation = o
        BY <2>1, <2>3, <2>5, <2>7
  <2> QED BY <2>6, <2>7 DEF Covers
<1>3. CASE admission' = admission
      BY <1>2, <1>3 DEF AdmittedWasApproved
<1>4. ASSUME NEW o \in Operations, NEW g \in DOMAIN grant, Passed(o, g)
      PROVE  AdmittedWasApproved'
  <2>1. grant[g] \in GrantRow /\ grant[g].request \in DOMAIN request
        BY DEF ApprovalTypeOK
  <2>2. Covers(grant[g].request, o)
        BY <1>4, <2>1 DEF Passed, Matches, Covers, GrantRow, Granted
  <2>3. grant'[g].request = grant[g].request
        BY StepGrants DEF GrantsKept
  <2>4. ASSUME NEW n \in DOMAIN admission'
        PROVE  Covers(grant[admission[n].grant].request, admission[n].operation)'
    <3>1. CASE n \in DOMAIN admission
          BY <1>2, <1>4, <3>1 DEF Passed
    <3>2. CASE n = Len(admission) + 1
      <4>1. /\ admission'[n].operation = o
            /\ admission'[n].grant = g
            BY <1>4, <3>2 DEF Passed
      <4> QED BY <1>1, <2>1, <2>2, <2>3, <4>1 DEF Covers
    <3> QED BY <1>4, <2>4, <3>1, <3>2 DEF Passed
  <2> QED BY <2>4 DEF AdmittedWasApproved
<1> QED BY <1>3, <1>4, StepAdmissions

LEMMA AdmissionHolds == Spec => []AdmissionInv
<1>1. Init => AdmissionInv
      BY InitTypes DEF Init, AdmissionInv, Granted, Differ, AdmittedWasApproved
<1>2. AdmissionInv /\ [Next]_approvalVars => AdmissionInv'
      BY StepTypes, StepGranted, StepDiffer, StepCovered DEF AdmissionInv
<1> QED BY <1>1, <1>2, PTL DEF Spec

\* Everything the gate let pass was approved: this action, for this owner,
\* with this binding, in a scope of it (consume_matching_approval_grant).
THEOREM CoveredTheorem == Spec => []AdmittedWasApproved
<1>1. AdmissionInv => AdmittedWasApproved
      BY DEF AdmissionInv
<1> QED BY <1>1, AdmissionHolds, PTL

\* The approval of an exact preview lets it pass once.
THEOREM OnceTheorem == Spec => []OnceIsOnce
<1>1. AdmissionInv => OnceIsOnce
  <2> SUFFICES ASSUME AdmissionInv, NEW m \in DOMAIN admission,
                      NEW n \in DOMAIN admission, m # n, Reviewed(n)
               PROVE  admission[m].grant # admission[n].grant
      BY DEF OnceIsOnce
  <2>1. admission[n].grant \in DOMAIN grant
        BY DEF AdmissionInv, ApprovalTypeOK
  <2>2. grant[admission[n].grant].once
        BY <2>1 DEF AdmissionInv, AdmittedWasApproved, Covers, Granted, Reviewed
  <2> QED BY <2>2 DEF AdmissionInv, Differ
<1> QED BY <1>1, AdmissionHolds, PTL

-----------------------------------------------------------------------------
(***************************************************************************)
(* Answers of adapters.                                                    *)
(***************************************************************************)
LEMMA StepAnswers ==
    ApprovalTypeOK /\ AllowedWasApproved /\ [Next]_approvalVars
      => AllowedWasApproved'
<1> SUFFICES ASSUME ApprovalTypeOK, AllowedWasApproved, [Next]_approvalVars,
                    NEW answer \in outcome', answer[2] = "allow"
             PROVE  request'[answer[1]].status = "approved"
    BY DEF AllowedWasApproved
<1>1. CASE answer \in outcome
  <2>1. answer[1] \in DOMAIN request /\ request[answer[1]].status = "approved"
        BY <1>1 DEF ApprovalTypeOK, AllowedWasApproved
  <2> QED BY <2>1, StepRequests DEF Kept
<1>2. CASE answer \notin outcome
  <2>1. PICK c \in Callers : Answer(c) \/ GiveUp(c)
        BY <1>2 DEF Next, approvalVars, Dispatch, DispatchGranted, DispatchAsking,
                    AskToSpawn, DispatcherDies, Call, GateAdmits, GateAsks,
                    GateRequests, FindRequest, RequestAndPoll, Decide,
                    RequestLate, GrantLate
  <2>2. CASE Answer(c)
        BY <1>2, <2>2 DEF Answer
  <2>3. CASE GiveUp(c)
        BY <1>2, <2>3 DEF GiveUp
  <2> QED BY <2>1, <2>2, <2>3
<1> QED BY <1>1, <1>2

\* What an adapter was told is what was decided, then and ever after.
THEOREM AllowedTheorem == Spec => []AllowedWasApproved
<1>1. Init => AllowedWasApproved
      BY DEF Init, AllowedWasApproved
<1> QED BY <1>1, StepAnswers, ApprovalTypes, PTL DEF Spec

-----------------------------------------------------------------------------
(***************************************************************************)
(* Jobs that wait for approval.  Stages: how far job and dispatcher are.   *)
(* Own: the one request of a job's start; it has no expiry.  Released      *)
(* jobs: what else is asked for a job is asked after its release.          *)
(***************************************************************************)
Stages ==
    \A j \in Jobs :
      /\ dispatch[j] = "resolving" => job[j] = "waiting_input"
      /\ dispatch[j] = "asking" => job[j] = "waiting_approval"

Own ==
    \A r \in DOMAIN request, j \in Jobs :
      request[r].operation = SpawnOf[j] =>
        /\ dispatch[j] = "done"
        /\ ~request[r].expires
        /\ \A s \in DOMAIN request : request[s].operation = SpawnOf[j] => s = r

InTime == \A r \in DOMAIN request : request[r].late => request[r].expires

AskedLater ==
    /\ \A r \in DOMAIN request :
         request[r].operation \in Gated => Possible(request[r].operation)
    /\ \A c \in Callers :
         At(c, "gated") \/ At(c, "found") =>
           task[c].operation \in Gated /\ Possible(task[c].operation)

SpawnInv ==
    /\ ApprovalTypeOK
    /\ Stages
    /\ Own
    /\ InTime
    /\ AskedLater
    /\ SpawnAnswered

\* A start belongs to one job; nothing else that is asked for is a start.
LEMMA Starts ==
    /\ \A j \in Jobs : /\ SpawnOf[j] \in Operations
                       /\ SpawnOf[j] \notin Gated
                       /\ ScopeOf[SpawnOf[j]].job = j
    /\ \A i, j \in Jobs : SpawnOf[i] = SpawnOf[j] => i = j
    /\ \A o \in Operations \ Gated : \E j \in Jobs : o = SpawnOf[j]
    /\ Gated \subseteq Operations
BY DEF Gated

\* Requests that a step adds, and statuses it changes.
StartAsked(r, j) ==
    AskToSpawn(j) /\ request'[r] = NewRow(SpawnOf[j], FALSE)

OtherAsked(r, c, expires) ==
    /\ At(c, "gated") \/ At(c, "found")
    /\ request'[r] = NewRow(task[c].operation, expires)
    /\ UNCHANGED <<job, dispatch>>

LEMMA StepNew ==
    ASSUME ApprovalTypeOK, [Next]_approvalVars,
           NEW r \in DOMAIN request' \ DOMAIN request
    PROVE  /\ r = Len(request) + 1
           /\ \/ \E j \in Jobs : StartAsked(r, j)
              \/ \E c \in Callers, expires \in BOOLEAN : OtherAsked(r, c, expires)
<1> DEFINE New == /\ r = Len(request) + 1
                  /\ \E c \in Callers, expires \in BOOLEAN :
                       OtherAsked(r, c, expires)
<1>1. request \in Seq(RequestRow) /\ DOMAIN Lapsed = DOMAIN request
      BY LapsedRows DEF ApprovalTypeOK
<1>2. request' # request /\ request' # Lapsed
      BY <1>1
<1>3. ASSUME NEW o \in Operations, NEW expires \in BOOLEAN, CreateRequest(o, expires)
      PROVE  r = Len(request) + 1 /\ request'[r] = NewRow(o, expires)
      BY <1>1, <1>3, Created
<1>4. ASSUME NEW j \in Jobs, Dispatch(j)
      PROVE  r = Len(request) + 1 /\ StartAsked(r, j)
  <2>1. AskToSpawn(j)
        BY <1>2, <1>4 DEF Dispatch, DispatchGranted, DispatchAsking, DispatcherDies
  <2> QED BY <1>3, <2>1, Starts DEF AskToSpawn, StartAsked
<1>5. ASSUME NEW c \in Callers, Call(c)
      PROVE  New
  <2>1. ASSUME NEW expires \in BOOLEAN, CreateRequest(task[c].operation, expires),
               At(c, "gated") \/ At(c, "found"), UNCHANGED <<job, dispatch>>
        PROVE  New
    <3>1. task[c].operation \in Operations
          BY <2>1 DEF ApprovalTypeOK, Task, At
    <3> QED BY <1>3, <2>1, <3>1 DEF OtherAsked
  <2>2. CASE GateRequests(c)
        BY <1>2, <2>1, <2>2 DEF GateRequests, ReuseRequest
  <2>3. CASE RequestAndPoll(c)
        BY <1>2, <2>1, <2>3 DEF RequestAndPoll, ReuseRequest
  <2> QED BY <1>2, <1>5, <2>2, <2>3
          DEF Call, GateAdmits, GateAsks, FindRequest, Answer, GiveUp
<1>6. ASSUME NEW s \in DOMAIN request, NEW decision \in Decisions, Decide(s, decision)
      PROVE  FALSE
      BY <1>6, Decided
<1>7. ASSUME NEW s \in DOMAIN request, RequestLate(s)
      PROVE  FALSE
      BY <1>1, <1>7 DEF RequestLate
<1> QED BY <1>2, <1>4, <1>5, <1>6, <1>7 DEF Next, approvalVars, GrantLate

LEMMA StepStatus ==
    ASSUME ApprovalTypeOK, [Next]_approvalVars, NEW r \in DOMAIN request
    PROVE  \/ request'[r].status = request[r].status
           \/ request[r].status = "pending" /\ request[r].late
           \/ \E decision \in Decisions : Decide(r, decision)
<1> DEFINE Same1 == request'[r].status = request[r].status
           Goal == \/ Same1
                   \/ request[r].status = "pending" /\ request[r].late
                   \/ \E decision \in Decisions : Decide(r, decision)
<1>1. request \in Seq(RequestRow)
      BY DEF ApprovalTypeOK
<1>2. request' = request => Goal
      OBVIOUS
<1>3. request' = Lapsed => Goal
      BY <1>1, LapsedRows
<1>4. ASSUME NEW o \in Operations, NEW expires \in BOOLEAN, CreateRequest(o, expires)
      PROVE  Goal
      BY <1>1, <1>4, Created
<1>5. ASSUME NEW j \in Jobs, Dispatch(j)
      PROVE  Goal
      BY <1>2, <1>4, <1>5, Starts
      DEF Dispatch, DispatchGranted, DispatchAsking, AskToSpawn, DispatcherDies
<1>6. ASSUME NEW c \in Callers, Call(c)
      PROVE  Goal
  <2>1. At(c, "gated") \/ At(c, "found") => task[c].operation \in Operations
        BY DEF ApprovalTypeOK, Task, At
  <2>2. CASE GateRequests(c)
        BY <1>3, <1>4, <2>1, <2>2 DEF GateRequests, ReuseRequest
  <2>3. CASE RequestAndPoll(c)
        BY <1>3, <1>4, <2>1, <2>3 DEF RequestAndPoll, ReuseRequest
  <2> QED BY <1>2, <1>3, <1>6, <2>2, <2>3
          DEF Call, GateAdmits, GateAsks, FindRequest, Answer, GiveUp
<1>7. ASSUME NEW s \in DOMAIN request, NEW decision \in Decisions, Decide(s, decision)
      PROVE  Goal
      BY <1>7, Decided
<1>8. ASSUME NEW s \in DOMAIN request, RequestLate(s)
      PROVE  Goal
  <2>1. request[s] \in RequestRow
        BY <1>1
  <2> QED BY <1>8, <2>1 DEF RequestLate, RequestRow
<1> QED BY <1>2, <1>5, <1>6, <1>7, <1>8 DEF Next, approvalVars, GrantLate

\* A job moves with its own dispatcher or with the decision on its request.
Settled(j, r, decision) ==
    /\ Decide(r, decision)
    /\ request[r].operation = SpawnOf[j]
    /\ job[j] = "waiting_approval"
    /\ job'[j] = IF decision = "deny" THEN "canceled" ELSE "queued"
    /\ dispatch'[j] = dispatch[j]

LEMMA StepJobs ==
    ASSUME SpawnInv, [Next]_approvalVars, NEW j \in Jobs
    PROVE  \/ job'[j] = job[j] /\ dispatch'[j] = dispatch[j]
           \/ Dispatch(j)
           \/ \E r \in DOMAIN request, decision \in Decisions :
                Settled(j, r, decision)
<1>1. ASSUME NEW i \in Jobs, Dispatch(i), i # j
      PROVE  job'[j] = job[j] /\ dispatch'[j] = dispatch[j]
      BY <1>1 DEF SpawnInv, ApprovalTypeOK, Dispatch, DispatchGranted,
                  DispatchAsking, AskToSpawn, DispatcherDies
<1>2. ASSUME NEW c \in Callers, Call(c)
      PROVE  UNCHANGED <<job, dispatch>>
      BY <1>2 DEF Call, GateAdmits, GateAsks, GateRequests, FindRequest,
                  RequestAndPoll, Answer, GiveUp
<1>3. ASSUME NEW r \in DOMAIN request, NEW decision \in Decisions, Decide(r, decision)
      PROVE  \/ job'[j] = job[j] /\ dispatch'[j] = dispatch[j]
             \/ Settled(j, r, decision)
  <2> DEFINE o == request[r].operation
  <2>1. CASE j \in Released(o)
    <3>1. /\ ScopeOf[o].job = j
          /\ job[j] = "waiting_approval"
          /\ job'[j] = IF decision = "deny" THEN "canceled" ELSE "queued"
          /\ dispatch' = dispatch
          BY <1>3, <2>1 DEF Released, Decide
    <3>2. o \in Operations
      <4>1. request[r] \in RequestRow
            BY DEF SpawnInv, ApprovalTypeOK
      <4> QED BY <4>1 DEF RequestRow
    <3>3. o \notin Gated
          BY <3>1 DEF SpawnInv, AskedLater, Possible
    <3>4. o = SpawnOf[j]
          BY <3>1, <3>2, <3>3, Starts
    <3> QED BY <1>3, <3>1, <3>4 DEF Settled
  <2>2. CASE j \notin Released(o)
        BY <1>3, <2>2 DEF Decide
  <2> QED BY <2>1, <2>2
<1> QED BY <1>1, <1>2, <1>3 DEF Next, approvalVars, RequestLate, GrantLate

\* Who comes to ask has an operation that can be asked for.
LEMMA StepTask ==
    ASSUME ApprovalTypeOK, [Next]_approvalVars, NEW c \in Callers,
           task'[c] # task[c], task'[c].pc \in {"gated", "found"}
    PROVE  \E o \in Gated :
             /\ Possible(o)
             /\ \/ Goto(c, [pc |-> "gated", operation |-> o])
                \/ Goto(c, [pc |-> "found", operation |-> o])
<1>1. ASSUME NEW d \in Callers, NEW next, Goto(d, next)
      PROVE  d = c /\ next.pc \in {"gated", "found"}
      BY <1>1 DEF Goto, ApprovalTypeOK
<1>2. PICK d \in Callers : Call(d)
      BY DEF Next, approvalVars, Dispatch, DispatchGranted, DispatchAsking,
             AskToSpawn, DispatcherDies, Decide, RequestLate, GrantLate
<1>3. ASSUME NEW o \in Gated \ Polled, GateAsks(d, o)
      PROVE  Possible(o) /\ d = c /\ Goto(d, [pc |-> "gated", operation |-> o])
      BY <1>1, <1>3 DEF GateAsks
<1>4. ASSUME NEW o \in Polled, FindRequest(d, o)
      PROVE  Possible(o) /\ d = c /\ Goto(d, [pc |-> "found", operation |-> o])
  <2>1. \A r \in Known(o) : ~Goto(d, [pc |-> "polling", request |-> r])
        BY <1>1
  <2> QED BY <1>1, <1>4, <2>1 DEF FindRequest
<1>5. ~GateRequests(d) /\ ~RequestAndPoll(d) /\ ~Answer(d) /\ ~GiveUp(d)
  <2>1. ~Goto(d, [pc |-> "idle"])
        BY <1>1
  <2>2. \A r : ~Goto(d, [pc |-> "polling", request |-> r])
        BY <1>1
  <2> QED BY <2>1, <2>2 DEF GateRequests, RequestAndPoll, Answer, GiveUp
<1>6. \A o \in Gated : ~GateAdmits(d, o)
      BY DEF GateAdmits
<1>7. Polled \subseteq Gated
      BY DEF Gated
<1> QED BY <1>2, <1>3, <1>4, <1>5, <1>6, <1>7 DEF Call

LEMMA StepStages ==
    SpawnInv /\ [Next]_approvalVars => Stages' /\ InTime'
<1> SUFFICES ASSUME SpawnInv, [Next]_approvalVars
             PROVE  Stages' /\ InTime'
    OBVIOUS
<1>1. ASSUME NEW j \in Jobs
      PROVE  /\ dispatch'[j] = "resolving" => job'[j] = "waiting_input"
             /\ dispatch'[j] = "asking" => job'[j] = "waiting_approval"
  <2>1. CASE Dispatch(j)
        BY <2>1 DEF SpawnInv, Stages, ApprovalTypeOK, Dispatch, DispatchGranted,
                    DispatchAsking, AskToSpawn, DispatcherDies
  <2>2. CASE job'[j] = job[j] /\ dispatch'[j] = dispatch[j]
        BY <2>2 DEF SpawnInv, Stages
  <2>3. ASSUME NEW r \in DOMAIN request, NEW decision \in Decisions,
               Settled(j, r, decision)
        PROVE  dispatch'[j] = "done"
        BY <2>3 DEF SpawnInv, Own, Settled
  <2> QED BY <2>1, <2>2, <2>3, StepJobs
<1>2. ASSUME NEW r \in DOMAIN request', request'[r].late
      PROVE  request'[r].expires
  <2>1. CASE r \in DOMAIN request
        BY <1>2, <2>1, StepRequests DEF Kept, SpawnInv, InTime
  <2>2. CASE r \notin DOMAIN request
    <3>1. ASSUME NEW j \in Jobs, StartAsked(r, j) PROVE FALSE
          BY <1>2, <3>1 DEF StartAsked, NewRow
    <3>2. ASSUME NEW c \in Callers, NEW expires \in BOOLEAN, OtherAsked(r, c, expires)
          PROVE  FALSE
          BY <1>2, <3>2 DEF OtherAsked, NewRow
    <3> QED BY <2>2, <3>1, <3>2, StepNew DEF SpawnInv
  <2> QED BY <2>1, <2>2
<1> QED BY <1>1, <1>2 DEF Stages, InTime

LEMMA StepOwn == SpawnInv /\ [Next]_approvalVars => Own'
<1> SUFFICES ASSUME SpawnInv, [Next]_approvalVars, NEW j \in Jobs,
                    NEW r \in DOMAIN request', request'[r].operation = SpawnOf[j]
             PROVE  /\ dispatch'[j] = "done"
                    /\ ~request'[r].expires
                    /\ \A s \in DOMAIN request' :
                         request'[s].operation = SpawnOf[j] => s = r
    BY DEF Own
<1>1. \A s \in DOMAIN request :
        /\ request'[s].operation = request[s].operation
        /\ request'[s].expires = request[s].expires
      BY StepRequests DEF Kept, SpawnInv
<1>2. ASSUME NEW s \in DOMAIN request' \ DOMAIN request,
             request'[s].operation = SpawnOf[j]
      PROVE  /\ s = Len(request) + 1
             /\ dispatch[j] = "asking"
             /\ dispatch'[j] = "done"
             /\ ~request'[s].expires
  <2>1. ASSUME NEW c \in Callers, NEW expires \in BOOLEAN, OtherAsked(s, c, expires)
        PROVE  FALSE
    <3>1. request'[s].operation = task[c].operation
          BY <2>1 DEF OtherAsked, NewRow
    <3>2. task[c].operation \in Gated
          BY <2>1 DEF OtherAsked, SpawnInv, AskedLater
    <3> QED BY <1>2, <3>1, <3>2, Starts
  <2>2. ASSUME NEW i \in Jobs, StartAsked(s, i)
        PROVE  /\ dispatch[j] = "asking"
               /\ dispatch'[j] = "done"
               /\ ~request'[s].expires
    <3>1. request'[s].operation = SpawnOf[i] /\ ~request'[s].expires
          BY <2>2 DEF StartAsked, NewRow
    <3>2. i = j
          BY <1>2, <3>1, Starts
    <3> QED BY <2>2, <3>1, <3>2 DEF StartAsked, AskToSpawn, SpawnInv, ApprovalTypeOK
  <2> QED BY <1>2, <2>1, <2>2, StepNew DEF SpawnInv
<1>3. CASE r \in DOMAIN request
  <2>1. /\ dispatch[j] = "done"
        /\ ~request[r].expires
        /\ \A s \in DOMAIN request : request[s].operation = SpawnOf[j] => s = r
        BY <1>1, <1>3 DEF SpawnInv, Own
  <2>2. ~Dispatch(j)
        BY <2>1 DEF Dispatch, DispatchGranted, DispatchAsking, AskToSpawn,
                    DispatcherDies
  <2>3. dispatch'[j] = "done"
        BY <2>1, <2>2, StepJobs DEF Settled
  <2> QED BY <1>1, <1>2, <1>3, <2>1, <2>3
<1>4. CASE r \notin DOMAIN request
  <2>1. \A s \in DOMAIN request : request'[s].operation # SpawnOf[j]
        BY <1>1, <1>2, <1>4 DEF SpawnInv, Own
  <2> QED BY <1>2, <1>4, <2>1
<1> QED BY <1>3, <1>4

LEMMA StepLater == SpawnInv /\ [Next]_approvalVars => AskedLater'
<1> SUFFICES ASSUME SpawnInv, [Next]_approvalVars
             PROVE  AskedLater'
    OBVIOUS
<1>1. ASSUME NEW o, Possible(o)
      PROVE  Possible(o)'
  <2>1. ASSUME NEW j \in Jobs, job[j] = "queued"
        PROVE  job'[j] = "queued"
    <3>1. dispatch[j] \notin {"resolving", "asking"}
          BY <2>1 DEF SpawnInv, Stages
    <3>2. ~(Dispatch(j) /\ job'[j] # job[j])
          BY <3>1 DEF Dispatch, DispatchGranted, DispatchAsking, AskToSpawn,
                      DispatcherDies
    <3> QED BY <2>1, <3>2, StepJobs DEF Settled
  <2> QED BY <1>1, <2>1 DEF Possible
<1>2. ASSUME NEW r \in DOMAIN request', request'[r].operation \in Gated
      PROVE  Possible(request[r].operation)'
  <2>1. CASE r \in DOMAIN request
    <3>1. request'[r].operation = request[r].operation
          BY <2>1, StepRequests DEF Kept, SpawnInv
    <3>2. Possible(request[r].operation)
          BY <1>2, <2>1, <3>1 DEF SpawnInv, AskedLater
    <3> QED BY <1>1, <3>1, <3>2 DEF Possible
  <2>2. CASE r \notin DOMAIN request
    <3>1. \A j \in Jobs : ~StartAsked(r, j)
          BY <1>2, Starts DEF StartAsked, NewRow
    <3>2. PICK c \in Callers, expires \in BOOLEAN : OtherAsked(r, c, expires)
          BY <2>2, <3>1, StepNew DEF SpawnInv
    <3>3. Possible(task[c].operation)
          BY <3>2 DEF SpawnInv, AskedLater, OtherAsked
    <3>4. request'[r].operation = task[c].operation
          BY <3>2 DEF OtherAsked, NewRow
    <3> QED BY <1>1, <3>3, <3>4 DEF Possible
  <2> QED BY <2>1, <2>2
<1>3. ASSUME NEW c \in Callers, At(c, "gated")' \/ At(c, "found")'
      PROVE  (task[c].operation \in Gated /\ Possible(task[c].operation))'
  <2>1. CASE task'[c] = task[c]
    <3>1. task[c].operation \in Gated /\ Possible(task[c].operation)
          BY <1>3, <2>1 DEF SpawnInv, AskedLater, At
    <3> QED BY <1>1, <2>1, <3>1 DEF Possible
  <2>2. CASE task'[c] # task[c]
    <3>1. PICK o \in Gated : /\ Possible(o)
                             /\ \/ Goto(c, [pc |-> "gated", operation |-> o])
                                \/ Goto(c, [pc |-> "found", operation |-> o])
          BY <1>3, <2>2, StepTask DEF SpawnInv, At
    <3>2. task'[c].operation = o
          BY <3>1 DEF Goto, SpawnInv, ApprovalTypeOK
    <3> QED BY <1>1, <3>1, <3>2 DEF Possible
  <2> QED BY <2>1, <2>2
<1> QED BY <1>2, <1>3 DEF AskedLater

LEMMA StepAnswered == SpawnInv /\ [Next]_approvalVars => SpawnAnswered'
<1> SUFFICES ASSUME SpawnInv, [Next]_approvalVars, NEW j \in Jobs
             PROVE  /\ job'[j] = "waiting_approval" /\ dispatch'[j] \notin {"asking", "dead"} =>
                         \E r \in DOMAIN request' :
                           /\ request'[r].operation = SpawnOf[j]
                           /\ request'[r].status = "pending"
                           /\ ~request'[r].expires
                    /\ \A r \in DOMAIN request' :
                         /\ request'[r].operation = SpawnOf[j]
                         /\ request'[r].status = "pending"
                         => job'[j] = "waiting_approval"
                    /\ job'[j] = "canceled" =>
                         \E r \in DOMAIN request' :
                           /\ request'[r].operation = SpawnOf[j]
                           /\ request'[r].status = "denied"
                    /\ job'[j] = "queued" =>
                         \/ \E r \in DOMAIN request' :
                              /\ request'[r].operation = SpawnOf[j]
                              /\ request'[r].status = "approved"
                         \/ \E n \in DOMAIN admission' :
                              admission'[n].operation = SpawnOf[j]
    BY DEF SpawnAnswered
<1> DEFINE Mine(r) == request[r].operation = SpawnOf[j]
<1>1. /\ DOMAIN request \subseteq DOMAIN request'
      /\ \A r \in DOMAIN request :
           /\ request'[r].operation = request[r].operation
           /\ request'[r].expires = request[r].expires
           /\ request[r].status # "pending" => request'[r].status = request[r].status
      BY StepRequests DEF Kept, SpawnInv
<1>2. /\ DOMAIN admission \subseteq DOMAIN admission'
      /\ \A n \in DOMAIN admission : admission'[n] = admission[n]
  <2>1. ASSUME NEW o \in Operations, NEW g \in DOMAIN grant, Passed(o, g)
        PROVE  /\ DOMAIN admission \subseteq DOMAIN admission'
               /\ \A n \in DOMAIN admission : admission'[n] = admission[n]
        BY <2>1 DEF Passed
  <2> QED BY <2>1, StepAdmissions DEF SpawnInv
<1>3. /\ job[j] = "waiting_approval" /\ dispatch[j] \notin {"asking", "dead"} =>
           \E r \in DOMAIN request :
             Mine(r) /\ request[r].status = "pending" /\ ~request[r].expires
      /\ \A r \in DOMAIN request :
           Mine(r) /\ request[r].status = "pending" => job[j] = "waiting_approval"
      /\ job[j] = "canceled" =>
           \E r \in DOMAIN request : Mine(r) /\ request[r].status = "denied"
      /\ job[j] = "queued" =>
           \/ \E r \in DOMAIN request : Mine(r) /\ request[r].status = "approved"
           \/ \E n \in DOMAIN admission : admission[n].operation = SpawnOf[j]
      BY DEF SpawnInv, SpawnAnswered
<1>4. ASSUME NEW r \in DOMAIN request, NEW decision \in Decisions,
             Decide(r, decision), Mine(r)
      PROVE  Settled(j, r, decision)
  <2>1. request[r].status = "pending"
        BY <1>4, Decided DEF SpawnInv
  <2>2. job[j] = "waiting_approval"
        BY <1>3, <1>4, <2>1
  <2>3. j \in Released(request[r].operation)
        BY <1>4, <2>2, Starts DEF Released
  <2> QED BY <1>4, <2>2, <2>3 DEF Decide, Settled
<1>5. CASE /\ job'[j] = job[j]
           /\ dispatch'[j] = dispatch[j]
           /\ \A r \in DOMAIN request' \ DOMAIN request :
                request'[r].operation # SpawnOf[j]
  <2>1. ASSUME NEW r \in DOMAIN request, Mine(r), ~request[r].expires
        PROVE  request'[r].status = request[r].status
    <3>1. ~request[r].late
          BY <2>1 DEF SpawnInv, InTime
    <3>2. \A decision \in Decisions : ~Settled(j, r, decision)
          BY <1>5 DEF Settled
    <3> QED BY <1>4, <2>1, <3>1, <3>2, StepStatus DEF SpawnInv
  <2>2. ASSUME NEW r \in DOMAIN request, Mine(r)
        PROVE  ~request[r].expires
        BY <2>2 DEF SpawnInv, Own
  <2> QED BY <1>1, <1>2, <1>3, <1>5, <2>1, <2>2
<1>6. ASSUME NEW r \in DOMAIN request, NEW decision \in Decisions,
             Settled(j, r, decision)
      PROVE  /\ job'[j] \in {"canceled", "queued"}
             /\ request'[r].status = IF job'[j] = "canceled" THEN "denied" ELSE "approved"
             /\ \A s \in DOMAIN request' :
                  request'[s].operation = SpawnOf[j] => s = r
  <2>1. request'[r].status = IF decision = "deny" THEN "denied" ELSE "approved"
        BY <1>6, Decided DEF Settled, SpawnInv
  <2>2. DOMAIN request' = DOMAIN request
        BY <1>6, Decided DEF Settled, SpawnInv
  <2>3. \A s \in DOMAIN request' : request'[s].operation = SpawnOf[j] => s = r
        BY <1>1, <1>6, <2>2 DEF Settled, SpawnInv, Own
  <2> QED BY <1>6, <2>1, <2>3 DEF Settled
<1>7. CASE \E r \in DOMAIN request, decision \in Decisions : Settled(j, r, decision)
  <2>1. PICK r \in DOMAIN request, decision \in Decisions : Settled(j, r, decision)
        BY <1>7
  <2>2. r \in DOMAIN request' /\ request'[r].operation = SpawnOf[j]
        BY <1>1, <2>1 DEF Settled
  <2> QED BY <1>6, <2>1, <2>2
<1>8. CASE Dispatch(j)
  <2>1. CASE DispatchGranted(j)
    <3>1. /\ job'[j] = "queued" /\ dispatch[j] = "resolving" /\ request' = request
          BY <2>1 DEF DispatchGranted, SpawnInv, ApprovalTypeOK
    <3>2. \E n \in DOMAIN admission' : admission'[n].operation = SpawnOf[j]
      <4>1. /\ Consume(SpawnOf[j]) /\ SpawnOf[j] \in Operations
            /\ ApprovalTypeOK
            BY <2>1, Starts DEF DispatchGranted, SpawnInv
      <4>2. \E g \in DOMAIN grant :
              admission'[Len(admission) + 1] = [operation |-> SpawnOf[j], grant |-> g]
            BY <4>1, ConsumeGrants
      <4>3. Len(admission) + 1 \in DOMAIN admission'
            BY <4>1, ConsumeGrants
      <4> QED BY <4>2, <4>3
    <3>3. \A r \in DOMAIN request : ~Mine(r)
          BY <3>1 DEF SpawnInv, Own
    <3> QED BY <3>1, <3>2, <3>3
  <2>2. CASE DispatchAsking(j)
    <3>1. job'[j] = "waiting_approval" /\ dispatch'[j] = "asking"
          BY <2>2 DEF DispatchAsking, SpawnInv, ApprovalTypeOK
    <3> QED BY <3>1
  <2>3. CASE AskToSpawn(j)
    <3>1. /\ job'[j] = "waiting_approval"
          BY <2>3 DEF AskToSpawn, SpawnInv, Stages
    <3>2. /\ Len(request) + 1 \in DOMAIN request'
          /\ request'[Len(request) + 1] = NewRow(SpawnOf[j], FALSE)
          BY <2>3, Created, Starts DEF AskToSpawn, SpawnInv, ApprovalTypeOK
    <3> QED BY <3>1, <3>2 DEF NewRow
  <2>4. CASE DispatcherDies(j)
    <3>1. /\ dispatch'[j] = "dead"
          /\ UNCHANGED <<job, request, admission>>
          BY <2>4 DEF DispatcherDies, SpawnInv, ApprovalTypeOK
    <3> QED BY <1>3, <3>1
  <2> QED BY <1>8, <2>1, <2>2, <2>3, <2>4 DEF Dispatch
<1>9. CASE /\ job'[j] = job[j]
           /\ dispatch'[j] = dispatch[j]
           /\ ~Dispatch(j)
  <2>1. ASSUME NEW r \in DOMAIN request' \ DOMAIN request
        PROVE  request'[r].operation # SpawnOf[j]
    <3>1. ASSUME NEW i \in Jobs, StartAsked(r, i)
          PROVE  request'[r].operation # SpawnOf[j]
      <4>1. i # j
            BY <1>9, <3>1 DEF StartAsked, Dispatch
      <4>2. request'[r].operation = SpawnOf[i]
            BY <3>1 DEF StartAsked, NewRow
      <4> QED BY <4>1, <4>2, Starts
    <3>2. ASSUME NEW c \in Callers, NEW expires \in BOOLEAN, OtherAsked(r, c, expires)
          PROVE  request'[r].operation # SpawnOf[j]
      <4>1. request'[r].operation \in Gated
            BY <3>2 DEF OtherAsked, NewRow, SpawnInv, AskedLater
      <4> QED BY <4>1, Starts
    <3> QED BY <3>1, <3>2, StepNew DEF SpawnInv
  <2> QED BY <1>5, <1>9, <2>1
<1> QED BY <1>7, <1>8, <1>9, StepJobs

\* No job is left waiting for an answer that nobody can give, whatever is
\* decided, expires or is asked meanwhile; and it starts only on an approval.
THEOREM SpawnTheorem == Spec => []SpawnAnswered
<1>1. Init => SpawnInv
      BY InitTypes DEF Init, SpawnInv, Stages, Own, InTime, AskedLater,
                       SpawnAnswered, At
<1>2. SpawnInv /\ [Next]_approvalVars => SpawnInv'
      BY StepTypes, StepStages, StepOwn, StepLater, StepAnswered DEF SpawnInv
<1>3. SpawnInv => SpawnAnswered
      BY DEF SpawnInv
<1> QED BY <1>1, <1>2, <1>3, PTL DEF Spec
=============================================================================
