--------------------------- MODULE WorkflowProofs ---------------------------
(***************************************************************************)
(* What a workflow run is for, for any graph of steps, any number of calls *)
(* of cancel(), crashes and jobs that come back from their end.            *)
(***************************************************************************)
EXTENDS WorkflowProperties, FiniteSetTheorems, SequenceTheorems, TLAPS

USE CountAssumption, KindAssumption, GraphAssumption, ConditionAssumption,
    LimitAssumption

-----------------------------------------------------------------------------
(***************************************************************************)
(* The two processes: what each kind of statement leaves in their records. *)
(***************************************************************************)
A == proc["advance"]
C == proc["cancel"]

ProcOK == proc \in [{"advance", "cancel"} -> Process]

PCs == {"free", "listing", "syncing", "starting", "submitted", "recording",
        "concluding", "asking", "marking"}
Texts == StepStatus \cup RunStatus

Unread == [s \in Steps |-> "pending"]

\* The next record of p; the other process stays.
Moves(p, pc, stop, view, at, status, number) ==
    /\ ProcOK'
    /\ \A q \in {"advance", "cancel"} \ {p} : proc'[q] = proc[q]
    /\ proc'[p].pc = pc /\ proc'[p].stop = stop /\ proc'[p].view = view
    /\ proc'[p].at = at /\ proc'[p].status = status /\ proc'[p].ref = number

LEMMA FreeOK ==
    /\ Free \in Process /\ Free.pc = "free" /\ Free.stop = FALSE
    /\ Free.view = Unread
    /\ Free.at = 1 /\ Free.status = "pending" /\ Free.ref = 0
<1>1. [s \in Steps |-> "pending"] \in View /\ "pending" \in Texts
    BY DEF View, StepStatus, Texts
<1>2. Free.pc \in PCs
    BY DEF Free, PCs
<1>3. FALSE \in BOOLEAN
    OBVIOUS
<1>4. Free \in [pc : PCs, stop : BOOLEAN, view : View, at : Nat,
                status : Texts, ref : Nat]
    BY <1>1, <1>3, Zenon DEF Free, PCs
<1> QED BY <1>4 DEF Free, Process, PCs, Texts, Unread

LEMMA Gone ==
    ASSUME ProcOK, NEW p \in {"advance", "cancel"}, Leave(p)
    PROVE  Moves(p, "free", FALSE, Unread, 1, "pending", 0)
BY FreeOK DEF ProcOK, Moves, Leave

LEMMA Went ==
    ASSUME ProcOK, NEW p \in {"advance", "cancel"}, NEW pc \in PCs, Go(p, pc)
    PROVE  Moves(p, pc, proc[p].stop, proc[p].view, 1, proc[p].status, proc[p].ref)
<1>1. proc[p] \in Process
    BY DEF ProcOK
<1> QED BY <1>1 DEF ProcOK, Moves, Go, Process, PCs

LEMMA Wrote ==
    ASSUME ProcOK, NEW p \in {"advance", "cancel"}, NEW s \in Steps,
           NEW status \in StepStatus, WriteStep(p, s, status)
    PROVE  Moves(p, proc[p].pc, proc[p].stop, [proc[p].view EXCEPT ![s] = status],
                 s + 1, proc[p].status, proc[p].ref)
<1>1. proc[p] \in Process /\ s + 1 \in Nat
    BY DEF ProcOK, Steps
<1>2. [proc[p].view EXCEPT ![s] = status] \in View
    BY <1>1 DEF Process, View
<1> QED BY <1>1, <1>2 DEF ProcOK, Moves, WriteStep, Process, PCs

LEMMA Noted ==
    ASSUME ProcOK, NEW s \in Steps, NEW status \in StepStatus, NEW number \in Nat,
           ToRecord(s, status, number)
    PROVE  Moves("advance", "recording", A.stop, A.view, s, status, number)
<1>1. proc["advance"] \in Process /\ s \in Nat
    BY DEF ProcOK, Steps
<1> QED BY <1>1 DEF ProcOK, Moves, ToRecord, Process, A

ListDone(p) ==
    /\ proc[p].pc = "listing"
    /\ Moves(p, IF p = "advance" THEN "syncing" ELSE "asking", proc[p].stop,
             step, proc[p].at, proc[p].status, proc[p].ref)
    /\ UNCHANGED <<rowVars, workVars, due, cancels, mishaps>>

LEMMA Listed ==
    ASSUME ProcOK, step \in View, NEW p \in {"advance", "cancel"}, List(p)
    PROVE  ListDone(p)
<1>1. proc[p] \in Process
    BY DEF ProcOK
<1> QED BY <1>1 DEF ProcOK, Moves, List, Process, ListDone, At

RunOK == run \in [status : RunStatus, cancel : BOOLEAN]

EnterDone ==
    /\ A.pc = "free" /\ due' = FALSE
    /\ UNCHANGED <<rowVars, workVars, cancels, mishaps>>
    /\ \/ proc' = proc
       \/ /\ run.status \notin EndedRun
          /\ Moves("advance", "listing", run.cancel, A.view, A.at,
                   A.status, A.ref)

LEMMA Entered ==
    ASSUME ProcOK, RunOK, Enter
    PROVE  EnterDone
<1>1. proc["advance"] \in Process /\ run.cancel \in BOOLEAN
    BY Zenon DEF ProcOK, RunOK
<1>2. CASE run.status \in EndedRun
    BY <1>2 DEF Enter, At, A, EnterDone
<1>3. CASE run.status \notin EndedRun
  <2>1. proc' = [proc EXCEPT !["advance"].pc = "listing", !["advance"].stop = run.cancel]
      BY <1>3 DEF Enter
  <2>2. ASSUME NEW x \in BOOLEAN,
               proc' = [proc EXCEPT !["advance"].pc = "listing", !["advance"].stop = x]
        PROVE  Moves("advance", "listing", x, A.view, A.at, A.status, A.ref)
      BY <1>1, <2>2 DEF A, ProcOK, Moves, Process
  <2>3. Moves("advance", "listing", run.cancel, A.view, A.at, A.status, A.ref)
      BY <1>1, <2>1, <2>2
  <2> QED BY <1>3, <2>3 DEF Enter, At, A, EnterDone
<1> QED BY <1>2, <1>3 DEF EnterDone

LEMMA Passed ==
    ASSUME ProcOK, NEW at \in Nat, proc' = [proc EXCEPT !["advance"].at = at]
    PROVE  Moves("advance", A.pc, A.stop, A.view, at, A.status, A.ref)
<1>1. proc["advance"] \in Process
    BY DEF ProcOK
<1> QED BY <1>1 DEF A, ProcOK, Moves, Process

LEMMA Submitted ==
    ASSUME ProcOK, NEW s \in Steps,
           proc' = [proc EXCEPT !["advance"].pc = "submitted", !["advance"].at = s]
    PROVE  Moves("advance", "submitted", A.stop, A.view, s, A.status, A.ref)
<1>1. proc["advance"] \in Process /\ s \in Nat
    BY DEF ProcOK, Steps
<1> QED BY <1>1 DEF A, ProcOK, Moves, Process

LEMMA FreeIn ==
    ASSUME ProcOK, NEW pc \in PCs, NEW at \in Nat, NEW view \in View,
           proc' = [proc EXCEPT !["advance"] =
                      [Free EXCEPT !.pc = pc, !.at = at, !.view = view]]
    PROVE  Moves("advance", pc, FALSE, view, at, "pending", 0)
<1> DEFINE r == [Free EXCEPT !.pc = pc, !.at = at, !.view = view]
<1>1. Free \in Process
    BY FreeOK
<1>2. r \in Process
    BY <1>1 DEF Process, PCs
<1>3. /\ r.pc = pc /\ r.at = at /\ r.view = view /\ r.stop = FALSE
      /\ r.status = "pending" /\ r.ref = 0
    BY <1>1, FreeOK DEF Process
<1> HIDE DEF r
<1>4. proc' = [proc EXCEPT !["advance"] = r]
    BY DEF r
<1> QED BY <1>2, <1>3, <1>4 DEF ProcOK, Moves

LEMMA FreeWith ==
    ASSUME ProcOK, NEW pc \in PCs, NEW status \in Texts,
           proc' = [proc EXCEPT !["advance"] = [Free EXCEPT !.pc = pc, !.status = status]]
    PROVE  Moves("advance", pc, FALSE, Unread, 1, status, 0)
<1> DEFINE r == [Free EXCEPT !.pc = pc, !.status = status]
<1>1. Free \in Process
    BY FreeOK
<1>2. r \in Process
    BY <1>1 DEF Process, PCs, Texts
<1>3. /\ r.pc = pc /\ r.at = 1 /\ r.view = Unread
      /\ r.stop = FALSE /\ r.status = status /\ r.ref = 0
    BY <1>1, FreeOK DEF Process
<1> HIDE DEF r
<1>4. proc' = [proc EXCEPT !["advance"] = r]
    BY DEF r
<1> QED BY <1>2, <1>3, <1>4 DEF ProcOK, Moves

-----------------------------------------------------------------------------
(***************************************************************************)
(* The child jobs.  Only SubmitChild makes one; an ended one stays as it   *)
(* ended unless it is brought back; a request to cancel stays until then.  *)
(***************************************************************************)
JobsOK ==
    /\ ChildTypeOK
    /\ \A j \in Jobs : child[j].status = "none" => ~child[j].ran

JobsGoOn(new) ==
    /\ JobsOK' /\ revived \subseteq revived' /\ revived' \subseteq Jobs
    /\ mishaps' = mishaps => revived' = revived
    /\ \A j \in Jobs : child[j].status # "none" => child'[j].status # "none"
    /\ \A j \in Jobs \ new : child[j].status = "none" => child'[j].status = "none"
    /\ \A j \in Jobs \ revived' :
         child[j].status \in Ended => child'[j].status = child[j].status
    /\ \A j \in Jobs \ revived' :
         Active(j) /\ child[j].cancel => child'[j].cancel

LEMMA JobRow ==
    ASSUME ChildTypeOK, NEW j \in Jobs
    PROVE  /\ child[j] \in Child /\ child[j].status \in ChildStatus
           /\ child[j].cancel \in BOOLEAN /\ child[j].ran \in BOOLEAN
BY Zenon DEF ChildTypeOK, Child

LEMMA JobBecomes ==
    ASSUME ChildTypeOK, NEW j \in Jobs, NEW status \in ChildStatus, Become(j, status)
    PROVE  /\ ChildTypeOK' /\ child'[j].status = status
           /\ child'[j].cancel = child[j].cancel
           /\ \A q \in Jobs \ {j} : child'[q] = child[q]
<1>1. child[j] \in Child
    BY JobRow
<1>2. [child[j] EXCEPT !.status = status] \in Child
    BY <1>1 DEF Child
<1>3. child' = [child EXCEPT ![j] = [child[j] EXCEPT !.status = status]]
    BY DEF Become
<1> QED BY <1>1, <1>2, <1>3 DEF ChildTypeOK, Child

LEMMA JobReset ==
    ASSUME ChildTypeOK, NEW j \in Jobs, NEW status \in ChildStatus,
           child' = [child EXCEPT ![j] = [status |-> status, cancel |-> FALSE,
                                          ran |-> TRUE]]
    PROVE  /\ ChildTypeOK' /\ child'[j].status = status
           /\ \A q \in Jobs \ {j} : child'[q] = child[q]
<1>1. [status |-> status, cancel |-> FALSE, ran |-> TRUE] \in Child
    BY Zenon DEF Child
<1> QED BY <1>1 DEF ChildTypeOK

LEMMA JobsAsked ==
    ASSUME ChildTypeOK, NEW js \in SUBSET Jobs, AskCancel(js)
    PROVE  /\ ChildTypeOK'
           /\ \A j \in Jobs : /\ child'[j].status = child[j].status
                              /\ child'[j].ran = child[j].ran
                              /\ child[j].cancel => child'[j].cancel
                              /\ j \in js /\ Active(j) => child'[j].cancel
<1>1. ASSUME NEW j \in Jobs
      PROVE  [status |-> child[j].status, cancel |-> TRUE, ran |-> child[j].ran] \in Child
             /\ child[j] \in Child
    BY JobRow, Zenon DEF Child
<1>2. child' \in [Jobs -> Child]
    BY <1>1 DEF AskCancel
<1>3. \A j \in Jobs : child'[j] = IF j \in js /\ Active(j)
                        THEN [status |-> child[j].status, cancel |-> TRUE, ran |-> child[j].ran]
                        ELSE child[j]
    BY DEF AskCancel
<1> QED BY <1>2, <1>3 DEF ChildTypeOK

\* The statements that write jobs.
Elsewise(s) ==
    \/ WorkerSettles(s) \/ OtherSettles(s) \/ QueueMoves(s)
    \/ OperatorCancels(s) \/ OperatorRetries(s)

JobStatement ==
    \/ \E s \in Steps : SubmitChild(s) \/ ReleaseChild(s)
    \/ \E p \in {"advance", "cancel"} : AskChildren(p)
    \/ \E s \in Jobs : Elsewise(s)

LEMMA JobsStay ==
    ASSUME JobsOK, revived \subseteq Jobs, mishaps \in Nat,
           UNCHANGED <<child, revived>>
    PROVE  JobsGoOn({})
BY DEF JobsGoOn, JobsOK, ChildTypeOK, Active

\* A job that is not over takes another status.
LEMMA JobTurns ==
    ASSUME JobsOK, revived \subseteq Jobs, mishaps \in Nat, NEW s \in Jobs,
           child[s].status \notin Ended \cup {"none"},
           NEW status \in ChildStatus \ {"none"}, Become(s, status),
           revived' = revived
    PROVE  JobsGoOn({})
<1>1. /\ ChildTypeOK' /\ child'[s].status = status
      /\ child'[s].cancel = child[s].cancel
      /\ \A q \in Jobs \ {s} : child'[q] = child[q]
    BY JobBecomes DEF JobsOK
<1> QED BY <1>1 DEF JobsGoOn, JobsOK, Active

LEMMA JobsStep ==
    ASSUME JobsOK, revived \subseteq Jobs, mishaps \in Nat, JobStatement,
           \A s \in Steps : ReleaseChild(s) => Kind[s] = "agent"
    PROVE  \E new \in SUBSET Jobs :
             /\ JobsGoOn(new)
             /\ \A s \in new : SubmitChild(s)
<1> DEFINE Goal == \E new \in SUBSET Jobs : JobsGoOn(new) /\ \A s \in new : SubmitChild(s)
<1>0. JobsGoOn({}) => Goal
    OBVIOUS
<1>1. ASSUME NEW s \in Steps, SubmitChild(s)
      PROVE  Goal
  <2>1. s \in Jobs /\ revived' = revived
      BY <1>1 DEF SubmitChild, Begins
  <2>2. CASE child' = child
      BY <1>0, <2>1, <2>2, JobsStay
  <2>3. CASE Submit(s)
    <3>1. child[s].status = "none" /\ Become(s, "waiting_input")
        BY <2>3 DEF Submit
    <3>2. /\ ChildTypeOK' /\ child'[s].status = "waiting_input"
          /\ \A q \in Jobs \ {s} : child'[q] = child[q]
        BY <2>1, <3>1, JobBecomes DEF JobsOK, ChildStatus
    <3>3. JobsGoOn({s})
        BY <2>1, <3>1, <3>2 DEF JobsGoOn, JobsOK, Active, Ended
    <3> QED BY <1>1, <2>1, <3>3
  <2> QED BY <1>1, <2>2, <2>3 DEF SubmitChild
<1>2. ASSUME NEW s \in Steps, ReleaseChild(s)
      PROVE  Goal
  <2>1. PICK target \in {"queued", "waiting_approval", "canceled"} : Release(s, target)
      BY <1>2 DEF ReleaseChild
  <2>2. s \in Jobs /\ revived' = revived
      BY <1>2 DEF ReleaseChild
  <2>3. JobsGoOn({})
      BY <2>1, <2>2, JobTurns DEF Release, ChildStatus, Ended
  <2> QED BY <1>0, <2>3
<1>3. ASSUME NEW p \in {"advance", "cancel"}, AskChildren(p)
      PROVE  Goal
  <2>1. AskCancel(Jobs) /\ revived' = revived
      BY <1>3 DEF AskChildren
  <2>2. JobsGoOn({})
      BY <2>1, JobsAsked DEF JobsGoOn, JobsOK
  <2> QED BY <1>0, <2>2
<1>4. ASSUME NEW s \in Jobs, WorkerSettles(s)
      PROVE  Goal
  <2>1. PICK status \in Ended \cup {"retry_wait"} : Settle(s, status)
      BY <1>4 DEF WorkerSettles
  <2>2. child[s].status = "running" /\ revived' = revived
      BY <1>4 DEF WorkerSettles
  <2>3. JobsGoOn({})
      BY <2>1, <2>2, JobTurns DEF Settle, ChildStatus, Ended
  <2> QED BY <1>0, <2>3
<1>5. ASSUME NEW s \in Jobs, OtherSettles(s)
      PROVE  Goal
  <2>1. PICK status \in Ended \cup {"retry_wait"} :
          /\ Settle(s, status)
          /\ revived' = IF HasEnded(s) /\ status # child[s].status
                          THEN revived \cup {s} ELSE revived
      BY <1>5 DEF OtherSettles
  <2>2. mishaps' = mishaps + 1
      BY <1>5 DEF OtherSettles
  <2>3. /\ ChildTypeOK' /\ child'[s].status = status
        /\ child'[s].cancel = child[s].cancel
        /\ \A q \in Jobs \ {s} : child'[q] = child[q]
      BY <2>1, JobBecomes DEF JobsOK, Settle, ChildStatus
  <2>4. s \notin revived' => (child[s].status \in Ended => status = child[s].status)
      BY <2>1 DEF HasEnded
  <2>6. revived \subseteq revived' /\ revived' \subseteq Jobs /\ mishaps' # mishaps
      BY <2>1, <2>2
  <2>7. child[s].status # "none" /\ status # "none"
      BY <2>1 DEF Settle, JobsOK, Ended
  <2>5. JobsGoOn({})
      BY <2>3, <2>4, <2>6, <2>7 DEF JobsGoOn, JobsOK, Active, Ended
  <2> QED BY <1>0, <2>5
<1>6. ASSUME NEW s \in Jobs, QueueMoves(s)
      PROVE  Goal
  <2>1. revived' = revived
      BY <1>6 DEF QueueMoves
  <2>2. CASE Claim(s)
    <3>1. child[s].status = "queued" /\ ~child[s].cancel
        BY <2>2 DEF Claim
    <3>2. /\ ChildTypeOK' /\ child'[s].status = "running"
          /\ \A q \in Jobs \ {s} : child'[q] = child[q]
        BY <2>2, JobReset DEF JobsOK, Claim, ChildStatus
    <3>3. JobsGoOn({})
        BY <2>1, <3>1, <3>2 DEF JobsGoOn, JobsOK, Active, Ended
    <3> QED BY <1>0, <3>3
  <2>3. CASE Exhaust(s)
    <3>1. JobsGoOn({})
        BY <2>1, <2>3, JobTurns DEF Exhaust, ChildStatus, Ended
    <3> QED BY <1>0, <3>1
  <2>4. CASE Requeue({s})
    <3>1. child[s].status = "retry_wait" /\ child[s] \in Child
        BY <2>4, JobRow DEF JobsOK, Requeue
    <3>2. child' = [child EXCEPT ![s].status = "queued"]
        BY <2>4 DEF JobsOK, Requeue, ChildTypeOK
    <3>3. JobsGoOn({})
        BY <2>1, <3>1, <3>2, JobTurns DEF Become, ChildStatus, Ended
    <3> QED BY <1>0, <3>3
  <2>5. ASSUME NEW target \in {"queued", "canceled"}, DecideStart(s, target)
        PROVE  Goal
    <3>1. JobsGoOn({})
        BY <2>1, <2>5, JobTurns DEF DecideStart, ChildStatus, Ended
    <3> QED BY <1>0, <3>1
  <2> QED BY <1>6, <2>2, <2>3, <2>4, <2>5 DEF QueueMoves
<1>7. ASSUME NEW s \in Jobs, OperatorCancels(s)
      PROVE  Goal
  <2>1. revived' = revived
      BY <1>7 DEF OperatorCancels
  <2>2. CASE AskCancel({s})
    <3>1. JobsGoOn({})
        BY <2>1, <2>2, JobsAsked DEF JobsGoOn, JobsOK
    <3> QED BY <1>0, <3>1
  <2>3. CASE Withdraw(s)
    <3>1. JobsGoOn({})
        BY <2>1, <2>3, JobTurns DEF Withdraw, ChildStatus, Ended
    <3> QED BY <1>0, <3>1
  <2> QED BY <1>7, <2>2, <2>3 DEF OperatorCancels
<1>8. ASSUME NEW s \in Jobs, OperatorRetries(s)
      PROVE  Goal
  <2>1. revived' = revived \cup {s} /\ mishaps' = mishaps + 1
      BY <1>8 DEF OperatorRetries
  <2>2. child[s].status = "failed"
      BY <1>8 DEF OperatorRetries, Renew
  <2>3. /\ ChildTypeOK' /\ child'[s].status = "queued"
        /\ \A q \in Jobs \ {s} : child'[q] = child[q]
      BY <1>8, JobReset DEF JobsOK, OperatorRetries, Renew, ChildStatus
  <2>4. JobsGoOn({})
      BY <2>1, <2>2, <2>3 DEF JobsGoOn, JobsOK, Active, Ended
  <2> QED BY <1>0, <2>4
<1> QED BY <1>1, <1>2, <1>3, <1>4, <1>5, <1>6, <1>7, <1>8
        DEF JobStatement, Elsewise

-----------------------------------------------------------------------------
(***************************************************************************)
(* What each statement of advance() and cancel() does.                     *)
(***************************************************************************)
Inside == A.pc \in {"syncing", "starting", "submitted", "recording"}
Beginning == A.pc \in {"submitted", "recording"}

\* A reference points to something, and a row says what it has.
Referred(s, status) ==
    /\ ref[s] # 0 => status \notin {"pending", "skipped"}
    /\ Kind[s] = "approval" /\ status = "waiting_approval" => ref[s] # 0
    /\ Kind[s] = "batch" /\ status = "running" => ref[s] # 0
    /\ Kind[s] = "agent" /\ status \in {"succeeded", "failed"} => ref[s] # 0

RefsInv ==
    /\ \A s \in Steps : Kind[s] = "approval" => ref[s] <= Len(requests)
    /\ \A s \in Steps : Kind[s] = "batch" => ref[s] <= Len(batch[s])
    /\ \A s \in Jobs : ref[s] # 0 => child[s].status # "none"
    /\ \A s \in Steps : Referred(s, step[s])
    /\ Inside => \A s \in Steps : Referred(s, A.view[s])

\* The step in the hands of advance(), and what it has begun for it.
HandInv ==
    /\ A.at >= 1
    /\ Beginning =>
         /\ A.at \in Steps /\ A.view[A.at] = "pending"
         /\ Kind[A.at] \in {"agent", "approval", "batch"}
         /\ \A d \in DependsOn[A.at] : A.view[d] \in EndedStep
         /\ Matches(A.at)
         /\ Kind[A.at] = "agent" => child[A.at].status # "none"
    /\ A.pc = "submitted" => Kind[A.at] = "agent"
    /\ A.pc = "recording" =>
         /\ A.ref >= 1
         /\ Kind[A.at] = "approval" => A.ref <= Len(requests)
         /\ Kind[A.at] = "batch" => A.ref <= Len(batch[A.at])
         /\ A.status \in StepStatus \ {"pending", "skipped"}
         /\ Kind[A.at] = "agent" /\ A.at \notin revived /\ A.status \in Ended
              => child[A.at].status = A.status
         /\ Kind[A.at] = "batch" => A.status = "running"
         /\ Kind[A.at] = "approval" => A.status = "waiting_approval"

\* cancel() has no loop that begins anything; where ~run.cancel nobody but
\* advance() writes.
CancelInv ==
    /\ C.pc \in {"free", "listing", "asking", "marking"}
    /\ C.pc # "free" => run.cancel
    /\ A.stop => run.cancel
    /\ A.pc \in {"asking", "marking"} => run.cancel
    /\ A.pc \in {"starting", "submitted", "recording", "concluding"} => ~A.stop
    /\ ~run.cancel /\ Inside => A.view = step
    /\ ~run.cancel /\ A.pc # "free" => run.status \notin EndedRun
    /\ A.pc = "concluding"
         => A.status \in {"succeeded", "failed", "waiting_approval", "running"}

Mark(p) == IF proc[p].pc = "free" THEN 0 ELSE 1
MishapInv == mishaps + Mark("cancel") <= 2 * TroubleBound

TypesOK == WorkflowTypeOK /\ JobsOK

\* The rows that advance() goes on with when it has a status for s.
Seen(s, status) == [A.view EXCEPT ![s] = status]

LEMMA TypesGive ==
    ASSUME TypesOK
    PROVE  /\ ProcOK /\ RunOK /\ JobsOK /\ step \in View /\ ref \in [Steps -> Nat]
           /\ A \in Process /\ C \in Process /\ A.at \in Nat /\ C.at \in Nat
           /\ A.view \in View /\ C.view \in View /\ A.ref \in Nat
           /\ mishaps \in Nat /\ cancels \in Nat /\ TroubleBound \in Nat
           /\ run.cancel \in BOOLEAN /\ run.status \in RunStatus
           /\ A.stop \in BOOLEAN /\ revived \subseteq Jobs
           /\ requests \in Seq([action : {ActionOf[s] : s \in Steps},
                         status : {"pending", "approved", "denied", "expired"}])
           /\ batch \in [Steps -> Seq({"running", "succeeded", "failed"})]
           /\ Jobs \subseteq Steps /\ Steps \subseteq Nat /\ Jobs = {s \in Steps : Kind[s] = "agent"}
<1>1. /\ ProcOK /\ JobsOK /\ step \in View /\ ref \in [Steps -> Nat]
      /\ mishaps \in Nat /\ cancels \in Nat /\ TroubleBound \in Nat
    BY DEF TypesOK, WorkflowTypeOK, ProcOK, View, JobsOK
<1>2. A \in Process /\ C \in Process
    BY <1>1 DEF ProcOK, A, C
<1>3. A.at \in Nat /\ C.at \in Nat /\ A.view \in View /\ C.view \in View /\ A.ref \in Nat
    BY <1>2 DEF Process
<1>4. A.stop \in BOOLEAN
    BY <1>2, Zenon DEF Process
<1>5. RunOK /\ run.cancel \in BOOLEAN /\ run.status \in RunStatus
    BY Zenon DEF TypesOK, WorkflowTypeOK, RunOK
<1>6. Jobs \subseteq Steps /\ Steps \subseteq Nat
    BY DEF Steps
<1> QED BY <1>1, <1>2, <1>3, <1>4, <1>5, <1>6 DEF TypesOK, WorkflowTypeOK

LEMMA ReportedOK ==
    ASSUME TypesOK, RefsInv, NEW s \in Steps, Inside, Watched(s)
    PROVE  /\ Reported(s) \in EndedStep \cup ActiveStep
           /\ Kind[s] = "agent" => Reported(s) = Mapped(child[s].status)
                                   /\ child[s].status # "none"
           /\ Kind[s] = "batch" => Reported(s) = batch[s][ref[s]] /\ ref[s] \in DOMAIN batch[s]
           /\ Kind[s] = "approval" => Reported(s) \in {"succeeded", "failed", "waiting_approval"}
                                      /\ ref[s] \in DOMAIN requests
           /\ ref[s] # 0 /\ Reported(s) \notin {"skipped", "pending"}
           /\ Kind[s] \in {"agent", "batch", "approval"}
<1>1. Referred(s, A.view[s]) /\ ref[s] \in Nat /\ s \in Nat
    BY TypesGive DEF RefsInv, Steps
<1>2. CASE Kind[s] = "agent"
  <2>1. s \in Jobs /\ ref[s] # 0
      BY <1>2 DEF Watched
  <2>2. child[s].status \in ChildStatus \ {"none"}
      BY <2>1, JobRow DEF TypesOK, JobsOK, RefsInv
  <2>3. Reported(s) = Mapped(child[s].status)
      BY <1>2 DEF Reported
  <2> QED BY <1>2, <2>1, <2>2, <2>3 DEF Mapped, ChildStatus, EndedStep, ActiveStep, Ended
<1>3. CASE Kind[s] = "batch"
  <2>1. ref[s] # 0 /\ ref[s] <= Len(batch[s])
      BY <1>1, <1>3 DEF Watched, Known, A, Referred, RefsInv
  <2>2. batch[s] \in Seq({"running", "succeeded", "failed"})
      BY DEF TypesOK, WorkflowTypeOK
  <2>3. ref[s] \in DOMAIN batch[s] /\ batch[s][ref[s]] \in {"running", "succeeded", "failed"}
      BY <1>1, <2>1, <2>2
  <2>4. Reported(s) = batch[s][ref[s]]
      BY <1>3 DEF Reported
  <2> QED BY <1>3, <2>1, <2>3, <2>4 DEF EndedStep, ActiveStep, Ended
<1>4. CASE Kind[s] = "approval"
  <2>1. Known(s) = "waiting_approval" /\ ref[s] # 0 /\ ref[s] <= Len(requests)
      BY <1>1, <1>4 DEF Watched, Known, A, Referred, RefsInv
  <2>2. Reported(s) \in {"succeeded", "failed", "waiting_approval"}
      BY <1>4, <2>1 DEF Reported
  <2>3. ref[s] \in DOMAIN requests
      BY <1>1, <2>1, TypesGive
  <2> QED BY <1>4, <2>1, <2>2, <2>3 DEF EndedStep, ActiveStep, Ended
<1> QED BY <1>2, <1>3, <1>4 DEF Watched

SyncDone(s) ==
    /\ A.pc = "syncing" /\ A.at <= s /\ Watched(s)
    /\ \A t \in Steps : A.at <= t /\ t < s => ~Watched(t)
    /\ UNCHANGED <<run, ref, workVars, due, cancels, mishaps>>
    /\ Reported(s) \in StepStatus
    /\ \/ /\ Moves("advance", "free", FALSE, Unread, 1, "pending", 0)
          /\ step' = step
       \/ /\ Moves("advance", "syncing", A.stop, Seen(s, Reported(s)), s + 1,
                   A.status, A.ref)
          /\ \/ step' = [step EXCEPT ![s] = Reported(s)] /\ Reported(s) # A.view[s]
             \/ step' = step /\ Reported(s) = A.view[s]

LEMMA Syncs ==
    ASSUME TypesOK, RefsInv, NEW s \in Steps, SyncStep(s)
    PROVE  SyncDone(s)
<1>1. ProcOK /\ A.view \in View /\ s + 1 \in Nat
    BY TypesGive DEF Steps
<1>2. A.pc = "syncing" /\ A.at <= s /\ Watched(s)
    BY DEF SyncStep, Here, ToDo, At, A
<1>3. \A t \in Steps : A.at <= t /\ t < s => ~Watched(t)
    BY DEF SyncStep, Here, ToDo, At, A
<1>4. Reported(s) \in StepStatus
    BY <1>2, ReportedOK DEF Inside, StepStatus
<1>5. CASE Leave("advance") /\ step' = step
    BY <1>1, <1>2, <1>3, <1>4, <1>5, Gone DEF SyncStep, SyncDone
<1>6. CASE WriteStep("advance", s, Reported(s)) /\ Reported(s) # Known(s)
  <2>1. Moves("advance", "syncing", A.stop, Seen(s, Reported(s)), s + 1, A.status, A.ref)
      BY <1>1, <1>2, <1>4, <1>6, Wrote DEF A, Seen
  <2> QED BY <1>2, <1>3, <1>4, <1>6, <2>1 DEF SyncStep, WriteStep, SyncDone, Known, A
<1>7. CASE /\ Reported(s) = Known(s)
           /\ proc' = [proc EXCEPT !["advance"].at = s + 1]
           /\ step' = step
  <2>1. Moves("advance", "syncing", A.stop, A.view, s + 1, A.status, A.ref)
      BY <1>1, <1>2, <1>7, Passed
  <2>2. Seen(s, Reported(s)) = A.view /\ Reported(s) = A.view[s]
      BY <1>1, <1>7 DEF Seen, View, Known, A
  <2> QED BY <1>2, <1>3, <1>4, <1>7, <2>1, <2>2 DEF SyncStep, SyncDone
<1> QED BY <1>5, <1>6, <1>7 DEF SyncStep, SyncDone

SyncedDone ==
    /\ A.pc = "syncing" /\ \A s \in Steps : A.at <= s => ~Watched(s)
    /\ Moves("advance", IF A.stop THEN "asking" ELSE "starting", A.stop,
             A.view, 1, A.status, A.ref)
    /\ UNCHANGED <<rowVars, workVars, due, cancels, mishaps>>

LEMMA SyncsEnd ==
    ASSUME TypesOK, Synced
    PROVE  SyncedDone
<1>1. A.pc = "syncing" /\ \A s \in Steps : A.at <= s => ~Watched(s)
    BY DEF Synced, Over, ToDo, At, A
<1>2. PICK pc \in PCs : pc = IF A.stop THEN "asking" ELSE "starting"
    BY DEF PCs
<1>3. Moves("advance", pc, A.stop, A.view, 1, A.status, A.ref)
    BY <1>2, Went, TypesGive DEF Synced, A
<1> QED BY <1>1, <1>2, <1>3 DEF Synced, SyncedDone

\* Where advance() is when it begins a step.
Turn(s) ==
    /\ A.pc = "starting" /\ s \in Nat /\ A.at <= s /\ Ready(s)
    /\ \A t \in Steps : A.at <= t /\ t < s => ~Ready(t)

LEMMA Starts ==
    ASSUME NEW s \in Steps, Starting(s)
    PROVE  Turn(s)
BY DEF Starting, Turn, Here, ToDo, At, A, Steps

PlaceDone(s) ==
    \E status \in {"skipped", "succeeded"} :
      /\ Turn(s)
      /\ Moves("advance", "starting", A.stop, Seen(s, status), s + 1,
               A.status, A.ref)
      /\ step' = [step EXCEPT ![s] = status]
      /\ status = "skipped" => ~Matches(s)
      /\ status = "succeeded" => Kind[s] = "local" /\ Matches(s)
      /\ UNCHANGED <<run, ref, workVars, due, cancels, mishaps>>

LEMMA InPlace ==
    ASSUME TypesOK, NEW s \in Steps, SkipStep(s) \/ RunLocal(s)
    PROVE  PlaceDone(s)
<1>1. PICK status \in {"skipped", "succeeded"} :
        /\ Starting(s) /\ WriteStep("advance", s, status)
        /\ status = "skipped" => ~Matches(s)
        /\ status = "succeeded" => Kind[s] = "local" /\ Matches(s)
        /\ UNCHANGED <<run, ref, workVars, due, cancels, mishaps>>
    BY DEF SkipStep, RunLocal, Begins
<1>2. Turn(s)
    BY <1>1, Starts
<1>3. status \in StepStatus
    BY DEF StepStatus, EndedStep, Ended
<1>4. Moves("advance", "starting", A.stop, Seen(s, status), s + 1, A.status, A.ref)
  <2>1. ProcOK /\ A.pc = "starting" /\ WriteStep("advance", s, status)
      BY <1>1, <1>2, TypesGive DEF Turn
  <2>2. Moves("advance", A.pc, A.stop, Seen(s, status), s + 1, A.status, A.ref)
      BY <1>3, <2>1, Wrote DEF A, Seen
  <2> QED BY <2>1, <2>2
<1> QED BY <1>1, <1>2, <1>4 DEF WriteStep, PlaceDone

\* The request, job or batch that a step refers to when it has begun.
Asked(s, number, status) ==
    \/ /\ Kind[s] = "approval" /\ status = "waiting_approval"
       /\ UNCHANGED <<child, batch>>
       /\ number >= 1 /\ number <= Len(requests')
       /\ \/ requests' = requests
          \/ requests' = Append(requests, [action |-> ActionOf[s], status |-> "pending"])
    \/ /\ Kind[s] = "agent" /\ number = 1
       /\ child[s].status # "none" /\ child[s].status = status
       /\ UNCHANGED <<child, requests, batch>>
    \/ /\ Kind[s] = "batch" /\ status = "running" /\ number = Len(batch[s]) + 1
       /\ batch' = [batch EXCEPT ![s] = Append(@, "running")]
       /\ UNCHANGED <<child, requests>>

BeginDone(s) ==
    /\ Turn(s) /\ Matches(s)
    /\ UNCHANGED <<rowVars, revived, due, cancels, mishaps>>
    /\ \/ /\ Kind[s] = "agent" /\ Submit(s)
          /\ Moves("advance", "submitted", A.stop, A.view, s, A.status, A.ref)
          /\ UNCHANGED <<requests, batch>>
       \/ \E number \in Nat, status \in StepStatus \ {"pending", "skipped"} :
            /\ Moves("advance", "recording", A.stop, A.view, s, status, number)
            /\ Asked(s, number, status)

LEMMA Begun1 ==
    ASSUME TypesOK, NEW s \in Steps, AskApproval(s) \/ SubmitChild(s) \/ QueueBatch(s)
    PROVE  BeginDone(s)
<1>1. Turn(s) /\ Matches(s) /\ UNCHANGED <<rowVars, revived, due, cancels, mishaps>>
    BY Starts DEF AskApproval, SubmitChild, QueueBatch, Begins
<1>2. CASE AskApproval(s)
  <2>1. requests \in Seq([action : {ActionOf[t] : t \in Steps},
                         status : {"pending", "approved", "denied", "expired"}])
      BY TypesGive
  <2>2. PICK number \in Nat :
          /\ number >= 1 /\ number <= Len(requests')
          /\ ToRecord(s, "waiting_approval", number)
          /\ \/ requests' = requests
             \/ requests' = Append(requests, [action |-> ActionOf[s], status |-> "pending"])
      <3> DEFINE same == {r \in DOMAIN requests : /\ requests[r].status = "pending"
                                                  /\ requests[r].action = ActionOf[s]}
      <3>1. CASE /\ requests' = Append(requests, [action |-> ActionOf[s], status |-> "pending"])
                 /\ ToRecord(s, "waiting_approval", Len(requests) + 1)
        <4>1. Len(requests') = Len(requests) + 1 /\ Len(requests) \in Nat
            BY <2>1, <3>1
        <4> QED BY <3>1, <4>1
      <3>2. CASE \E r \in same : ToRecord(s, "waiting_approval", r) /\ UNCHANGED requests
          BY <2>1, <3>2
      <3> QED BY <1>2, <3>1, <3>2 DEF AskApproval
  <2>3. Moves("advance", "recording", A.stop, A.view, s, "waiting_approval", number)
      BY <2>2, TypesGive, Noted DEF StepStatus, ActiveStep
  <2>4. Kind[s] = "approval" /\ UNCHANGED <<child, batch>>
      BY <1>2 DEF AskApproval, Begins
  <2>5. Asked(s, number, "waiting_approval")
      BY <2>2, <2>4 DEF Asked
  <2> QED BY <1>1, <2>3, <2>5 DEF StepStatus, ActiveStep, BeginDone
<1>3. CASE SubmitChild(s)
  <2>1. Kind[s] = "agent" /\ UNCHANGED <<requests, batch>>
      BY <1>3 DEF SubmitChild, Begins
  <2>2. CASE /\ Submit(s)
             /\ proc' = [proc EXCEPT !["advance"].pc = "submitted", !["advance"].at = s]
    <3>1. Moves("advance", "submitted", A.stop, A.view, s, A.status, A.ref)
        BY <2>2, TypesGive, Submitted
    <3> QED BY <1>1, <2>1, <2>2, <3>1 DEF BeginDone
  <2>3. CASE child[s].status # "none" /\ ToRecord(s, child[s].status, 1) /\ UNCHANGED child
    <3>1. child[s].status \in ChildStatus
        BY <2>1, JobRow, TypesGive DEF JobsOK
    <3>2. child[s].status \in StepStatus \ {"pending", "skipped"}
        BY <2>3, <3>1 DEF ChildStatus, StepStatus, EndedStep, ActiveStep, Ended
    <3>3. Moves("advance", "recording", A.stop, A.view, s, child[s].status, 1)
        BY <2>3, <3>2, TypesGive, Noted
    <3>4. Asked(s, 1, child[s].status)
        BY <2>1, <2>3 DEF Asked
    <3> QED BY <1>1, <3>2, <3>3, <3>4 DEF BeginDone
  <2> QED BY <1>3, <2>2, <2>3 DEF SubmitChild
<1>4. CASE QueueBatch(s)
  <2>1. batch[s] \in Seq({"running", "succeeded", "failed"})
      BY DEF TypesOK, WorkflowTypeOK
  <2>2. Len(batch[s]) + 1 \in Nat
      BY <2>1
  <2>3. Moves("advance", "recording", A.stop, A.view, s, "running", Len(batch[s]) + 1)
      BY <1>4, <2>2, TypesGive, Noted DEF QueueBatch, StepStatus, ActiveStep
  <2>4. Asked(s, Len(batch[s]) + 1, "running")
      BY <1>4 DEF QueueBatch, Asked, Begins
  <2> QED BY <1>1, <2>2, <2>3, <2>4 DEF StepStatus, ActiveStep, BeginDone
<1> QED BY <1>2, <1>3, <1>4 DEF BeginDone

ReleaseDone(s) ==
    /\ A.pc = "submitted" /\ A.at = s /\ s \in Jobs
    /\ UNCHANGED <<rowVars, requests, batch, revived, due, cancels, mishaps>>
    /\ \E target \in {"queued", "waiting_approval", "canceled"} :
         /\ Release(s, target)
         /\ Moves("advance", "recording", A.stop, A.view, s, target, 1)

LEMMA Releases ==
    ASSUME TypesOK, NEW s \in Steps, ReleaseChild(s), HandInv
    PROVE  ReleaseDone(s)
<1>1. A.pc = "submitted" /\ A.at <= s /\ \A t \in Steps : t < s => ~(A.at <= t)
    BY DEF ReleaseChild, Here, ToDo, At, A
<1>2. A.at \in Steps /\ A.at \in Nat /\ s \in Nat
    BY <1>1 DEF HandInv, Beginning, Steps
<1>3. A.at = s
    BY <1>1, <1>2
<1>4. PICK target \in {"queued", "waiting_approval", "canceled"} :
        Release(s, target) /\ ToRecord(s, target, 1)
    BY DEF ReleaseChild
<1>5. Moves("advance", "recording", A.stop, A.view, s, target, 1)
    BY <1>4, TypesGive, Noted DEF StepStatus, EndedStep, ActiveStep, Ended
<1>6. Kind[s] = "agent"
    BY <1>1, <1>3 DEF HandInv
<1> QED BY <1>1, <1>3, <1>4, <1>5, <1>6 DEF ReleaseChild, ReleaseDone

RecordDone(s) ==
    /\ A.pc = "recording" /\ A.at = s /\ A.status \in StepStatus
    /\ UNCHANGED <<run, workVars, due, cancels, mishaps>>
    /\ step' = [step EXCEPT ![s] = A.status]
    /\ ref' = [ref EXCEPT ![s] = A.ref]
    /\ Moves("advance", "starting", FALSE, Seen(s, A.status), s + 1, "pending", 0)

LEMMA Records ==
    ASSUME TypesOK, NEW s \in Steps, RecordStep(s), HandInv
    PROVE  RecordDone(s)
<1>1. A.pc = "recording" /\ A.at <= s /\ \A t \in Steps : t < s => ~(A.at <= t)
    BY DEF RecordStep, Here, ToDo, At, A
<1>2. A.at \in Steps /\ A.at \in Nat /\ s \in Nat
    BY <1>1 DEF HandInv, Beginning, Steps
<1>3. A.at = s
    BY <1>1, <1>2
<1>4. A.status \in StepStatus /\ s + 1 \in Nat
    BY <1>1, <1>2 DEF HandInv
<1>5. Seen(s, A.status) \in View
    BY <1>4, TypesGive DEF Seen, View
<1>6. proc' = [proc EXCEPT !["advance"] =
         [Free EXCEPT !.pc = "starting", !.at = s + 1, !.view = Seen(s, A.status)]]
    BY DEF RecordStep, Seen, A
<1>7. Moves("advance", "starting", FALSE, Seen(s, A.status), s + 1, "pending", 0)
    BY <1>4, <1>5, <1>6, FreeIn, TypesGive DEF PCs
<1> QED BY <1>1, <1>3, <1>4, <1>7 DEF RecordStep, A, RecordDone

JudgeDone ==
    /\ A.pc = "starting" /\ \A s \in Steps : A.at <= s => ~Ready(s)
    /\ Verdict \in {"succeeded", "failed", "waiting_approval", "running"}
    /\ Moves("advance", "concluding", FALSE, Unread, 1, Verdict, 0)
    /\ UNCHANGED <<rowVars, workVars, due, cancels, mishaps>>

LEMMA Judges ==
    ASSUME TypesOK, Judge
    PROVE  JudgeDone
<1>1. A.pc = "starting" /\ \A s \in Steps : A.at <= s => ~Ready(s)
    BY DEF Judge, Over, ToDo, At, A
<1>2. Verdict \in {"succeeded", "failed", "waiting_approval", "running"}
    BY DEF Verdict
<1>3. Moves("advance", "concluding", FALSE, Unread, 1, Verdict, 0)
    BY <1>2, FreeWith, TypesGive DEF Judge, PCs, Texts, StepStatus, EndedStep, Ended,
       ActiveStep
<1> QED BY <1>1, <1>2, <1>3 DEF Judge, JudgeDone

MarkDone(p, s) ==
    /\ proc[p].pc = "marking" /\ proc[p].at <= s /\ proc[p].view[s] \notin EndedStep
    /\ UNCHANGED <<run, ref, workVars, due, cancels, mishaps>>
    /\ step' = [step EXCEPT ![s] = "canceled"]
    /\ Moves(p, "marking", proc[p].stop, [proc[p].view EXCEPT ![s] = "canceled"],
             s + 1, proc[p].status, proc[p].ref)

LEMMA Marks ==
    ASSUME TypesOK, NEW p \in {"advance", "cancel"}, NEW s \in Steps, MarkStep(p, s)
    PROVE  MarkDone(p, s)
<1>1. proc[p].pc = "marking" /\ proc[p].at <= s /\ proc[p].view[s] \notin EndedStep
    BY DEF MarkStep, Here, ToDo, At
<1>2. "canceled" \in StepStatus
    BY DEF StepStatus, EndedStep, Ended
<1>3. Moves(p, "marking", proc[p].stop, [proc[p].view EXCEPT ![s] = "canceled"],
                    s + 1, proc[p].status, proc[p].ref)
  <2>1. ProcOK /\ WriteStep(p, s, "canceled")
      BY TypesGive DEF MarkStep
  <2>2. Moves(p, proc[p].pc, proc[p].stop, [proc[p].view EXCEPT ![s] = "canceled"],
                    s + 1, proc[p].status, proc[p].ref)
      BY <1>2, <2>1, Wrote
  <2> QED BY <1>1, <2>2
<1> QED BY <1>1, <1>3 DEF MarkStep, WriteStep, MarkDone

AskDone(p) ==
    /\ proc[p].pc = "asking" /\ AskCancel(Jobs)
    /\ UNCHANGED <<rowVars, requests, batch, revived, due, cancels, mishaps>>
    /\ Moves(p, "marking", proc[p].stop, proc[p].view, 1, proc[p].status, proc[p].ref)

LEMMA AsksChildren ==
    ASSUME TypesOK, NEW p \in {"advance", "cancel"}, AskChildren(p)
    PROVE  AskDone(p)
BY TypesGive, Went DEF AskChildren, At, PCs, AskDone

ConcludeCancelDone(p) ==
    /\ proc[p].pc = "marking"
    /\ run' = [status |-> "canceled", cancel |-> TRUE]
    /\ UNCHANGED <<step, ref, workVars, due, cancels, mishaps>>
    /\ Moves(p, "free", FALSE, Unread, 1, "pending", 0)

LEMMA ConcludesCancel ==
    ASSUME TypesOK, NEW p \in {"advance", "cancel"}, ConcludeCancel(p)
    PROVE  ConcludeCancelDone(p)
BY TypesGive, Gone DEF ConcludeCancel, Over, At, ConcludeCancelDone

ConcludeDone ==
    /\ A.pc = "concluding"
    /\ A.status \in {"succeeded", "failed", "waiting_approval", "running"}
    /\ RunOK' /\ run'.status = A.status /\ run'.cancel = run.cancel
    /\ UNCHANGED <<step, ref, workVars, due, cancels, mishaps>>
    /\ Moves("advance", "free", FALSE, Unread, 1, "pending", 0)

LEMMA Concludes ==
    ASSUME TypesOK, CancelInv, Conclude
    PROVE  ConcludeDone
<1>1. A.pc = "concluding" /\ A.status \in {"succeeded", "failed", "waiting_approval", "running"}
    BY DEF Conclude, At, A, CancelInv
<1>2. Moves("advance", "free", FALSE, Unread, 1, "pending", 0)
    BY TypesGive, Gone DEF Conclude
<1>3. run' = [run EXCEPT !.status = A.status] /\ A.status \in RunStatus
    BY <1>1 DEF Conclude, A, RunStatus, EndedRun
<1>4. RunOK' /\ run'.status = A.status /\ run'.cancel = run.cancel
    BY <1>3, TypesGive DEF RunOK
<1> QED BY <1>1, <1>2, <1>4 DEF Conclude, ConcludeDone

CancelDone ==
    /\ C.pc = "free" /\ run' = [status |-> "canceled", cancel |-> TRUE]
    /\ cancels' = cancels + 1 /\ cancels + mishaps < TroubleBound
    /\ Moves("cancel", "listing", C.stop, C.view, 1, C.status, C.ref)
    /\ UNCHANGED <<step, ref, workVars, due, mishaps>>

LEMMA Cancels ==
    ASSUME TypesOK, CancelRun
    PROVE  CancelDone
<1>1. Moves("cancel", "listing", C.stop, C.view, 1, C.status, C.ref)
    BY TypesGive, Went DEF CancelRun, C, PCs
<1> QED BY <1>1 DEF CancelRun, At, C, CancelDone

-----------------------------------------------------------------------------
(***************************************************************************)
(* The work: it is only added to by advance(), and goes on by itself.      *)
(***************************************************************************)
Request == [action : {ActionOf[s] : s \in Steps},
            status : {"pending", "approved", "denied", "expired"}]
Item == {"running", "succeeded", "failed"}

\* requests and batches never get shorter, jobs go on.
WorkGoesOn(new) ==
    /\ JobsGoOn(new)
    /\ requests' \in Seq(Request) /\ Len(requests) <= Len(requests')
    /\ batch' \in [Steps -> Seq(Item)]
    /\ \A s \in Steps : Len(batch[s]) <= Len(batch'[s])

\* A statement of nobody in this module: rows and processes stay.
Outside ==
    /\ UNCHANGED <<rowVars, proc, cancels>>
    /\ WorkGoesOn({}) /\ due' \in BOOLEAN
    /\ mishaps' = mishaps \/ (mishaps' = mishaps + 1 /\ cancels + mishaps < TroubleBound)
    /\ Len(requests') = Len(requests)
    /\ \A r \in DOMAIN requests :
         requests'[r].status = "pending" => requests[r].status = "pending"
    /\ \A s \in Steps : /\ Len(batch'[s]) = Len(batch[s])
                        /\ \A n \in DOMAIN batch[s] :
                             batch'[s][n] = "running" => batch[s][n] = "running"

LEMMA WorkStays ==
    ASSUME TypesOK, UNCHANGED workVars
    PROVE  WorkGoesOn({})
<1>1. JobsGoOn({})
    BY TypesGive, JobsStay DEF workVars
<1> QED BY <1>1, TypesGive DEF workVars, WorkGoesOn, Request, Item

LEMMA WorkElsewhere ==
    ASSUME TypesOK, Elsewhere, \A p \in {"advance", "cancel"} : ~Crash(p)
    PROVE  Outside
<1>0. /\ requests \in Seq(Request) /\ batch \in [Steps -> Seq(Item)] /\ due \in BOOLEAN
      /\ Len(requests) \in Nat /\ \A s \in Steps : Len(batch[s]) \in Nat
      /\ JobsOK /\ revived \subseteq Jobs /\ mishaps \in Nat /\ ProcOK /\ Jobs \subseteq Steps
  <2>1. requests \in Seq(Request) /\ batch \in [Steps -> Seq(Item)]
      BY TypesGive DEF Request, Item
  <2>4. /\ JobsOK /\ revived \subseteq Jobs /\ mishaps \in Nat /\ ProcOK
        /\ Jobs \subseteq Steps
      BY TypesGive
  <2>2. due \in BOOLEAN
      BY Zenon DEF TypesOK, WorkflowTypeOK
  <2>3. \A s \in Steps : Len(batch[s]) \in Nat
      BY <2>1
  <2> QED BY <2>1, <2>2, <2>3, <2>4
<1>1. ASSUME NEW s \in Jobs, Elsewise(s)
      PROVE  Outside
  <2>0. JobStatement
      BY <1>1 DEF JobStatement
  <2>1. ASSUME NEW t \in Steps
        PROVE  ~SubmitChild(t) /\ ~ReleaseChild(t)
    <3>1. UNCHANGED proc
        BY <1>1 DEF Elsewise, WorkerSettles, OtherSettles, QueueMoves, OperatorCancels,
           OperatorRetries, Others
    <3>2. A.pc = "recording" \/ proc'["advance"].pc # A.pc
          \/ ~(SubmitChild(t) \/ ReleaseChild(t))
      <4>1. CASE ReleaseChild(t)
        <5>1. PICK target \in {"queued", "waiting_approval", "canceled"} :
                 ToRecord(t, target, 1)
            BY <4>1 DEF ReleaseChild
        <5>2. proc'["advance"].pc = "recording"
            BY <1>0, <5>1, Noted DEF Moves, StepStatus, EndedStep, ActiveStep, Ended
        <5> QED BY <5>2
      <4>2. CASE SubmitChild(t)
        <5>1. A.pc = "starting"
            BY <4>2, Starts DEF SubmitChild, Begins, Turn
        <5>2. proc'["advance"].pc \in {"submitted", "recording"}
            BY <4>2, Begun1 DEF Moves, BeginDone
        <5> QED BY <5>1, <5>2
      <4> QED BY <4>1, <4>2
    <3>3. SubmitChild(t) => A.pc = "starting"
        BY Starts DEF SubmitChild, Begins, Turn
    <3>4. ReleaseChild(t) => A.pc = "submitted"
        BY DEF ReleaseChild, At, A
    <3> QED BY <3>1, <3>2, <3>3, <3>4 DEF A
  <2>2. JobsGoOn({})
    <3>1. PICK new \in SUBSET Jobs : JobsGoOn(new) /\ \A t \in new : SubmitChild(t)
        BY <1>0, <2>0, <2>1, JobsStep
    <3>2. new = {}
        BY <2>1, <3>1
    <3> QED BY <3>1, <3>2
  <2>6. UNCHANGED <<rowVars, proc, cancels, requests, batch>> /\ (due' = TRUE \/ due' = due)
      BY <1>1 DEF Elsewise, WorkerSettles, OtherSettles, QueueMoves, OperatorCancels,
         OperatorRetries, Others
  <2>7. due' \in BOOLEAN
      BY <1>0, <2>6, Zenon
  <2>3. UNCHANGED <<rowVars, proc, cancels, requests, batch>> /\ due' \in BOOLEAN
      BY <2>6, <2>7
  <2>4. mishaps' = mishaps \/ (mishaps' = mishaps + 1 /\ cancels + mishaps < TroubleBound)
      BY <1>1 DEF Elsewise, WorkerSettles, OtherSettles, QueueMoves, OperatorCancels,
         OperatorRetries
  <2>8. WorkGoesOn({})
      BY <1>0, <2>2, <2>3 DEF WorkGoesOn
  <2> QED BY <2>3, <2>4, <2>8 DEF Outside
<1>2. ASSUME NEW s \in Steps, BatchEnds(s)
      PROVE  Outside
  <2>1. PICK n \in DOMAIN batch[s], status \in {"succeeded", "failed"} :
           /\ batch[s][n] = "running"
           /\ batch' = [batch EXCEPT ![s][n] = status]
      BY <1>2 DEF BatchEnds
  <2>2. UNCHANGED <<rowVars, child, requests, revived, proc, cancels, mishaps>>
      BY <1>2 DEF BatchEnds
  <2>10. due' \in BOOLEAN
    <3>1. due' = due \/ due' = TRUE
        BY <1>2 DEF BatchEnds
    <3> QED BY <1>0, <3>1, Zenon
  <2>3. batch \in [Steps -> Seq(Item)] /\ requests \in Seq(Request)
      BY <1>0
  <2>4. [batch[s] EXCEPT ![n] = status] \in Seq(Item)
        /\ Len([batch[s] EXCEPT ![n] = status]) = Len(batch[s])
      BY <2>1, <2>3 DEF Item
  <2>5. /\ batch' = [batch EXCEPT ![s] = [batch[s] EXCEPT ![n] = status]]
        /\ batch'[s] = [batch[s] EXCEPT ![n] = status]
        /\ \A t \in Steps \ {s} : batch'[t] = batch[t]
      BY <2>1, <2>3
  <2>6. batch' \in [Steps -> Seq(Item)]
      BY <2>3, <2>4, <2>5
  <2>7. \A t \in Steps : /\ Len(batch'[t]) = Len(batch[t])
                         /\ \A m \in DOMAIN batch[t] :
                              batch'[t][m] = "running" => batch[t][m] = "running"
      BY <2>1, <2>3, <2>4, <2>5
  <2>8. JobsGoOn({})
      BY <1>0, <2>2, JobsStay
  <2>9. WorkGoesOn({})
      BY <1>0, <2>2, <2>3, <2>6, <2>7, <2>8 DEF WorkGoesOn
  <2> QED BY <2>2, <2>7, <2>9, <2>10 DEF Outside
<1>3. ASSUME NEW r \in DOMAIN requests, DecideRequest(r)
      PROVE  Outside
  <2>1. PICK status \in {"approved", "denied", "expired"} :
           requests' = [requests EXCEPT ![r].status = status]
      BY <1>3 DEF DecideRequest
  <2>2. UNCHANGED <<rowVars, child, batch, revived, proc, cancels, mishaps, due>>
        /\ requests[r].status = "pending"
      BY <1>3 DEF DecideRequest
  <2>3. batch \in [Steps -> Seq(Item)] /\ requests \in Seq(Request)
      BY <1>0
  <2>4. requests[r] \in Request
      BY <2>3
  <2>5. [requests[r] EXCEPT !.status = status] \in Request
        /\ [requests[r] EXCEPT !.status = status].status = status
      BY <2>4 DEF Request
  <2> DEFINE e == [requests[r] EXCEPT !.status = status]
  <2>6. requests' = [requests EXCEPT ![r] = e] /\ e \in Request /\ e.status # "pending"
      BY <2>1, <2>5
  <2> HIDE DEF e
  <2>7. /\ requests' \in Seq(Request) /\ Len(requests') = Len(requests)
        /\ \A q \in DOMAIN requests :
             requests'[q].status = "pending" => requests[q].status = "pending"
      BY <2>2, <2>3, <2>6
  <2>8. JobsGoOn({})
      BY <1>0, <2>2, JobsStay
  <2>9. WorkGoesOn({})
      BY <1>0, <2>2, <2>3, <2>7, <2>8 DEF WorkGoesOn
  <2>10. due' \in BOOLEAN
      BY <1>0, <2>2, Zenon
  <2> QED BY <2>2, <2>7, <2>9, <2>10 DEF Outside
<1>4. ASSUME LoseCall
      PROVE  Outside
  <2>1. UNCHANGED <<rowVars, workVars, proc, cancels>> /\ due' = FALSE
        /\ mishaps' = mishaps + 1 /\ cancels + mishaps < TroubleBound
      BY <1>4 DEF LoseCall
  <2>2. WorkGoesOn({})
      BY <2>1, WorkStays
  <2> QED BY <2>1, <2>2 DEF Outside, workVars
<1> QED BY <1>1, <1>2, <1>3, <1>4 DEF Elsewhere, Elsewise

LEMMA WorkOfAdvance ==
    ASSUME TypesOK, HandInv, AdvanceOn \/ CancelOn("cancel") \/ Enter \/ CancelRun
    PROVE  \E new \in SUBSET Jobs : WorkGoesOn(new) /\ \A s \in new : SubmitChild(s)
<1> DEFINE Goal == \E new \in SUBSET Jobs :
                     WorkGoesOn(new) /\ \A s \in new : SubmitChild(s)
<1>0. /\ requests \in Seq(Request) /\ batch \in [Steps -> Seq(Item)]
      /\ Len(requests) \in Nat /\ \A s \in Steps : Len(batch[s]) \in Nat
      /\ JobsOK /\ revived \subseteq Jobs /\ mishaps \in Nat
  <2>1. requests \in Seq(Request) /\ batch \in [Steps -> Seq(Item)]
      BY TypesGive DEF Request, Item
  <2>2. JobsOK /\ revived \subseteq Jobs /\ mishaps \in Nat
      BY TypesGive
  <2>3. \A s \in Steps : Len(batch[s]) \in Nat
      BY <2>1
  <2> QED BY <2>1, <2>2, <2>3
<1>9. WorkGoesOn({}) => Goal
    OBVIOUS
<1>1. CASE UNCHANGED workVars
    BY <1>1, <1>9, WorkStays
<1>2. CASE JobStatement /\ UNCHANGED <<requests, batch>>
  <2>1. \A s \in Steps : ReleaseChild(s) => Kind[s] = "agent"
      BY Releases DEF ReleaseDone
  <2>2. PICK new \in SUBSET Jobs : JobsGoOn(new) /\ \A s \in new : SubmitChild(s)
      BY <1>0, <1>2, <2>1, JobsStep
  <2>3. WorkGoesOn(new)
      BY <1>0, <1>2, <2>2 DEF WorkGoesOn
  <2> QED BY <2>2, <2>3
<1>3. ASSUME NEW s \in Steps, AskApproval(s)
      PROVE  WorkGoesOn({})
  <2>1. UNCHANGED <<child, batch, revived>>
      BY <1>3 DEF AskApproval
  <2>2. \/ requests' = requests
        \/ requests' = Append(requests, [action |-> ActionOf[s], status |-> "pending"])
      BY <1>3 DEF AskApproval
  <2>3. [action |-> ActionOf[s], status |-> "pending"] \in Request
      BY DEF Request
  <2> DEFINE e == [action |-> ActionOf[s], status |-> "pending"]
  <2> HIDE DEF e
  <2>6. e \in Request /\ (requests' = requests \/ requests' = Append(requests, e))
      BY <2>2, <2>3 DEF e
  <2>7. Append(requests, e) \in Seq(Request) /\ Len(Append(requests, e)) = Len(requests) + 1
      BY <1>0, <2>6
  <2>4. requests' \in Seq(Request) /\ Len(requests) <= Len(requests')
    <3>1. CASE requests' = requests
        BY <1>0, <3>1
    <3>2. CASE requests' = Append(requests, e)
        BY <1>0, <2>7, <3>2
    <3> QED BY <2>6, <3>1, <3>2
  <2>5. JobsGoOn({})
      BY <1>0, <2>1, JobsStay
  <2> QED BY <1>0, <2>1, <2>4, <2>5 DEF WorkGoesOn
<1>4. ASSUME NEW s \in Steps, QueueBatch(s)
      PROVE  WorkGoesOn({})
  <2>1. UNCHANGED <<child, requests, revived>>
      BY <1>4 DEF QueueBatch
  <2>2. batch' = [batch EXCEPT ![s] = Append(batch[s], "running")]
      BY <1>4 DEF QueueBatch
  <2>3. Append(batch[s], "running") \in Seq(Item)
        /\ Len(Append(batch[s], "running")) = Len(batch[s]) + 1
      BY <1>0 DEF Item
  <2>4. batch' \in [Steps -> Seq(Item)] /\ \A t \in Steps : Len(batch[t]) <= Len(batch'[t])
      BY <1>0, <2>2, <2>3
  <2>5. JobsGoOn({})
      BY <1>0, <2>1, JobsStay
  <2> QED BY <1>0, <2>1, <2>4, <2>5 DEF WorkGoesOn
<1>5. ASSUME Enter \/ CancelRun \/ Synced \/ Judge \/ Conclude
      PROVE  UNCHANGED workVars
    BY <1>5 DEF Enter, CancelRun, Synced, Judge, Conclude
<1>6. ASSUME NEW p \in {"advance", "cancel"}, CancelOn(p)
      PROVE  UNCHANGED workVars \/ (JobStatement /\ UNCHANGED <<requests, batch>>)
    BY <1>6 DEF CancelOn, List, AskChildren, ConcludeCancel, MarkStep, JobStatement
<1>7. ASSUME NEW s \in Steps, SyncStep(s) \/ SkipStep(s) \/ RunLocal(s) \/ RecordStep(s)
      PROVE  UNCHANGED workVars
    BY <1>7 DEF SyncStep, SkipStep, RunLocal, RecordStep
<1>8. ASSUME NEW s \in Steps, SubmitChild(s) \/ ReleaseChild(s)
      PROVE  JobStatement /\ UNCHANGED <<requests, batch>>
    BY <1>8 DEF SubmitChild, ReleaseChild, JobStatement
<1>13. (JobStatement /\ UNCHANGED <<requests, batch>>) => Goal
    BY <1>2
<1>14. UNCHANGED workVars => Goal
    BY <1>1
<1> HIDE DEF Goal
<1>10. ASSUME NEW s \in Steps, SyncStep(s) \/ Begin(s)
       PROVE  Goal
  <2>1. CASE SyncStep(s) \/ SkipStep(s) \/ RunLocal(s) \/ RecordStep(s)
      BY <1>14, <1>7, <2>1
  <2>2. CASE SubmitChild(s) \/ ReleaseChild(s)
      BY <1>13, <1>8, <2>2
  <2>3. CASE AskApproval(s) \/ QueueBatch(s)
      BY <1>3, <1>4, <1>9, <2>3
  <2> QED BY <1>10, <2>1, <2>2, <2>3 DEF Begin
<1>11. ASSUME NEW p \in {"advance", "cancel"}, CancelOn(p)
       PROVE  Goal
    BY <1>13, <1>14, <1>6, <1>11
<1>12. Goal
  <2>1. CASE Enter \/ CancelRun \/ Synced \/ Judge \/ Conclude
      BY <1>14, <1>5, <2>1
  <2> QED BY <1>10, <1>11, <2>1 DEF AdvanceOn
<1> QED BY <1>12 DEF Goal

-----------------------------------------------------------------------------
(***************************************************************************)
(* Every step is one of these.                                             *)
(***************************************************************************)
CrashDone(p) ==
    /\ proc[p].pc # "free"
    /\ UNCHANGED <<rowVars, workVars, due, cancels>>
    /\ mishaps' = mishaps + 1
    /\ p = "cancel" \/ cancels + mishaps < TroubleBound
    /\ Moves(p, "free", FALSE, Unread, 1, "pending", 0)

StepDone(s) ==
    \/ SyncDone(s) \/ PlaceDone(s) \/ BeginDone(s) \/ ReleaseDone(s) \/ RecordDone(s)

NextDone ==
    \/ EnterDone \/ SyncedDone \/ JudgeDone \/ ConcludeDone \/ CancelDone \/ Outside
    \/ \E p \in {"advance", "cancel"} :
         \/ ListDone(p) \/ AskDone(p) \/ ConcludeCancelDone(p) \/ CrashDone(p)
         \/ \E s \in Steps : MarkDone(p, s)
    \/ \E s \in Steps : StepDone(s)

LEMMA Crashes ==
    ASSUME TypesOK, NEW p \in {"advance", "cancel"}, Crash(p)
    PROVE  CrashDone(p)
BY TypesGive, Gone DEF Crash, CrashDone, At

LEMMA Kinds ==
    ASSUME TypesOK, RefsInv, HandInv, CancelInv, Next
    PROVE  NextDone
<1>1. /\ ProcOK /\ RunOK /\ step \in View
    BY TypesGive
<1>2. ASSUME NEW p \in {"advance", "cancel"}, CancelOn(p)
      PROVE  NextDone
  <2>1. CASE List(p)
      BY <1>1, <2>1, Listed DEF NextDone
  <2>2. CASE AskChildren(p) \/ ConcludeCancel(p)
      BY <2>2, AsksChildren, ConcludesCancel DEF NextDone
  <2>3. ASSUME NEW s \in Steps, MarkStep(p, s)
        PROVE  NextDone
      BY <2>3, Marks DEF NextDone
  <2> QED BY <1>2, <2>1, <2>2, <2>3 DEF CancelOn
<1>3. ASSUME NEW s \in Steps, SyncStep(s) \/ Begin(s)
      PROVE  NextDone
  <2>1. StepDone(s)
    <3>1. CASE SyncStep(s)
        BY <3>1, Syncs DEF StepDone
    <3>2. CASE SkipStep(s) \/ RunLocal(s)
        BY <3>2, InPlace DEF StepDone
    <3>3. CASE AskApproval(s) \/ SubmitChild(s) \/ QueueBatch(s)
        BY <3>3, Begun1 DEF StepDone
    <3>4. CASE ReleaseChild(s)
        BY <3>4, Releases DEF StepDone
    <3>5. CASE RecordStep(s)
        BY <3>5, Records DEF StepDone
    <3> QED BY <1>3, <3>1, <3>2, <3>3, <3>4, <3>5 DEF Begin
  <2> QED BY <2>1 DEF NextDone
<1>4. CASE Synced \/ Judge \/ Conclude
    BY <1>4, SyncsEnd, Judges, Concludes DEF NextDone
<1>5. CASE Enter \/ CancelRun
    BY <1>1, <1>5, Entered, Cancels DEF NextDone
<1>6. CASE Elsewhere
  <2>1. CASE \E p \in {"advance", "cancel"} : Crash(p)
      BY <2>1, Crashes DEF NextDone
  <2>2. CASE \A p \in {"advance", "cancel"} : ~Crash(p)
      BY <1>6, <2>2, WorkElsewhere DEF NextDone
  <2> QED BY <2>1, <2>2
<1> QED BY <1>2, <1>3, <1>4, <1>5, <1>6 DEF Next, AdvanceOn

LEMMA WorkAlways ==
    ASSUME TypesOK, HandInv, Next
    PROVE  \E new \in SUBSET Jobs : WorkGoesOn(new) /\ \A s \in new : BeginDone(s)
<1>1. CASE AdvanceOn \/ CancelOn("cancel") \/ Enter \/ CancelRun
  <2>1. PICK new \in SUBSET Jobs : WorkGoesOn(new) /\ \A s \in new : SubmitChild(s)
      BY <1>1, WorkOfAdvance
  <2>2. \A s \in new : BeginDone(s)
      BY <2>1, Begun1, TypesGive
  <2> QED BY <2>1, <2>2
<1>2. CASE Elsewhere
  <2>1. ASSUME NEW p \in {"advance", "cancel"}, Crash(p)
        PROVE  WorkGoesOn({})
      BY <2>1, WorkStays DEF Crash
  <2>2. CASE \A p \in {"advance", "cancel"} : ~Crash(p)
      BY <1>2, <2>2, WorkElsewhere DEF Outside
  <2> QED BY <2>1, <2>2
<1> QED BY <1>1, <1>2 DEF Next

-----------------------------------------------------------------------------
(***************************************************************************)
(* Types, and the number of crashes.                                       *)
(***************************************************************************)
RowsOK == RunOK /\ step \in View /\ ref \in [Steps -> Nat]
WorkOK ==
    /\ JobsOK /\ revived \subseteq Jobs
    /\ requests \in Seq(Request) /\ batch \in [Steps -> Seq(Item)]
CountsOK == due \in BOOLEAN /\ cancels \in 0 .. TroubleBound /\ mishaps \in Nat

LEMMA TypesFrom == RowsOK /\ CountsOK /\ ProcOK /\ WorkOK /\ MishapInv => TypesOK
<1> SUFFICES ASSUME RowsOK, CountsOK, ProcOK, WorkOK, MishapInv
             PROVE  TypesOK
    OBVIOUS
<1>1. mishaps \in 0 .. 2 * TroubleBound
    BY DEF MishapInv, Mark, CountsOK
<1>2. due \in BOOLEAN
    BY Zenon DEF CountsOK
<1>3. run \in [status : RunStatus, cancel : BOOLEAN]
    BY Zenon DEF RowsOK, RunOK
<1>4. ChildTypeOK /\ JobsOK
    BY DEF WorkOK, JobsOK
<1> QED BY <1>1, <1>2, <1>3, <1>4
        DEF WorkOK, TypesOK, WorkflowTypeOK, RowsOK, ProcOK, CountsOK, Request, Item, View

LEMMA RowsStayOK ==
    ASSUME TypesOK, NextDone
    PROVE  RowsOK' /\ ProcOK'
<1>0. RunOK /\ step \in View /\ ref \in [Steps -> Nat] /\ ProcOK /\ A.ref \in Nat
      /\ RunOK
    BY TypesGive
<1>1. CASE UNCHANGED rowVars /\ (ProcOK' \/ UNCHANGED proc)
    BY <1>0, <1>1 DEF rowVars, RowsOK, RunOK, ProcOK
<1>2. CASE EnterDone \/ SyncedDone \/ JudgeDone \/ Outside
    BY <1>1, <1>2 DEF EnterDone, SyncedDone, JudgeDone, Outside, Moves
<1>3. CASE ConcludeDone
    BY <1>0, <1>3 DEF ConcludeDone, RowsOK, Moves
<1>4. ASSUME run' = [status |-> "canceled", cancel |-> TRUE]
      PROVE  RunOK'
  <2>1. "canceled" \in RunStatus
      BY DEF RunStatus, EndedRun
  <2> QED BY <1>4, <2>1, Zenon DEF RunOK
<1>5. CASE CancelDone
    BY <1>0, <1>4, <1>5 DEF CancelDone, RowsOK, Moves
<1>6. ASSUME NEW p \in {"advance", "cancel"},
             ListDone(p) \/ AskDone(p) \/ CrashDone(p)
      PROVE  RowsOK' /\ ProcOK'
    BY <1>1, <1>6 DEF ListDone, AskDone, CrashDone, Moves
<1>7. ASSUME NEW p \in {"advance", "cancel"}, ConcludeCancelDone(p)
      PROVE  RowsOK' /\ ProcOK'
    BY <1>0, <1>4, <1>7 DEF ConcludeCancelDone, RowsOK, Moves
<1>8. ASSUME NEW s \in Steps, NEW status \in StepStatus,
             step' = [step EXCEPT ![s] = status]
      PROVE  step' \in View
    BY <1>0, <1>8 DEF View
<1>9. ASSUME NEW p \in {"advance", "cancel"}, NEW s \in Steps, MarkDone(p, s)
      PROVE  RowsOK' /\ ProcOK'
  <2>1. step' \in View
      BY <1>8, <1>9 DEF MarkDone, StepStatus, EndedStep, Ended
  <2> QED BY <1>0, <1>9, <2>1 DEF MarkDone, RowsOK, Moves, RunOK
<1>10. ASSUME NEW s \in Steps, StepDone(s)
       PROVE  RowsOK' /\ ProcOK'
  <2>1. CASE SyncDone(s)
    <3>1. step' \in View
        BY <1>0, <1>8, <2>1 DEF SyncDone
    <3> QED BY <1>0, <2>1, <3>1 DEF SyncDone, RowsOK, Moves, RunOK
  <2>2. CASE PlaceDone(s)
    <3>1. step' \in View
        BY <1>8, <2>2 DEF PlaceDone, StepStatus, EndedStep, Ended
    <3> QED BY <1>0, <2>2, <3>1 DEF PlaceDone, RowsOK, Moves, RunOK
  <2>3. CASE BeginDone(s) \/ ReleaseDone(s)
      BY <1>1, <2>3 DEF BeginDone, ReleaseDone, Moves
  <2>4. CASE RecordDone(s)
    <3>1. step' \in View
        BY <1>8, <2>4 DEF RecordDone
    <3>2. ref' \in [Steps -> Nat]
        BY <1>0, <2>4 DEF RecordDone
    <3> QED BY <1>0, <2>4, <3>1, <3>2 DEF RecordDone, RowsOK, Moves, RunOK
  <2> QED BY <1>10, <2>1, <2>2, <2>3, <2>4 DEF StepDone
<1> QED BY <1>2, <1>3, <1>5, <1>6, <1>7, <1>9, <1>10 DEF NextDone

LEMMA CountsStayOK ==
    ASSUME TypesOK, MishapInv, CancelInv, NextDone
    PROVE  CountsOK' /\ MishapInv'
<1>0. /\ mishaps \in Nat /\ cancels \in Nat /\ cancels <= TroubleBound /\ TroubleBound \in Nat
      /\ mishaps + Mark("cancel") <= 2 * TroubleBound
    BY TypesGive DEF TypesOK, WorkflowTypeOK, MishapInv
<1>1. due \in BOOLEAN
    BY Zenon DEF TypesOK, WorkflowTypeOK
<1>2. ASSUME due' \in BOOLEAN, cancels' = cancels, mishaps' = mishaps,
             C.pc = "free" => C'.pc = "free"
      PROVE  CountsOK' /\ MishapInv'
    BY <1>0, <1>2 DEF CountsOK, MishapInv, Mark, C
<1>3. ASSUME due' = due, cancels' = cancels, mishaps' = mishaps,
             C.pc = "free" => C'.pc = "free"
      PROVE  CountsOK' /\ MishapInv'
    BY <1>1, <1>2, <1>3
<1>4. CASE EnterDone
  <2>1. due' \in BOOLEAN
      BY <1>4, Zenon DEF EnterDone
  <2> QED BY <1>2, <1>4, <2>1 DEF EnterDone, Moves, C
<1>5. CASE SyncedDone \/ JudgeDone \/ ConcludeDone
    BY <1>3, <1>5 DEF SyncedDone, JudgeDone, ConcludeDone, Moves, C
<1>6. CASE CancelDone
    BY <1>0, <1>1, <1>6 DEF CancelDone, CountsOK, MishapInv, Mark
<1>7. CASE Outside
  <2>1. due' \in BOOLEAN
      BY <1>7 DEF Outside
  <2>2. CASE mishaps' = mishaps
      BY <1>2, <1>7, <2>1, <2>2 DEF Outside, C
  <2>3. CASE mishaps' = mishaps + 1 /\ cancels + mishaps < TroubleBound
      BY <1>0, <1>7, <2>1, <2>3 DEF Outside, CountsOK, MishapInv, Mark
  <2> QED BY <1>7, <2>2, <2>3 DEF Outside
<1>8. ASSUME NEW p \in {"advance", "cancel"}, CrashDone(p)
      PROVE  CountsOK' /\ MishapInv'
  <2>1. CASE p = "cancel"
      BY <1>0, <1>1, <1>8, <2>1 DEF CrashDone, CountsOK, MishapInv, Mark, Moves
  <2>2. CASE p = "advance"
      BY <1>0, <1>1, <1>8, <2>2 DEF CrashDone, CountsOK, MishapInv, Mark, Moves
  <2> QED BY <2>1, <2>2
<1>9. ASSUME NEW p \in {"advance", "cancel"},
             ListDone(p) \/ AskDone(p) \/ ConcludeCancelDone(p)
             \/ \E s \in Steps : MarkDone(p, s)
      PROVE  CountsOK' /\ MishapInv'
  <2>1. due' = due /\ cancels' = cancels /\ mishaps' = mishaps
      BY <1>9 DEF ListDone, AskDone, ConcludeCancelDone, MarkDone
  <2>2. C.pc = "free" => C'.pc = "free"
      BY <1>9 DEF ListDone, AskDone, ConcludeCancelDone, MarkDone, Moves, C
  <2> QED BY <1>3, <2>1, <2>2
<1>10. ASSUME NEW s \in Steps, StepDone(s)
       PROVE  CountsOK' /\ MishapInv'
  <2>1. due' = due /\ cancels' = cancels /\ mishaps' = mishaps
      BY <1>10 DEF StepDone, SyncDone, PlaceDone, BeginDone, ReleaseDone, RecordDone
  <2>2. C'.pc = C.pc
      BY <1>10 DEF StepDone, SyncDone, PlaceDone, BeginDone, ReleaseDone, RecordDone,
         Moves, C
  <2> QED BY <1>3, <2>1, <2>2
<1> QED BY <1>4, <1>5, <1>6, <1>7, <1>8, <1>9, <1>10 DEF NextDone

-----------------------------------------------------------------------------
(***************************************************************************)
(* References.                                                             *)
(***************************************************************************)
\* Where neither rows nor references change.
LEMMA RefsKept ==
    ASSUME TypesOK, RefsInv, NEW new \in SUBSET Jobs, WorkGoesOn(new),
           UNCHANGED <<step, ref>>,
           Inside' => A'.view = step \/ (Inside /\ A'.view = A.view)
    PROVE  RefsInv'
<1>1. /\ ref \in [Steps -> Nat] /\ Jobs \subseteq Steps
      /\ Len(requests) \in Nat /\ \A s \in Steps : Len(batch[s]) \in Nat
      /\ Len(requests') \in Nat /\ \A s \in Steps : Len(batch'[s]) \in Nat
    BY TypesGive DEF WorkGoesOn, Item, Request
<1>2. \A s \in Steps : Kind[s] = "approval" => ref[s] <= Len(requests')
    BY <1>1 DEF RefsInv, WorkGoesOn
<1>3. \A s \in Steps : Kind[s] = "batch" => ref[s] <= Len(batch'[s])
    BY <1>1 DEF RefsInv, WorkGoesOn
<1>4. \A s \in Jobs : ref[s] # 0 => child'[s].status # "none"
    BY DEF RefsInv, WorkGoesOn, JobsGoOn
<1>5. ASSUME NEW s \in Steps, NEW status, Referred(s, status)
      PROVE  Referred(s, status)'
    BY <1>5 DEF Referred
<1>6. \A s \in Steps : Referred(s, step[s])'
    BY <1>5 DEF RefsInv
<1>7. ASSUME Inside', NEW s \in Steps
      PROVE  Referred(s, A.view[s])'
  <2>1. Referred(s, A'.view[s])
      BY <1>7 DEF RefsInv
  <2> QED BY <2>1 DEF Referred, A
<1> QED BY <1>2, <1>3, <1>4, <1>6, <1>7 DEF RefsInv

\* Where a process writes one row and goes on with it.
LEMMA RefsWritten ==
    ASSUME TypesOK, RefsInv, NEW s \in Steps, NEW status \in StepStatus,
           UNCHANGED <<ref, workVars>>,
           step' = [step EXCEPT ![s] = status] \/ step' = step,
           Referred(s, status),
           Inside' => Inside /\ (A'.view = A.view \/ A'.view = Seen(s, status))
    PROVE  RefsInv'
<1>1. step \in View /\ A.view \in View
    BY TypesGive
<1>2. ASSUME NEW t \in Steps, NEW x, Referred(t, x)
      PROVE  Referred(t, x)'
    BY <1>2 DEF Referred
<1>3. ASSUME NEW t \in Steps
      PROVE  Referred(t, step[t])'
  <2>1. step'[t] = step[t] \/ (t = s /\ step'[t] = status)
      BY <1>1 DEF View
  <2>2. Referred(t, step'[t])
      BY <2>1 DEF RefsInv
  <2> QED BY <1>2, <2>2
<1>4. ASSUME Inside', NEW t \in Steps
      PROVE  Referred(t, A.view[t])'
  <2>1. A'.view[t] = A.view[t] \/ (t = s /\ A'.view[t] = status)
      BY <1>1, <1>4 DEF View, Seen
  <2>2. Referred(t, A'.view[t])
      BY <1>4, <2>1 DEF RefsInv
  <2> QED BY <2>2 DEF Referred, A
<1> QED BY <1>3, <1>4 DEF RefsInv, workVars

LEMMA RefsStay ==
    ASSUME TypesOK, RefsInv, HandInv, NextDone, NEW new \in SUBSET Jobs, WorkGoesOn(new)
    PROVE  RefsInv'
<1>1. CASE EnterDone \/ SyncedDone \/ JudgeDone \/ ConcludeDone \/ CancelDone \/ Outside
  <2>1. UNCHANGED <<step, ref>>
      BY <1>1 DEF EnterDone, SyncedDone, JudgeDone, ConcludeDone, CancelDone, Outside, rowVars
  <2>2. Inside' => Inside /\ A'.view = A.view
      BY <1>1 DEF EnterDone, SyncedDone, JudgeDone, ConcludeDone, CancelDone, Outside, Moves,
         Inside, A
  <2> QED BY <2>1, <2>2, RefsKept
<1>2. ASSUME NEW p \in {"advance", "cancel"},
             ListDone(p) \/ AskDone(p) \/ ConcludeCancelDone(p) \/ CrashDone(p)
      PROVE  RefsInv'
  <2>1. UNCHANGED <<step, ref>>
      BY <1>2 DEF ListDone, AskDone, ConcludeCancelDone, CrashDone, rowVars
  <2>2. Inside' => A'.view = step \/ (Inside /\ A'.view = A.view)
      BY <1>2 DEF ListDone, AskDone, ConcludeCancelDone, CrashDone, Moves, Inside, A
  <2> QED BY <2>1, <2>2, RefsKept
<1>3. ASSUME NEW p \in {"advance", "cancel"}, NEW s \in Steps, MarkDone(p, s)
      PROVE  RefsInv'
  <2>1. Referred(s, "canceled") /\ "canceled" \in StepStatus
      BY DEF Referred, StepStatus, EndedStep, Ended
  <2>2. Inside' => Inside /\ A'.view = A.view
      BY <1>3 DEF MarkDone, Moves, Inside, A
  <2> QED BY <1>3, <2>1, <2>2, RefsWritten DEF MarkDone
<1>4. ASSUME NEW s \in Steps, SyncDone(s)
      PROVE  RefsInv'
  <2>1. Inside /\ Watched(s)
      BY <1>4 DEF SyncDone, Inside
  <2>2. Referred(s, Reported(s))
      BY <2>1, ReportedOK DEF Referred
  <2>3. Inside' => A'.view = Seen(s, Reported(s))
      BY <1>4 DEF SyncDone, Moves, Inside, A
  <2> QED BY <1>4, <2>1, <2>2, <2>3, RefsWritten DEF SyncDone
<1>5. ASSUME NEW s \in Steps, PlaceDone(s)
      PROVE  RefsInv'
  <2>1. PICK status \in {"skipped", "succeeded"} :
          /\ Turn(s)
          /\ Moves("advance", "starting", A.stop, Seen(s, status), s + 1, A.status, A.ref)
          /\ step' = [step EXCEPT ![s] = status]
          /\ status = "succeeded" => Kind[s] = "local"
          /\ UNCHANGED <<run, ref, workVars, due, cancels, mishaps>>
      BY <1>5 DEF PlaceDone
  <2>2. Inside /\ A.view[s] = "pending"
      BY <2>1 DEF Turn, Ready, Known, A, Inside
  <2>3. Referred(s, status) /\ status \in StepStatus
      BY <2>1, <2>2 DEF RefsInv, Referred, StepStatus, EndedStep, Ended
  <2>4. A'.view = Seen(s, status)
      BY <2>1 DEF Moves, A
  <2> QED BY <2>1, <2>2, <2>3, <2>4, RefsWritten
<1>6. ASSUME NEW s \in Steps, BeginDone(s) \/ ReleaseDone(s)
      PROVE  RefsInv'
  <2>1. UNCHANGED <<step, ref>>
      BY <1>6 DEF BeginDone, ReleaseDone, rowVars
  <2>2. Inside' => Inside /\ A'.view = A.view
      BY <1>6 DEF BeginDone, ReleaseDone, Turn, Moves, Inside, A
  <2> QED BY <2>1, <2>2, RefsKept
<1>7. ASSUME NEW s \in Steps, RecordDone(s)
      PROVE  RefsInv'
  <2>1. /\ ref \in [Steps -> Nat] /\ step \in View /\ A.view \in View /\ A.ref \in Nat
        /\ Jobs = {t \in Steps : Kind[t] = "agent"}
      BY TypesGive
  <2>2. /\ A.pc = "recording" /\ s = A.at /\ UNCHANGED workVars
        /\ step' = [step EXCEPT ![s] = A.status] /\ ref' = [ref EXCEPT ![s] = A.ref]
        /\ A'.view = [A.view EXCEPT ![s] = A.status]
      BY <1>7 DEF RecordDone, Moves, A, Seen
  <2>3. /\ A.ref >= 1 /\ A.status \in StepStatus \ {"pending", "skipped"}
        /\ Kind[s] = "approval" => A.ref <= Len(requests)
        /\ Kind[s] = "batch" => A.ref <= Len(batch[s])
        /\ Kind[s] = "agent" => child[s].status # "none"
      BY <2>2 DEF HandInv, Beginning
  <2>4. UNCHANGED <<child, requests, batch>> /\ Inside
      BY <2>2 DEF workVars, Inside
  <2>5. \A t \in Steps : t # s => ref'[t] = ref[t] /\ step'[t] = step[t]
                                  /\ A'.view[t] = A.view[t]
      BY <2>1, <2>2 DEF View
  <2>6. ref'[s] = A.ref /\ step'[s] = A.status /\ A'.view[s] = A.status /\ A.ref # 0
      BY <2>1, <2>2, <2>3 DEF View
  <2>7. ASSUME NEW t \in Steps
        PROVE  Referred(t, step[t])' /\ Referred(t, A.view[t])'
    <3>1. CASE t = s
        BY <2>3, <2>6, <3>1 DEF Referred
    <3>2. CASE t # s
      <4>1. Referred(t, step[t]) /\ Referred(t, A.view[t])
          BY <2>4 DEF RefsInv
      <4> QED BY <2>5, <3>2, <4>1 DEF Referred
    <3> QED BY <3>1, <3>2
  <2>8. \A t \in Steps : Kind[t] = "approval" => ref'[t] <= Len(requests)
      BY <2>3, <2>5, <2>6 DEF RefsInv
  <2>9. \A t \in Steps : Kind[t] = "batch" => ref'[t] <= Len(batch[t])
      BY <2>3, <2>5, <2>6 DEF RefsInv
  <2>10. \A t \in Jobs : ref'[t] # 0 => child[t].status # "none"
      BY <2>1, <2>3, <2>5, <2>6 DEF RefsInv
  <2> QED BY <2>4, <2>7, <2>8, <2>9, <2>10 DEF RefsInv
<1> QED BY <1>1, <1>2, <1>3, <1>4, <1>5, <1>6, <1>7 DEF NextDone, StepDone

-----------------------------------------------------------------------------
(***************************************************************************)
(* What advance() has in its hands.                                        *)
(***************************************************************************)
LEMMA HandStill ==
    ASSUME TypesOK, HandInv, NEW new \in SUBSET Jobs, WorkGoesOn(new), A' = A
    PROVE  HandInv'
<1>1. /\ Jobs = {t \in Steps : Kind[t] = "agent"} /\ A.ref \in Nat
      /\ Len(requests) \in Nat /\ \A s \in Steps : Len(batch[s]) \in Nat
      /\ Len(requests') \in Nat /\ \A s \in Steps : Len(batch'[s]) \in Nat
    BY TypesGive DEF WorkGoesOn, Item, Request
<1>2. A'.at >= 1
    BY DEF HandInv
<1>3. ASSUME Beginning
      PROVE  /\ A.at \in Steps /\ A.view[A.at] = "pending"
             /\ Kind[A.at] \in {"agent", "approval", "batch"}
             /\ \A d \in DependsOn[A.at] : A.view[d] \in EndedStep
             /\ Matches(A.at)'
             /\ Kind[A.at] = "agent" => child'[A.at].status # "none"
  <2>1. Matches(A.at)'
      BY <1>3 DEF HandInv, Matches, Known, A
  <2> QED BY <1>1, <1>3, <2>1 DEF HandInv, WorkGoesOn, JobsGoOn
<1>4. ASSUME A.pc = "recording"
      PROVE  /\ A.ref >= 1
             /\ Kind[A.at] = "approval" => A.ref <= Len(requests')
             /\ Kind[A.at] = "batch" => A.ref <= Len(batch'[A.at])
             /\ A.status \in StepStatus \ {"pending", "skipped"}
             /\ Kind[A.at] = "agent" /\ A.at \notin revived' /\ A.status \in Ended
                  => child'[A.at].status = A.status
             /\ Kind[A.at] = "batch" => A.status = "running"
             /\ Kind[A.at] = "approval" => A.status = "waiting_approval"
  <2>1. A.at \in Steps
      BY <1>4 DEF HandInv, Beginning
  <2>2. /\ Kind[A.at] = "approval" => A.ref <= Len(requests')
        /\ Kind[A.at] = "batch" => A.ref <= Len(batch'[A.at])
      BY <1>1, <1>4, <2>1 DEF HandInv, WorkGoesOn
  <2>3. Kind[A.at] = "agent" /\ A.at \notin revived' /\ A.status \in Ended
          => child'[A.at].status = A.status
    <3>1. ASSUME Kind[A.at] = "agent", A.at \notin revived', A.status \in Ended
          PROVE  child'[A.at].status = A.status
      <4>1. A.at \in Jobs /\ A.at \notin revived
          BY <1>1, <2>1, <3>1 DEF WorkGoesOn, JobsGoOn
      <4>2. child[A.at].status = A.status
          BY <1>4, <3>1, <4>1 DEF HandInv
      <4> QED BY <3>1, <4>1, <4>2 DEF WorkGoesOn, JobsGoOn
    <3> QED BY <3>1
  <2> QED BY <1>4, <2>2, <2>3 DEF HandInv
<1>5. A.pc = "submitted" => Kind[A.at] = "agent"
    BY DEF HandInv
<1> QED BY <1>2, <1>3, <1>4, <1>5 DEF HandInv, Beginning

LEMMA HandEmpty ==
    ASSUME A'.pc \notin {"submitted", "recording"}, A'.at >= 1
    PROVE  HandInv'
BY DEF HandInv, Beginning, A

LEMMA HandStays ==
    ASSUME TypesOK, RefsInv, HandInv, NextDone, NEW new \in SUBSET Jobs, WorkGoesOn(new)
    PROVE  HandInv'
<1>0. A.at \in Nat /\ A.at >= 1 /\ Jobs = {t \in Steps : Kind[t] = "agent"}
      /\ Steps \subseteq Nat
    BY TypesGive DEF HandInv
<1>1. ASSUME NEW p \in {"advance", "cancel"},
             \/ ListDone(p) \/ AskDone(p) \/ ConcludeCancelDone(p) \/ CrashDone(p)
             \/ \E s \in Steps : MarkDone(p, s)
      PROVE  HandInv'
  <2>1. CASE p = "cancel"
    <3>1. A' = A
        BY <1>1, <2>1 DEF ListDone, AskDone, ConcludeCancelDone, CrashDone, MarkDone, Moves, A
    <3> QED BY <3>1, HandStill
  <2>2. CASE p = "advance"
    <3>1. A'.pc \notin {"submitted", "recording"}
        BY <1>1, <2>2 DEF ListDone, AskDone, ConcludeCancelDone, CrashDone, MarkDone, Moves, A
    <3>2. A'.at \in {1, A.at} \/ \E s \in Steps : A'.at = s + 1
        BY <1>1, <2>2 DEF ListDone, AskDone, ConcludeCancelDone, CrashDone, MarkDone,
           Moves, A
    <3>3. A'.at >= 1
        BY <1>0, <3>2
    <3> QED BY <3>1, <3>3, HandEmpty
  <2> QED BY <2>1, <2>2
<1>2. CASE CancelDone \/ Outside
  <2>1. A' = A
      BY <1>2 DEF CancelDone, Outside, Moves, A
  <2> QED BY <2>1, HandStill
<1>3. CASE EnterDone
  <2>1. A' = A \/ (A'.pc = "listing" /\ A'.at = A.at)
      BY <1>3 DEF EnterDone, Moves, A
  <2> QED BY <1>0, <2>1, HandStill, HandEmpty
<1>4. CASE SyncedDone \/ JudgeDone \/ ConcludeDone
  <2>1. A'.pc \notin {"submitted", "recording"} /\ A'.at = 1
      BY <1>4 DEF SyncedDone, JudgeDone, ConcludeDone, Moves, A
  <2> QED BY <2>1, HandEmpty
<1>5. ASSUME NEW s \in Steps, SyncDone(s) \/ PlaceDone(s) \/ RecordDone(s)
      PROVE  HandInv'
  <2>1. A'.pc \notin {"submitted", "recording"} /\ A'.at \in {1, s + 1} /\ s \in Nat
      BY <1>0, <1>5 DEF SyncDone, PlaceDone, RecordDone, Moves, A
  <2> QED BY <2>1, HandEmpty
<1>6. ASSUME NEW s \in Steps, BeginDone(s)
      PROVE  HandInv'
  <2>1. /\ s >= 1 /\ A.pc = "starting" /\ A.view[s] = "pending" /\ Matches(s)
        /\ \A d \in DependsOn[s] : A.view[d] \in EndedStep
      BY <1>6 DEF BeginDone, Turn, Ready, Known, A, Steps
  <2>2. A'.view = A.view => Matches(s)'
      BY <2>1 DEF Matches, Known, A
  <2>3. CASE /\ Kind[s] = "agent" /\ Submit(s)
             /\ Moves("advance", "submitted", A.stop, A.view, s, A.status, A.ref)
             /\ UNCHANGED <<requests, batch>>
    <3>1. A'.pc = "submitted" /\ A'.at = s /\ A'.view = A.view
        BY <2>3 DEF Moves, A
    <3>2. child'[s].status # "none"
        BY <1>0, <2>3, JobBecomes, TypesGive DEF Submit, JobsOK, ChildStatus
    <3> QED BY <2>1, <2>2, <2>3, <3>1, <3>2 DEF HandInv, Beginning
  <2>4. ASSUME NEW number \in Nat, NEW status \in StepStatus \ {"pending", "skipped"},
               Moves("advance", "recording", A.stop, A.view, s, status, number),
               Asked(s, number, status)
        PROVE  HandInv'
    <3>1. A'.pc = "recording" /\ A'.at = s /\ A'.view = A.view /\ A'.ref = number
          /\ A'.status = status
        BY <2>4 DEF Moves, A
    <3>2. batch \in [Steps -> Seq(Item)] /\ Len(batch[s]) \in Nat
        BY TypesGive DEF Item
    <3>3. /\ Kind[s] \in {"agent", "approval", "batch"} /\ number >= 1
          /\ Kind[s] = "approval" => number <= Len(requests') /\ status = "waiting_approval"
          /\ Kind[s] = "agent" => child'[s].status = status /\ child'[s].status # "none"
        BY <2>4, <3>2 DEF Asked
    <3>4. Kind[s] = "batch" => number <= Len(batch'[s]) /\ status = "running"
      <4>1. Kind[s] = "batch" => /\ status = "running" /\ number = Len(batch[s]) + 1
                                 /\ batch' = [batch EXCEPT ![s] = Append(@, "running")]
          BY <2>4 DEF Asked
      <4>2. Len(Append(batch[s], "running")) = Len(batch[s]) + 1
          BY <3>2 DEF Item
      <4> QED BY <3>2, <4>1, <4>2
    <3> QED BY <2>1, <2>2, <3>1, <3>3, <3>4 DEF HandInv, Beginning
  <2> QED BY <1>6, <2>3, <2>4 DEF BeginDone
<1>7. ASSUME NEW s \in Steps, ReleaseDone(s)
      PROVE  HandInv'
  <2>1. PICK target \in {"queued", "waiting_approval", "canceled"} :
          /\ Release(s, target)
          /\ Moves("advance", "recording", A.stop, A.view, s, target, 1)
      BY <1>7 DEF ReleaseDone
  <2>2. A'.pc = "recording" /\ A'.at = s /\ A'.view = A.view /\ A'.ref = 1
        /\ A'.status = target
      BY <2>1 DEF Moves, A
  <2>3. A.pc = "submitted" /\ A.at = s /\ s \in Jobs /\ Kind[s] = "agent"
      BY <1>0, <1>7 DEF ReleaseDone
  <2>4. s >= 1 /\ A.view[s] = "pending" /\ Matches(s)
        /\ \A d \in DependsOn[s] : A.view[d] \in EndedStep
      BY <2>3 DEF HandInv, Beginning
  <2>5. Matches(s)'
      BY <2>2, <2>4 DEF Matches, Known, A
  <2>6. child'[s].status = target
      BY <2>1, <2>3, JobBecomes, TypesGive DEF Release, JobsOK, ChildStatus, Ended
  <2>7. target \in StepStatus \ {"pending", "skipped"} /\ target # "none"
      BY DEF StepStatus, EndedStep, ActiveStep, Ended
  <2> QED BY <2>2, <2>3, <2>4, <2>5, <2>6, <2>7 DEF HandInv, Beginning
<1> QED BY <1>1, <1>2, <1>3, <1>4, <1>5, <1>6, <1>7 DEF NextDone, StepDone

-----------------------------------------------------------------------------
(***************************************************************************)
(* Cancellation, and the rows in the eyes of advance().                    *)
(***************************************************************************)
LEMMA CancelStays ==
    ASSUME TypesOK, CancelInv, NextDone
    PROVE  CancelInv'
<1>0. step \in View /\ A.view \in View /\ A.stop \in BOOLEAN /\ run.cancel \in BOOLEAN
    BY TypesGive
<1>1. CASE EnterDone
  <2>1. C' = C /\ run' = run /\ step' = step
      BY <1>1 DEF EnterDone, rowVars, Moves, C
  <2>2. A' = A \/ (A'.pc = "listing" /\ A'.stop = run.cancel /\ run.status \notin EndedRun)
      BY <1>1 DEF EnterDone, Moves, A
  <2> QED BY <2>1, <2>2 DEF CancelInv, Inside
<1>2. CASE SyncedDone
  <2>1. C' = C /\ run' = run /\ step' = step /\ A.pc = "syncing"
      BY <1>2 DEF SyncedDone, rowVars, Moves, C
  <2>2. /\ A'.pc = IF A.stop THEN "asking" ELSE "starting"
        /\ A'.stop = A.stop /\ A'.view = A.view
      BY <1>2 DEF SyncedDone, Moves, A
  <2> QED BY <2>1, <2>2 DEF CancelInv, Inside
<1>3. CASE JudgeDone
  <2>1. C' = C /\ run' = run /\ step' = step /\ A.pc = "starting"
      BY <1>3 DEF JudgeDone, rowVars, Moves, C
  <2>2. /\ A'.pc = "concluding" /\ A'.stop = FALSE
        /\ A'.status \in {"succeeded", "failed", "waiting_approval", "running"}
      BY <1>3 DEF JudgeDone, Moves, A
  <2> QED BY <2>1, <2>2 DEF CancelInv, Inside
<1>4. CASE ConcludeDone
  <2>1. C' = C /\ run'.cancel = run.cancel
      BY <1>4 DEF ConcludeDone, Moves, C
  <2>2. A'.pc = "free" /\ A'.stop = FALSE
      BY <1>4 DEF ConcludeDone, Moves, A
  <2> QED BY <2>1, <2>2 DEF CancelInv, Inside
<1>5. CASE CancelDone
  <2>1. A' = A /\ C'.pc = "listing" /\ run'.cancel = TRUE
      BY <1>5 DEF CancelDone, Moves, A, C
  <2> QED BY <2>1 DEF CancelInv
<1>6. CASE Outside
    BY <1>6 DEF Outside, rowVars, CancelInv, Inside, A, C
<1>7. ASSUME NEW p \in {"advance", "cancel"}, ListDone(p)
      PROVE  CancelInv'
  <2>1. run' = run /\ step' = step
      BY <1>7 DEF ListDone, rowVars
  <2>2. \/ A' = A /\ C'.pc = "asking" /\ C.pc = "listing"
        \/ /\ C' = C /\ A'.pc = "syncing" /\ A'.view = step /\ A'.stop = A.stop
           /\ A.pc = "listing"
      BY <1>7 DEF ListDone, Moves, A, C
  <2> QED BY <2>1, <2>2 DEF CancelInv, Inside
<1>8. ASSUME NEW p \in {"advance", "cancel"}, AskDone(p)
      PROVE  CancelInv'
  <2>1. run' = run /\ step' = step
      BY <1>8 DEF AskDone, rowVars
  <2>2. \/ A' = A /\ C'.pc = "marking" /\ C.pc = "asking"
        \/ C' = C /\ A'.pc = "marking" /\ A'.stop = A.stop /\ A.pc = "asking"
      BY <1>8 DEF AskDone, Moves, A, C
  <2> QED BY <2>1, <2>2 DEF CancelInv, Inside
<1>9. ASSUME NEW p \in {"advance", "cancel"}, NEW s \in Steps, MarkDone(p, s)
      PROVE  CancelInv'
  <2>1. run' = run
      BY <1>9 DEF MarkDone
  <2>2. \/ A' = A /\ C'.pc = "marking" /\ C.pc = "marking"
        \/ C' = C /\ A'.pc = "marking" /\ A'.stop = A.stop /\ A.pc = "marking"
      BY <1>9 DEF MarkDone, Moves, A, C
  <2> QED BY <2>1, <2>2 DEF CancelInv, Inside
<1>10. ASSUME NEW p \in {"advance", "cancel"}, ConcludeCancelDone(p)
       PROVE  CancelInv'
  <2>1. run'.cancel = TRUE
      BY <1>10 DEF ConcludeCancelDone
  <2>2. \/ A' = A /\ C'.pc = "free"
        \/ C' = C /\ A'.pc = "free" /\ A'.stop = FALSE
      BY <1>10 DEF ConcludeCancelDone, Moves, A, C
  <2> QED BY <2>1, <2>2 DEF CancelInv, Inside
<1>11. ASSUME NEW p \in {"advance", "cancel"}, CrashDone(p)
       PROVE  CancelInv'
  <2>1. run' = run /\ step' = step
      BY <1>11 DEF CrashDone, rowVars
  <2>2. \/ A' = A /\ C'.pc = "free"
        \/ C' = C /\ A'.pc = "free" /\ A'.stop = FALSE
      BY <1>11 DEF CrashDone, Moves, A, C
  <2> QED BY <2>1, <2>2 DEF CancelInv, Inside
<1>12. ASSUME NEW s \in Steps, SyncDone(s)
       PROVE  CancelInv'
  <2>1. C' = C /\ run' = run /\ A.pc = "syncing"
      BY <1>12 DEF SyncDone, Moves, C
  <2>2. CASE A'.pc = "free" /\ A'.stop = FALSE
      BY <2>1, <2>2 DEF CancelInv, Inside
  <2>3. CASE /\ A'.pc = "syncing" /\ A'.stop = A.stop /\ A'.view = Seen(s, Reported(s))
             /\ \/ step' = [step EXCEPT ![s] = Reported(s)]
                \/ step' = step /\ Reported(s) = A.view[s]
    <3>1. A.view = step => A'.view = step'
        BY <1>0, <2>3 DEF Seen, View
    <3> QED BY <2>1, <2>3, <3>1 DEF CancelInv, Inside
  <2> QED BY <1>12, <2>2, <2>3 DEF SyncDone, Moves, A
<1>13. ASSUME NEW s \in Steps, PlaceDone(s)
       PROVE  CancelInv'
  <2>1. PICK status :
          /\ Turn(s) /\ run' = run
          /\ Moves("advance", "starting", A.stop, Seen(s, status), s + 1, A.status, A.ref)
          /\ step' = [step EXCEPT ![s] = status]
      BY <1>13 DEF PlaceDone
  <2>2. /\ C' = C /\ A'.pc = "starting" /\ A'.stop = A.stop /\ A'.view = Seen(s, status)
        /\ A.pc = "starting"
      BY <2>1 DEF Moves, A, C, Turn
  <2>3. A.view = step => A'.view = step'
      BY <2>1, <2>2 DEF Seen
  <2> QED BY <2>1, <2>2, <2>3 DEF CancelInv, Inside
<1>14. ASSUME NEW s \in Steps, BeginDone(s) \/ ReleaseDone(s)
       PROVE  CancelInv'
  <2>1. run' = run /\ step' = step /\ C' = C
      BY <1>14 DEF BeginDone, ReleaseDone, rowVars, Moves, C
  <2>2. /\ A.pc \in {"starting", "submitted"} /\ A'.pc \in {"submitted", "recording"}
        /\ A'.stop = A.stop /\ A'.view = A.view
      BY <1>14 DEF BeginDone, ReleaseDone, Turn, Moves, A
  <2> QED BY <2>1, <2>2 DEF CancelInv, Inside
<1>15. ASSUME NEW s \in Steps, RecordDone(s)
       PROVE  CancelInv'
  <2>1. /\ run' = run /\ step' = [step EXCEPT ![s] = A.status] /\ C' = C
        /\ A.pc = "recording"
        /\ A'.pc = "starting" /\ A'.stop = FALSE /\ A'.view = [A.view EXCEPT ![s] = A.status]
      BY <1>15 DEF RecordDone, Moves, A, C, Seen
  <2> QED BY <2>1 DEF CancelInv, Inside
<1> QED BY <1>1, <1>2, <1>3, <1>4, <1>5, <1>6, <1>7, <1>8, <1>9, <1>10, <1>11, <1>12,
           <1>13, <1>14, <1>15 DEF NextDone, StepDone

-----------------------------------------------------------------------------
(***************************************************************************)
(* The part of the inductive invariant that says what the rows and the     *)
(* processes are, and that the types follow from it.                       *)
(***************************************************************************)
BasicInv == TypesOK /\ RefsInv /\ HandInv /\ CancelInv /\ MishapInv

LEMMA BasicInit ==
    ASSUME Init
    PROVE  BasicInv
<1>1. A = Free /\ C = Free
    BY DEF Init, A, C
<1>2. ProcOK
    BY FreeOK DEF Init, ProcOK
<1>3. RunOK
  <2>1. "queued" \in RunStatus /\ FALSE \in BOOLEAN
      BY DEF RunStatus
  <2> QED BY <2>1, Zenon DEF Init, RunOK
<1>4. step \in View /\ ref \in [Steps -> Nat] /\ RowsOK
    BY <1>3 DEF Init, View, StepStatus, RowsOK
<1>5. CountsOK
  <2>1. due \in BOOLEAN
      BY Zenon DEF Init
  <2> QED BY <2>1 DEF Init, CountsOK
<1>6. JobsOK
  <2>1. [status |-> "none", cancel |-> FALSE, ran |-> FALSE] \in Child
    <3>1. "none" \in ChildStatus /\ FALSE \in BOOLEAN
        BY DEF ChildStatus
    <3> QED BY <3>1, Zenon DEF Child
  <2>2. child = [j \in Jobs |-> [status |-> "none", cancel |-> FALSE, ran |-> FALSE]]
      BY DEF Init, ChildInit
  <2> QED BY <2>1, <2>2 DEF JobsOK, ChildTypeOK
<1>7. MishapInv
    BY <1>1, FreeOK DEF Init, MishapInv, Mark, C
<1>8. requests \in Seq(Request) /\ batch \in [Steps -> Seq(Item)] /\ revived \subseteq Jobs
    BY DEF Init
<1>9. TypesOK
    BY <1>2, <1>4, <1>5, <1>6, <1>7, <1>8, TypesFrom DEF WorkOK
<1>10. RefsInv
    BY <1>1, FreeOK DEF Init, RefsInv, Referred, Inside
<1>11. HandInv
    BY <1>1, FreeOK DEF HandInv, Beginning
<1>12. CancelInv
    BY <1>1, FreeOK DEF CancelInv, Inside
<1> QED BY <1>7, <1>9, <1>10, <1>11, <1>12 DEF BasicInv

LEMMA BasicNext ==
    ASSUME BasicInv, Next
    PROVE  /\ BasicInv' /\ NextDone
           /\ \E new \in SUBSET Jobs : WorkGoesOn(new) /\ \A s \in new : BeginDone(s)
<1>1. NextDone
    BY Kinds DEF BasicInv
<1>2. PICK new \in SUBSET Jobs : WorkGoesOn(new) /\ \A s \in new : BeginDone(s)
    BY WorkAlways DEF BasicInv
<1>3. RowsOK' /\ ProcOK' /\ CountsOK' /\ MishapInv'
    BY <1>1, RowsStayOK, CountsStayOK DEF BasicInv
<1>4. WorkOK'
    BY <1>2 DEF WorkGoesOn, JobsGoOn, WorkOK
<1>5. TypesOK'
    BY <1>3, <1>4, TypesFrom, PTL
<1>6. RefsInv' /\ HandInv' /\ CancelInv'
    BY <1>1, <1>2, RefsStay, HandStays, CancelStays DEF BasicInv
<1> QED BY <1>1, <1>2, <1>3, <1>5, <1>6 DEF BasicInv

LEMMA BasicStutter ==
    ASSUME BasicInv, UNCHANGED vars
    PROVE  BasicInv'
BY DEF BasicInv, vars, rowVars, workVars, TypesOK, WorkflowTypeOK, JobsOK, ChildTypeOK,
   RefsInv, HandInv, CancelInv, MishapInv, Referred, Inside, Beginning, Mark, A, C,
   Matches, Known

LEMMA BasicAlways == Spec => []BasicInv
<1>1. BasicInv /\ [Next]_vars => BasicInv'
    BY BasicNext, BasicStutter
<1> QED BY <1>1, BasicInit, PTL DEF Spec

(***************************************************************************)
(* The rows, the work, and what both processes hold are what they are      *)
(* taken for, in every run of every definition.                            *)
(***************************************************************************)
THEOREM WorkflowTypesHold == Spec => []WorkflowTypeOK
<1>1. BasicInv => WorkflowTypeOK
    BY DEF BasicInv, TypesOK
<1> QED BY <1>1, BasicAlways, PTL

-----------------------------------------------------------------------------
(***************************************************************************)
(* A step that is over in the eyes of advance(), once it has looked at its *)
(* job, is over as its job is: an ended job stays as it ended.             *)
(***************************************************************************)
Looked(d) == A.pc = "syncing" => d < A.at

TruthInv ==
    /\ A.pc \in {"free", "listing"} => A.at = 1
    /\ Inside => \A d \in Jobs \ revived :
         ref[d] # 0 /\ A.view[d] \in Ended /\ Looked(d) => child[d].status = A.view[d]

\* Where advance() goes on with the rows it has.
LEMMA TruthKept ==
    ASSUME TypesOK, TruthInv, NEW new \in SUBSET Jobs, WorkGoesOn(new), ref' = ref,
           A'.pc \in {"free", "listing"} => A'.at = 1,
           Inside' => /\ Inside /\ A'.view = A.view
                      /\ \A d \in Jobs : Looked(d)' /\ ref[d] # 0 /\ A.view[d] \in Ended
                           => Looked(d)
    PROVE  TruthInv'
<1>1. ASSUME Inside', NEW d \in Jobs \ revived',
             ref'[d] # 0, A'.view[d] \in Ended, Looked(d)'
      PROVE  child'[d].status = A'.view[d]
  <2>1. d \in Jobs \ revived
      BY <1>1 DEF WorkGoesOn, JobsGoOn
  <2>2. child[d].status = A.view[d]
      BY <1>1, <2>1 DEF TruthInv
  <2> QED BY <1>1, <2>1, <2>2 DEF WorkGoesOn, JobsGoOn
<1>2. A'.view = (A.view)' /\ A'.pc = (A.pc)' /\ A'.at = (A.at)'
    BY DEF A
<1> QED BY <1>1 DEF TruthInv

\* Where it writes the row of s, and is past it.
LEMMA TruthWritten ==
    ASSUME TypesOK, TruthInv, NEW s \in Steps, NEW status \in StepStatus,
           UNCHANGED workVars, Inside, Inside', A'.pc \in {"syncing", "starting"},
           A'.view = Seen(s, status),
           \A d \in Jobs : Looked(d)' /\ ref'[d] # 0 /\ A.view[d] \in Ended
             => d = s \/ (Looked(d) /\ ref[d] # 0),
           s \in Jobs \ revived /\ ref'[s] # 0 /\ status \in Ended
             => child[s].status = status
    PROVE  TruthInv'
<1>0. A.view \in View /\ Jobs \subseteq Steps
    BY TypesGive
<1>1. ASSUME NEW d \in Jobs \ revived',
             ref'[d] # 0, A'.view[d] \in Ended, Looked(d)'
      PROVE  child'[d].status = A'.view[d]
  <2>1. child' = child /\ revived' = revived
      BY DEF workVars
  <2>2. CASE d = s
      BY <1>0, <1>1, <2>1, <2>2 DEF Seen, View
  <2>3. CASE d # s
    <3>1. A'.view[d] = A.view[d]
        BY <1>0, <2>3 DEF Seen, View
    <3> QED BY <1>1, <2>1, <2>3, <3>1 DEF TruthInv
  <2> QED BY <2>2, <2>3
<1> QED BY <1>1 DEF TruthInv, A

LEMMA TruthEmpty ==
    ASSUME A'.pc \notin {"syncing", "starting", "submitted", "recording"},
           A'.pc \in {"free", "listing"} => A'.at = 1
    PROVE  TruthInv'
BY DEF TruthInv, Inside, A

LEMMA TruthStays ==
    ASSUME BasicInv, TruthInv, NextDone, NEW new \in SUBSET Jobs, WorkGoesOn(new)
    PROVE  TruthInv'
<1> USE DEF BasicInv
<1>0. /\ Jobs \subseteq Steps /\ Steps \subseteq Nat /\ A.at \in Nat
      /\ ref \in [Steps -> Nat] /\ A.view \in View
      /\ Jobs = {s \in Steps : Kind[s] = "agent"}
    BY TypesGive
<1>1. ASSUME A' = A, ref' = ref
      PROVE  TruthInv'
  <2>1. Inside' => Inside
      BY <1>1 DEF Inside, A
  <2>2. \A d \in Jobs : Looked(d)' => Looked(d)
      BY <1>1 DEF Looked, A
  <2>3. A'.pc \in {"free", "listing"} => A'.at = 1
      BY <1>1 DEF TruthInv
  <2> QED BY <1>1, <2>1, <2>2, <2>3, TruthKept
<1>2. ASSUME NEW p \in {"advance", "cancel"},
             \/ ListDone(p) \/ AskDone(p) \/ ConcludeCancelDone(p) \/ CrashDone(p)
             \/ \E s \in Steps : MarkDone(p, s)
      PROVE  TruthInv'
  <2>0. ref' = ref
      BY <1>2 DEF ListDone, AskDone, ConcludeCancelDone, CrashDone, MarkDone, rowVars
  <2>1. CASE p = "cancel"
    <3>1. A' = A
        BY <1>2, <2>1 DEF ListDone, AskDone, ConcludeCancelDone, CrashDone, MarkDone, Moves, A
    <3> QED BY <1>1, <2>0, <3>1
  <2>2. CASE p = "advance" /\ ListDone(p)
    <3>1. A'.pc = "syncing" /\ A'.at = 1
        BY <2>2 DEF ListDone, Moves, A, TruthInv
    <3>2. \A d \in Jobs : ~Looked(d)'
        BY <1>0, <3>1 DEF Looked, A, Steps
    <3> QED BY <3>1, <3>2 DEF TruthInv, A
  <2>3. CASE p = "advance" /\ ~ListDone(p)
    <3>1. A'.pc \in {"marking", "free"} /\ (A'.pc = "free" => A'.at = 1)
        BY <1>2, <2>3 DEF AskDone, ConcludeCancelDone, CrashDone, MarkDone, Moves, A
    <3> QED BY <3>1, TruthEmpty
  <2> QED BY <2>1, <2>2, <2>3
<1>3. CASE CancelDone \/ Outside
  <2>1. A' = A /\ ref' = ref
      BY <1>3 DEF CancelDone, Outside, Moves, A, rowVars
  <2> QED BY <1>1, <2>1
<1>4. CASE EnterDone
  <2>1. ref' = ref /\ A.at = 1
      BY <1>4 DEF EnterDone, rowVars, TruthInv
  <2>2. A' = A \/ (A'.pc = "listing" /\ A'.at = A.at)
      BY <1>4 DEF EnterDone, Moves, A
  <2> QED BY <1>1, <2>1, <2>2, TruthEmpty
<1>5. CASE SyncedDone
  <2>1. A.pc = "syncing" /\ ref' = ref /\ A'.view = A.view /\ A'.pc \in {"asking", "starting"}
      BY <1>5 DEF SyncedDone, rowVars, Moves, A
  <2>2. ASSUME NEW d \in Jobs, ref[d] # 0, A.view[d] \in Ended
        PROVE  Looked(d)
    <3>1. Watched(d)
        BY <1>0, <2>2 DEF Watched, Known, A, Ended
    <3> QED BY <1>0, <1>5, <3>1 DEF SyncedDone, Looked
  <2> QED BY <2>1, <2>2, TruthKept DEF Inside
<1>6. CASE JudgeDone \/ ConcludeDone
  <2>1. A'.pc \in {"concluding", "free"} /\ A'.at = 1
      BY <1>6 DEF JudgeDone, ConcludeDone, Moves, A
  <2> QED BY <2>1, TruthEmpty
<1>7. ASSUME NEW s \in Steps, SyncDone(s)
      PROVE  TruthInv'
  <2>0. A.pc = "syncing" /\ Watched(s) /\ Reported(s) \in StepStatus
        /\ UNCHANGED <<ref, workVars>> /\ A.at <= s
      BY <1>7 DEF SyncDone
  <2>1. CASE A'.pc = "free" /\ A'.at = 1
      BY <2>1, TruthEmpty
  <2>2. CASE A'.pc = "syncing" /\ A'.view = Seen(s, Reported(s)) /\ A'.at = s + 1
    <3>1. ASSUME NEW d \in Jobs, Looked(d)', ref[d] # 0, A.view[d] \in Ended
          PROVE  d = s \/ Looked(d)
      <4>1. d < s + 1 /\ d \in Nat /\ s \in Nat
          BY <1>0, <2>2, <3>1 DEF Looked, A
      <4>2. Watched(d)
          BY <1>0, <3>1 DEF Watched, Known, A, Ended
      <4> QED BY <1>0, <1>7, <4>1, <4>2 DEF SyncDone, Looked
    <3>2. s \in Jobs /\ Reported(s) \in Ended => child[s].status = Reported(s)
      <4>1. s \in Jobs => Reported(s) = Mapped(child[s].status)
          BY <1>0, <2>0, ReportedOK DEF Inside
      <4> QED BY <4>1 DEF Mapped, Ended
    <3>3. Inside /\ Inside'
        BY <2>0, <2>2 DEF Inside, A
    <3> QED BY <2>0, <2>2, <3>1, <3>2, <3>3, TruthWritten
  <2> QED BY <1>7, <2>1, <2>2 DEF SyncDone, Moves, A
<1>8. ASSUME NEW s \in Steps, PlaceDone(s)
      PROVE  TruthInv'
  <2>1. PICK status \in {"skipped", "succeeded"} :
          /\ Turn(s)
          /\ Moves("advance", "starting", A.stop, Seen(s, status), s + 1, A.status, A.ref)
          /\ status = "succeeded" => Kind[s] = "local"
          /\ UNCHANGED <<run, ref, workVars, due, cancels, mishaps>>
      BY <1>8 DEF PlaceDone
  <2>2. A.pc = "starting" /\ A'.pc = "starting" /\ A'.view = Seen(s, status)
      BY <2>1 DEF Turn, Moves, A
  <2>3. Inside /\ Inside' /\ \A d \in Jobs : Looked(d)
      BY <2>2 DEF Inside, A, Looked
  <2>4. status \in StepStatus /\ ~(s \in Jobs /\ status \in Ended)
      BY <1>0, <2>1 DEF StepStatus, EndedStep, Ended
  <2> QED BY <2>1, <2>2, <2>3, <2>4, TruthWritten
<1>9. ASSUME NEW s \in Steps, BeginDone(s) \/ ReleaseDone(s)
      PROVE  TruthInv'
  <2>1. /\ ref' = ref /\ A.pc \in {"starting", "submitted"}
        /\ A'.pc \in {"submitted", "recording"} /\ A'.view = A.view
      BY <1>9 DEF BeginDone, ReleaseDone, Turn, rowVars, Moves, A
  <2>2. Inside /\ \A d \in Jobs : Looked(d)
      BY <2>1 DEF Inside, Looked
  <2> QED BY <2>1, <2>2, TruthKept
<1>10. ASSUME NEW s \in Steps, RecordDone(s)
       PROVE  TruthInv'
  <2>1. /\ A.pc = "recording" /\ A.at = s /\ A.status \in StepStatus
        /\ A'.pc = "starting" /\ A'.view = Seen(s, A.status)
        /\ ref' = [ref EXCEPT ![s] = A.ref] /\ UNCHANGED workVars
      BY <1>10 DEF RecordDone, Moves, A
  <2>2. Inside /\ Inside' /\ \A d \in Jobs : Looked(d)
      BY <2>1 DEF Inside, A, Looked
  <2>3. \A d \in Jobs : d # s => ref'[d] = ref[d]
      BY <1>0, <2>1
  <2>4. s \in Jobs \ revived /\ A.status \in Ended => child[s].status = A.status
      BY <1>0, <2>1 DEF HandInv
  <2> QED BY <2>1, <2>2, <2>3, <2>4, TruthWritten
<1> QED BY <1>2, <1>3, <1>4, <1>5, <1>6, <1>7, <1>8, <1>9, <1>10 DEF NextDone, StepDone

-----------------------------------------------------------------------------
(***************************************************************************)
(* A job whose submission was not recorded.  As long as advance() may go   *)
(* on to begin steps (Open), its step is still to be begun, and nothing    *)
(* has happened to what it depends on that would make advance() decide     *)
(* otherwise, unless a job came back from its end.                         *)
(***************************************************************************)
Rows == IF Inside THEN A.view ELSE step
Open == ~run.cancel \/ ((A.pc = "listing" \/ Inside) /\ ~A.stop)

MatchesIn(s, rows) ==
    LET failed == \E d \in DependsOn[s] : rows[d] \in {"failed", "canceled"}
    IN  \/ Condition[s] = "always" \/ DependsOn[s] = {}
        \/ Condition[s] = "on_failure" /\ failed
        \/ Condition[s] = "on_success" /\ ~failed

Decided(s, rows) ==
    /\ \A d \in DependsOn[s] :
         /\ rows[d] \in EndedStep
         /\ d \in Jobs /\ ref[d] # 0 => child[d].status = rows[d]
    /\ MatchesIn(s, rows)

Unrecorded(s) == child[s].status # "none" /\ ref[s] = 0
Orphan(s, rows) == rows[s] = "skipped" /\ DependsOn[s] \cap revived # {}
Stopping(s) == Active(s) => child[s].cancel \/ s \in revived

Found(s, rows) ==
    \/ /\ rows[s] = "pending"
       /\ \A d \in DependsOn[s] : rows[d] \in EndedStep \cup ActiveStep
       /\ DependsOn[s] \cap revived = {} => Decided(s, rows)
    \/ Orphan(s, rows)
    \/ rows[s] = "canceled" /\ run.cancel /\ Stopping(s)

OpenInv == Open => \A s \in Jobs : Unrecorded(s) => Found(s, Rows)

\* cancel() has asked all jobs to stop before it marks their steps, and marks
\* none that advance(), which has yet to list the steps, would see as ended.
AskedInv ==
    A.pc = "listing" /\ ~A.stop =>
      /\ C.pc = "marking" => \A d \in Jobs : Stopping(d)
      /\ C.pc \in {"asking", "marking"} => \A s \in Steps :
           C.view[s] \notin EndedStep => step[s] \notin EndedStep \/ step[s] = "canceled"

\* The loop passes over such a step only where others are at work.
PassedInv ==
    A.pc \in {"starting", "submitted", "recording"} =>
      \A s \in Jobs : s < A.at /\ Unrecorded(s) /\ A.view[s] = "pending" => AtWork # {}

Ending ==
    \/ run.status \in {"succeeded", "failed"}
    \/ A.pc = "concluding" /\ A.status \in {"succeeded", "failed"}

EndInv == ~run.cancel /\ Ending => \A s \in Jobs : Unrecorded(s) => Orphan(s, step)

FoundInv == OpenInv /\ AskedInv /\ PassedInv /\ EndInv

\* Nobody has a new job unless advance() has just submitted it.
LEMMA NoneNew ==
    ASSUME TypesOK, NEW new \in SUBSET Jobs, WorkGoesOn(new), \A s \in new : BeginDone(s),
           A.pc # "starting" \/ A'.pc \notin {"submitted", "recording"}
    PROVE  \A j \in Jobs : child[j].status = "none" => child'[j].status = "none"
<1>1. \A s \in new : FALSE
    BY TypesGive DEF BeginDone, Turn, Moves, A
<1> QED BY <1>1 DEF WorkGoesOn, JobsGoOn

LEMMA StoppingKept ==
    ASSUME TypesOK, NEW new \in SUBSET Jobs, WorkGoesOn(new), NEW s \in Jobs,
           child[s].status = "none" => child'[s].status = "none", Stopping(s)
    PROVE  Stopping(s)'
<1>1. child[s].status \in ChildStatus /\ child'[s].status \in ChildStatus
    BY JobRow, TypesGive DEF WorkGoesOn, JobsGoOn, JobsOK, ChildTypeOK, Child
<1>2. CASE s \in revived'
    BY <1>2 DEF Stopping
<1>3. CASE s \notin revived' /\ Active(s)
  <2>1. child[s].cancel
      BY <1>3 DEF Stopping, WorkGoesOn, JobsGoOn
  <2> QED BY <1>3, <2>1 DEF Stopping, WorkGoesOn, JobsGoOn
<1>4. CASE s \notin revived' /\ ~Active(s)
  <2>1. child'[s].status = child[s].status
      BY <1>4 DEF Active, WorkGoesOn, JobsGoOn
  <2> QED BY <1>4, <2>1 DEF Stopping, Active
<1> QED BY <1>2, <1>3, <1>4

\* What is found stays found where the rows stay.
LEMMA FoundKept ==
    ASSUME BasicInv, NEW new \in SUBSET Jobs, WorkGoesOn(new), NEW s \in Jobs,
           child[s].status # "none", Found(s, Rows), Rows' = Rows, ref' = ref,
           run.cancel => run'.cancel
    PROVE  Found(s, Rows)'
<1>0. /\ revived \subseteq revived' /\ JobsOK /\ Jobs \subseteq Steps
      /\ DependsOn[s] \subseteq Steps
    BY TypesGive DEF BasicInv, WorkGoesOn, JobsGoOn
<1>1. CASE Orphan(s, Rows)
  <2>1. Orphan(s, Rows)'
      BY <1>0, <1>1 DEF Orphan
  <2> QED BY <2>1 DEF Found
<1>2. CASE Rows[s] = "canceled" /\ run.cancel /\ Stopping(s)
  <2>1. Stopping(s)'
      BY <1>2, StoppingKept DEF BasicInv
  <2> QED BY <1>2, <2>1 DEF Found
<1>3. CASE /\ Rows[s] = "pending"
           /\ \A d \in DependsOn[s] : Rows[d] \in EndedStep \cup ActiveStep
           /\ DependsOn[s] \cap revived = {} => Decided(s, Rows)
  <2>1. ASSUME DependsOn[s] \cap revived' = {}
        PROVE  Decided(s, Rows)'
    <3>1. Decided(s, Rows)
        BY <1>0, <1>3, <2>1
    <3>2. MatchesIn(s, Rows)'
        BY <3>1 DEF Decided, MatchesIn
    <3>3. ASSUME NEW d \in DependsOn[s], d \in Jobs, ref[d] # 0
          PROVE  child'[d].status = Rows[d]
      <4>1. child[d].status = Rows[d] /\ Rows[d] \in EndedStep
          BY <3>1, <3>3 DEF Decided
      <4>2. child[d].status \in Ended
          BY <1>0, <3>3, <4>1, JobRow DEF JobsOK, ChildStatus, EndedStep, Ended
      <4>3. d \notin revived'
          BY <2>1, <3>3
      <4> QED BY <3>3, <4>1, <4>2, <4>3 DEF WorkGoesOn, JobsGoOn
    <3> QED BY <3>1, <3>2, <3>3 DEF Decided
  <2> QED BY <1>3, <2>1 DEF Found
<1> QED BY <1>1, <1>2, <1>3 DEF Found

\* And where the row of another step is written.
LEMMA FoundWritten ==
    ASSUME BasicInv, NEW s \in Steps, NEW status, NEW t \in Jobs, t # s,
           Found(t, Rows), UNCHANGED workVars, Rows \in View,
           Rows' = [Rows EXCEPT ![s] = status],
           \A d \in Steps : d # s => ref'[d] = ref[d],
           run.cancel => run'.cancel,
           status \in EndedStep \cup ActiveStep \/ s \notin DependsOn[t],
           Decided(t, Rows) /\ s \in DependsOn[t] => status = Rows[s] /\ ref'[s] = ref[s]
    PROVE  Found(t, Rows)'
<1>0. /\ revived' = revived /\ child' = child /\ Jobs \subseteq Steps
      /\ DependsOn[t] \subseteq Steps
    BY TypesGive DEF BasicInv, workVars
<1>1. Rows'[t] = Rows[t] /\ \A d \in Steps : Rows'[d] = IF d = s THEN status ELSE Rows[d]
    BY <1>0 DEF View
<1>2. CASE Orphan(t, Rows)
  <2>1. Orphan(t, Rows)'
      BY <1>0, <1>1, <1>2 DEF Orphan
  <2> QED BY <2>1 DEF Found
<1>3. CASE Rows[t] = "canceled" /\ run.cancel /\ Stopping(t)
  <2>1. Stopping(t)'
      BY <1>0, <1>3 DEF Stopping, Active
  <2> QED BY <1>1, <1>3, <2>1 DEF Found
<1>4. CASE /\ Rows[t] = "pending"
           /\ \A d \in DependsOn[t] : Rows[d] \in EndedStep \cup ActiveStep
           /\ DependsOn[t] \cap revived = {} => Decided(t, Rows)
  <2>1. ASSUME DependsOn[t] \cap revived' = {}
        PROVE  Decided(t, Rows)'
    <3>1. Decided(t, Rows)
        BY <1>0, <1>4, <2>1
    <3>2. \A d \in DependsOn[t] : Rows'[d] = Rows[d] /\ ref'[d] = ref[d]
        BY <1>0, <1>1, <3>1
    <3>3. MatchesIn(t, Rows)'
        BY <3>1, <3>2 DEF Decided, MatchesIn
    <3> QED BY <1>0, <3>1, <3>2, <3>3 DEF Decided
  <2>2. \A d \in DependsOn[t] : Rows'[d] \in EndedStep \cup ActiveStep
      BY <1>0, <1>1, <1>4
  <2> QED BY <1>1, <1>4, <2>1, <2>2 DEF Found
<1> QED BY <1>2, <1>3, <1>4 DEF Found

LEMMA OpenKept ==
    ASSUME BasicInv, OpenInv, NEW new \in SUBSET Jobs, WorkGoesOn(new),
           \A j \in Jobs : child[j].status = "none" => child'[j].status = "none",
           Open' => Open /\ Rows' = Rows, ref' = ref, run.cancel => run'.cancel
    PROVE  OpenInv'
<1>1. ASSUME Open', NEW s \in Jobs, Unrecorded(s)'
      PROVE  Found(s, Rows)'
  <2>1. Unrecorded(s)
      BY <1>1 DEF Unrecorded
  <2>2. Found(s, Rows)
      BY <1>1, <2>1 DEF OpenInv
  <2> QED BY <1>1, <2>1, <2>2, FoundKept DEF Unrecorded
<1> QED BY <1>1 DEF OpenInv

\* Where the end of the run and the list of orphans stay.
LEMMA EndKept ==
    ASSUME BasicInv, EndInv, NEW new \in SUBSET Jobs, WorkGoesOn(new),
           \A j \in Jobs : child[j].status = "none" => child'[j].status = "none",
           ~run'.cancel /\ Ending' => ~run.cancel /\ Ending /\ step' = step, ref' = ref
    PROVE  EndInv'
<1>1. ASSUME ~run'.cancel, Ending', NEW s \in Jobs, Unrecorded(s)'
      PROVE  Orphan(s, step)'
  <2>1. Unrecorded(s) /\ ~run.cancel /\ Ending /\ step' = step
      BY <1>1 DEF Unrecorded
  <2>2. Orphan(s, step)
      BY <1>1, <2>1 DEF EndInv
  <2> QED BY <2>1, <2>2 DEF Orphan, WorkGoesOn, JobsGoOn
<1> QED BY <1>1 DEF EndInv

\* Nothing in the hands of an advance() that has nothing to begin.
LEMMA NothingPassed ==
    ASSUME A'.pc \notin {"starting", "submitted", "recording"}
    PROVE  PassedInv'
BY DEF PassedInv, A

LEMMA PassedKept ==
    ASSUME BasicInv, PassedInv, A'.pc \in {"starting", "submitted", "recording"} =>
             /\ A.pc \in {"starting", "submitted", "recording"}
             /\ A'.at = A.at /\ A'.view = A.view,
           \A j \in Jobs : child[j].status = "none" => child'[j].status = "none",
           ref' = ref
    PROVE  PassedInv'
<1>1. ASSUME A'.pc \in {"starting", "submitted", "recording"}, NEW s \in Jobs, s < A'.at,
             Unrecorded(s)', A'.view[s] = "pending"
      PROVE  AtWork' # {}
  <2>1. Unrecorded(s) /\ s < A.at /\ A.view[s] = "pending"
      BY <1>1 DEF Unrecorded
  <2>2. AtWork # {}
      BY <1>1, <2>1 DEF PassedInv
  <2> QED BY <1>1, <2>2 DEF AtWork, Known, A
<1> QED BY <1>1 DEF PassedInv, A

LEMMA NotAsked ==
    ASSUME A'.pc # "listing" \/ A'.stop \/ C'.pc \notin {"asking", "marking"}
    PROVE  AskedInv'
BY DEF AskedInv, A, C

\* The loop has passed over a step whose job was not recorded: others work.
LEMMA PassedOver ==
    ASSUME BasicInv, OpenInv, PassedInv, A.pc = "starting", NEW s \in Jobs,
           Cardinality(AtWork) < MaxConcurrency,
           s < A.at \/ ~Ready(s), Unrecorded(s), A.view[s] = "pending"
    PROVE  AtWork # {}
<1>1. CASE s < A.at
    BY <1>1 DEF PassedInv
<1>2. CASE ~Ready(s)
  <2>1. PICK d \in DependsOn[s] : A.view[d] \notin EndedStep
      BY <1>2 DEF Ready, Known, A
  <2>2. Open /\ Rows = A.view
      BY DEF BasicInv, CancelInv, Open, Rows, Inside
  <2>3. Found(s, A.view)
      BY <2>2 DEF OpenInv
  <2>4. d \in Steps /\ A.view[d] \in ActiveStep
      BY <2>1, <2>3, TypesGive DEF BasicInv, Found, Orphan
  <2> QED BY <2>4 DEF AtWork, Known, A
<1> QED BY <1>1, <1>2

\* Statements of cancel(), of both processes' ends and of others.
LEMMA FoundElsewhere ==
    ASSUME BasicInv, FoundInv, NEW new \in SUBSET Jobs, WorkGoesOn(new),
           \A j \in Jobs : child[j].status = "none" => child'[j].status = "none",
           \/ EnterDone \/ ConcludeDone \/ CancelDone \/ Outside
           \/ \E p \in {"advance", "cancel"} :
                ListDone(p) \/ AskDone(p) \/ ConcludeCancelDone(p) \/ CrashDone(p)
    PROVE  FoundInv'
<1> USE DEF BasicInv, FoundInv
<1>1. CASE Outside
  <2>1. A' = A /\ C' = C /\ run' = run /\ step' = step /\ ref' = ref
      BY <1>1 DEF Outside, rowVars, A, C
  <2>2. (Open' <=> Open) /\ Rows' = Rows /\ (Ending' <=> Ending)
      BY <2>1 DEF Open, Rows, Inside, Ending
  <2>3. OpenInv' /\ EndInv' /\ PassedInv'
      BY <2>1, <2>2, OpenKept, EndKept, PassedKept
  <2>4. ASSUME A.pc = "listing", ~A.stop, C.pc = "marking", NEW d \in Jobs
        PROVE  Stopping(d)'
      BY <2>4, StoppingKept DEF AskedInv
  <2>5. AskedInv'
      BY <2>1, <2>4 DEF AskedInv
  <2> QED BY <2>3, <2>5
<1>2. CASE EnterDone
  <2>1. C' = C /\ run' = run /\ step' = step /\ ref' = ref /\ A.pc = "free"
      BY <1>2 DEF EnterDone, rowVars, Moves, C
  <2>2. A' = A \/ (A'.pc = "listing" /\ A'.stop = run.cancel)
      BY <1>2 DEF EnterDone, Moves, A
  <2>3. Open' => Open /\ Rows' = Rows
      BY <2>1, <2>2 DEF Open, Rows, Inside
  <2>4. Ending' => Ending
      BY <2>1, <2>2 DEF Ending
  <2>5. A'.pc \notin {"starting", "submitted", "recording"}
      BY <2>1, <2>2
  <2>6. AskedInv'
      BY <2>1, <2>2, NotAsked DEF CancelInv
  <2> QED BY <2>1, <2>3, <2>4, <2>5, <2>6, OpenKept, EndKept, NothingPassed
<1>3. CASE ConcludeDone
  <2>1. step' = step /\ ref' = ref /\ run'.cancel = run.cancel /\ A'.pc = "free"
        /\ A.pc = "concluding" /\ run'.status = A.status
      BY <1>3 DEF ConcludeDone, Moves, A
  <2>2. Open' => Open /\ Rows' = Rows
      BY <2>1 DEF Open, Rows, Inside
  <2>3. Ending' => Ending
      BY <2>1 DEF Ending
  <2> QED BY <2>1, <2>2, <2>3, OpenKept, EndKept, NothingPassed, NotAsked
<1>4. CASE CancelDone
  <2>1. A' = A /\ C'.pc = "listing" /\ run'.cancel = TRUE /\ step' = step /\ ref' = ref
      BY <1>4 DEF CancelDone, Moves, A, C
  <2>2. Open' => Open /\ Rows' = Rows
      BY <2>1 DEF Open, Rows, Inside
  <2> QED BY <2>1, <2>2, OpenKept, EndKept, PassedKept, NotAsked
<1>5. CASE ListDone("advance")
  <2>1. C' = C /\ run' = run /\ step' = step /\ ref' = ref /\ A.pc = "listing"
      BY <1>5 DEF ListDone, rowVars, Moves, A, C
  <2>2. A'.pc = "syncing" /\ A'.stop = A.stop /\ A'.view = step
      BY <1>5 DEF ListDone, Moves, A
  <2>3. (Open' => Open) /\ Rows' = Rows /\ (Ending' => Ending)
      BY <2>1, <2>2 DEF Open, Rows, Inside, Ending
  <2> QED BY <2>1, <2>2, <2>3, OpenKept, EndKept, NothingPassed, NotAsked
<1>6. CASE ListDone("cancel")
  <2>1. A' = A /\ run' = run /\ step' = step /\ ref' = ref
        /\ C'.pc = "asking" /\ C'.view = step
      BY <1>6 DEF ListDone, rowVars, Moves, A, C
  <2>2. (Open' => Open) /\ Rows' = Rows /\ (Ending' => Ending)
      BY <2>1 DEF Open, Rows, Inside, Ending
  <2>3. AskedInv'
      BY <2>1 DEF AskedInv
  <2> QED BY <2>1, <2>2, <2>3, OpenKept, EndKept, PassedKept
<1>7. CASE AskDone("cancel")
  <2>1. A' = A /\ run' = run /\ step' = step /\ ref' = ref /\ C.pc = "asking"
        /\ C'.pc = "marking" /\ C'.view = C.view
      BY <1>7 DEF AskDone, rowVars, Moves, A, C
  <2>2. (Open' => Open) /\ Rows' = Rows /\ (Ending' => Ending)
      BY <2>1 DEF Open, Rows, Inside, Ending
  <2>3. \A d \in Jobs : Stopping(d)'
    <3>1. AskCancel(Jobs) /\ ChildTypeOK
        BY <1>7, TypesGive DEF AskDone, JobsOK
    <3> QED BY <3>1, JobsAsked DEF Stopping, Active
  <2>4. AskedInv'
      BY <2>1, <2>3 DEF AskedInv
  <2> QED BY <2>1, <2>2, <2>4, OpenKept, EndKept, PassedKept
<1>8. CASE AskDone("advance") \/ ConcludeCancelDone("advance")
  <2>1. ref' = ref /\ run'.cancel
    <3>1. CASE AskDone("advance")
      <4>1. run.cancel
          BY <3>1 DEF AskDone, CancelInv, A
      <4> QED BY <3>1, <4>1 DEF AskDone, rowVars
    <3>2. CASE ConcludeCancelDone("advance")
        BY <3>2 DEF ConcludeCancelDone
    <3> QED BY <1>8, <3>1, <3>2
  <2>2. A'.pc \in {"marking", "free"}
      BY <1>8 DEF AskDone, ConcludeCancelDone, Moves, A
  <2>3. ~Open'
      BY <2>1, <2>2 DEF Open, Inside
  <2> QED BY <2>1, <2>2, <2>3, OpenKept, EndKept, NothingPassed, NotAsked
<1>9. CASE ConcludeCancelDone("cancel")
  <2>1. A' = A /\ run'.cancel = TRUE /\ run.cancel = TRUE /\ step' = step /\ ref' = ref
        /\ C'.pc = "free"
    <3>1. run.cancel
        BY <1>9 DEF ConcludeCancelDone, CancelInv, C
    <3> QED BY <1>9, <3>1, TypesGive DEF ConcludeCancelDone, Moves, A, C
  <2>2. Open' => Open /\ Rows' = Rows
      BY <2>1 DEF Open, Rows, Inside
  <2> QED BY <2>1, <2>2, OpenKept, EndKept, PassedKept, NotAsked
<1>10. CASE CrashDone("advance")
  <2>1. C' = C /\ run' = run /\ step' = step /\ ref' = ref /\ A'.pc = "free"
      BY <1>10 DEF CrashDone, rowVars, Moves, A, C
  <2>2. Open' => Open /\ Rows' = Rows
      BY <2>1 DEF Open, Rows, Inside, CancelInv
  <2>3. Ending' => Ending
      BY <2>1 DEF Ending
  <2> QED BY <2>1, <2>2, <2>3, OpenKept, EndKept, NothingPassed, NotAsked
<1>11. CASE CrashDone("cancel")
  <2>1. A' = A /\ run' = run /\ step' = step /\ ref' = ref /\ C'.pc = "free"
      BY <1>11 DEF CrashDone, rowVars, Moves, A, C
  <2>2. (Open' => Open) /\ Rows' = Rows /\ (Ending' => Ending)
      BY <2>1 DEF Open, Rows, Inside, Ending
  <2> QED BY <2>1, <2>2, OpenKept, EndKept, PassedKept, NotAsked
<1> QED BY <1>1, <1>2, <1>3, <1>4, <1>5, <1>6, <1>7, <1>8, <1>9, <1>10, <1>11

LEMMA FoundMark ==
    ASSUME BasicInv, FoundInv, NEW p \in {"advance", "cancel"}, NEW s \in Steps,
           MarkDone(p, s)
    PROVE  FoundInv'
<1> USE DEF BasicInv, FoundInv
<1>0. /\ UNCHANGED <<run, ref, workVars>> /\ step' = [step EXCEPT ![s] = "canceled"]
      /\ proc[p].view[s] \notin EndedStep /\ step \in View
      /\ "canceled" \in EndedStep
    BY TypesGive DEF MarkDone, EndedStep, Ended
<1>1. run.cancel /\ run'.cancel
    BY <1>0 DEF MarkDone, CancelInv, A, C
<1>2. EndInv'
    BY <1>0, <1>1 DEF EndInv
<1>3. CASE p = "advance"
  <2>1. A'.pc = "marking"
      BY <1>3 DEF MarkDone, Moves, A
  <2>2. OpenInv'
      BY <1>0, <1>1, <2>1 DEF OpenInv, Open, Inside, A
  <2> QED BY <1>2, <2>1, <2>2, NothingPassed, NotAsked
<1>4. CASE p = "cancel"
  <2>1. A' = A /\ C.pc = "marking" /\ C'.pc = "marking"
        /\ C'.view = [C.view EXCEPT ![s] = "canceled"] /\ C.view[s] \notin EndedStep
        /\ C.view \in View
      BY <1>0, <1>4, TypesGive DEF MarkDone, Moves, A, C
  <2>2. child' = child /\ revived' = revived /\ run' = run /\ ref' = ref
      BY <1>0 DEF workVars
  <2>3. PassedInv'
      BY <2>1, <2>2 DEF PassedInv, Unrecorded, AtWork, Known, A
  <2>4. AskedInv'
    <3>1. ASSUME A.pc = "listing", ~A.stop
          PROVE  /\ \A d \in Jobs : Stopping(d)'
                 /\ \A t \in Steps : C'.view[t] \notin EndedStep
                      => step'[t] \notin EndedStep \/ step'[t] = "canceled"
      <4>1. \A d \in Jobs : Stopping(d)'
          BY <2>1, <2>2, <3>1 DEF AskedInv, Stopping, Active
      <4>2. \A t \in Steps : C.view[t] \notin EndedStep
                      => step[t] \notin EndedStep \/ step[t] = "canceled"
          BY <2>1, <3>1 DEF AskedInv
      <4>3. \A t \in Steps : C'.view[t] \notin EndedStep
                      => step'[t] \notin EndedStep \/ step'[t] = "canceled"
          BY <1>0, <2>1, <4>2 DEF View
      <4> QED BY <4>1, <4>3
    <3> QED BY <2>1, <3>1 DEF AskedInv
  <2>5. ASSUME Open', NEW t \in Jobs, Unrecorded(t)'
        PROVE  Found(t, Rows)'
    <3>1. Unrecorded(t) /\ Open
        BY <2>1, <2>2, <2>5 DEF Unrecorded, Open, Inside
    <3>2. Found(t, Rows)
        BY <3>1 DEF OpenInv
    <3>3. CASE Inside
      <4>1. Rows' = Rows
          BY <2>1, <3>3 DEF Rows, Inside
      <4>2. Found(t, Rows)' <=> Found(t, Rows)
          BY <2>2, <4>1 DEF Found, Orphan, Decided, MatchesIn, Stopping, Active
      <4> QED BY <3>2, <4>2
    <3>4. CASE ~Inside
      <4>1. A.pc = "listing" /\ ~A.stop
          BY <1>1, <3>1, <3>4 DEF Open
      <4>2. Rows = step /\ Rows' = step'
          BY <2>1, <3>4 DEF Rows, Inside
      <4>3. CASE t = s
        <5>1. Stopping(s)'
            BY <2>1, <2>2, <4>1, <4>3 DEF AskedInv, Stopping, Active
        <5> QED BY <1>0, <1>1, <2>2, <4>2, <4>3, <5>1 DEF Found, View
      <4>4. CASE t # s
        <5>1. Decided(t, Rows) /\ s \in DependsOn[t] => step[s] = "canceled"
          <6>1. step[s] \notin EndedStep \/ step[s] = "canceled"
              BY <2>1, <4>1 DEF AskedInv
          <6> QED BY <4>2, <6>1 DEF Decided
        <5> QED BY <1>0, <2>2, <3>2, <4>2, <4>4, <5>1, FoundWritten
      <4> QED BY <4>3, <4>4
    <3> QED BY <3>3, <3>4
  <2> QED BY <1>2, <2>3, <2>4, <2>5 DEF OpenInv
<1> QED BY <1>3, <1>4

\* What advance() does while it may begin steps.
LEMMA FoundInside ==
    ASSUME BasicInv, TruthInv, FoundInv, NEW new \in SUBSET Jobs, WorkGoesOn(new),
           \A s \in new : BeginDone(s),
           SyncedDone \/ JudgeDone \/ \E s \in Steps : StepDone(s)
    PROVE  FoundInv'
<1> USE DEF BasicInv, FoundInv
<1>0. /\ Jobs \subseteq Steps /\ Steps \subseteq Nat /\ Jobs = {s \in Steps : Kind[s] = "agent"}
      /\ ref \in [Steps -> Nat] /\ A.view \in View /\ step \in View /\ A.at \in Nat
      /\ A.ref \in Nat
    BY TypesGive
\* advance() is inside, so that a run that was not canceled has not ended.
<1>1. /\ run' = run /\ Inside /\ C' = C
    BY DEF SyncedDone, JudgeDone, StepDone, SyncDone, PlaceDone, BeginDone, ReleaseDone,
       RecordDone, rowVars, Moves, Turn, Inside, A, C
<1>2. A'.pc # "concluding" => EndInv'
    BY <1>1 DEF EndInv, Ending, CancelInv, EndedRun, Inside, A
<1>3. A'.pc # "listing" => AskedInv'
    BY NotAsked
<1>4. A.pc # "starting" \/ A'.pc \notin {"submitted", "recording"}
        => \A j \in Jobs : child[j].status = "none" => child'[j].status = "none"
    BY NoneNew
<1>5. Rows = A.view /\ (Inside' => Rows' = A'.view)
    BY <1>1 DEF Rows, A
<1>6. CASE SyncedDone
  <2>1. /\ step' = step /\ ref' = ref /\ A.pc = "syncing" /\ A'.view = A.view
        /\ A'.pc = IF A.stop THEN "asking" ELSE "starting"
        /\ A'.stop = A.stop /\ A'.at = 1
      BY <1>6 DEF SyncedDone, rowVars, Moves, A
  <2>2. Open' => Open /\ Rows' = Rows
    <3>1. CASE A.stop
        BY <1>1, <2>1, <3>1 DEF Open, Inside, CancelInv, A
    <3>2. CASE ~A.stop
        BY <1>1, <1>5, <2>1, <3>2 DEF Open, Inside, A
    <3> QED BY <3>1, <3>2
  <2>3. PassedInv'
      BY <1>0, <2>1 DEF PassedInv, Steps, A
  <2>4. OpenInv'
      BY <1>1, <1>4, <2>1, <2>2, OpenKept
  <2> QED BY <1>2, <1>3, <2>1, <2>3, <2>4
<1>7. CASE JudgeDone
  <2>1. /\ step' = step /\ ref' = ref /\ UNCHANGED workVars /\ A.pc = "starting"
        /\ A'.pc = "concluding" /\ A'.status = Verdict
      BY <1>7 DEF JudgeDone, rowVars, Moves, A
  <2>2. Open' => Open /\ Rows' = Rows
      BY <1>1, <1>5, <2>1 DEF Open, Inside, CancelInv, A, Rows
  <2>3. OpenInv'
      BY <1>1, <1>4, <2>1, <2>2, OpenKept
  <2>4. ASSUME ~run.cancel, Verdict \in {"succeeded", "failed"}, NEW s \in Jobs,
               Unrecorded(s)
        PROVE  Orphan(s, step)
    <3>1. A.view = step /\ Found(s, step) /\ s \in Steps
        BY <1>0, <1>1, <1>5, <2>4 DEF CancelInv, OpenInv, Open
    <3>2. CASE step[s] = "pending"
      <4>1. Verdict = "failed" /\ \A t \in Steps : step[t] \notin ActiveStep
        <5> DEFINE statuses == {step[t] : t \in Steps}
        <5>1. ~(statuses \subseteq {"succeeded", "skipped"})
            BY <3>1, <3>2
        <5>2. Verdict = "failed" /\ statuses \cap ActiveStep = {}
            BY <2>4, <5>1 DEF Verdict
        <5> QED BY <5>2
      <4>2. AtWork = {}
          BY <3>1, <4>1 DEF AtWork, Known, A
      <4>3. Cardinality(AtWork) < MaxConcurrency
          BY <4>2, FS_EmptySet
      <4>4. s < A.at \/ ~Ready(s)
          BY <1>0, <1>7 DEF JudgeDone
      <4> QED BY <2>1, <2>4, <3>1, <3>2, <4>2, <4>3, <4>4, PassedOver
    <3> QED BY <2>4, <3>1, <3>2 DEF Found
  <2>5. ASSUME ~run'.cancel, Ending', NEW s \in Jobs, Unrecorded(s)'
        PROVE  Orphan(s, step)'
    <3>1. ~run.cancel /\ Unrecorded(s)
        BY <1>1, <2>1, <2>5 DEF workVars, Unrecorded
    <3>2. Verdict \in {"succeeded", "failed"}
        BY <1>1, <2>1, <2>5, <3>1 DEF Ending, CancelInv, Inside, EndedRun, A
    <3>3. Orphan(s, step)
        BY <2>4, <3>1, <3>2
    <3> QED BY <2>1, <3>3 DEF Orphan, workVars
  <2>6. EndInv'
      BY <2>5 DEF EndInv
  <2> QED BY <1>3, <2>1, <2>3, <2>6, NothingPassed
<1>8. ASSUME NEW s \in Steps, SyncDone(s)
      PROVE  FoundInv'
  <2>1. ref' = ref /\ UNCHANGED workVars /\ A.pc = "syncing" /\ Watched(s)
      BY <1>8 DEF SyncDone
  <2>2. CASE step' = step /\ A'.pc = "free"
    <3>1. Open' => Open /\ Rows' = Rows
        BY <1>1, <1>5, <2>2 DEF Open, Inside, CancelInv, A, Rows
    <3>2. OpenInv'
        BY <1>1, <1>4, <2>1, <3>1, OpenKept
    <3> QED BY <1>2, <1>3, <2>2, <3>2, NothingPassed
  <2>3. CASE A'.pc = "syncing" /\ A'.stop = A.stop /\ A'.view = Seen(s, Reported(s))
    <3>1. (Open' => Open) /\ Rows' = [Rows EXCEPT ![s] = Reported(s)]
        BY <1>1, <1>5, <2>3 DEF Open, Inside, A, Seen
    <3>2. ASSUME Open', NEW t \in Jobs, Unrecorded(t)'
          PROVE  Found(t, Rows)'
      <4>1. Unrecorded(t) /\ Found(t, Rows)
          BY <2>1, <3>1, <3>2 DEF Unrecorded, workVars, OpenInv
      <4>2. Reported(s) \in EndedStep \cup ActiveStep /\ ref[s] # 0
          BY <1>1, <2>1, ReportedOK
      <4>3. t # s
          BY <4>1, <4>2 DEF Unrecorded
      <4>4. ASSUME Decided(t, Rows), s \in DependsOn[t]
            PROVE  Reported(s) = Rows[s]
        <5>1. A.view[s] \in EndedStep
            BY <1>5, <4>4 DEF Decided
        <5>2. Kind[s] = "agent"
            BY <2>1, <5>1 DEF Watched, Known, A, EndedStep, Ended
        <5>3. child[s].status = A.view[s] /\ s \in Jobs
            BY <1>0, <1>5, <4>2, <4>4, <5>2 DEF Decided
        <5>4. Reported(s) = Mapped(A.view[s])
            BY <5>2, <5>3 DEF Reported
        <5> QED BY <1>5, <5>1, <5>4 DEF Mapped, EndedStep, Ended
      <4> QED BY <1>0, <1>1, <1>5, <2>1, <3>1, <4>1, <4>2, <4>3, <4>4, FoundWritten
    <3>3. OpenInv'
        BY <3>2 DEF OpenInv
    <3> QED BY <1>2, <1>3, <2>3, <3>3, NothingPassed
  <2> QED BY <1>8, <2>2, <2>3 DEF SyncDone, Moves, A
<1>9. ASSUME NEW s \in Steps, PlaceDone(s)
      PROVE  FoundInv'
  <2>1. PICK status \in {"skipped", "succeeded"} :
          /\ Turn(s)
          /\ Moves("advance", "starting", A.stop, Seen(s, status), s + 1, A.status, A.ref)
          /\ status = "skipped" => ~Matches(s)
          /\ status = "succeeded" => Kind[s] = "local"
          /\ UNCHANGED <<run, ref, workVars, due, cancels, mishaps>>
      BY <1>9 DEF PlaceDone
  <2>2. /\ A.pc = "starting" /\ A'.pc = "starting" /\ A'.stop = A.stop
        /\ A'.view = Seen(s, status) /\ A'.at = s + 1
      BY <2>1 DEF Turn, Moves, A
  <2>3. /\ A.view[s] = "pending" /\ Cardinality(AtWork) < MaxConcurrency
        /\ status \in EndedStep /\ "pending" \notin EndedStep \cup ActiveStep
        /\ status \notin ActiveStep
      BY <2>1 DEF Turn, Ready, Known, A, EndedStep, Ended, ActiveStep
  <2>4. Open /\ Rows' = [Rows EXCEPT ![s] = status]
      BY <1>1, <1>5, <2>2 DEF Open, Inside, A, Seen, CancelInv
  <2>5. ASSUME NEW t \in Jobs, Unrecorded(t)'
        PROVE  Found(t, Rows)'
    <3>1. Unrecorded(t) /\ Found(t, Rows)
        BY <2>1, <2>4, <2>5 DEF Unrecorded, workVars, OpenInv
    <3>2. CASE t = s
      <4>1. Kind[s] = "agent" /\ ~Matches(s) /\ status = "skipped"
          BY <1>0, <2>1, <3>2
      <4>2. ~MatchesIn(s, Rows)
          BY <1>5, <4>1 DEF Matches, MatchesIn, Known, A
      <4>3. DependsOn[s] \cap revived # {}
          BY <1>5, <2>3, <3>1, <3>2, <4>2 DEF Found, Orphan, Decided
      <4>4. Rows'[s] = "skipped" /\ revived' = revived
          BY <1>0, <1>5, <2>1, <2>4, <4>1 DEF workVars, View
      <4> QED BY <3>2, <4>3, <4>4 DEF Found, Orphan
    <3>3. CASE t # s
      <4>1. ~(Decided(t, Rows) /\ s \in DependsOn[t])
          BY <1>5, <2>3 DEF Decided
      <4> QED BY <1>0, <1>1, <1>5, <2>1, <2>3, <2>4, <3>1, <3>3, <4>1, FoundWritten
    <3> QED BY <3>2, <3>3
  <2>6. AtWork' = AtWork
    <3>1. \A t \in Steps : A'.view[t] \in ActiveStep <=> A.view[t] \in ActiveStep
        BY <1>0, <2>2, <2>3 DEF Seen, View
    <3> QED BY <3>1 DEF AtWork, Known, A
  <2>7. ASSUME NEW t \in Jobs, t < s + 1, Unrecorded(t)', A'.view[t] = "pending"
        PROVE  AtWork # {}
    <3>1. Unrecorded(t) /\ t # s /\ A.view[t] = "pending"
        BY <1>0, <2>1, <2>2, <2>3, <2>7 DEF Unrecorded, workVars, Seen, View
    <3>2. t \in Nat /\ s \in Nat /\ t \in Steps
        BY <1>0
    <3>3. t < A.at \/ ~Ready(t)
        BY <1>0, <2>1, <2>7, <3>1, <3>2 DEF Turn
    <3> QED BY <2>2, <2>3, <3>1, <3>3, PassedOver
  <2>8. PassedInv'
      BY <2>2, <2>6, <2>7 DEF PassedInv, A
  <2>9. OpenInv'
      BY <2>5 DEF OpenInv
  <2> QED BY <1>2, <1>3, <2>2, <2>8, <2>9
<1>10. ASSUME NEW s \in Steps, BeginDone(s)
       PROVE  FoundInv'
  <2>1. /\ A.pc = "starting" /\ A.view[s] = "pending" /\ Matches(s)
        /\ \A d \in DependsOn[s] : A.view[d] \in EndedStep
        /\ Cardinality(AtWork) < MaxConcurrency
        /\ ref' = ref /\ step' = step /\ revived' = revived
      BY <1>10 DEF BeginDone, Turn, Ready, Known, A, rowVars
  <2>2. A'.pc \in {"submitted", "recording"} /\ A'.at = s /\ A'.view = A.view
      BY <1>10 DEF BeginDone, Moves, A
  <2>3. Open /\ Rows' = Rows
      BY <1>1, <1>5, <2>1, <2>2 DEF Open, Inside, A, CancelInv
  <2>4. \A t \in Jobs : t # s => child'[t] = child[t]
      BY <1>0, <1>10, JobBecomes DEF BeginDone, Submit, Asked, JobsOK, TypesOK, ChildStatus
  <2>5. ASSUME NEW t \in Jobs, Unrecorded(t)', t # s
        PROVE  Found(t, Rows)'
    <3>1. Unrecorded(t)
        BY <2>1, <2>4, <2>5 DEF Unrecorded
    <3>2. Found(t, Rows)
        BY <2>3, <3>1 DEF OpenInv
    <3> QED BY <1>1, <2>1, <2>3, <3>1, <3>2, FoundKept DEF Unrecorded
  <2>6. s \in Jobs => Found(s, Rows)'
    <3>1. ASSUME NEW d \in DependsOn[s], DependsOn[s] \cap revived = {}, d \in Jobs,
                 ref[d] # 0
          PROVE  child'[d].status = A.view[d]
      <4>1. d # s /\ d \in Steps /\ d \notin revived
          BY <1>0, <2>1, <3>1 DEF EndedStep, Ended
      <4>2. A.view[d] \in Ended
          BY <1>1, <2>1, <3>1, <4>1 DEF RefsInv, Referred, EndedStep
      <4>3. child[d].status = A.view[d]
          BY <1>1, <2>1, <3>1, <4>1, <4>2 DEF TruthInv, Looked
      <4> QED BY <2>4, <3>1, <4>1, <4>3
    <3>2. MatchesIn(s, Rows)'
        BY <1>5, <2>1, <2>3 DEF Matches, MatchesIn, Known, A
    <3>3. DependsOn[s] \cap revived' = {} => Decided(s, Rows)'
        BY <1>5, <2>1, <2>3, <3>1, <3>2 DEF Decided
    <3> QED BY <1>5, <2>1, <2>3, <3>3 DEF Found
  <2>7. OpenInv'
      BY <2>5, <2>6 DEF OpenInv
  <2>8. ASSUME NEW t \in Jobs, t < s, Unrecorded(t)', A'.view[t] = "pending"
        PROVE  AtWork' # {}
    <3>1. t \in Nat /\ s \in Nat /\ t \in Steps /\ t # s
        BY <1>0, <2>8
    <3>2. Unrecorded(t) /\ A.view[t] = "pending"
        BY <2>1, <2>2, <2>4, <2>8, <3>1 DEF Unrecorded
    <3>3. t < A.at \/ ~Ready(t)
        BY <1>0, <1>10, <2>8, <3>1 DEF BeginDone, Turn
    <3>4. AtWork # {}
        BY <2>1, <3>2, <3>3, PassedOver
    <3> QED BY <2>2, <3>4 DEF AtWork, Known, A
  <2>9. PassedInv'
      BY <2>2, <2>8 DEF PassedInv, A
  <2> QED BY <1>2, <1>3, <2>2, <2>7, <2>9
<1>11. ASSUME NEW s \in Steps, ReleaseDone(s)
       PROVE  FoundInv'
  <2>1. /\ A.pc = "submitted" /\ ref' = ref /\ step' = step /\ A.at = s
        /\ A'.pc = "recording" /\ A'.at = s /\ A'.view = A.view /\ A'.stop = A.stop
      BY <1>11 DEF ReleaseDone, rowVars, Moves, A
  <2>2. Open /\ Rows' = Rows
      BY <1>1, <1>5, <2>1 DEF Open, Inside, A, CancelInv
  <2>3. OpenInv'
      BY <1>1, <1>4, <2>1, <2>2, OpenKept
  <2>4. PassedInv'
      BY <1>4, <2>1, PassedKept
  <2> QED BY <1>2, <1>3, <2>1, <2>3, <2>4
<1>12. ASSUME NEW s \in Steps, RecordDone(s)
       PROVE  FoundInv'
  <2>1. /\ A.pc = "recording" /\ A.at = s /\ UNCHANGED workVars
        /\ ref' = [ref EXCEPT ![s] = A.ref]
        /\ A'.pc = "starting" /\ A'.at = s + 1 /\ A'.view = Seen(s, A.status)
      BY <1>12 DEF RecordDone, Moves, A
  <2>2. /\ A.view[s] = "pending" /\ A.ref >= 1 /\ A.status # "pending"
        /\ "pending" \notin EndedStep \cup ActiveStep
      BY <2>1 DEF HandInv, Beginning, EndedStep, Ended, ActiveStep
  <2>3. Open /\ Rows' = [Rows EXCEPT ![s] = A.status]
      BY <1>1, <1>5, <2>1 DEF Open, Inside, A, Seen, CancelInv
  <2>4. (\A d \in Steps : d # s => ref'[d] = ref[d]) /\ ref'[s] # 0
      BY <1>0, <2>1, <2>2
  <2>5. ASSUME NEW t \in Jobs, Unrecorded(t)'
        PROVE  t # s /\ Unrecorded(t)
      BY <1>0, <2>1, <2>4, <2>5 DEF Unrecorded, workVars
  <2>6. ASSUME NEW t \in Jobs, Unrecorded(t)'
        PROVE  Found(t, Rows)'
    <3>1. t # s /\ Found(t, Rows)
        BY <2>3, <2>5, <2>6 DEF OpenInv
    <3>2. CASE Rows[t] = "pending" /\ s \in DependsOn[t]
      <4>1. FALSE
          BY <1>5, <2>2, <3>1, <3>2 DEF Found, Orphan
      <4> QED BY <4>1
    <3>3. CASE s \notin DependsOn[t]
        BY <1>0, <1>1, <1>5, <2>1, <2>3, <2>4, <3>1, <3>3, FoundWritten
    <3>4. CASE Rows[t] # "pending"
      <4>1. Rows'[t] = Rows[t] /\ child' = child /\ revived' = revived
          BY <1>0, <1>5, <2>1, <2>3, <3>1 DEF workVars, View
      <4>2. CASE Orphan(t, Rows)
        <5>1. Orphan(t, Rows)'
            BY <4>1, <4>2 DEF Orphan
        <5> QED BY <5>1 DEF Found
      <4>3. CASE Rows[t] = "canceled" /\ run.cancel /\ Stopping(t)
          BY <1>1, <4>1, <4>3 DEF Found, Stopping, Active
      <4> QED BY <3>1, <3>4, <4>2, <4>3 DEF Found
    <3> QED BY <3>2, <3>3, <3>4
  <2>7. OpenInv'
      BY <2>6 DEF OpenInv
  <2>8. AtWork \subseteq AtWork'
    <3>1. \A t \in Steps : A.view[t] \in ActiveStep => A'.view[t] \in ActiveStep
        BY <1>0, <2>1, <2>2 DEF Seen, View
    <3> QED BY <3>1 DEF AtWork, Known, A
  <2>9. ASSUME NEW t \in Jobs, t < s + 1, Unrecorded(t)', A'.view[t] = "pending"
        PROVE  AtWork' # {}
    <3>1. t # s /\ Unrecorded(t) /\ t \in Nat /\ s \in Nat /\ t \in Steps
        BY <1>0, <2>5, <2>9
    <3>2. t < A.at /\ A.view[t] = "pending"
        BY <1>0, <2>1, <2>9, <3>1 DEF Seen, View
    <3>3. AtWork # {}
        BY <2>1, <3>1, <3>2 DEF PassedInv
    <3> QED BY <2>8, <3>3
  <2>10. PassedInv'
      BY <2>1, <2>9 DEF PassedInv, A
  <2> QED BY <1>2, <1>3, <2>1, <2>7, <2>10
<1> QED BY <1>6, <1>7, <1>8, <1>9, <1>10, <1>11, <1>12 DEF StepDone

LEMMA FoundStays ==
    ASSUME BasicInv, TruthInv, FoundInv, NextDone, NEW new \in SUBSET Jobs, WorkGoesOn(new),
           \A s \in new : BeginDone(s)
    PROVE  FoundInv'
<1>1. CASE SyncedDone \/ JudgeDone \/ \E s \in Steps : StepDone(s)
    BY <1>1, FoundInside
<1>2. CASE \E p \in {"advance", "cancel"}, s \in Steps : MarkDone(p, s)
    BY <1>2, FoundMark
<1>3. CASE \/ EnterDone \/ ConcludeDone \/ CancelDone \/ Outside
           \/ \E p \in {"advance", "cancel"} :
                ListDone(p) \/ AskDone(p) \/ ConcludeCancelDone(p) \/ CrashDone(p)
  <2>1. A.pc # "starting" \/ A'.pc \notin {"submitted", "recording"}
      BY <1>3 DEF EnterDone, ConcludeDone, CancelDone, Outside, ListDone, AskDone,
         ConcludeCancelDone, CrashDone, Moves, A
  <2>2. \A j \in Jobs : child[j].status = "none" => child'[j].status = "none"
      BY <2>1, NoneNew DEF BasicInv
  <2> QED BY <1>3, <2>2, FoundElsewhere
<1> QED BY <1>1, <1>2, <1>3 DEF NextDone

-----------------------------------------------------------------------------
OrderInv == BasicInv /\ TruthInv /\ FoundInv

LEMMA OrderInit ==
    ASSUME Init
    PROVE  OrderInv
<1>1. A.pc = "free" /\ A.at = 1
    BY FreeOK DEF Init, A
<1>2. \A s \in Jobs : child[s].status = "none"
    BY DEF Init, ChildInit
<1>3. run.status = "queued"
    BY DEF Init
<1>4. TruthInv
    BY <1>1 DEF TruthInv, Inside
<1>5. OpenInv /\ AskedInv /\ PassedInv /\ EndInv
    BY <1>1, <1>2 DEF OpenInv, AskedInv, PassedInv, EndInv, Unrecorded
<1> QED BY <1>4, <1>5, BasicInit DEF OrderInv, FoundInv

LEMMA OrderStutter ==
    ASSUME OrderInv, UNCHANGED vars
    PROVE  OrderInv'
<1>1. A' = A /\ C' = C /\ run' = run /\ step' = step /\ ref' = ref /\ child' = child
      /\ revived' = revived
    BY DEF vars, rowVars, workVars, A, C
<1>2. TruthInv'
    BY <1>1 DEF OrderInv, TruthInv, Inside, Looked
<1>3. Rows' = Rows /\ (Open' <=> Open) /\ (Ending' <=> Ending)
    BY <1>1 DEF Rows, Open, Ending, Inside
<1>4. \A s \in Jobs : (Unrecorded(s)' <=> Unrecorded(s)) /\ (Stopping(s)' <=> Stopping(s))
    BY <1>1 DEF Unrecorded, Stopping, Active
<1>5. \A s \in Jobs : (Found(s, Rows)' <=> Found(s, Rows))
                      /\ (Orphan(s, step)' <=> Orphan(s, step))
    BY <1>1, <1>3, <1>4 DEF Found, Orphan, Decided, MatchesIn
<1>6. AtWork' = AtWork
    BY <1>1 DEF AtWork, Known, A
<1>7. FoundInv'
    BY <1>1, <1>3, <1>4, <1>5, <1>6 DEF OrderInv, FoundInv, OpenInv, AskedInv, PassedInv, EndInv
<1> QED BY <1>2, <1>7, BasicStutter DEF OrderInv

LEMMA OrderNext ==
    ASSUME OrderInv, Next
    PROVE  /\ OrderInv' /\ NextDone
           /\ \E new \in SUBSET Jobs : WorkGoesOn(new) /\ \A s \in new : BeginDone(s)
<1>1. BasicInv' /\ NextDone
    BY BasicNext DEF OrderInv
<1>2. PICK new \in SUBSET Jobs : WorkGoesOn(new) /\ \A s \in new : BeginDone(s)
    BY BasicNext DEF OrderInv
<1>3. TruthInv' /\ FoundInv'
    BY <1>1, <1>2, TruthStays, FoundStays DEF OrderInv
<1> QED BY <1>1, <1>2, <1>3 DEF OrderInv

LEMMA OrderAlways == Spec => []OrderInv
<1>1. OrderInv /\ [Next]_vars => OrderInv'
    BY OrderNext, OrderStutter
<1> QED BY <1>1, OrderInit, PTL DEF Spec

(***************************************************************************)
(* A crash between the submission of a child job and its record loses no   *)
(* job: advance() finds it by its key, unless the run is canceled, or what *)
(* the step depends on came back and ended otherwise.                      *)
(***************************************************************************)
THEOREM JobFoundAgainTheorem == Spec => []JobFoundAgain
<1>1. ASSUME OrderInv
      PROVE  JobFoundAgain
  <2> SUFFICES ASSUME NEW s \in Jobs, child[s].status # "none", ref[s] = 0, ~run.cancel
               PROVE  \/ step[s] = "pending" /\ run.status \notin {"succeeded", "failed"}
                      \/ step[s] = "skipped" /\ DependsOn[s] \cap revived # {}
      BY DEF JobFoundAgain
  <2>1. Unrecorded(s) /\ Open /\ Rows = step
      BY <1>1 DEF Unrecorded, Open, Rows, OrderInv, BasicInv, CancelInv
  <2>2. Found(s, step)
      BY <1>1, <2>1 DEF OrderInv, FoundInv, OpenInv
  <2>3. CASE Orphan(s, step)
      BY <2>3 DEF Orphan
  <2>4. CASE ~Orphan(s, step)
    <3>1. ~Ending
        BY <1>1, <2>1, <2>4 DEF OrderInv, FoundInv, EndInv
    <3> QED BY <2>2, <2>4, <3>1 DEF Found, Ending
  <2> QED BY <2>3, <2>4
<1> QED BY <1>1, OrderAlways, PTL

\* What advance() takes for over is over, or was asked to stop.
LEMMA OverInOrder ==
    ASSUME OrderInv, NEW s \in Steps, A.pc \in {"starting", "recording"}, Matches(s),
           \A d \in DependsOn[s] : A.view[d] \in EndedStep,
           NEW d \in DependsOn[s] \cap Jobs, ~Revised(d)
    PROVE  /\ Active(d) => child[d].cancel
           /\ Condition[s] = "on_success" => child[d].status \in {"none", "succeeded"}
<1> USE DEF OrderInv
<1>0. /\ d \in Jobs \ revived /\ d \in Steps /\ A.view[d] \in EndedStep
      /\ DependsOn[d] \cap revived = {}
    BY TypesGive DEF BasicInv, Revised
<1>1. Condition[s] = "on_success" => A.view[d] \notin {"failed", "canceled"}
    BY DEF Matches, Known, A
<1>2. CASE ref[d] # 0
  <2>1. A.view[d] \in Ended
      BY <1>0, <1>2 DEF BasicInv, RefsInv, Referred, Inside, EndedStep
  <2>2. child[d].status = A.view[d]
      BY <1>0, <1>2, <2>1 DEF TruthInv, Inside, Looked
  <2> QED BY <1>1, <2>1, <2>2 DEF Active, Ended
<1>3. CASE ref[d] = 0 /\ child[d].status = "none"
    BY <1>3 DEF Active
<1>4. CASE Unrecorded(d)
  <2>1. Open /\ Rows = A.view
      BY DEF Open, Rows, Inside, BasicInv, CancelInv
  <2>2. Found(d, A.view)
      BY <1>0, <1>4, <2>1 DEF FoundInv, OpenInv
  <2>3. A.view[d] = "canceled" /\ Stopping(d)
      BY <1>0, <2>2 DEF Found, Orphan, EndedStep, Ended
  <2> QED BY <1>0, <1>1, <2>3 DEF Stopping
<1> QED BY <1>2, <1>3, <1>4 DEF Unrecorded

(***************************************************************************)
(* Steps begin in order: no step begins before its dependencies are over,  *)
(* nor a step for success after one that failed, by what the jobs are and  *)
(* not only by the rows advance() has read.                                *)
(***************************************************************************)
THEOREM BeginsInOrderTheorem == Spec => BeginsInOrder
<1> DEFINE Order == \A s \in Steps : ~Begun(s) /\ Begun(s)' =>
                      \A d \in DependsOn[s] \cap Jobs : ~Revised(d) =>
                        /\ Active(d) => child[d].cancel
                        /\ Condition[s] = "on_success"
                             => child[d].status \in {"none", "succeeded"}
<1>1. ASSUME OrderInv, Next
      PROVE  Order
  <2>0. NextDone
      BY <1>1, OrderNext
  <2>1. PICK new \in SUBSET Jobs : WorkGoesOn(new) /\ \A t \in new : BeginDone(t)
      BY <1>1, OrderNext
  <2>2. /\ ref \in [Steps -> Nat] /\ batch \in [Steps -> Seq(Item)] /\ step \in View
        /\ Jobs = {t \in Steps : Kind[t] = "agent"} /\ Jobs \subseteq Steps
      BY <1>1, TypesGive DEF OrderInv, BasicInv, Item
  <2>3. SUFFICES ASSUME NEW s \in Steps, ~Begun(s), Begun(s)'
                 PROVE  /\ A.pc \in {"starting", "recording"} /\ Matches(s)
                        /\ \A d \in DependsOn[s] : A.view[d] \in EndedStep
      BY <1>1, OverInOrder
  <2>4. CASE BeginDone(s)
      BY <2>4 DEF BeginDone, Turn, Ready, Known, A
  <2>5. CASE ~BeginDone(s) /\ Kind[s] = "agent"
    <3>1. s \in Jobs \ new
        BY <2>1, <2>2, <2>5
    <3> QED BY <2>1, <2>3, <2>5, <3>1 DEF Begun, WorkGoesOn, JobsGoOn
  <2>6. CASE Kind[s] = "approval"
    <3>1. ref[s] = 0 /\ ref'[s] # 0
        BY <2>3, <2>6 DEF Begun
    <3>2. PICK t \in Steps : RecordDone(t)
        BY <2>0, <3>1 DEF NextDone, EnterDone, SyncedDone, JudgeDone, ConcludeDone,
           CancelDone, Outside, ListDone, AskDone, ConcludeCancelDone, CrashDone, MarkDone,
           StepDone, SyncDone, PlaceDone, BeginDone, ReleaseDone, rowVars
    <3>3. A.pc = "recording" /\ A.at = t /\ ref' = [ref EXCEPT ![t] = A.ref]
        BY <3>2 DEF RecordDone
    <3>4. t = s
        BY <2>2, <3>1, <3>3
    <3> QED BY <1>1, <3>3, <3>4 DEF OrderInv, BasicInv, HandInv, Beginning
  <2>7. CASE ~BeginDone(s) /\ Kind[s] = "batch"
    <3>1. batch[s] = <<>> /\ batch'[s] # <<>>
        BY <2>3, <2>7 DEF Begun
    <3>2. CASE Outside
        BY <2>2, <3>1, <3>2 DEF Outside, WorkGoesOn, Item
    <3>3. CASE ~Outside
      <4>1. PICK t \in Steps : BeginDone(t)
          BY <2>0, <3>1, <3>3 DEF NextDone, EnterDone, SyncedDone, JudgeDone, ConcludeDone,
             CancelDone, ListDone, AskDone, ConcludeCancelDone, CrashDone, MarkDone,
             StepDone, SyncDone, PlaceDone, RecordDone, ReleaseDone, workVars
      <4>2. t # s
          BY <2>7, <4>1
      <4> QED BY <2>2, <3>1, <4>1, <4>2 DEF BeginDone, Asked
    <3> QED BY <3>2, <3>3
  <2>8. CASE Kind[s] = "local"
    <3>1. step[s] # "succeeded" /\ step'[s] = "succeeded"
        BY <2>3, <2>8 DEF Begun
    <3>2. CASE \E t \in Steps : PlaceDone(t)
      <4>1. PICK t \in Steps : PlaceDone(t)
          BY <3>2
      <4>2. PICK status \in {"skipped", "succeeded"} :
              /\ Turn(t) /\ step' = [step EXCEPT ![t] = status]
              /\ status = "skipped" => ~Matches(t)
              /\ status = "succeeded" => Matches(t)
          BY <4>1 DEF PlaceDone
      <4>3. t = s /\ status = "succeeded"
          BY <2>2, <3>1, <4>2 DEF View
      <4> QED BY <4>2, <4>3 DEF Turn, Ready, Known, A
    <3>3. CASE \E t \in Steps : SyncDone(t)
      <4>1. PICK t \in Steps : SyncDone(t)
          BY <3>3
      <4>2. t = s
          BY <2>2, <3>1, <4>1 DEF SyncDone, View
      <4> QED BY <2>8, <4>1, <4>2 DEF SyncDone, Watched
    <3>4. CASE \E t \in Steps : RecordDone(t)
      <4>1. PICK t \in Steps : RecordDone(t)
          BY <3>4
      <4>2. t = s /\ A.pc = "recording" /\ A.at = s
          BY <2>2, <3>1, <4>1 DEF RecordDone, View
      <4> QED BY <1>1, <2>8, <4>2 DEF OrderInv, BasicInv, HandInv, Beginning
    <3>5. CASE \E p \in {"advance", "cancel"}, t \in Steps : MarkDone(p, t)
        BY <2>2, <3>1, <3>5 DEF MarkDone, View
    <3>6. CASE UNCHANGED step
        BY <3>1, <3>6
    <3> QED BY <2>0, <3>2, <3>3, <3>4, <3>5, <3>6 DEF NextDone, EnterDone, SyncedDone,
            JudgeDone, ConcludeDone, CancelDone, Outside, ListDone, AskDone,
            ConcludeCancelDone, CrashDone, StepDone, BeginDone, ReleaseDone, rowVars
  <2> QED BY <2>2, <2>4, <2>5, <2>6, <2>7, <2>8
<1>2. ASSUME UNCHANGED vars
      PROVE  Order
    BY <1>2 DEF vars, rowVars, workVars, Begun
<1>3. OrderInv /\ [Next]_vars => [Order]_vars
    BY <1>1
<1> QED BY <1>3, OrderAlways, PTL DEF Spec, BeginsInOrder

-----------------------------------------------------------------------------
(***************************************************************************)
(* Where nothing goes wrong (mishaps = 0) all work is in the rows or in    *)
(* the hands of advance(), which keeps it within the limit.                *)
(***************************************************************************)
AtHand(s) == Beginning /\ s = A.at
Holds == {s \in Steps : Counts(s) \/ AtHand(s)}

AllRecorded == \A s \in Jobs : Unrecorded(s) => AtHand(s)

\* One arena or evaluation for each step, whose row says whether it runs.
BatchesInv == \A s \in Steps : Kind[s] = "batch" =>
    /\ Len(batch[s]) <= 1
    /\ batch[s] # <<>> => ref[s] # 0 \/ AtHand(s)
    /\ ~run.cancel /\ ref[s] # 0 /\ batch[s][1] = "running" => step[s] = "running"

AskInv == Inside => \A s \in Steps :
    Kind[s] = "approval" /\ step[s] = "waiting_approval" => A.view[s] = "waiting_approval"

JobsSeen == Inside => \A s \in Jobs :
    Active(s) /\ ref[s] # 0 /\ Looked(s) => A.view[s] \in ActiveStep

HandStatus ==
    A.pc = "recording" /\ Kind[A.at] = "agent" => A.status \in Ended \cup ActiveStep

Within == Cardinality(Holds) <= MaxConcurrency

QuietEnd == ~run.cancel /\ Ending => \A s \in Steps : ~Working(s)

SmoothInv ==
    /\ revived = {} /\ AllRecorded /\ BatchesInv /\ AskInv
    /\ JobsSeen /\ HandStatus /\ Within /\ QuietEnd

\* What a step does to the work of s that is not begun by it.
WorkMild(s) ==
    /\ ref[s] \in DOMAIN requests /\ requests'[ref[s]].status = "pending"
         => requests[ref[s]].status = "pending"
    /\ Len(batch'[s]) = Len(batch[s])
    /\ \A n \in DOMAIN batch[s] : batch'[s][n] = "running" => batch[s][n] = "running"

LEMMA MildWork ==
    ASSUME TypesOK, UNCHANGED <<requests, batch>> \/ Outside
    PROVE  \A s \in Steps : WorkMild(s)
BY DEF WorkMild, Outside

LEMMA WorkLess ==
    ASSUME BasicInv, NEW new \in SUBSET Jobs, WorkGoesOn(new), revived' = {},
           NEW s \in Steps, WorkMild(s), ref'[s] = ref[s],
           s \in Jobs /\ child[s].status = "none" => child'[s].status = "none",
           Kind[s] = "approval" /\ step'[s] = "waiting_approval"
             => step[s] = "waiting_approval",
           Working(s)'
    PROVE  Working(s)
<1>0. /\ batch \in [Steps -> Seq(Item)] /\ batch' \in [Steps -> Seq(Item)]
      /\ requests \in Seq(Request) /\ ref \in [Steps -> Nat]
      /\ Jobs = {t \in Steps : Kind[t] = "agent"}
    BY TypesGive DEF BasicInv, WorkGoesOn, Item, Request
<1>1. CASE Kind[s] = "agent"
  <2>1. s \in Jobs /\ Active(s)'
      BY <1>0, <1>1 DEF Working
  <2>2. Active(s)
      BY <2>1 DEF Active, WorkGoesOn, JobsGoOn
  <2> QED BY <1>1, <2>2 DEF Working
<1>2. CASE Kind[s] = "batch"
  <2>1. PICK n \in DOMAIN batch'[s] : batch'[s][n] = "running"
      BY <1>2 DEF Working
  <2>2. n \in DOMAIN batch[s]
      BY <1>0, <2>1 DEF WorkMild
  <2> QED BY <1>2, <2>1, <2>2 DEF Working, WorkMild
<1>3. CASE Kind[s] = "approval"
  <2>1. ref[s] # 0 /\ step[s] = "waiting_approval" /\ requests'[ref[s]].status = "pending"
      BY <1>3 DEF Working
  <2>2. ref[s] \in DOMAIN requests
      BY <1>0, <1>3, <2>1 DEF BasicInv, RefsInv
  <2> QED BY <1>3, <2>1, <2>2 DEF Working, WorkMild
<1> QED BY <1>1, <1>2, <1>3 DEF Working

LEMMA HoldsFinite ==
    /\ IsFiniteSet(Steps)
    /\ IsFiniteSet(Holds) /\ Cardinality(Holds) \in Nat
    /\ IsFiniteSet(AtWork) /\ Cardinality(AtWork) \in Nat
<1>1. IsFiniteSet(Steps)
    BY FS_Interval DEF Steps
<1>2. Holds \subseteq Steps /\ AtWork \subseteq Steps
    BY DEF Holds, AtWork
<1> QED BY <1>1, <1>2, FS_Subset, FS_CardinalityType

LEMMA HoldsLess ==
    ASSUME Within, Holds' \subseteq Holds
    PROVE  Within'
<1>1. IsFiniteSet(Holds) /\ Cardinality(Holds) \in Nat
    BY HoldsFinite
<1>2. Cardinality(Holds') <= Cardinality(Holds) /\ Cardinality(Holds') \in Nat
    BY <1>1, FS_Subset, FS_CardinalityType
<1> QED BY <1>1, <1>2 DEF Within

\* Every step that begins no work.
LEMMA SmoothKept ==
    ASSUME BasicInv, SmoothInv, NEW new \in SUBSET Jobs, WorkGoesOn(new),
           revived' = {}, ref' = ref, \A s \in Steps : WorkMild(s),
           \A j \in Jobs : child[j].status = "none" => child'[j].status = "none",
           Beginning <=> Beginning', Beginning => A'.at = A.at,
           run.cancel => run'.cancel,
           \A s \in Steps : Kind[s] = "approval" /\ step'[s] = "waiting_approval"
             => step[s] = "waiting_approval",
           ~run'.cancel => \A s \in Steps :
             Kind[s] = "batch" /\ ref[s] # 0 /\ batch[s][1] = "running"
               /\ step[s] = "running" => step'[s] = "running",
           ~run'.cancel /\ Ending' => Ending \/ \A s \in Steps : ~Working(s),
           AskInv', JobsSeen', HandStatus'
    PROVE  SmoothInv'
<1>0. /\ batch \in [Steps -> Seq(Item)] /\ batch' \in [Steps -> Seq(Item)]
      /\ ref \in [Steps -> Nat] /\ Jobs \subseteq Steps
    BY TypesGive DEF BasicInv, WorkGoesOn, Item
<1>1. ASSUME NEW s \in Steps, Working(s)'
      PROVE  Working(s)
    BY <1>1, WorkLess
<1>2. \A s \in Steps : AtHand(s)' <=> AtHand(s)
    BY DEF AtHand, A
<1>3. AllRecorded'
    BY <1>0, <1>2 DEF SmoothInv, AllRecorded, Unrecorded
<1>4. ASSUME NEW s \in Steps, Kind[s] = "batch"
      PROVE  /\ Len(batch'[s]) <= 1
             /\ batch'[s] # <<>> => ref[s] # 0 \/ AtHand(s)'
             /\ ~run'.cancel /\ ref[s] # 0 /\ batch'[s][1] = "running"
                  => step'[s] = "running"
  <2>1. /\ Len(batch[s]) <= 1 /\ Len(batch'[s]) = Len(batch[s])
        /\ batch[s] # <<>> => ref[s] # 0 \/ AtHand(s)
      BY <1>4 DEF SmoothInv, BatchesInv, WorkMild
  <2>2. batch'[s] # <<>> => batch[s] # <<>>
      BY <1>0, <2>1
  <2>3. ASSUME ~run'.cancel, ref[s] # 0, batch'[s][1] = "running"
        PROVE  step'[s] = "running"
    <3>1. 1 \in DOMAIN batch[s]
        BY <1>0, <1>4, <2>3 DEF BasicInv, RefsInv
    <3>2. batch[s][1] = "running"
        BY <2>3, <3>1 DEF WorkMild
    <3>3. step[s] = "running"
        BY <1>4, <2>3, <3>2 DEF SmoothInv, BatchesInv
    <3> QED BY <1>4, <2>3, <3>2, <3>3
  <2> QED BY <1>2, <2>1, <2>2, <2>3
<1>5. BatchesInv'
    BY <1>4 DEF BatchesInv
<1>6. Within'
  <2>1. Holds' \subseteq Holds
      BY <1>1, <1>2 DEF Holds, Counts
  <2> QED BY <2>1, HoldsLess DEF SmoothInv
<1>7. QuietEnd'
    BY <1>1 DEF SmoothInv, QuietEnd
<1> QED BY <1>3, <1>5, <1>6, <1>7 DEF SmoothInv

\* What counts is in the rows that advance() has looked through.
LEMMA CountsSeen ==
    ASSUME BasicInv, SmoothInv, A.pc = "starting", NEW s \in Steps, Counts(s)
    PROVE  A.view[s] \in ActiveStep
<1>0. Inside /\ ~Beginning /\ ref[s] \in Nat /\ Jobs = {t \in Steps : Kind[t] = "agent"}
      /\ batch \in [Steps -> Seq(Item)]
    BY TypesGive DEF Inside, Beginning, BasicInv, Item
<1>1. CASE Kind[s] = "agent"
  <2>1. s \in Jobs /\ Active(s)
      BY <1>0, <1>1 DEF Counts, Working
  <2>2. ref[s] # 0
      BY <1>0, <2>1 DEF SmoothInv, AllRecorded, Unrecorded, AtHand, Active
  <2> QED BY <1>0, <2>1, <2>2 DEF SmoothInv, JobsSeen, Looked
<1>2. CASE Kind[s] = "batch"
  <2>1. PICK n \in DOMAIN batch[s] : batch[s][n] = "running"
      BY <1>2 DEF Counts, Working
  <2>2. ~run.cancel
      BY <1>2 DEF Counts
  <2>3. Len(batch[s]) <= 1 /\ batch[s] # <<>>
      BY <1>0, <1>2, <2>1 DEF SmoothInv, BatchesInv
  <2>4. n = 1
      BY <1>0, <2>1, <2>3
  <2>5. ref[s] # 0
      BY <1>0, <1>2, <2>3 DEF SmoothInv, BatchesInv, AtHand
  <2>6. step[s] = "running"
      BY <1>2, <2>1, <2>2, <2>4, <2>5 DEF SmoothInv, BatchesInv
  <2> QED BY <1>0, <2>2, <2>6 DEF BasicInv, CancelInv, ActiveStep
<1>3. CASE Kind[s] = "approval"
    BY <1>0, <1>3 DEF Counts, Working, SmoothInv, AskInv, ActiveStep
<1> QED BY <1>1, <1>2, <1>3 DEF Counts, Working

\* A job does not come back from its end.
LEMMA ActiveBefore ==
    ASSUME NEW new \in SUBSET Jobs, WorkGoesOn(new), revived' = {}, NEW j \in Jobs,
           child[j].status = "none" => child'[j].status = "none", Active(j)'
    PROVE  Active(j)
BY DEF WorkGoesOn, JobsGoOn, Active

\* Where advance() stays as it is, or leaves its loops, or ends one.
LEMMA SmoothPassed ==
    ASSUME BasicInv, SmoothInv, NEW new \in SUBSET Jobs, WorkGoesOn(new),
           revived' = {}, ref' = ref, \A s \in Steps : WorkMild(s),
           \A j \in Jobs : child[j].status = "none" => child'[j].status = "none",
           \/ A' = A
           \/ ~Beginning /\ ~Inside'
           \/ SyncedDone,
           run.cancel => run'.cancel,
           \A s \in Steps : Kind[s] = "approval" /\ step'[s] = "waiting_approval"
             => step[s] = "waiting_approval",
           ~run'.cancel => step' = step,
           ~run'.cancel /\ Ending' => Ending \/ \A s \in Steps : ~Working(s)
    PROVE  SmoothInv'
<1>0. ref \in [Steps -> Nat] /\ Jobs = {s \in Steps : Kind[s] = "agent"} /\ A.at \in Nat
    BY TypesGive DEF BasicInv
<1>1. Beginning <=> Beginning'
    BY DEF Beginning, Inside, SyncedDone, Moves, A
<1>2. Beginning => A'.at = A.at
    BY DEF Beginning, Inside, SyncedDone, Moves, A
<1>3. Inside' => /\ Inside /\ A'.view = A.view
                 /\ (A'.pc = A.pc /\ A'.at = A.at) \/ SyncedDone
    BY DEF Inside, SyncedDone, Moves, A
<1>4. AskInv'
  <2>1. ASSUME Inside', NEW s \in Steps, Kind[s] = "approval", step'[s] = "waiting_approval"
        PROVE  A'.view[s] = "waiting_approval"
      BY <1>3, <2>1 DEF SmoothInv, AskInv
  <2> QED BY <2>1 DEF AskInv, A
<1>5. JobsSeen'
  <2>1. ASSUME Inside', NEW s \in Jobs, Active(s)', ref[s] # 0, Looked(s)'
        PROVE  A'.view[s] \in ActiveStep
    <3>1. Active(s)
        BY <2>1, ActiveBefore
    <3>2. CASE Looked(s)
        BY <1>3, <2>1, <3>1, <3>2 DEF SmoothInv, JobsSeen
    <3>3. CASE ~Looked(s)
      <4>0. s \in Nat /\ A.pc = "syncing" /\ ~(s < A.at)
          BY <1>0, <3>3 DEF Looked, Steps
      <4>1. SyncedDone /\ A.at <= s
        <5>1. A'.pc = "syncing" => s < A'.at
            BY <2>1 DEF Looked, A
        <5>2. SyncedDone
            BY <1>3, <2>1, <4>0, <5>1
        <5> QED BY <1>0, <4>0, <5>2
      <4>2. ~Watched(s) /\ Kind[s] = "agent"
          BY <1>0, <2>1, <4>1 DEF SyncedDone
      <4>3. A.view[s] = "waiting_approval"
          BY <2>1, <4>2 DEF Watched, Known, A
      <4> QED BY <1>3, <2>1, <4>3 DEF ActiveStep
    <3> QED BY <3>2, <3>3
  <2> QED BY <2>1 DEF JobsSeen, A
<1>6. HandStatus'
  <2>1. A'.pc = "recording" => A' = A
      BY DEF Inside, SyncedDone, Moves, A
  <2> QED BY <2>1 DEF SmoothInv, HandStatus, A
<1> QED BY <1>1, <1>2, <1>4, <1>5, <1>6, SmoothKept

\* A run is judged to have ended when nothing works.
LEMMA JudgedQuiet ==
    ASSUME BasicInv, SmoothInv, JudgeDone, ~run.cancel, Verdict \in {"succeeded", "failed"}
    PROVE  \A s \in Steps : ~Working(s)
<1> SUFFICES ASSUME NEW s \in Steps, Working(s)
             PROVE  FALSE
    OBVIOUS
<1>1. A.pc = "starting"
    BY DEF JudgeDone
<1>2. A.view[s] \in ActiveStep
    BY <1>1, CountsSeen DEF Counts
<1>3. step[s] \in ActiveStep
    BY <1>1, <1>2 DEF BasicInv, CancelInv, Inside
<1>4. CASE {step[t] : t \in Steps} \subseteq {"succeeded", "skipped"}
    BY <1>3, <1>4 DEF ActiveStep
<1>5. CASE ~({step[t] : t \in Steps} \subseteq {"succeeded", "skipped"})
  <2>1. {step[t] : t \in Steps} \cap ActiveStep = {}
      BY <1>5 DEF Verdict
  <2> QED BY <1>3, <2>1
<1> QED BY <1>4, <1>5

\* The steps of all but the loops of advance().
LEMMA SmoothAround ==
    ASSUME BasicInv, SmoothInv, NEW new \in SUBSET Jobs, WorkGoesOn(new),
           revived' = {}, \A s \in new : BeginDone(s),
           \/ EnterDone \/ SyncedDone \/ JudgeDone \/ ConcludeDone \/ CancelDone \/ Outside
           \/ \E p \in {"advance", "cancel"} :
                \/ p = "cancel" /\ ListDone(p)
                \/ AskDone(p) \/ ConcludeCancelDone(p)
                \/ \E s \in Steps : MarkDone(p, s)
    PROVE  SmoothInv'
<1>0. /\ step \in View /\ run.cancel \in BOOLEAN
      /\ TypesOK /\ CancelInv
    BY TypesGive DEF BasicInv
<1>1. /\ ref' = ref
      /\ UNCHANGED <<requests, batch>> \/ Outside
    BY DEF EnterDone, SyncedDone, JudgeDone, ConcludeDone, CancelDone, ListDone, AskDone,
       ConcludeCancelDone, MarkDone, Outside, rowVars, workVars
<1>2. A' = A \/ (~Beginning /\ ~Inside') \/ SyncedDone
  <2>1. CASE EnterDone \/ JudgeDone \/ ConcludeDone
      BY <2>1 DEF EnterDone, JudgeDone, ConcludeDone, Moves, Beginning, Inside, A
  <2>2. CASE CancelDone \/ Outside
      BY <2>2 DEF CancelDone, Outside, Moves, A
  <2>3. ASSUME NEW p \in {"advance", "cancel"},
               \/ p = "cancel" /\ ListDone(p)
               \/ AskDone(p) \/ ConcludeCancelDone(p)
               \/ \E s \in Steps : MarkDone(p, s)
        PROVE  A' = A \/ (~Beginning /\ ~Inside')
    <3>1. CASE p = "cancel"
        BY <2>3, <3>1 DEF ListDone, AskDone, ConcludeCancelDone, MarkDone, Moves, A
    <3>2. CASE p = "advance"
        BY <2>3, <3>2 DEF AskDone, ConcludeCancelDone, MarkDone, Moves, Beginning, Inside, A
    <3> QED BY <3>1, <3>2
  <2> QED BY <2>1, <2>2, <2>3
<1>3. \A s \in Steps : WorkMild(s)
    BY <1>0, <1>1, MildWork
<1>4. \A j \in Jobs : child[j].status = "none" => child'[j].status = "none"
  <2>1. A.pc # "starting" \/ A'.pc \notin {"submitted", "recording"}
      BY <1>2 DEF SyncedDone, Moves, Inside, A
  <2> QED BY <1>0, <2>1, NoneNew
<1>5. \/ UNCHANGED <<run, step>>
      \/ run'.cancel /\ step' = step
      \/ ConcludeDone
      \/ \E p \in {"advance", "cancel"}, s \in Steps : MarkDone(p, s)
  <2>1. EnterDone \/ SyncedDone \/ JudgeDone \/ Outside => UNCHANGED <<run, step>>
      BY DEF EnterDone, SyncedDone, JudgeDone, Outside, rowVars
  <2>2. CancelDone => run'.cancel /\ step' = step
      BY DEF CancelDone
  <2>3. \A p : ListDone(p) \/ AskDone(p) => UNCHANGED <<run, step>>
      BY DEF ListDone, AskDone, rowVars
  <2>4. \A p : ConcludeCancelDone(p) => run'.cancel /\ step' = step
      BY DEF ConcludeCancelDone
  <2> QED BY <2>1, <2>2, <2>3, <2>4
<1>6. \/ UNCHANGED <<run, step>>
      \/ run'.cancel /\ step' = step
      \/ ConcludeDone
      \/ run' = run /\ run.cancel /\ \E s \in Steps : step' = [step EXCEPT ![s] = "canceled"]
    BY <1>0, <1>5 DEF MarkDone, CancelInv, A, C
<1>7. /\ run.cancel => run'.cancel
      /\ ~run'.cancel => step' = step
    BY <1>6 DEF ConcludeDone
<1>8. \A s \in Steps : step'[s] = "waiting_approval" => step[s] = "waiting_approval"
    BY <1>0, <1>6 DEF View, ConcludeDone
<1>9. ASSUME ~run'.cancel, Ending'
      PROVE  Ending \/ \A s \in Steps : ~Working(s)
  <2>1. CASE JudgeDone
    <3>1. run' = run
        BY <2>1 DEF JudgeDone, rowVars
    <3>2. CASE Verdict \in {"succeeded", "failed"}
        BY <1>9, <2>1, <3>1, <3>2, JudgedQuiet
    <3>3. CASE Verdict \notin {"succeeded", "failed"}
      <4>1. A'.status = Verdict
          BY <2>1 DEF JudgeDone, Moves, A
      <4> QED BY <1>9, <3>1, <3>3, <4>1 DEF Ending, A
    <3> QED BY <3>2, <3>3
  <2>2. CASE ConcludeDone
    <3>1. A.pc = "concluding" /\ run'.status = A.status /\ A'.pc = "free"
        BY <2>2 DEF ConcludeDone, Moves, A
    <3> QED BY <1>9, <3>1 DEF Ending, A
  <2>3. CASE ~JudgeDone /\ ~ConcludeDone
    <3>1. run' = run
        BY <1>6, <1>9, <2>3
    <3>2. A'.pc = "concluding" => A' = A
      <4>1. CASE EnterDone \/ SyncedDone \/ CancelDone \/ Outside
          BY <4>1 DEF EnterDone, SyncedDone, CancelDone, Outside, Moves, A
      <4>2. ASSUME NEW p \in {"advance", "cancel"},
                   \/ p = "cancel" /\ ListDone(p)
                   \/ AskDone(p) \/ ConcludeCancelDone(p)
                   \/ \E s \in Steps : MarkDone(p, s)
            PROVE  A' = A \/ A'.pc \in {"marking", "free"}
          BY <4>2 DEF ListDone, AskDone, ConcludeCancelDone, MarkDone, Moves, A
      <4> QED BY <2>3, <4>1, <4>2
    <3> QED BY <1>9, <3>1, <3>2 DEF Ending, A
  <2> QED BY <2>1, <2>2, <2>3
<1> QED BY <1>1, <1>2, <1>3, <1>4, <1>7, <1>8, <1>9, SmoothPassed

LEMMA SmoothList ==
    ASSUME BasicInv, TruthInv, SmoothInv, NEW new \in SUBSET Jobs, WorkGoesOn(new),
           revived' = {}, \A s \in new : BeginDone(s), ListDone("advance")
    PROVE  SmoothInv'
<1>1. /\ A.pc = "listing" /\ A'.pc = "syncing" /\ A'.view = step /\ A'.at = 1
      /\ UNCHANGED <<run, step, ref, requests, batch>>
    BY DEF ListDone, Moves, A, TruthInv, rowVars, workVars
<1>2. \A s \in Steps : WorkMild(s)
    BY <1>1, MildWork DEF BasicInv
<1>3. \A j \in Jobs : child[j].status = "none" => child'[j].status = "none"
    BY <1>1, NoneNew DEF BasicInv
<1>4. ~Beginning /\ ~Beginning'
    BY <1>1 DEF Beginning, A
<1>5. Ending' => Ending
    BY <1>1 DEF Ending, A
<1>6. AskInv' /\ HandStatus'
    BY <1>1 DEF AskInv, HandStatus, A
<1>7. JobsSeen'
  <2>1. \A s \in Jobs : ~Looked(s)'
      BY <1>1, TypesGive DEF Looked, A, Steps, BasicInv
  <2> QED BY <2>1 DEF JobsSeen
<1> QED BY <1>1, <1>2, <1>3, <1>4, <1>5, <1>6, <1>7, SmoothKept

LEMMA SmoothSync ==
    ASSUME BasicInv, SmoothInv, NEW new \in SUBSET Jobs, WorkGoesOn(new),
           revived' = {}, \A s \in new : BeginDone(s), NEW s \in Steps, SyncDone(s)
    PROVE  SmoothInv'
<1>0. /\ step \in View /\ A.view \in View /\ ref \in [Steps -> Nat]
      /\ Jobs = {t \in Steps : Kind[t] = "agent"} /\ A.at \in Nat
      /\ TypesOK /\ RefsInv /\ batch \in [Steps -> Seq(Item)]
    BY TypesGive DEF BasicInv, Item
<1>1. /\ A.pc = "syncing" /\ Inside /\ Watched(s) /\ A.at <= s
      /\ UNCHANGED <<run, ref, child, requests, batch>>
    BY DEF SyncDone, Inside, workVars
<1>2. \A t \in Steps : WorkMild(t)
    BY <1>0, <1>1, MildWork
<1>3. \A j \in Jobs : child[j].status = "none" => child'[j].status = "none"
    BY <1>1
<1>4. CASE A'.pc = "free" /\ step' = step
  <2>1. ~Beginning /\ ~Inside'
      BY <1>1, <1>4 DEF Beginning, Inside, A
  <2>2. Ending' => Ending
      BY <1>1, <1>4 DEF Ending, A
  <2> QED BY <1>1, <1>2, <1>3, <1>4, <2>1, <2>2, SmoothPassed
<1>5. CASE /\ A'.pc = "syncing" /\ A'.view = Seen(s, Reported(s)) /\ A'.at = s + 1
           /\ \/ step' = [step EXCEPT ![s] = Reported(s)] /\ Reported(s) # A.view[s]
              \/ step' = step /\ Reported(s) = A.view[s]
  <2>1. /\ ~Beginning /\ ~Beginning'
        /\ Ending' => Ending
      BY <1>1, <1>5 DEF Beginning, Ending, A
  <2>2. /\ Kind[s] = "batch" => Reported(s) = batch[s][ref[s]] /\ ref[s] \in DOMAIN batch[s]
        /\ Kind[s] = "agent" => Reported(s) = Mapped(child[s].status)
      BY <1>0, <1>1, ReportedOK
  <2>3. /\ A'.view[s] = Reported(s)
        /\ \A t \in Steps : t # s => A'.view[t] = A.view[t] /\ step'[t] = step[t]
        /\ step'[s] = Reported(s) \/ (step'[s] = step[s] /\ Reported(s) = A.view[s])
    <3> DEFINE read == Reported(s)
    <3>1. A'.view = [A.view EXCEPT ![s] = read]
        BY <1>5 DEF Seen
    <3>2. \/ step' = [step EXCEPT ![s] = read]
          \/ step' = step /\ read = A.view[s]
        BY <1>5
    <3> HIDE DEF read
    <3>3. /\ A'.view[s] = read
          /\ \A t \in Steps : t # s => A'.view[t] = A.view[t] /\ step'[t] = step[t]
          /\ step'[s] = read \/ (step'[s] = step[s] /\ read = A.view[s])
        BY <1>0, <3>1, <3>2 DEF View
    <3> QED BY <3>3 DEF read
  <2>4. ASSUME NEW t \in Steps, Kind[t] = "approval", step'[t] = "waiting_approval"
        PROVE  step[t] = "waiting_approval"
    <3>1. CASE t = s
      <4>1. A.view[s] = "waiting_approval"
          BY <1>1, <2>4, <3>1 DEF Watched, Known, A
      <4> QED BY <1>0, <1>5, <2>4, <3>1, <4>1 DEF View
    <3> QED BY <2>3, <2>4, <3>1
  <2>5. ASSUME NEW t \in Steps, Kind[t] = "batch", ref[t] # 0, batch[t][1] = "running",
               step[t] = "running"
        PROVE  step'[t] = "running"
    <3>1. CASE t = s
      <4>1. Len(batch[s]) <= 1
          BY <2>5, <3>1 DEF SmoothInv, BatchesInv
      <4>2. ref[s] = 1
          BY <1>0, <2>2, <2>5, <3>1, <4>1
      <4>3. Reported(s) = "running"
          BY <2>2, <2>5, <3>1, <4>2
      <4> QED BY <2>3, <2>5, <3>1, <4>3
    <3> QED BY <2>3, <2>5, <3>1
  <2>6. AskInv'
    <3>1. ASSUME NEW t \in Steps, Kind[t] = "approval", step'[t] = "waiting_approval"
          PROVE  A'.view[t] = "waiting_approval"
      <4>1. A.view[t] = "waiting_approval"
          BY <1>1, <2>4, <3>1 DEF SmoothInv, AskInv
      <4> QED BY <2>3, <3>1, <4>1
    <3> QED BY <3>1 DEF AskInv, A
  <2>7. JobsSeen'
    <3>1. ASSUME NEW d \in Jobs, Active(d), ref[d] # 0, d < s + 1
          PROVE  A'.view[d] \in ActiveStep
      <4>0. d \in Nat /\ s \in Nat /\ d \in Steps
          BY <1>0 DEF Steps
      <4>1. CASE d = s
        <5>1. child[s].status \in ChildStatus
            BY <1>0, <4>1, JobRow DEF TypesOK, JobsOK
        <5>2. Mapped(child[s].status) \in ActiveStep
            BY <3>1, <4>1, <5>1 DEF Mapped, Active, ChildStatus, Ended, ActiveStep
        <5> QED BY <1>0, <2>2, <2>3, <4>1, <5>2
      <4>2. CASE d < s /\ d < A.at
        <5>1. Looked(d)
            BY <4>2 DEF Looked
        <5> QED BY <1>1, <2>3, <3>1, <4>0, <4>2, <5>1 DEF SmoothInv, JobsSeen
      <4>3. CASE d < s /\ A.at <= d
        <5>1. ~Watched(d) /\ Kind[d] = "agent"
            BY <1>0, <4>0, <4>3 DEF SyncDone
        <5>2. A.view[d] = "waiting_approval"
            BY <3>1, <5>1 DEF Watched, Known, A
        <5> QED BY <2>3, <4>0, <4>3, <5>2 DEF ActiveStep
      <4> QED BY <1>0, <3>1, <4>0, <4>1, <4>2, <4>3
    <3>2. \A d \in Jobs : Active(d)' /\ Looked(d)' => Active(d) /\ d < s + 1
        BY <1>1, <1>5 DEF Active, Looked, A
    <3> QED BY <1>1, <3>1, <3>2 DEF JobsSeen, A
  <2>8. HandStatus'
      BY <1>5 DEF HandStatus, A
  <2> QED BY <1>1, <1>2, <1>3, <2>1, <2>4, <2>5, <2>6, <2>7, <2>8, SmoothKept
<1> QED BY <1>4, <1>5 DEF SyncDone, Moves, A

LEMMA SmoothPlace ==
    ASSUME BasicInv, SmoothInv, NEW new \in SUBSET Jobs, WorkGoesOn(new),
           revived' = {}, \A s \in new : BeginDone(s), NEW s \in Steps, PlaceDone(s)
    PROVE  SmoothInv'
<1>0. /\ step \in View /\ A.view \in View /\ ref \in [Steps -> Nat]
      /\ Jobs = {t \in Steps : Kind[t] = "agent"} /\ TypesOK /\ RefsInv
    BY TypesGive DEF BasicInv
<1>1. PICK status \in {"skipped", "succeeded"} :
        /\ A.pc = "starting" /\ Ready(s)
        /\ A'.pc = "starting" /\ A'.view = Seen(s, status)
        /\ step' = [step EXCEPT ![s] = status]
        /\ UNCHANGED <<run, ref, child, requests, batch>>
    BY DEF PlaceDone, Turn, Moves, A, workVars
<1>2. Inside /\ ~Beginning /\ ~Beginning' /\ (Ending' => Ending)
    BY <1>1 DEF Inside, Beginning, Ending, A
<1>3. ref[s] = 0
    BY <1>1, <1>2 DEF BasicInv, RefsInv, Referred, Ready, Known, A
<1>4. /\ step'[s] = status /\ A'.view[s] = status
      /\ \A t \in Steps : t # s => A'.view[t] = A.view[t] /\ step'[t] = step[t]
    BY <1>0, <1>1 DEF Seen, View
<1>5. \A t \in Steps : WorkMild(t)
    BY <1>0, <1>1, MildWork
<1>6. AskInv'
  <2>1. \A t \in Steps : Kind[t] = "approval" /\ step'[t] = "waiting_approval"
                           => A'.view[t] = "waiting_approval"
      BY <1>2, <1>4 DEF SmoothInv, AskInv
  <2> QED BY <2>1 DEF AskInv, A
<1>7. JobsSeen'
  <2>1. ASSUME NEW d \in Jobs, Active(d), ref[d] # 0
        PROVE  A'.view[d] \in ActiveStep
    <3>1. Looked(d) /\ d # s /\ d \in Steps
        BY <1>0, <1>1, <1>3, <2>1 DEF Looked
    <3> QED BY <1>2, <1>4, <2>1, <3>1 DEF SmoothInv, JobsSeen
  <2> QED BY <1>1, <2>1 DEF JobsSeen, Active, A
<1>8. HandStatus'
    BY <1>1 DEF HandStatus, A
<1>9. \A t \in Steps : step'[t] = "waiting_approval" => step[t] = "waiting_approval"
    BY <1>4
<1>10. \A t \in Steps : ref[t] # 0 => step'[t] = step[t]
    BY <1>3, <1>4
<1> QED BY <1>1, <1>2, <1>5, <1>6, <1>7, <1>8, <1>9, <1>10, SmoothKept

LEMMA SmoothRelease ==
    ASSUME BasicInv, SmoothInv, NEW new \in SUBSET Jobs, WorkGoesOn(new),
           revived' = {}, \A s \in new : BeginDone(s), NEW s \in Steps, ReleaseDone(s)
    PROVE  SmoothInv'
<1>1. PICK target \in {"queued", "waiting_approval", "canceled"} :
        /\ A.pc = "submitted" /\ A'.pc = "recording" /\ A'.view = A.view
        /\ A.at = s /\ A'.at = s /\ A'.status = target
        /\ UNCHANGED <<run, step, ref, requests, batch>>
    BY DEF ReleaseDone, Moves, A, rowVars
<1>2. \A t \in Steps : WorkMild(t)
    BY <1>1, MildWork DEF BasicInv
<1>3. \A j \in Jobs : child[j].status = "none" => child'[j].status = "none"
    BY <1>1, NoneNew DEF BasicInv
<1>4. Inside /\ Beginning /\ Beginning' /\ (Ending' => Ending)
    BY <1>1 DEF Inside, Beginning, Ending, A
<1>5. AskInv'
    BY <1>1, <1>4 DEF SmoothInv, AskInv, A
<1>6. JobsSeen'
  <2>1. \A d \in Jobs : Active(d)' /\ ref[d] # 0 => A.view[d] \in ActiveStep
      BY <1>1, <1>3, <1>4, ActiveBefore DEF SmoothInv, JobsSeen, Looked
  <2> QED BY <1>1, <2>1 DEF JobsSeen, A
<1>7. HandStatus'
    BY <1>1 DEF HandStatus, A, ActiveStep, Ended
<1> QED BY <1>1, <1>2, <1>3, <1>4, <1>5, <1>6, <1>7, SmoothKept

LEMMA SmoothBegin ==
    ASSUME BasicInv, SmoothInv, NEW new \in SUBSET Jobs, WorkGoesOn(new),
           revived' = {}, \A j \in new : BeginDone(j), NEW s \in Steps, BeginDone(s)
    PROVE  SmoothInv'
<1>0. /\ ref \in [Steps -> Nat] /\ Jobs = {t \in Steps : Kind[t] = "agent"}
      /\ TypesOK /\ RefsInv /\ requests \in Seq(Request) /\ batch \in [Steps -> Seq(Item)]
    BY TypesGive DEF BasicInv, Request, Item
<1>1. /\ A.pc = "starting" /\ Ready(s) /\ A'.pc \in {"submitted", "recording"}
      /\ A'.at = s /\ A'.view = A.view
      /\ UNCHANGED <<run, step, ref>>
    BY DEF BeginDone, Turn, Moves, A, rowVars
<1>2. Inside /\ ~Beginning /\ Beginning'
    BY <1>1 DEF Inside, Beginning, A
<1>3. ref[s] = 0 /\ Cardinality(AtWork) < MaxConcurrency
    BY <1>1, <1>2 DEF BasicInv, RefsInv, Referred, Ready, Known, A
<1>4. ASSUME NEW j \in Jobs, j # s, child[j].status = "none"
      PROVE  child'[j].status = "none"
  <2>1. j \notin new
      BY <1>1, <1>4 DEF BeginDone, Moves, A
  <2> QED BY <1>4, <2>1 DEF WorkGoesOn, JobsGoOn
<1>5. /\ requests' = requests \/ requests' = Append(requests, [action |-> ActionOf[s],
                                                               status |-> "pending"])
      /\ batch' = batch \/ (Kind[s] = "batch" /\ batch' = [batch EXCEPT ![s] = Append(@, "running")])
    BY DEF BeginDone, Asked
<1>6. ASSUME NEW t \in Steps, t # s
      PROVE  WorkMild(t)
  <2>1. batch'[t] = batch[t]
      BY <1>0, <1>5, <1>6
  <2>2. ref[t] \in DOMAIN requests => requests'[ref[t]] = requests[ref[t]]
    <3> DEFINE item == [action |-> ActionOf[s], status |-> "pending"]
    <3>1. requests' = requests \/ requests' = Append(requests, item)
        BY <1>5
    <3>2. item \in Request
        BY DEF Request
    <3> HIDE DEF item
    <3>3. \A n \in 1 .. Len(requests) : Append(requests, item)[n] = requests[n]
        BY <1>0, <3>2, AppendProperties
    <3>4. DOMAIN requests = 1 .. Len(requests)
        BY <1>0
    <3> QED BY <3>1, <3>3, <3>4
  <2> QED BY <2>1, <2>2 DEF WorkMild
<1>7. ASSUME NEW t \in Steps, t # s, Working(t)'
      PROVE  Working(t)
  <2>1. ref'[t] = ref[t] /\ step'[t] = step[t]
      BY <1>1
  <2> QED BY <1>4, <1>6, <1>7, <2>1, WorkLess DEF SmoothInv
<1>8. Within'
  <2>1. Holds' \subseteq Holds \cup {s}
      BY <1>1, <1>7 DEF Holds, Counts, AtHand, A
  <2>2. Holds \subseteq AtWork
      BY <1>1, <1>2, CountsSeen DEF Holds, AtHand, AtWork, Known, A
  <2>3. Holds' \subseteq AtWork \cup {s}
      BY <2>1, <2>2
  <2>4. IsFiniteSet(AtWork) /\ Cardinality(AtWork) \in Nat
      BY HoldsFinite
  <2>5. /\ IsFiniteSet(AtWork \cup {s})
        /\ Cardinality(AtWork \cup {s}) <= Cardinality(AtWork) + 1
        /\ Cardinality(AtWork \cup {s}) \in Nat
    <3>1. /\ IsFiniteSet(AtWork \cup {s})
          /\ Cardinality(AtWork \cup {s})
               = IF s \in AtWork THEN Cardinality(AtWork) ELSE Cardinality(AtWork) + 1
        BY <2>4, FS_AddElement
    <3> QED BY <2>4, <3>1
  <2>6. Cardinality(Holds') <= Cardinality(AtWork \cup {s}) /\ Cardinality(Holds') \in Nat
      BY <2>3, <2>5, FS_Subset, FS_CardinalityType
  <2> QED BY <1>3, <2>4, <2>5, <2>6 DEF Within
<1>9. AllRecorded'
  <2>1. ASSUME NEW j \in Jobs, child'[j].status # "none", ref[j] = 0
        PROVE  j = s
      BY <1>2, <1>4, <2>1 DEF SmoothInv, AllRecorded, Unrecorded, AtHand
  <2>2. AtHand(s)'
      BY <1>1, <1>2 DEF AtHand, A
  <2> QED BY <1>1, <2>1, <2>2 DEF AllRecorded, Unrecorded
<1>10. ASSUME NEW t \in Steps, Kind[t] = "batch"
       PROVE  /\ Len(batch'[t]) <= 1
              /\ batch'[t] # <<>> => ref[t] # 0 \/ AtHand(t)'
              /\ ~run.cancel /\ ref[t] # 0 /\ batch'[t][1] = "running" => step[t] = "running"
  <2>1. /\ Len(batch[t]) <= 1
        /\ batch[t] # <<>> => ref[t] # 0
        /\ ~run.cancel /\ ref[t] # 0 /\ batch[t][1] = "running" => step[t] = "running"
      BY <1>2, <1>10 DEF SmoothInv, BatchesInv, AtHand
  <2>2. CASE t = s
    <3>1. AtHand(s)'
        BY <1>1, <1>2 DEF AtHand, A
    <3>2. batch[s] = <<>>
        BY <1>3, <2>1, <2>2
    <3>3. batch'[s] = batch[s] \/ batch'[s] = Append(batch[s], "running")
        BY <1>0, <1>5
    <3>4. Len(batch'[s]) <= 1
      <4>1. batch[s] \in Seq(Item) /\ "running" \in Item /\ Len(batch[s]) = 0
          BY <1>0, <3>2 DEF Item
      <4>2. Len(Append(batch[s], "running")) = 1
          BY <4>1, AppendProperties
      <4> QED BY <3>3, <4>1, <4>2
    <3> QED BY <1>3, <2>2, <3>1, <3>4
  <2>3. CASE t # s
      BY <1>0, <1>5, <2>1, <2>3
  <2> QED BY <2>2, <2>3
<1>11. BatchesInv'
    BY <1>1, <1>10 DEF BatchesInv
<1>12. AskInv'
    BY <1>1, <1>2 DEF SmoothInv, AskInv, A
<1>13. JobsSeen'
  <2>1. ASSUME NEW d \in Jobs, Active(d)', ref[d] # 0
        PROVE  A.view[d] \in ActiveStep
    <3>1. Active(d)
        BY <1>3, <1>4, <2>1, ActiveBefore
    <3> QED BY <1>1, <1>2, <2>1, <3>1 DEF SmoothInv, JobsSeen, Looked
  <2> QED BY <1>1, <2>1 DEF JobsSeen, A
<1>14. HandStatus'
  <2>1. CASE A'.pc = "recording" /\ Kind[s] = "agent"
    <3>1. child[s].status # "none"
        BY <2>1 DEF BeginDone, Asked, Moves, A
    <3> QED BY <1>0, <1>2, <1>3, <2>1, <3>1 DEF SmoothInv, AllRecorded, Unrecorded, AtHand
  <2> QED BY <1>1, <2>1 DEF HandStatus, A
<1>15. QuietEnd'
    BY <1>1 DEF QuietEnd, Ending, A, BasicInv, CancelInv, EndedRun
<1> QED BY <1>8, <1>9, <1>11, <1>12, <1>13, <1>14, <1>15 DEF SmoothInv

LEMMA SmoothRecord ==
    ASSUME BasicInv, SmoothInv, NEW new \in SUBSET Jobs, WorkGoesOn(new),
           revived' = {}, NEW s \in Steps, RecordDone(s)
    PROVE  SmoothInv'
<1>0. /\ ref \in [Steps -> Nat] /\ step \in View /\ A.view \in View
      /\ Jobs = {t \in Steps : Kind[t] = "agent"} /\ A.ref \in Nat
    BY TypesGive DEF BasicInv
<1>1. /\ A.pc = "recording" /\ A.at = s /\ A'.pc = "starting" /\ A'.view = Seen(s, A.status)
      /\ step' = [step EXCEPT ![s] = A.status] /\ ref' = [ref EXCEPT ![s] = A.ref]
      /\ UNCHANGED <<run, child, requests, batch, revived>>
    BY DEF RecordDone, Moves, A, workVars
<1>2. /\ Inside /\ Beginning /\ ~Beginning' /\ AtHand(s)
      /\ A.ref >= 1 /\ (Kind[s] = "batch" => A.status = "running")
    BY <1>1 DEF Inside, Beginning, AtHand, A, BasicInv, HandInv
<1>3. /\ step'[s] = A.status /\ A'.view[s] = A.status /\ ref'[s] = A.ref
      /\ \A t \in Steps : t # s => /\ A'.view[t] = A.view[t]
                                   /\ step'[t] = step[t] /\ ref'[t] = ref[t]
    BY <1>0, <1>1 DEF Seen, View
<1>4. Within'
  <2>1. ASSUME NEW t \in Steps, t # s
        PROVE  Counts(t)' <=> Counts(t)
      BY <1>1, <1>3, <2>1 DEF Counts, Working, Active
  <2>2. Holds' \subseteq Holds
      BY <1>2, <2>1 DEF Holds, AtHand
  <2> QED BY <2>2, HoldsLess DEF SmoothInv
<1>5. AllRecorded'
  <2>1. ASSUME NEW j \in Jobs, child[j].status # "none", ref'[j] = 0
        PROVE  FALSE
    <3>1. j \in Steps /\ j # s
        BY <1>0, <1>2, <1>3, <2>1
    <3>2. Unrecorded(j)
        BY <1>3, <2>1, <3>1 DEF Unrecorded
    <3> QED BY <1>1, <3>1, <3>2 DEF SmoothInv, AllRecorded, AtHand
  <2> QED BY <1>1, <2>1 DEF AllRecorded, Unrecorded
<1>6. BatchesInv'
  <2>1. ASSUME NEW t \in Steps, Kind[t] = "batch"
        PROVE  /\ Len(batch[t]) <= 1
               /\ batch[t] # <<>> => ref'[t] # 0
               /\ ~run.cancel /\ ref'[t] # 0 /\ batch[t][1] = "running" => step'[t] = "running"
    <3>1. CASE t = s
        BY <1>0, <1>2, <1>3, <2>1, <3>1 DEF SmoothInv, BatchesInv
    <3>2. CASE t # s
        BY <1>1, <1>3, <2>1, <3>2 DEF SmoothInv, BatchesInv, AtHand
    <3> QED BY <3>1, <3>2
  <2> QED BY <1>1, <2>1 DEF BatchesInv
<1>7. AskInv'
  <2>1. \A t \in Steps : Kind[t] = "approval" /\ step'[t] = "waiting_approval"
                           => A'.view[t] = "waiting_approval"
      BY <1>2, <1>3 DEF SmoothInv, AskInv
  <2> QED BY <2>1 DEF AskInv, A
<1>8. JobsSeen'
  <2>1. ASSUME NEW d \in Jobs, Active(d), ref'[d] # 0
        PROVE  A'.view[d] \in ActiveStep
    <3>1. CASE d = s
      <4>1. A.status \notin Ended
          BY <1>0, <1>1, <1>2, <2>1, <3>1 DEF BasicInv, HandInv, SmoothInv, Active
      <4>2. A.status \in ActiveStep
          BY <1>0, <1>1, <3>1, <4>1 DEF SmoothInv, HandStatus
      <4> QED BY <1>3, <3>1, <4>2
    <3>2. CASE d # s
        BY <1>0, <1>1, <1>2, <1>3, <2>1, <3>2 DEF SmoothInv, JobsSeen, Looked
    <3> QED BY <3>1, <3>2
  <2> QED BY <1>1, <2>1 DEF JobsSeen, Active, A
<1>9. HandStatus'
    BY <1>1 DEF HandStatus, A
<1>10. QuietEnd'
    BY <1>1 DEF QuietEnd, Ending, A, BasicInv, CancelInv, EndedRun
<1> QED BY <1>1, <1>4, <1>5, <1>6, <1>7, <1>8, <1>9, <1>10 DEF SmoothInv

LEMMA SmoothStays ==
    ASSUME OrderInv, SmoothInv, NextDone, mishaps' = mishaps,
           NEW new \in SUBSET Jobs, WorkGoesOn(new), \A s \in new : BeginDone(s)
    PROVE  SmoothInv'
<1>0. BasicInv /\ TruthInv /\ mishaps \in Nat
    BY TypesGive DEF OrderInv, BasicInv
<1>1. revived' = {}
    BY DEF WorkGoesOn, JobsGoOn, SmoothInv
<1>2. \A p \in {"advance", "cancel"} : ~CrashDone(p)
  <2>1. \A p \in {"advance", "cancel"} : CrashDone(p) => mishaps' = mishaps + 1
      BY DEF CrashDone
  <2> QED BY <1>0, <2>1
<1>3. CASE \/ EnterDone \/ SyncedDone \/ JudgeDone \/ ConcludeDone \/ CancelDone \/ Outside
           \/ \E p \in {"advance", "cancel"} :
                \/ p = "cancel" /\ ListDone(p)
                \/ AskDone(p) \/ ConcludeCancelDone(p)
                \/ \E s \in Steps : MarkDone(p, s)
    BY <1>0, <1>1, <1>3, SmoothAround
<1>4. CASE ListDone("advance")
    BY <1>0, <1>1, <1>4, SmoothList
<1>5. ASSUME NEW s \in Steps, StepDone(s)
      PROVE  SmoothInv'
    BY <1>0, <1>1, <1>5, SmoothSync, SmoothPlace, SmoothBegin, SmoothRelease, SmoothRecord
       DEF StepDone
<1> QED BY <1>2, <1>3, <1>4, <1>5 DEF NextDone

LEMMA SmoothInit ==
    ASSUME Init
    PROVE  SmoothInv
<1>1. A.pc = "free" /\ ~Inside /\ ~Beginning
    BY FreeOK DEF Init, A, Inside, Beginning
<1>2. \A s \in Jobs : child[s].status = "none"
    BY DEF Init, ChildInit
<1>3. \A s \in Steps : ref[s] = 0 /\ batch[s] = <<>>
    BY DEF Init
<1>4. \A s \in Steps : ~Working(s)
    BY <1>2, <1>3 DEF Working, Active
<1>5. Holds = {}
    BY <1>1, <1>4 DEF Holds, Counts, AtHand
<1>6. Within
    BY <1>5, FS_EmptySet DEF Within
<1> QED BY <1>1, <1>2, <1>3, <1>4, <1>6 DEF Init, SmoothInv, AllRecorded, Unrecorded,
        BatchesInv, AskInv, JobsSeen, HandStatus, QuietEnd

SmoothOrder == OrderInv /\ (mishaps = 0 => SmoothInv)

LEMMA SmoothAlways == Spec => []SmoothOrder
<1>1. ASSUME SmoothOrder, Next
      PROVE  SmoothOrder'
  <2>1. OrderInv' /\ NextDone
      BY <1>1, OrderNext DEF SmoothOrder
  <2>2. PICK new \in SUBSET Jobs : WorkGoesOn(new) /\ \A s \in new : BeginDone(s)
      BY <1>1, OrderNext DEF SmoothOrder
  <2>3. mishaps \in Nat
      BY <1>1, TypesGive DEF SmoothOrder, OrderInv, BasicInv
  <2>4. mishaps' = mishaps \/ mishaps' = mishaps + 1
      BY <2>1 DEF NextDone, EnterDone, SyncedDone, JudgeDone, ConcludeDone, CancelDone,
         Outside, ListDone, AskDone, ConcludeCancelDone, CrashDone, MarkDone, StepDone,
         SyncDone, PlaceDone, BeginDone, ReleaseDone, RecordDone
  <2>5. ASSUME mishaps' = 0
        PROVE  SmoothInv'
    <3>1. mishaps' = mishaps /\ mishaps = 0
        BY <2>3, <2>4, <2>5
    <3> QED BY <1>1, <2>1, <2>2, <3>1, SmoothStays DEF SmoothOrder
  <2> QED BY <2>1, <2>5 DEF SmoothOrder
<1>2. ASSUME SmoothOrder, UNCHANGED vars
      PROVE  SmoothOrder'
  <2>1. OrderInv'
      BY <1>2, OrderStutter DEF SmoothOrder
  <2>2. /\ step' = step /\ ref' = ref /\ run' = run /\ child' = child /\ requests' = requests
        /\ batch' = batch /\ revived' = revived /\ mishaps' = mishaps /\ A' = A
      BY <1>2 DEF vars, rowVars, workVars, A
  <2>3. \A s \in Steps : (Working(s)' <=> Working(s)) /\ (AtHand(s)' <=> AtHand(s))
      BY <2>2 DEF Working, Active, AtHand, Beginning
  <2>4. Holds' = Holds
      BY <2>2, <2>3 DEF Holds, Counts
  <2> QED BY <1>2, <2>1, <2>2, <2>3, <2>4 DEF SmoothOrder, SmoothInv, AllRecorded, Unrecorded,
        BatchesInv, AskInv, JobsSeen, HandStatus, QuietEnd, Within, Inside, Active,
        Looked, Ending, AtHand, Beginning
<1>3. SmoothOrder /\ [Next]_vars => SmoothOrder'
    BY <1>1, <1>2
<1>4. Init => SmoothOrder
    BY OrderInit, SmoothInit DEF SmoothOrder
<1> QED BY <1>3, <1>4, PTL DEF Spec

(***************************************************************************)
(* The work under way never exceeds the run's max_concurrency as long as   *)
(* nobody dies at the wrong moment and no job comes back: _start_ready     *)
(* counts by rows it has read, and everything at work is in them.          *)
(***************************************************************************)
THEOREM LimitKeptTheorem == Spec => []LimitKept
<1>1. SmoothOrder => LimitKept
  <2> SUFFICES ASSUME SmoothOrder, mishaps = 0
               PROVE  Cardinality({s \in Steps : Counts(s)}) <= MaxConcurrency
      BY DEF LimitKept
  <2>1. {s \in Steps : Counts(s)} \subseteq Holds
      BY DEF Holds
  <2>2. /\ Cardinality({s \in Steps : Counts(s)}) <= Cardinality(Holds)
        /\ Cardinality({s \in Steps : Counts(s)}) \in Nat
      BY <2>1, HoldsFinite, FS_Subset, FS_CardinalityType
  <2> QED BY <2>2, HoldsFinite DEF SmoothOrder, SmoothInv, Within
<1> QED BY <1>1, SmoothAlways, PTL

(***************************************************************************)
(* A run that advance() has given an end, and nobody has canceled, left    *)
(* nothing behind that still works.                                        *)
(***************************************************************************)
THEOREM EndIsQuietTheorem == Spec => []EndIsQuiet
<1>1. SmoothOrder => EndIsQuiet
    BY DEF SmoothOrder, SmoothInv, QuietEnd, Ending, EndIsQuiet
<1> QED BY <1>1, SmoothAlways, PTL
=============================================================================
