--------------------------- MODULE ScheduleProofs ---------------------------
(***************************************************************************)
(* The promises of a schedule, for any number of instants, occurrences,    *)
(* workers, edits, mishaps and turns.                                      *)
(***************************************************************************)
EXTENDS ScheduleProperties, FiniteSetTheorems, TLAPS

USE SlotAssumption, ScheduleBoundAssumption, ProcAssumption
        DEF queue, counters

-----------------------------------------------------------------------------
(***************************************************************************)
(* Types.                                                                  *)
(***************************************************************************)
ProcType == [pc : PCs, todo : SUBSET Jobs, at : Jobs \cup {0},
             def : Versions \cup {0}, seen : ChildStatus,
             in : {"none", "syncing", "recovering", "due", "web"}]

LEMMA JobMoved ==
    ASSUME ChildTypeOK, NEW o \in Jobs, NEW status \in ChildStatus,
           child' = [child EXCEPT ![o].status = status]
    PROVE  /\ ChildTypeOK'
           /\ child'[o].status = status
           /\ \A j \in Jobs \ {o} : child'[j] = child[j]
<1>1. child[o] \in Child /\ child' = [child EXCEPT ![o] = [child[o] EXCEPT !.status = status]]
    BY DEF ChildTypeOK
<1>2. [child[o] EXCEPT !.status = status] \in Child
    BY <1>1 DEF Child
<1> QED BY <1>1, <1>2 DEF ChildTypeOK, Child

\* A job that was never submitted comes up only through its submission.
Submitted(old, new, o) ==
    \A j \in Jobs : old[j].status = "none"
                      => new[j].status = "none" \/ (j = o /\ Submit(o))

\* Only a submitted job has attempts.
Unborn == \A j \in Jobs : child[j].status = "none" => ~child[j].ran

JobsStep(o) == ChildTypeOK' /\ Unborn' /\ Submitted(child, child', o)

LEMMA OneJobStep ==
    ASSUME ChildTypeOK, Unborn, NEW o \in Jobs, child[o].status # "none",
           NEW status \in ChildStatus \ {"none"}, Become(o, status)
    PROVE  JobsStep(o)
<1>1. /\ ChildTypeOK' /\ child'[o].status # "none"
      /\ \A j \in Jobs \ {o} : child'[j] = child[j]
    BY JobMoved DEF Become
<1> QED BY <1>1 DEF JobsStep, Submitted, Unborn

LEMMA JobsMove ==
    ASSUME ChildTypeOK, Unborn, NEW o \in Jobs,
           \/ Submit(o)
           \/ \E target \in {"queued", "canceled"} : Release(o, target)
           \/ JobMoves(o)
           \/ JobTurns(o)
    PROVE  JobsStep(o)
<1> USE DEF ChildStatus, Ended, Unborn
<1>1. CASE Submit(o)
  <2>1. /\ ChildTypeOK' /\ child'[o].status = "waiting_input"
        /\ \A j \in Jobs \ {o} : child'[j] = child[j]
      BY <1>1, JobMoved DEF Submit, Become
  <2> QED BY <1>1, <2>1 DEF JobsStep, Submitted
<1>2. ASSUME NEW target \in {"queued", "canceled"}, Release(o, target)
      PROVE  JobsStep(o)
    BY <1>2, OneJobStep DEF Release
<1>3. CASE Claim(o)
    BY <1>3 DEF Claim, ChildTypeOK, Child, JobsStep, Submitted
<1>4. CASE Exhaust(o) \/ Withdraw(o)
    BY <1>4, OneJobStep DEF Exhaust, Withdraw
<1>5. CASE Requeue({o})
    BY <1>5 DEF Requeue, ChildTypeOK, Child, JobsStep, Submitted
<1>6. ASSUME NEW status \in Ended \cup {"retry_wait"}, Settle(o, status)
      PROVE  JobsStep(o)
    BY <1>6, OneJobStep DEF Settle
<1>7. CASE Active(o) /\ AskCancel({o})
    BY <1>7 DEF AskCancel, ChildTypeOK, Child, JobsStep, Submitted
<1>8. CASE Renew(o)
    BY <1>8 DEF Renew, ChildTypeOK, Child, JobsStep, Submitted
<1> QED BY <1>1, <1>2, <1>3, <1>4, <1>5, <1>6, <1>7, <1>8
        DEF JobMoves, JobTurns, HasEnded

-----------------------------------------------------------------------------
(***************************************************************************)
(* Where a process is, and what it holds there.                            *)
(***************************************************************************)
Holding == {"projects", "grants", "loads", "creates", "claims", "submits",
            "releases", "finishes", "fails", "advances"}
InLoop == {"projects", "grants", "creates", "claims", "submits", "releases",
           "finishes", "fails"}

Held(r) ==
    /\ r \in ProcType
    /\ r.pc \in Holding => r.at \in Jobs
    /\ r.pc \in InLoop => r.in # "none"
    /\ r.pc \in {"syncing", "recovering"} => r.in = r.pc
    /\ r.pc \in {"projects", "grants"} => r.in = "syncing"
    /\ r.pc \in {"loads", "advances"} => r.in = "due"
    /\ r.in = "due" => r.at \in Slots

ProcsHeld == proc \in [Procs -> ProcType] /\ \A p \in Procs : Held(proc[p])

OccType == occ \in [Jobs -> [status : ActiveOcc \cup EndedOcc \cup {"none"},
                            hash : Versions \cup {0}]]
StateType == state \in [hash : Versions, enabled : BOOLEAN,
                       tested : Versions \cup {0}, next : 1 .. SlotCount + 1]

RowTypes ==
    /\ OccType /\ StateType
    /\ file \in Versions /\ file <= edits + 1
    /\ clock \in 0 .. SlotCount /\ left \subseteq Slots
    /\ edits \in 0 .. EditBound
    /\ mishaps \in 0 .. TroubleBound /\ turns \in 0 .. TroubleBound

LEMMA IdleHeld == Held(Idle)
BY DEF Held, Idle, ProcType, PCs, Holding, InLoop, ChildStatus

LEMMA OneProc ==
    ASSUME ProcsHeld, NEW p \in Procs, NEW r, Held(r),
           proc' = [proc EXCEPT ![p] = r]
    PROVE  ProcsHeld'
BY DEF ProcsHeld, Held

LEMMA LeaveHeld ==
    ASSUME ProcsHeld, NEW p \in Procs, Leave(p)
    PROVE  ProcsHeld'
BY OneProc, IdleHeld DEF Leave

LEMMA LoopHeld ==
    ASSUME NEW p \in Procs, Held(proc[p]),
           proc[p].in \in {"syncing", "recovering"}
    PROVE  Held(Loop(p))
<1>1. proc[p].todo \subseteq Jobs
    BY DEF Held, ProcType
<1> DEFINE row(pc) == [pc |-> pc, todo |-> proc[p].todo, at |-> 0, def |-> 0,
                       seen |-> "none", in |-> pc]
<1>2. Loop(p) = [[[Idle EXCEPT !.pc = proc[p].in] EXCEPT !.in = proc[p].in]
                   EXCEPT !.todo = proc[p].todo]
    BY DEF Loop, Idle
<1>3. Loop(p) = row(proc[p].in)
    BY <1>2 DEF Idle
<1>4. CASE proc[p].in = "syncing"
    BY <1>1, <1>3, <1>4 DEF Held, ProcType, PCs, Holding, InLoop, ChildStatus
<1>5. CASE proc[p].in = "recovering"
    BY <1>1, <1>3, <1>5 DEF Held, ProcType, PCs, Holding, InLoop, ChildStatus
<1> QED BY <1>4, <1>5

LEMMA ContinueHeld ==
    ASSUME ProcsHeld, NEW p \in Procs, proc[p].pc \in InLoop, Continue(p)
    PROVE  ProcsHeld'
<1>1. CASE proc[p].in = "web"
    BY <1>1, LeaveHeld DEF Continue
<1>2. CASE proc[p].in = "due"
    BY <1>2 DEF Continue, Goto, ProcsHeld, Held, ProcType, PCs, Holding, InLoop
<1>3. CASE proc[p].in \in {"syncing", "recovering"}
    BY <1>3, LoopHeld, OneProc DEF Continue, ProcsHeld
<1> QED BY <1>1, <1>2, <1>3 DEF ProcsHeld, Held, ProcType

LEMMA ReadHeld ==
    ASSUME NEW r, Held(r), r.pc = "syncing", NEW o \in Jobs,
           NEW status \in ChildStatus
    PROVE  /\ Held([r EXCEPT !.todo = @ \ {o}])
           /\ Held([[r EXCEPT !.todo = @ \ {o}] EXCEPT
                        !.pc = "projects", !.at = o, !.seen = status])
<1>1. PICK todo \in SUBSET Jobs, at \in Jobs \cup {0},
           def \in Versions \cup {0}, seen \in ChildStatus :
         r = [pc |-> "syncing", todo |-> todo, at |-> at, def |-> def,
              seen |-> seen, in |-> "syncing"]
    BY DEF Held, ProcType
<1>2. [r EXCEPT !.todo = @ \ {o}]
        = [pc |-> "syncing", todo |-> todo \ {o}, at |-> at, def |-> def,
           seen |-> seen, in |-> "syncing"]
    BY <1>1
<1>3. Held([pc |-> "syncing", todo |-> todo \ {o}, at |-> at, def |-> def,
            seen |-> seen, in |-> "syncing"])
    BY <1>1 DEF Held, ProcType, PCs, Holding, InLoop
<1>4. Held([[pc |-> "syncing", todo |-> todo \ {o}, at |-> at, def |-> def,
             seen |-> seen, in |-> "syncing"]
              EXCEPT !.pc = "projects", !.at = o, !.seen = status])
    BY <1>1 DEF Held, ProcType, PCs, Holding, InLoop
<1> QED BY <1>2, <1>3, <1>4

LEMMA ProcsKept ==
    ASSUME ChildTypeOK, RowTypes, ProcsHeld, [Next]_vars
    PROVE  ProcsHeld'
<1> USE DEF ProcsHeld
<1>1. ASSUME NEW p \in Workers, BeginTick(p) PROVE ProcsHeld'
  <2>1. Held([Idle EXCEPT !.pc = "syncing", !.in = "syncing", !.todo = Followed])
      BY DEF Held, Idle, ProcType, PCs, Holding, InLoop, ChildStatus, Followed
  <2> QED BY <1>1, <2>1, OneProc DEF BeginTick, Procs
<1>2. ASSUME NEW p \in Workers, Project(p) PROVE ProcsHeld'
  <2>1. p \in Procs /\ At(p, "projects")
      BY <1>2 DEF Project, Procs
  <2>2. CASE Goto(p, "grants")
    <3>1. Held([proc[p] EXCEPT !.pc = "grants"])
        BY <2>1 DEF Held, Holding, InLoop, ProcType, PCs, At
    <3> QED BY <2>1, <2>2, <3>1, OneProc DEF Goto
  <2>3. CASE Continue(p)
      BY <2>1, <2>3, ContinueHeld DEF At, InLoop
  <2> QED BY <1>2, <2>2, <2>3 DEF Project
<1>3. ASSUME NEW p \in Workers, Grant(p) PROVE ProcsHeld'
    BY <1>3, ContinueHeld DEF Grant, InLoop, At, Procs
<1>4. ASSUME NEW p \in Workers, BeginRecovery(p) PROVE ProcsHeld'
  <2>1. Held([proc[p] EXCEPT !.pc = "recovering", !.in = "recovering",
                           !.todo = Stranded])
      BY <1>4 DEF BeginRecovery, At, Procs, Stranded, Held, Holding, InLoop, ProcType, PCs
  <2>2. proc' = [proc EXCEPT ![p] = [proc[p] EXCEPT !.pc = "recovering",
                               !.in = "recovering", !.todo = Stranded]]
      BY <1>4 DEF BeginRecovery, Procs
  <2> QED BY <2>1, <2>2, OneProc DEF Procs
<1>5. ASSUME NEW p \in Workers, ReadDue(p) PROVE ProcsHeld'
  <2>1. ASSUME state.next <= clock
        PROVE  Held([Idle EXCEPT !.pc = "loads", !.in = "due", !.at = state.next])
    <3>1. state.next \in Slots /\ Slots \subseteq Jobs
        BY <2>1 DEF RowTypes, StateType, Slots
    <3> QED BY <3>1 DEF Held, Idle, ProcType, PCs, Holding, InLoop, ChildStatus
  <2> QED BY <1>5, <2>1, OneProc, LeaveHeld DEF ReadDue, Procs
<1>6. ASSUME NEW p \in Workers, Load(p) PROVE ProcsHeld'
  <2>1. Held([proc[p] EXCEPT !.pc = "creates", !.def = file])
      BY <1>6 DEF Load, At, Procs, RowTypes, Held, Holding, InLoop, ProcType, PCs
  <2> QED BY <1>6, <2>1, OneProc DEF Load, Procs
<1>7. ASSUME NEW p \in Workers, MarkAttention(p) PROVE ProcsHeld'
    BY <1>7, LeaveHeld DEF MarkAttention, Procs
<1>8. ASSUME NEW p \in Workers, Advance(p) PROVE ProcsHeld'
    BY <1>8, LeaveHeld DEF Advance, Procs
<1>9. ASSUME NEW p \in Workers, NEW o \in Jobs, ReadJob(p, o) PROVE ProcsHeld'
  <2>1. child[o].status \in ChildStatus
      BY DEF ChildTypeOK, Child
  <2>2. proc[p].pc = "syncing" /\ Held(proc[p])
      BY <1>9 DEF ReadJob, At, Procs
  <2> QED BY <1>9, <2>1, <2>2, ReadHeld, OneProc DEF ReadJob, Procs
<1>10. ASSUME NEW p \in Workers, NEW o \in Jobs, LoadAgain(p, o) PROVE ProcsHeld'
  <2> DEFINE pc == IF file = occ[o].hash THEN "submits" ELSE "fails"
             r == [proc[p] EXCEPT !.todo = @ \ {o}, !.at = o, !.pc = pc]
  <2>1. Held(r)
      BY <1>10 DEF LoadAgain, At, Procs, Held, Holding, InLoop, ProcType, PCs
  <2>2. proc' = [proc EXCEPT ![p] = r]
      BY <1>10 DEF LoadAgain, Procs
  <2> HIDE DEF r
  <2> QED BY <2>1, <2>2, OneProc DEF Procs
<1>11. ASSUME NEW p \in Procs, CreateOccurrence(p) PROVE ProcsHeld'
    BY <1>11 DEF CreateOccurrence, Held, Holding, InLoop, ProcType, PCs, ChildStatus, At, Handle, Leave, Idle
<1>12. ASSUME NEW p \in Procs, ClaimDispatch(p) PROVE ProcsHeld'
    BY <1>12, ContinueHeld DEF ClaimDispatch, Held, Holding, InLoop, ProcType, PCs, At, Goto
<1>13. ASSUME NEW p \in Procs, SubmitJob(p) PROVE ProcsHeld'
    BY <1>13 DEF SubmitJob, Held, Holding, InLoop, ProcType, PCs, ChildStatus, At, Goto
<1>14. ASSUME NEW p \in Procs, ReleaseJob(p) PROVE ProcsHeld'
    BY <1>14 DEF ReleaseJob, Held, Holding, InLoop, ProcType, PCs, ChildStatus, At, Goto
<1>15. ASSUME NEW p \in Procs, RecordQueued(p) PROVE ProcsHeld'
    BY <1>15, ContinueHeld DEF RecordQueued, InLoop, At
<1>16. ASSUME NEW p \in Procs, RecordFailed(p) PROVE ProcsHeld'
    BY <1>16, ContinueHeld DEF RecordFailed, Held, Holding, InLoop, ProcType, PCs, At, Goto
<1>17. ASSUME NEW p \in Procs, SubmissionRaises(p) PROVE ProcsHeld'
    BY <1>17 DEF SubmissionRaises, Held, Holding, InLoop, ProcType, PCs, ChildStatus, At, Goto
<1>18. ASSUME NEW p \in Procs, Crash(p) PROVE ProcsHeld'
    BY <1>18, LeaveHeld DEF Crash, Procs
<1>19. ASSUME NEW o \in Jobs, RunNow(o) PROVE ProcsHeld'
  <2>1. Held([Idle EXCEPT !.pc = "creates", !.in = "web", !.at = o, !.def = file])
      BY DEF Held, Idle, ProcType, PCs, Holding, InLoop, ChildStatus, RowTypes
  <2> QED BY <1>19, <2>1, OneProc DEF RunNow, Procs
<1>20. ASSUME NEW o \in Jobs, JobMoves(o) \/ JobTurns(o) PROVE ProcsHeld'
    BY <1>20 DEF JobMoves, JobTurns, Held, Holding, InLoop, ProcType, PCs, ChildStatus, At
<1>21. CASE AskEnable
  <2>1. Held([Idle EXCEPT !.pc = "checks", !.in = "web", !.def = file])
      BY DEF Held, Idle, ProcType, PCs, Holding, InLoop, ChildStatus, RowTypes
  <2> QED BY <1>21, <2>1, OneProc DEF AskEnable, Procs
<1>22. CASE CheckTested
    BY <1>22 DEF CheckTested, Held, Holding, InLoop, ProcType, PCs, ChildStatus, At, Goto, Leave, Idle
<1>23. CASE Enable
    BY <1>23, LeaveHeld DEF Enable, Procs
<1>24. CASE Pause
    BY <1>24 DEF Pause, Held, Holding, InLoop, ProcType, PCs, ChildStatus, At
<1>25. CASE SaveFile
    BY <1>25 DEF SaveFile, Held, Holding, InLoop, ProcType, PCs, ChildStatus, At
<1>26. CASE SaveState
    BY <1>26 DEF SaveState, Held, Holding, InLoop, ProcType, PCs, ChildStatus, At
<1>27. CASE TimePasses
    BY <1>27 DEF TimePasses, Held, Holding, InLoop, ProcType, PCs, ChildStatus, At
<1>28. CASE UNCHANGED vars
    BY <1>28 DEF vars, Held, Holding, InLoop, ProcType, PCs, ChildStatus, At
<1> QED BY <1>1, <1>2, <1>3, <1>4, <1>5, <1>6, <1>7, <1>8, <1>9, <1>10,
           <1>11, <1>12, <1>13, <1>14, <1>15, <1>16, <1>17, <1>18, <1>19,
           <1>20, <1>21, <1>22, <1>23, <1>24, <1>25, <1>26, <1>27, <1>28
        DEF Next, TickStep, Execute, Procs

-----------------------------------------------------------------------------
(***************************************************************************)
(* Which statements write the rows, the jobs and the state.                *)
(***************************************************************************)
RowStatement(p) ==
    \/ Project(p) \/ CreateOccurrence(p) \/ ClaimDispatch(p)
    \/ RecordQueued(p) \/ RecordFailed(p)

StateStatement ==
    \/ \E p \in Workers : Grant(p) \/ MarkAttention(p) \/ Advance(p)
    \/ Enable \/ Pause \/ SaveState

LEMMA Statements ==
    ASSUME [Next]_vars
    PROVE  /\ occ' = occ \/ \E p \in Procs : RowStatement(p)
           /\ (child' = child /\ over' = over /\ won' = won)
                \/ (\E p \in Procs : SubmitJob(p) \/ ReleaseJob(p))
                \/ \E o \in Jobs : JobMoves(o) \/ JobTurns(o)
           /\ late' = late \/ \E p \in Procs : CreateOccurrence(p)
           /\ (state' = state /\ left' = left) \/ StateStatement
<1> DEFINE Goal == /\ occ' = occ \/ \E p \in Procs : RowStatement(p)
                   /\ (child' = child /\ over' = over /\ won' = won)
                        \/ (\E p \in Procs : SubmitJob(p) \/ ReleaseJob(p))
                        \/ \E o \in Jobs : JobMoves(o) \/ JobTurns(o)
                   /\ late' = late \/ \E p \in Procs : CreateOccurrence(p)
                   /\ (state' = state /\ left' = left) \/ StateStatement
<1>1. ASSUME NEW p \in Workers, TickStep(p) PROVE Goal
    BY <1>1 DEF TickStep, BeginTick, ReadJob, LoadAgain, Project, Grant,
        BeginRecovery, ReadDue, Load, MarkAttention, Advance, RowStatement,
        StateStatement, Procs
<1>2. ASSUME NEW p \in Procs, Execute(p) PROVE Goal
    BY <1>2 DEF Execute, CreateOccurrence, ClaimDispatch, SubmitJob,
        ReleaseJob, RecordQueued, RecordFailed, RowStatement
<1>3. ASSUME NEW p \in Procs, SubmissionRaises(p) \/ Crash(p) PROVE Goal
    BY <1>3 DEF SubmissionRaises, Crash
<1>4. ASSUME NEW o \in Jobs, RunNow(o) \/ JobMoves(o) \/ JobTurns(o)
      PROVE  Goal
    BY <1>4 DEF RunNow, JobMoves, JobTurns
<1>5. CASE AskEnable \/ CheckTested \/ Enable \/ Pause \/ SaveFile \/ SaveState
           \/ TimePasses
    BY <1>5 DEF AskEnable, CheckTested, Enable, Pause, SaveFile, SaveState,
        TimePasses, StateStatement
<1>6. CASE UNCHANGED vars
    BY <1>6 DEF vars
<1> QED BY <1>1, <1>2, <1>3, <1>4, <1>5, <1>6 DEF Next

(***************************************************************************)
(* What a process knows when it holds an occurrence: the row is there; a   *)
(* status it read is that of a job that has ended so; the grant is for a   *)
(* test that succeeded; the instants before the one at hand are accounted  *)
(* for, and the one that next_run_at is about to pass is, too.             *)
(***************************************************************************)
Recorded(r, rows, done, wins, gone) ==
    /\ r.pc \in Holding \ {"loads", "creates"} => rows[r.at].status # "none"
    /\ \A o \in r.todo : rows[o].status # "none"
    /\ r.pc = "projects" => /\ Tells(r.seen)
                            /\ r.seen \in Ended => r.at \in done
                            /\ r.seen = "succeeded" => r.at \in wins
    /\ r.pc = "grants" => Trigger[r.at] = "test" /\ r.at \in wins
    /\ r.in = "due" => \A slot \in Slots : slot < r.at => slot \in gone
    /\ r.pc = "advances" => r.at \in gone

Accounted == {slot \in Slots : Passed(slot) \/ slot \in left}

ProcsRecorded == \A p \in Procs : Recorded(proc[p], occ, over, won, Accounted)

\* The histories are those of the jobs and of the instants.
HistoryInv ==
    /\ won \subseteq over /\ over \subseteq Jobs /\ late \subseteq Slots
    /\ \A o \in Jobs : HasEnded(o) => o \in over
    /\ \A o \in Jobs : child[o].status = "succeeded" => o \in won

LEMMA HistoryKept ==
    ASSUME ChildTypeOK, ProcsHeld, HistoryInv, [Next]_vars
    PROVE  /\ HistoryInv'
           /\ over \subseteq over' /\ won \subseteq won' /\ late \subseteq late'
<1>1. late \subseteq late' /\ late' \subseteq Slots
  <2>1. ASSUME NEW p \in Procs, CreateOccurrence(p)
        PROVE  late \subseteq late' /\ late' \subseteq Slots
      BY <2>1 DEF CreateOccurrence, ProcsHeld, Held, HistoryInv
  <2> QED BY <2>1, Statements DEF HistoryInv
<1> DEFINE Goal == /\ won' \subseteq over' /\ over' \subseteq Jobs
                   /\ over \subseteq over' /\ won \subseteq won'
                   /\ \A o \in Jobs : HasEnded(o)' => o \in over'
                   /\ \A o \in Jobs : child'[o].status = "succeeded" => o \in won'
<1>2. ASSUME Remember PROVE Goal
    BY <1>2 DEF Remember, HistoryInv, HasEnded, Ended
<1>3. ASSUME child' = child, over' = over, won' = won PROVE Goal
    BY <1>3 DEF HistoryInv, HasEnded
<1>4. ASSUME NEW p \in Procs, SubmitJob(p)
      PROVE  Goal
  <2>1. CASE Submit(proc[p].at)
    <3>1. /\ proc[p].at \in Jobs
          /\ child'[proc[p].at].status = "waiting_input"
          /\ \A j \in Jobs \ {proc[p].at} : child'[j] = child[j]
        BY <1>4, <2>1, JobMoved DEF SubmitJob, At, ProcsHeld, Held, Holding,
            Submit, Become, ChildStatus
    <3> QED BY <1>4, <3>1 DEF SubmitJob, HistoryInv, HasEnded, Ended
  <2> QED BY <1>3, <1>4, <2>1 DEF SubmitJob
<1>5. Goal
    BY <1>2, <1>3, <1>4, Statements DEF ReleaseJob, JobMoves, JobTurns
<1> QED BY <1>1, <1>5 DEF HistoryInv

LEMMA Finished ==
    ASSUME OccType, NEW o \in Jobs,
           NEW status \in ActiveOcc \cup EndedOcc, FinishOccurrence(o, status)
    PROVE  /\ OccType'
           /\ occ'[o].status = status /\ occ'[o].hash = occ[o].hash
           /\ \A q \in Jobs \ {o} : occ'[q] = occ[q]
BY DEF OccType, FinishOccurrence

LEMMA Created ==
    ASSUME OccType, NEW p \in Procs, Held(proc[p]), CreateOccurrence(p)
    PROVE  /\ OccType' /\ occ'[proc[p].at].status # "none"
           /\ \A q \in Jobs : Exists(q) => occ'[q] = occ[q]
           /\ \A q \in Jobs \ {proc[p].at} : occ'[q] = occ[q]
           /\ ~Exists(proc[p].at) =>
                /\ occ'[proc[p].at].hash = proc[p].def
                /\ \/ occ'[proc[p].at].status \in {"misfired", "skipped"}
                   \/ /\ occ'[proc[p].at].status = "claimed"
                      /\ ~Overlaps(proc[p].at)
<1>1. PICK misfired \in BOOLEAN :
        occ' = [occ EXCEPT ![proc[p].at] =
                  IF Exists(proc[p].at) THEN occ[proc[p].at]
                  ELSE [status |-> IF misfired THEN "misfired"
                                   ELSE IF Overlaps(proc[p].at) THEN "skipped"
                                   ELSE "claimed",
                        hash |-> proc[p].def]]
    BY DEF CreateOccurrence
<1>2. proc[p].at \in Jobs /\ proc[p].def \in Versions \cup {0}
    BY DEF CreateOccurrence, Held, Holding, At, ProcType
<1> DEFINE given == IF misfired THEN "misfired"
                   ELSE IF Overlaps(proc[p].at) THEN "skipped" ELSE "claimed"
<1>3. /\ given \in {"misfired", "skipped", "claimed"}
      /\ given = "claimed" => ~Overlaps(proc[p].at)
    OBVIOUS
<1> HIDE DEF given
<1>4. CASE Exists(proc[p].at)
  <2>1. occ' = [occ EXCEPT ![proc[p].at] = occ[proc[p].at]]
      BY <1>1, <1>4
  <2> QED BY <1>2, <1>4, <2>1 DEF OccType, Exists
<1>5. CASE ~Exists(proc[p].at)
  <2>1. occ' = [occ EXCEPT ![proc[p].at] = [status |-> given, hash |-> proc[p].def]]
      BY <1>1, <1>5 DEF given
  <2>2. [status |-> given, hash |-> proc[p].def]
          \in [status : ActiveOcc \cup EndedOcc \cup {"none"}, hash : Versions \cup {0}]
      BY <1>2, <1>3 DEF ActiveOcc, EndedOcc
  <2>3. OccType' /\ occ'[proc[p].at] = [status |-> given, hash |-> proc[p].def]
        /\ \A q \in Jobs \ {proc[p].at} : occ'[q] = occ[q]
      BY <1>2, <2>1, <2>2 DEF OccType
  <2> QED BY <1>2, <1>3, <1>5, <2>3 DEF Exists
<1> QED BY <1>4, <1>5

LEMMA RowsKept ==
    ASSUME OccType, ChildTypeOK, ProcsHeld, ProcsRecorded, [Next]_vars
    PROVE  /\ OccType'
           /\ \A o \in Jobs : Exists(o) =>
                /\ Exists(o)' /\ occ'[o].hash = occ[o].hash
                /\ occ'[o].status = "claimed" => occ[o].status = "claimed"
<1> DEFINE Goal == /\ OccType'
                   /\ \A o \in Jobs : Exists(o) =>
                        /\ Exists(o)' /\ occ'[o].hash = occ[o].hash
                        /\ occ'[o].status = "claimed"
                             => occ[o].status = "claimed"
<1>1. CASE occ' = occ
    BY <1>1 DEF OccType, Exists
<1>2. ASSUME NEW p \in Procs, RowStatement(p)
      PROVE  Goal
  <2>1. Held(proc[p]) /\ Recorded(proc[p], occ, over, won, Accounted)
      BY DEF ProcsHeld, ProcsRecorded
  <2>2. ASSUME NEW status \in ActiveOcc \cup EndedOcc, proc[p].at \in Jobs,
               status # "claimed", FinishOccurrence(proc[p].at, status)
        PROVE  Goal
    <3>1. /\ OccType' /\ occ'[proc[p].at].status = status
          /\ occ'[proc[p].at].hash = occ[proc[p].at].hash
          /\ \A q \in Jobs \ {proc[p].at} : occ'[q] = occ[q]
        BY <2>2, Finished
    <3>2. status # "none"
        BY DEF ActiveOcc, EndedOcc, Ended
    <3> QED BY <2>2, <3>1, <3>2 DEF Exists
  <2>3. CASE Project(p)
    <3>1. /\ proc[p].at \in Jobs /\ proc[p].seen \in ActiveOcc \cup EndedOcc
          /\ proc[p].seen # "claimed"
        BY <2>1, <2>3 DEF Project, Recorded, Tells, ActiveOcc, EndedOcc, At,
            Held, Holding, Ended
    <3> QED BY <2>2, <2>3, <3>1 DEF Project
  <2>4. CASE CreateOccurrence(p)
      BY <2>1, <2>4, Created DEF Exists
  <2>5. CASE ClaimDispatch(p)
    <3>1. proc[p].at \in Jobs
        BY <2>1, <2>5 DEF ClaimDispatch, At, Held, Holding
    <3> QED BY <1>1, <2>2, <2>5, <3>1 DEF ClaimDispatch, ActiveOcc
  <2>6. CASE RecordQueued(p) \/ RecordFailed(p)
    <3>1. proc[p].at \in Jobs
        BY <2>1, <2>6 DEF RecordQueued, RecordFailed, At, Held, Holding
    <3> QED BY <2>2, <2>6, <3>1 DEF RecordQueued, RecordFailed, ActiveOcc,
            EndedOcc, Ended
  <2> QED BY <1>2, <2>3, <2>4, <2>5, <2>6 DEF RowStatement
<1> QED BY <1>1, <1>2, Statements
LEMMA JobsKept ==
    ASSUME ChildTypeOK, Unborn, ProcsHeld, [Next]_vars
    PROVE  /\ ChildTypeOK' /\ Unborn'
           /\ \A j \in Jobs : child[j].status = "none" =>
                \/ child'[j].status = "none"
                \/ \E p \in Procs : At(p, "submits") /\ proc[p].at = j
<1>1. CASE child' = child
    BY <1>1 DEF ChildTypeOK, Unborn
<1>2. ASSUME NEW p \in Procs, SubmitJob(p), child' # child
      PROVE  JobsStep(proc[p].at) /\ At(p, "submits")
  <2>1. proc[p].at \in Jobs
      BY <1>2 DEF SubmitJob, At, ProcsHeld, Held, Holding
  <2> QED BY <1>2, <2>1, JobsMove DEF SubmitJob
<1>3. ASSUME NEW p \in Procs, ReleaseJob(p)
      PROVE  JobsStep(proc[p].at) /\ ~Submit(proc[p].at)
  <2>1. proc[p].at \in Jobs
      BY <1>3 DEF ReleaseJob, At, ProcsHeld, Held, Holding
  <2>2. child[proc[p].at].status = "waiting_input"
      BY <1>3 DEF ReleaseJob, Release
  <2> QED BY <1>3, <2>1, <2>2, JobsMove DEF ReleaseJob, Submit
<1>4. ASSUME NEW o \in Jobs, JobMoves(o) \/ JobTurns(o)
      PROVE  JobsStep(o) /\ ~Submit(o)
  <2>1. child[o].status # "none"
      BY <1>4 DEF JobMoves, JobTurns, Claim, Exhaust, Withdraw, Requeue, Settle,
          Unborn, Active, Renew, HasEnded, Ended
  <2> QED BY <1>4, <2>1, JobsMove DEF Submit
<1> QED BY <1>1, <1>2, <1>3, <1>4, Statements DEF JobsStep, Submitted

LEMMA StateKept ==
    ASSUME RowTypes, ProcsHeld, ProcsRecorded, [Next]_vars
    PROVE  /\ StateType' /\ left' \subseteq Slots
           /\ left \subseteq left'
<1> USE DEF RowTypes
<1>1. CASE state' = state /\ left' = left
    BY <1>1 DEF StateType
<1>2. ASSUME NEW p \in Workers, Grant(p)
      PROVE  StateType' /\ left' = left
  <2>1. proc[p].at \in Jobs
      BY <1>2 DEF Grant, At, ProcsHeld, Held, Holding, Procs
  <2>2. occ[proc[p].at].hash \in Versions \cup {0}
      BY <2>1 DEF OccType
  <2> QED BY <1>2, <2>2 DEF Grant, Tested, StateType
<1>3. ASSUME NEW p \in Workers, MarkAttention(p)
      PROVE  StateType' /\ left' = left
    BY <1>3 DEF MarkAttention, StateType
<1>4. ASSUME NEW p \in Workers, Advance(p)
      PROVE  StateType' /\ left' = left
  <2>1. proc[p].at \in Slots
      BY <1>4 DEF Advance, At, ProcsHeld, Held, Procs
  <2>2. Following(proc[p].at) \in 1 .. SlotCount + 1
      BY <2>1 DEF Following, Slots
  <2> QED BY <1>4, <2>2 DEF Advance, StateType
<1>5. CASE Enable
  <2>1. clock + 1 \in 1 .. SlotCount + 1
      OBVIOUS
  <2>2. StateType'
      BY <1>5, <2>1 DEF Enable, StateType
  <2>3. left' = Anew
      BY <1>5 DEF Enable
  <2> QED BY <2>2, <2>3 DEF Anew
<1>6. CASE Pause
    BY <1>6 DEF Pause, StateType
<1>7. CASE SaveState
  <2>1. clock + 1 \in 1 .. SlotCount + 1
      OBVIOUS
  <2>2. StateType'
      BY <1>7, <2>1 DEF SaveState, StateType, Versions
  <2>3. left' = Anew
      BY <1>7 DEF SaveState
  <2> QED BY <2>2, <2>3 DEF Anew
<1> QED BY <1>1, <1>2, <1>3, <1>4, <1>5, <1>6, <1>7, Statements
        DEF StateStatement

LEMMA RestKept ==
    ASSUME RowTypes, [Next]_vars
    PROVE  /\ file' \in Versions /\ file' <= edits' + 1
           /\ clock' \in 0 .. SlotCount
           /\ edits' \in 0 .. EditBound /\ edits <= edits'
           /\ mishaps' \in 0 .. TroubleBound /\ mishaps <= mishaps'
           /\ turns' \in 0 .. TroubleBound
<1> USE DEF RowTypes, Versions
<1>1. ASSUME NEW p \in Workers, TickStep(p)
      PROVE  UNCHANGED <<file, clock, counters>>
    BY <1>1 DEF TickStep, BeginTick, ReadJob, LoadAgain, Project, Grant,
        BeginRecovery, ReadDue, Load, MarkAttention, Advance
<1>2. ASSUME NEW p \in Procs, Execute(p)
      PROVE  UNCHANGED <<file, clock, counters>>
    BY <1>2 DEF Execute, CreateOccurrence, ClaimDispatch, SubmitJob,
        ReleaseJob, RecordQueued, RecordFailed
<1>3. ASSUME NEW p \in Procs, SubmissionRaises(p) \/ Crash(p)
      PROVE  /\ UNCHANGED <<file, clock, edits, turns>>
             /\ Spare /\ mishaps' = mishaps + 1
    BY <1>3 DEF SubmissionRaises, Crash
<1>4. ASSUME NEW o \in Jobs, RunNow(o) \/ JobMoves(o)
      PROVE  UNCHANGED <<file, clock, counters>>
    BY <1>4 DEF RunNow, JobMoves
<1>5. ASSUME AskEnable \/ \E o \in Jobs : JobTurns(o)
      PROVE  /\ UNCHANGED <<file, clock, edits, mishaps>>
             /\ turns' = turns \/ (Spare /\ turns' = turns + 1)
    BY <1>5 DEF AskEnable, JobTurns, Turn
<1>6. CASE CheckTested \/ Enable \/ SaveState \/ UNCHANGED vars
    BY <1>6 DEF CheckTested, Enable, SaveState, vars
<1>7. CASE Pause \/ SaveFile \/ TimePasses
    BY <1>7 DEF Pause, SaveFile, TimePasses
<1> QED BY <1>1, <1>2, <1>3, <1>4, <1>6, <1>7, <1>5 DEF Next, Spare

(***************************************************************************)
(* Rows are never deleted, and what has once ended, succeeded or been      *)
(* accounted for stays so: what a process knows stays true.                *)
(***************************************************************************)
Stays ==
    /\ \A o \in Jobs : Exists(o) => occ'[o].status # "none"
    /\ over \subseteq over' /\ won \subseteq won'
    /\ Accounted \subseteq Accounted'

LEMMA RecordedStays ==
    ASSUME NEW r, Held(r), Recorded(r, occ, over, won, Accounted), Stays
    PROVE  Recorded(r, occ', over', won', Accounted')
<1>1. r.todo \subseteq Jobs
    BY DEF Held, ProcType
<1>2. r.pc \in Holding => r.at \in Jobs
    BY DEF Held
<1> HIDE DEF Accounted
<1> QED BY <1>1, <1>2 DEF Recorded, Stays, Exists, Holding

LEMMA OneRecorded ==
    ASSUME ProcsHeld, ProcsRecorded, Stays, NEW p \in Procs, NEW r,
           Recorded(r, occ', over', won', Accounted'), proc' = [proc EXCEPT ![p] = r]
    PROVE  ProcsRecorded'
<1>1. ASSUME NEW q \in Procs
      PROVE  Recorded(proc[q], occ', over', won', Accounted')
    BY <1>1, RecordedStays DEF ProcsHeld, ProcsRecorded
<1> QED BY <1>1 DEF ProcsRecorded, ProcsHeld

LEMMA AllRecorded ==
    ASSUME ProcsHeld, ProcsRecorded, Stays, proc' = proc
    PROVE  ProcsRecorded'
<1>1. ASSUME NEW q \in Procs
      PROVE  Recorded(proc[q], occ', over', won', Accounted')
    BY <1>1, RecordedStays DEF ProcsHeld, ProcsRecorded
<1> QED BY <1>1 DEF ProcsRecorded

LEMMA LeaveRecorded ==
    ASSUME ProcsHeld, ProcsRecorded, Stays, NEW p \in Procs, Leave(p)
    PROVE  ProcsRecorded'
<1>1. Recorded(Idle, occ', over', won', Accounted')
    BY DEF Recorded, Idle, Holding
<1> QED BY <1>1, OneRecorded DEF Leave

LEMMA GotoRecorded ==
    ASSUME ProcsHeld, ProcsRecorded, Stays, NEW p \in Procs, NEW pc,
           pc \notin {"projects", "grants"},
           proc[p].at \in Jobs => occ'[proc[p].at].status # "none",
           pc = "advances" => proc[p].at \in Accounted',
           proc[p].pc \in Holding, Goto(p, pc)
    PROVE  ProcsRecorded'
<1>1. Recorded(proc[p], occ', over', won', Accounted') /\ proc[p].at \in Jobs
    BY RecordedStays DEF ProcsHeld, ProcsRecorded, Held
<1>2. Recorded([proc[p] EXCEPT !.pc = pc], occ', over', won', Accounted')
    BY <1>1 DEF Recorded, ProcsHeld, Held, ProcType
<1> QED BY <1>2, OneRecorded DEF Goto

LEMMA ContinueRecorded ==
    ASSUME ProcsHeld, ProcsRecorded, Stays, NEW p \in Procs,
           proc[p].pc \in InLoop \ {"creates"},
           proc[p].in = "due" => proc[p].at \in Accounted', Continue(p)
    PROVE  ProcsRecorded'
<1>1. /\ proc[p].at \in Jobs /\ occ'[proc[p].at].status # "none"
      /\ \A o \in proc[p].todo : o \in Jobs /\ occ'[o].status # "none"
    BY DEF ProcsHeld, ProcsRecorded, Held, ProcType, Recorded, Stays, InLoop,
        Holding, Exists
<1>2. CASE proc[p].in = "web"
    BY <1>2, LeaveRecorded DEF Continue
<1>3. CASE proc[p].in = "due"
    BY <1>1, <1>3, GotoRecorded DEF Continue, InLoop, Holding
<1>4. CASE proc[p].in \in {"syncing", "recovering"}
  <2>1. Recorded(Loop(p), occ', over', won', Accounted')
      BY <1>1, <1>4 DEF Recorded, Loop, Idle, Holding
  <2> QED BY <1>4, <2>1, OneRecorded DEF Continue
<1> QED BY <1>2, <1>3, <1>4 DEF ProcsHeld, Held, ProcType, InLoop
LEMMA AccountedStays ==
    ASSUME RowTypes, ChildTypeOK, ProcsHeld, ProcsRecorded, HistoryInv,
           [Next]_vars
    PROVE  Stays
<1>1. /\ \A o \in Jobs : Exists(o) =>
            /\ Exists(o)'
            /\ occ'[o].status = "claimed" => occ[o].status = "claimed"
      /\ left \subseteq left' /\ late \subseteq late'
      /\ over \subseteq over' /\ won \subseteq won'
      /\ Slots \subseteq Jobs
    BY RowsKept, StateKept, HistoryKept DEF RowTypes
<1>2. Accounted \subseteq Accounted'
    BY <1>1 DEF Accounted, Passed
<1> QED BY <1>1, <1>2 DEF Stays, Exists

\* next_run_at is advanced at once only past a row that is not claimed.
LEMMA CreatedAdvances ==
    ASSUME OccType, NEW p \in Procs, Held(proc[p]), ProcsHeld,
           CreateOccurrence(p), Handle(p, "advances")
    PROVE  /\ proc[p].in = "due"
           /\ occ'[proc[p].at].status # "claimed" \/ proc[p].at \in late'
<1>1. proc[p].at \in Jobs /\ p \in DOMAIN proc /\ proc[p] \in ProcType
    BY DEF CreateOccurrence, At, Held, Holding, ProcsHeld
<1>2. ASSUME NEW pc \in {"claims", "advances"}, Handle(p, pc)
      PROVE  proc'[p].pc = pc
  <2>1. proc'[p] = [proc[p] EXCEPT !.pc = pc, !.def = 0]
      BY <1>1, <1>2 DEF Handle
  <2> QED BY <1>1, <2>1 DEF ProcType
<1>3. ~Handle(p, "claims") /\ ~Leave(p)
  <2>1. proc'[p].pc = "advances"
      BY <1>2
  <2>2. Leave(p) => proc'[p].pc = "idle"
      BY <1>1 DEF Leave, Idle
  <2> QED BY <1>2, <2>1, <2>2
<1>4. PICK misfired \in BOOLEAN :
        LET row == IF Exists(proc[p].at) THEN occ[proc[p].at]
                   ELSE [status |-> IF misfired THEN "misfired"
                                    ELSE IF Overlaps(proc[p].at) THEN "skipped"
                                    ELSE "claimed",
                         hash |-> proc[p].def]
        IN /\ late' = IF misfired THEN late \cup {proc[p].at} ELSE late
           /\ occ' = [occ EXCEPT ![proc[p].at] = row]
           /\ proc[p].in = "due" /\ ~(row.status = "claimed" /\ ~misfired)
    BY <1>3 DEF CreateOccurrence
<1> QED BY <1>1, <1>4 DEF OccType

\* A row of the cadence that is there and not merely claimed.
LEMMA AccountedFor ==
    ASSUME NEW o \in Slots, Exists(o)',
           occ'[o].status # "claimed" \/ o \in late'
    PROVE  o \in Accounted'
BY DEF Accounted, Passed

LEMMA RecordedKept ==
    ASSUME RowTypes, ChildTypeOK, ProcsHeld, ProcsRecorded, HistoryInv,
           InstantsAreRecorded, [Next]_vars
    PROVE  ProcsRecorded'
<1>0. Stays /\ OccType
    BY AccountedStays DEF RowTypes
<1> USE <1>0
<1>1. ASSUME NEW p \in Workers, BeginTick(p) PROVE ProcsRecorded'
  <2>1. Recorded([Idle EXCEPT !.pc = "syncing", !.in = "syncing",
                               !.todo = Followed], occ', over', won', Accounted')
      BY <1>1 DEF BeginTick, Recorded, Idle, Holding, Followed
  <2> QED BY <1>1, <2>1, OneRecorded DEF BeginTick, Procs
<1>2. ASSUME NEW p \in Workers, Project(p) PROVE ProcsRecorded'
  <2>1. p \in Procs /\ proc[p].pc = "projects" /\ proc[p].at \in Jobs
      BY <1>2 DEF Project, At, Procs, Holding, ProcsHeld, Held
  <2>2. CASE Trigger[proc[p].at] = "test" /\ proc[p].seen = "succeeded"
                 /\ Goto(p, "grants")
    <3>1. Recorded([proc[p] EXCEPT !.pc = "grants"], occ', over', won', Accounted')
        BY <2>1, <2>2, RecordedStays DEF Recorded, ProcsRecorded, ProcsHeld,
            Held, ProcType, Ended, Holding
    <3> QED BY <2>1, <2>2, <3>1, OneRecorded DEF Goto
  <2>3. CASE Continue(p)
    <3>1. proc[p].in # "due"
        BY <2>1 DEF ProcsHeld, Held
    <3> QED BY <2>1, <2>3, <3>1, ContinueRecorded DEF InLoop
  <2> QED BY <1>2, <2>2, <2>3 DEF Project
<1>3. ASSUME NEW p \in Workers, Grant(p) PROVE ProcsRecorded'
  <2>1. p \in Procs /\ proc[p].pc = "grants" /\ proc[p].in # "due"
      BY <1>3 DEF Grant, At, Procs, ProcsHeld, Held
  <2> QED BY <1>3, <2>1, ContinueRecorded DEF Grant, InLoop
<1>4. ASSUME NEW p \in Workers, BeginRecovery(p) PROVE ProcsRecorded'
  <2>1. Recorded([proc[p] EXCEPT !.pc = "recovering", !.in = "recovering",
                               !.todo = Stranded], occ', over', won', Accounted')
      BY <1>4 DEF BeginRecovery, At, Recorded, Holding, Stranded, Procs,
          ProcsHeld, Held, ProcType
  <2>2. proc' = [proc EXCEPT ![p] = [proc[p] EXCEPT !.pc = "recovering",
                               !.in = "recovering", !.todo = Stranded]]
      BY <1>4 DEF BeginRecovery, Procs
  <2> QED BY <2>1, <2>2, OneRecorded DEF Procs
<1>5. ASSUME NEW p \in Workers, ReadDue(p) PROVE ProcsRecorded'
  <2>1. Recorded([Idle EXCEPT !.pc = "loads", !.in = "due", !.at = state.next],
                  occ', over', won', Accounted')
    <3>1. \A slot \in Slots : slot < state.next => slot \in Accounted'
        BY DEF InstantsAreRecorded, Accounted, Stays
    <3> QED BY <3>1 DEF Recorded, Idle, Holding
  <2> QED BY <1>5, <2>1, OneRecorded, LeaveRecorded DEF ReadDue, Procs
<1>6. ASSUME NEW p \in Workers, Load(p) PROVE ProcsRecorded'
  <2>1. Recorded(proc[p], occ', over', won', Accounted') /\ Held(proc[p]) /\ p \in Procs
      BY RecordedStays DEF Procs, ProcsHeld, ProcsRecorded
  <2> DEFINE r == [proc[p] EXCEPT !.pc = "creates", !.def = file]
  <2>2. proc[p].pc = "loads" /\ proc[p].todo = r.todo /\ proc[p].at = r.at
        /\ proc[p].in = r.in /\ r.pc = "creates"
      BY <1>6, <2>1 DEF Load, At, Held, ProcType
  <2>3. proc' = [proc EXCEPT ![p] = r]
      BY <1>6 DEF Load
  <2> HIDE DEF r
  <2>4. Recorded(r, occ', over', won', Accounted')
      BY <2>1, <2>2 DEF Recorded, Holding
  <2> QED BY <2>1, <2>3, <2>4, OneRecorded
<1>7. ASSUME NEW p \in Workers, MarkAttention(p) PROVE ProcsRecorded'
    BY <1>7, LeaveRecorded DEF MarkAttention, Procs
<1>8. ASSUME NEW p \in Workers, Advance(p) PROVE ProcsRecorded'
    BY <1>8, LeaveRecorded DEF Advance, Procs
<1>9. ASSUME NEW p \in Workers, NEW o \in Jobs, ReadJob(p, o) PROVE ProcsRecorded'
  <2>1. Recorded(proc[p], occ', over', won', Accounted') /\ Held(proc[p]) /\ p \in Procs
      BY RecordedStays DEF Procs, ProcsHeld, ProcsRecorded
  <2>2. child' = child /\ proc[p].pc = "syncing" /\ proc[p].in = "syncing"
        /\ o \in proc[p].todo /\ occ'[o].status # "none"
      BY <1>9, <2>1 DEF ReadJob, At, Held, Recorded
  <2> DEFINE rest == [proc[p] EXCEPT !.todo = @ \ {o}]
             read == [rest EXCEPT !.pc = "projects", !.at = o,
                                  !.seen = child[o].status]
  <2>3. Recorded(rest, occ', over', won', Accounted')
      BY <2>1, <2>2 DEF Recorded, Holding, Held, ProcType
  <2>4. ASSUME Tells(child[o].status)
        PROVE  Recorded(read, occ', over', won', Accounted')
    <3>1. /\ child[o].status \in Ended => o \in over'
          /\ child[o].status = "succeeded" => o \in won'
        BY DEF HistoryInv, HasEnded, Stays
    <3> QED BY <2>1, <2>2, <2>4, <3>1 DEF Recorded, Holding, Held, ProcType
  <2>5. proc' = [proc EXCEPT ![p] = IF Tells(child[o].status) THEN read ELSE rest]
      BY <1>9 DEF ReadJob
  <2> HIDE DEF read, rest
  <2> QED BY <2>1, <2>3, <2>4, <2>5, OneRecorded
<1>10. ASSUME NEW p \in Workers, NEW o \in Jobs, LoadAgain(p, o) PROVE ProcsRecorded'
  <2>1. Recorded(proc[p], occ', over', won', Accounted') /\ Held(proc[p]) /\ p \in Procs
      BY RecordedStays DEF Procs, ProcsHeld, ProcsRecorded
  <2>2. proc[p].in = "recovering" /\ o \in proc[p].todo /\ occ'[o].status # "none"
      BY <1>10, <2>1 DEF LoadAgain, At, Held, Recorded
  <2> DEFINE pc == IF file = occ[o].hash THEN "submits" ELSE "fails"
             r == [proc[p] EXCEPT !.todo = @ \ {o}, !.at = o, !.pc = pc]
  <2>3. Recorded(r, occ', over', won', Accounted')
      BY <2>1, <2>2 DEF Recorded, Holding, Held, ProcType
  <2>4. proc' = [proc EXCEPT ![p] = r]
      BY <1>10, <2>1 DEF LoadAgain
  <2> HIDE DEF r
  <2> QED BY <2>1, <2>3, <2>4, OneRecorded
<1>11. ASSUME NEW p \in Procs, CreateOccurrence(p) PROVE ProcsRecorded'
  <2>1. Held(proc[p]) /\ proc[p].at \in Jobs /\ proc[p].pc = "creates"
      BY <1>11 DEF CreateOccurrence, At, Holding, ProcsHeld, Held
  <2>2. Recorded(proc[p], occ', over', won', Accounted') /\ occ'[proc[p].at].status # "none"
      BY <1>11, <2>1, RecordedStays, Created DEF ProcsHeld, ProcsRecorded
  <2>3. ASSUME NEW pc \in {"claims", "advances"}, Handle(p, pc),
               pc = "advances" => proc[p].at \in Accounted'
        PROVE  ProcsRecorded'
    <3> DEFINE r == [proc[p] EXCEPT !.pc = pc, !.def = 0]
    <3>1. r.pc = pc /\ r.todo = proc[p].todo /\ r.at = proc[p].at
          /\ r.in = proc[p].in
        BY <2>1 DEF Held, ProcType
    <3> HIDE DEF r
    <3>2. Recorded(r, occ', over', won', Accounted')
        BY <2>1, <2>2, <2>3, <3>1 DEF Recorded
    <3>3. proc' = [proc EXCEPT ![p] = r]
        BY <2>3 DEF Handle, r
    <3> QED BY <3>2, <3>3, OneRecorded
  <2>4. CASE Handle(p, "advances")
    <3>1. /\ proc[p].in = "due" /\ proc[p].at \in Slots
          /\ occ'[proc[p].at].status # "claimed" \/ proc[p].at \in late'
        BY <1>11, <2>1, <2>4, CreatedAdvances DEF Held
    <3> QED BY <2>2, <2>3, <2>4, <3>1, AccountedFor DEF Exists
  <2>5. Leave(p) \/ \E pc \in {"claims", "advances"} : Handle(p, pc)
      BY <1>11 DEF CreateOccurrence
  <2> QED BY <2>3, <2>4, <2>5, LeaveRecorded
<1>12. ASSUME NEW p \in Procs, ClaimDispatch(p) PROVE ProcsRecorded'
  <2>1. proc[p].at \in Jobs /\ occ'[proc[p].at].status # "none"
      BY <1>12 DEF ClaimDispatch, At, Holding, ProcsHeld, Held, ProcsRecorded,
          Recorded, Stays, Exists
  <2>2. CASE occ[proc[p].at].status = "claimed"
      BY <1>12, <2>1, <2>2, GotoRecorded DEF ClaimDispatch, At, Holding
  <2>3. CASE occ[proc[p].at].status # "claimed"
    <3>1. proc[p].in = "due" => proc[p].at \in Accounted'
        BY <1>12, <2>1, <2>3, AccountedFor DEF ClaimDispatch, ProcsHeld, Held,
            Exists
    <3> QED BY <1>12, <2>3, <3>1, ContinueRecorded DEF ClaimDispatch, At, InLoop
  <2> QED BY <2>2, <2>3
<1>13. ASSUME NEW p \in Procs, SubmitJob(p) PROVE ProcsRecorded'
  <2>1. proc[p].at \in Jobs /\ occ'[proc[p].at].status # "none"
      BY <1>13 DEF SubmitJob, At, Holding, ProcsHeld, Held, ProcsRecorded, Recorded, Stays, Exists
  <2> QED BY <1>13, <2>1, GotoRecorded DEF SubmitJob, At, Holding
<1>14. ASSUME NEW p \in Procs, ReleaseJob(p) PROVE ProcsRecorded'
  <2>1. proc[p].at \in Jobs /\ occ'[proc[p].at].status # "none"
      BY <1>14 DEF ReleaseJob, At, Holding, ProcsHeld, Held, ProcsRecorded, Recorded, Stays, Exists
  <2> QED BY <1>14, <2>1, GotoRecorded DEF ReleaseJob, At, Holding
<1>15. ASSUME NEW p \in Procs, RecordQueued(p) PROVE ProcsRecorded'
  <2>1. proc[p].at \in Jobs /\ occ'[proc[p].at].status = "queued"
      BY <1>15, Finished DEF RecordQueued, At, Holding, ProcsHeld, Held, ActiveOcc,
          RowTypes
  <2>2. proc[p].in = "due" => proc[p].at \in Accounted'
      BY <2>1, AccountedFor DEF ProcsHeld, Held, Exists
  <2> QED BY <1>15, <2>2, ContinueRecorded DEF RecordQueued, At, InLoop
<1>16. ASSUME NEW p \in Procs, RecordFailed(p) PROVE ProcsRecorded'
  <2>1. proc[p].at \in Jobs /\ occ'[proc[p].at].status # "none"
      BY <1>16 DEF RecordFailed, At, Holding, ProcsHeld, Held, ProcsRecorded, Recorded, Stays, Exists
  <2> QED BY <1>16, <2>1, GotoRecorded, ContinueRecorded
          DEF RecordFailed, At, Holding, InLoop
<1>17. ASSUME NEW p \in Procs, SubmissionRaises(p) PROVE ProcsRecorded'
  <2>1. proc[p].at \in Jobs /\ occ'[proc[p].at].status # "none"
      BY <1>17 DEF SubmissionRaises, At, Holding, ProcsHeld, Held, ProcsRecorded, Recorded, Stays, Exists
  <2> QED BY <1>17, <2>1, GotoRecorded DEF SubmissionRaises, At, Holding
<1>18. ASSUME NEW p \in Procs, Crash(p) PROVE ProcsRecorded'
    BY <1>18, LeaveRecorded DEF Crash
<1>19. ASSUME NEW o \in Jobs, RunNow(o) PROVE ProcsRecorded'
  <2>1. Recorded([Idle EXCEPT !.pc = "creates", !.in = "web", !.at = o,
                               !.def = file], occ', over', won', Accounted')
      BY DEF Recorded, Idle, Holding
  <2> QED BY <1>19, <2>1, OneRecorded DEF RunNow, Procs
<1>20. ASSUME NEW o \in Jobs, JobMoves(o) \/ JobTurns(o) PROVE ProcsRecorded'
    BY <1>20, AllRecorded DEF JobMoves, JobTurns
<1>21. CASE AskEnable
  <2>1. Recorded([Idle EXCEPT !.pc = "checks", !.in = "web", !.def = file],
                  occ', over', won', Accounted')
      BY DEF Recorded, Idle, Holding
  <2> QED BY <1>21, <2>1, OneRecorded DEF AskEnable, Procs
<1>22. CASE CheckTested
  <2>1. CASE Leave("web")
      BY <2>1, LeaveRecorded DEF Procs
  <2>2. CASE Goto("web", "enables")
    <3>1. Recorded(proc["web"], occ', over', won', Accounted') /\ Held(proc["web"])
        BY RecordedStays DEF Procs, ProcsHeld, ProcsRecorded
    <3>2. Recorded([proc["web"] EXCEPT !.pc = "enables"], occ', over', won', Accounted')
        BY <3>1 DEF Recorded, Holding, Held, ProcType
    <3> QED BY <2>2, <3>2, OneRecorded DEF Goto, Procs
  <2> QED BY <1>22, <2>1, <2>2 DEF CheckTested
<1>23. CASE Enable
    BY <1>23, LeaveRecorded DEF Enable, Procs
<1>24. CASE Pause
    BY <1>24, AllRecorded DEF Pause
<1>25. CASE SaveFile
    BY <1>25, AllRecorded DEF SaveFile
<1>26. CASE SaveState
    BY <1>26, AllRecorded DEF SaveState
<1>27. CASE TimePasses
    BY <1>27, AllRecorded DEF TimePasses
<1>28. CASE UNCHANGED vars
    BY <1>28, AllRecorded DEF vars
<1> QED BY <1>1, <1>2, <1>3, <1>4, <1>5, <1>6, <1>7, <1>8, <1>9, <1>10, <1>11,
           <1>12, <1>13, <1>14, <1>15, <1>16, <1>17, <1>18, <1>19, <1>20,
           <1>21, <1>22, <1>23, <1>24, <1>25, <1>26, <1>27, <1>28
        DEF Next, TickStep, Execute, Procs
-----------------------------------------------------------------------------
(***************************************************************************)
(* next_run_at and the grant.                                              *)
(***************************************************************************)
Granted(o) ==
    /\ Trigger[o] = "test" /\ Exists(o)
    /\ occ[o].hash = state.tested
    /\ o \in won

Earned == state.tested \in Versions \ {1} => \E o \in Jobs : Granted(o)

SchedulesInv ==
    /\ ChildTypeOK /\ Unborn /\ RowTypes /\ ProcsHeld /\ ProcsRecorded
    /\ HistoryInv /\ InstantsAreRecorded /\ Earned

LEMMA InstantsKept ==
    ASSUME SchedulesInv, [Next]_vars
    PROVE  InstantsAreRecorded'
<1> USE DEF SchedulesInv
<1>1. Accounted \subseteq Accounted'
    BY AccountedStays DEF Stays
<1>2. ASSUME \A slot \in Slots : slot < state'.next => slot \in Accounted'
      PROVE  InstantsAreRecorded'
    BY <1>2 DEF InstantsAreRecorded, Accounted
<1>3. ASSUME NEW slot \in Slots, slot < state.next
      PROVE  slot \in Accounted
    BY <1>3 DEF InstantsAreRecorded, Accounted
<1> HIDE DEF Accounted
<1>4. ASSUME state'.next = state.next
      PROVE  InstantsAreRecorded'
    BY <1>1, <1>2, <1>3, <1>4
<1>5. ASSUME NEW p \in Workers, Grant(p) \/ MarkAttention(p)
      PROVE  state'.next = state.next
    BY <1>5 DEF Grant, MarkAttention, RowTypes, StateType
<1>6. ASSUME NEW p \in Workers, Advance(p)
      PROVE  InstantsAreRecorded'
  <2>1. /\ proc[p].at \in Slots /\ proc[p].at \in Accounted
        /\ \A slot \in Slots : slot < proc[p].at => slot \in Accounted
      BY <1>6 DEF Advance, At, ProcsHeld, Held, ProcsRecorded, Recorded, Procs
  <2>2. state'.next = proc[p].at + 1
      BY <1>6 DEF Advance, Following, RowTypes, StateType
  <2>3. ASSUME NEW slot \in Slots, slot < proc[p].at + 1
        PROVE  slot \in Accounted
      BY <2>1, <2>3 DEF Slots
  <2> QED BY <1>1, <1>2, <2>2, <2>3
<1>7. ASSUME state'.next = clock + 1, left' = Anew
      PROVE  InstantsAreRecorded'
  <2>1. ASSUME NEW slot \in Slots, slot < clock + 1, state.next <= slot
        PROVE  slot \in Accounted'
      BY <1>7, <2>1 DEF Anew, Accounted, Slots, RowTypes
  <2>2. ASSUME NEW slot \in Slots, ~(state.next <= slot)
        PROVE  slot \in Accounted'
      BY <1>1, <1>3, <2>2 DEF RowTypes, StateType, Slots
  <2> QED BY <1>2, <1>7, <2>1, <2>2
<1>8. CASE Enable \/ SaveState
  <2>1. CASE Enable
    <3>1. state'.next = clock + 1
        BY <2>1 DEF Enable, RowTypes, StateType
    <3> QED BY <1>7, <2>1, <3>1 DEF Enable
  <2>2. CASE SaveState
    <3>1. state'.next = clock + 1
        BY <2>2 DEF SaveState
    <3> QED BY <1>7, <2>2, <3>1 DEF SaveState
  <2> QED BY <1>8, <2>1, <2>2
<1>9. CASE Pause
    BY <1>4, <1>9 DEF Pause, RowTypes, StateType
<1> QED BY <1>4, <1>5, <1>6, <1>8, <1>9, Statements DEF StateStatement

LEMMA EarnedKept ==
    ASSUME SchedulesInv, [Next]_vars
    PROVE  Earned'
<1> USE DEF SchedulesInv
<1>1. \A o \in Jobs : Granted(o) =>
         /\ Trigger[o] = "test" /\ Exists(o)' /\ occ'[o].hash = state.tested
         /\ o \in won'
    BY RowsKept, HistoryKept DEF RowTypes, Granted
<1>2. ASSUME state'.tested = state.tested
      PROVE  Earned'
    BY <1>1, <1>2 DEF Earned, Granted
<1>3. ASSUME NEW p \in Workers, MarkAttention(p) \/ Advance(p)
      PROVE  state'.tested = state.tested
    BY <1>3 DEF Advance, MarkAttention, RowTypes, StateType
<1>4. ASSUME NEW p \in Workers, Grant(p)
      PROVE  Earned'
  <2>1. /\ proc[p].at \in Jobs /\ Exists(proc[p].at)
        /\ Trigger[proc[p].at] = "test" /\ proc[p].at \in won
      BY <1>4 DEF Grant, At, ProcsHeld, Held, ProcsRecorded, Recorded,
          Holding, Exists, Procs
  <2>2. state'.tested = occ[proc[p].at].hash /\ occ' = occ /\ won' = won
      BY <1>4 DEF Grant, Tested, RowTypes, StateType
  <2> QED BY <2>1, <2>2 DEF Earned, Granted, Exists
<1>5. CASE SaveState
  <2>1. state'.tested = 0
      BY <1>5 DEF SaveState
  <2> QED BY <2>1 DEF Earned, Versions
<1>6. CASE Enable \/ Pause
    BY <1>2, <1>6 DEF Enable, Pause, RowTypes, StateType
<1> QED BY <1>2, <1>3, <1>4, <1>5, <1>6, Statements DEF StateStatement

LEMMA SchedulesInitially == Init => SchedulesInv
<1> SUFFICES ASSUME Init PROVE SchedulesInv
    OBVIOUS
<1> USE DEF Init
<1>1. ChildTypeOK
    BY DEF ChildInit, ChildTypeOK, Child, ChildStatus
<1>2. OccType
    BY DEF OccType
<1>3. 1 \in Versions /\ 1 \in 1 .. SlotCount + 1
    BY DEF Versions
<1>4. StateType
    BY <1>3, Zenon DEF StateType
<1>5. RowTypes
    BY <1>2, <1>3, <1>4 DEF RowTypes
<1>6. ProcsHeld
    BY IdleHeld DEF ProcsHeld, Held
<1>7. ProcsRecorded
    BY DEF ProcsRecorded, Recorded, Idle, Holding
<1>8. InstantsAreRecorded
    BY DEF InstantsAreRecorded, Slots
<1>9. Earned
    BY DEF Earned
<1>10. HistoryInv /\ Unborn
    BY DEF HistoryInv, Unborn, ChildInit, HasEnded, Ended
<1> QED BY <1>1, <1>5, <1>6, <1>7, <1>8, <1>9, <1>10 DEF SchedulesInv

LEMMA SchedulesStep == SchedulesInv /\ [Next]_vars => SchedulesInv'
<1> SUFFICES ASSUME SchedulesInv, [Next]_vars PROVE SchedulesInv'
    OBVIOUS
<1>1. RowTypes'
    BY RowsKept, StateKept, RestKept DEF SchedulesInv, RowTypes
<1> QED BY <1>1, JobsKept, HistoryKept, ProcsKept, RecordedKept, InstantsKept,
           EarnedKept DEF SchedulesInv

(***************************************************************************)
(* Types of the rows and of the processes.                                 *)
(***************************************************************************)
THEOREM ScheduleTypesHold == Spec => []ScheduleTypeOK
<1>1. SchedulesInv => ScheduleTypeOK
  <2> SUFFICES ASSUME SchedulesInv PROVE ScheduleTypeOK
      OBVIOUS
  <2>1. proc \in [Procs -> ProcType]
      BY DEF SchedulesInv, ProcsHeld
  <2> QED BY <2>1 DEF SchedulesInv, RowTypes, HistoryInv, OccType, StateType,
          ProcType, ScheduleTypeOK
<1> QED BY <1>1, SchedulesInitially, SchedulesStep, PTL DEF Spec

(***************************************************************************)
(* next_run_at passes only instants whose row was dispatched, skipped or   *)
(* found beyond its grace, or that enable or an edit left behind (Advance, *)
(* ReadDue, CreateOccurrence, ClaimDispatch, Enable, SaveState).           *)
(***************************************************************************)
THEOREM InstantsTheorem == Spec => []InstantsAreRecorded
<1>1. SchedulesInv => InstantsAreRecorded
    BY DEF SchedulesInv
<1> QED BY <1>1, SchedulesInitially, SchedulesStep, PTL DEF Spec

(***************************************************************************)
(* The grant of Test now is for a hash whose test has succeeded once       *)
(* (ReadJob, Project, Grant).                                              *)
(***************************************************************************)
THEOREM GrantTheorem == Spec => []GrantIsEarned
<1>1. SchedulesInv => GrantIsEarned
    BY DEF SchedulesInv, Earned, Granted, GrantIsEarned
<1> QED BY <1>1, SchedulesInitially, SchedulesStep, PTL DEF Spec
-----------------------------------------------------------------------------
(***************************************************************************)
(* No copies: with no mishap and no edit, what a process is about to write *)
(* over a row is either still counted or about a job that has ended once,  *)
(* so a row that leaves the count leaves no job of the first time under    *)
(* way behind it.                                                          *)
(***************************************************************************)
Dispatched(o, rows, done) == rows[o].status \in ActiveOcc \/ o \in done

Calm(r, rows, done) ==
    /\ r.pc \notin {"fails", "marks"}
    /\ r.pc = "creates" => r.def = 1
    /\ r.pc \in {"projects", "submits", "releases", "finishes"} =>
         Dispatched(r.at, rows, done)
    /\ \A o \in r.todo : Dispatched(o, rows, done)

ProcsCalm == \A p \in Procs : Calm(proc[p], occ, over)

Counted == {o \in Jobs : Trigger[o] # "test" /\ occ[o].status \in ActiveOcc}
UnderWay == Counted \ over

Quiet ==
    /\ ProcsCalm
    /\ \A o \in Jobs : Exists(o) => occ[o].hash = 1
    /\ \A o \in Jobs : Active(o) /\ o \notin over => occ[o].status \in ActiveOcc
    /\ Cardinality(UnderWay) <= MaxConcurrency

NoTrouble == mishaps = 0 /\ edits = 0

LEMMA FirstVersion ==
    ASSUME SchedulesInv, NoTrouble
    PROVE  file = 1
BY DEF SchedulesInv, RowTypes, NoTrouble, Versions

LEMMA StillNoTrouble ==
    ASSUME SchedulesInv, [Next]_vars, NoTrouble'
    PROVE  NoTrouble /\ mishaps' = mishaps /\ edits' = edits
BY RestKept DEF SchedulesInv, RowTypes, NoTrouble

\* What a statement does to the rows and to the jobs under way.
RowsQuiet ==
    /\ \A o \in Jobs : occ'[o].status # "none" => occ'[o].hash = 1
    /\ \A o \in Jobs : Dispatched(o, occ, over) => Dispatched(o, occ', over')
    /\ \A o \in Jobs : Active(o)' /\ o \notin over' => occ'[o].status \in ActiveOcc
    /\ \/ UnderWay' \subseteq UnderWay
       \/ \E o \in Jobs : /\ UnderWay' \subseteq UnderWay \cup {o}
                          /\ Cardinality(Counted) < MaxConcurrency

LEMMA RowsStayQuiet ==
    ASSUME SchedulesInv, Quiet, NoTrouble, [Next]_vars
    PROVE  RowsQuiet
<1>1. /\ OccType /\ ChildTypeOK
      /\ \A p \in Procs : /\ Held(proc[p]) /\ Recorded(proc[p], occ, over, won, Accounted)
                          /\ Calm(proc[p], occ, over)
    BY DEF SchedulesInv, RowTypes, ProcsHeld, ProcsRecorded, Quiet, ProcsCalm
<1>2. over \subseteq over'
    BY HistoryKept DEF SchedulesInv
<1>3. CASE occ' = occ
  <2>1. ASSUME NEW o \in Jobs, Active(o)', o \notin over'
        PROVE  occ[o].status \in ActiveOcc
    <3>1. CASE Active(o)
        BY <1>2, <2>1, <3>1 DEF Quiet
    <3>2. CASE child[o].status = "none"
      <4>1. child'[o].status # "none"
          BY <2>1 DEF Active
      <4>2. \E p \in Procs : At(p, "submits") /\ proc[p].at = o
          BY <3>2, <4>1, JobsKept DEF SchedulesInv
      <4> QED BY <1>1, <1>2, <2>1, <4>2 DEF Calm, Dispatched, At
    <3>3. CASE HasEnded(o)
        BY <1>2, <2>1, <3>3 DEF SchedulesInv, HistoryInv
    <3> QED BY <3>1, <3>2, <3>3 DEF Active, HasEnded
  <2> QED BY <1>2, <1>3, <2>1 DEF RowsQuiet, Quiet, Dispatched, UnderWay,
          Counted, Exists
<1>4. ASSUME NEW p \in Procs, RowStatement(p), child' = child, over' = over,
             proc[p].at \in Jobs, Dispatched(proc[p].at, occ, over),
             Exists(proc[p].at),
             NEW status \in ActiveOcc \cup EndedOcc, FinishOccurrence(proc[p].at, status),
             status \in ActiveOcc \/ proc[p].at \in over
      PROVE  RowsQuiet
  <2>1. /\ occ'[proc[p].at].status = status
        /\ occ'[proc[p].at].hash = occ[proc[p].at].hash
        /\ \A q \in Jobs \ {proc[p].at} : occ'[q] = occ[q]
      BY <1>1, <1>4, Finished
  <2>2. UnderWay' \subseteq UnderWay
      BY <1>4, <2>1 DEF UnderWay, Counted, Dispatched
  <2> QED BY <1>4, <2>1, <2>2 DEF RowsQuiet, Quiet, Dispatched, Active, Exists
<1>5. ASSUME NEW p \in Procs, RowStatement(p)
      PROVE  RowsQuiet
  <2>1. Held(proc[p]) /\ Recorded(proc[p], occ, over, won, Accounted)
        /\ Calm(proc[p], occ, over)
      BY <1>1
  <2>2. CASE Project(p)
    <3>1. /\ proc[p].at \in Jobs /\ Dispatched(proc[p].at, occ, over)
          /\ Exists(proc[p].at) /\ proc[p].seen \in ActiveOcc \cup EndedOcc
          /\ proc[p].seen \in ActiveOcc \/ proc[p].at \in over
        BY <2>1, <2>2 DEF Project, At, Held, Holding, Recorded, Calm, Tells,
            ActiveOcc, EndedOcc, Exists
    <3> QED BY <1>4, <1>5, <2>2, <3>1 DEF Project
  <2>3. CASE CreateOccurrence(p)
    <3>1. /\ proc[p].at \in Jobs /\ proc[p].def = 1
          /\ child' = child /\ over' = over
        BY <2>1, <2>3 DEF CreateOccurrence, At, Held, Holding, Calm
    <3>2. /\ \A q \in Jobs : Exists(q) => occ'[q] = occ[q]
          /\ \A q \in Jobs \ {proc[p].at} : occ'[q] = occ[q]
          /\ ~Exists(proc[p].at) => occ'[proc[p].at].hash = 1
          /\ ~Exists(proc[p].at) =>
               \/ occ'[proc[p].at].status \in {"misfired", "skipped"}
               \/ ~Overlaps(proc[p].at)
        BY <1>1, <2>1, <2>3, <3>1, Created
    <3>3. CASE Exists(proc[p].at)
      <4>1. \A q \in Jobs : occ'[q] = occ[q]
          BY <3>1, <3>2, <3>3
      <4> QED BY <3>1, <4>1 DEF RowsQuiet, Quiet, Dispatched, Active, UnderWay,
              Counted, Exists
    <3>4. CASE ~Exists(proc[p].at)
      <4>1. /\ ~Active(proc[p].at) \/ proc[p].at \in over
            /\ (Dispatched(proc[p].at, occ, over) =>
                   Dispatched(proc[p].at, occ', over'))
          BY <3>1, <3>4 DEF Quiet, Exists, ActiveOcc, Dispatched
      <4>2. UnderWay' \subseteq UnderWay \cup {proc[p].at}
          BY <3>1, <3>2 DEF UnderWay, Counted
      <4>3. occ'[proc[p].at].status \in {"misfired", "skipped"}
              => UnderWay' \subseteq UnderWay
          BY <3>1, <3>2 DEF UnderWay, Counted, ActiveOcc
      <4>4. ~Overlaps(proc[p].at) => Cardinality(Counted) < MaxConcurrency
        <5>1. Counted \subseteq Jobs
            BY DEF Counted
        <5>2. Cardinality(Counted) \in Nat
            BY <5>1, FS_Subset, FS_CardinalityType
        <5> QED BY <5>2 DEF Overlaps, Counted
      <4> QED BY <3>1, <3>2, <3>4, <4>1, <4>2, <4>3, <4>4
              DEF RowsQuiet, Quiet, Dispatched, Active, Exists
    <3> QED BY <3>3, <3>4
  <2>4. CASE ClaimDispatch(p)
    <3>1. CASE occ[proc[p].at].status = "claimed"
      <4>1. /\ proc[p].at \in Jobs /\ child' = child /\ over' = over
            /\ FinishOccurrence(proc[p].at, "dispatching")
          BY <2>1, <2>4, <3>1 DEF ClaimDispatch, At, Held, Holding
      <4> QED BY <1>4, <1>5, <3>1, <4>1 DEF Dispatched, ActiveOcc, Exists
    <3>2. CASE occ[proc[p].at].status # "claimed"
        BY <1>3, <2>4, <3>2 DEF ClaimDispatch
    <3> QED BY <3>1, <3>2
  <2>5. CASE RecordQueued(p)
    <3>1. /\ proc[p].at \in Jobs /\ Dispatched(proc[p].at, occ, over)
          /\ Exists(proc[p].at)
        BY <2>1, <2>5 DEF RecordQueued, At, Held, Holding, Recorded, Calm, Exists
    <3> QED BY <1>4, <1>5, <2>5, <3>1 DEF RecordQueued, ActiveOcc
  <2>6. CASE RecordFailed(p)
      BY <2>1, <2>6 DEF RecordFailed, At, Calm
  <2> QED BY <1>5, <2>2, <2>3, <2>4, <2>5, <2>6 DEF RowStatement
<1> QED BY <1>3, <1>5, Statements

LEMMA CountStays ==
    ASSUME SchedulesInv, Quiet, RowsQuiet
    PROVE  Cardinality(UnderWay') <= MaxConcurrency
<1>1. /\ IsFiniteSet(Counted) /\ IsFiniteSet(UnderWay)
      /\ Cardinality(UnderWay) <= Cardinality(Counted)
      /\ Cardinality(UnderWay) \in Nat /\ Cardinality(Counted) \in Nat
  <2>1. Counted \subseteq Jobs /\ UnderWay \subseteq Counted
      BY DEF Counted, UnderWay
  <2> QED BY <2>1, FS_Subset, FS_CardinalityType
<1>2. ASSUME NEW S \in SUBSET Jobs, UnderWay' \subseteq S
      PROVE  Cardinality(UnderWay') <= Cardinality(S)
             /\ Cardinality(UnderWay') \in Nat /\ Cardinality(S) \in Nat
  <2>1. IsFiniteSet(S)
      BY FS_Subset
  <2> QED BY <1>2, <2>1, FS_Subset, FS_CardinalityType
<1>3. UnderWay \subseteq Jobs
    BY DEF UnderWay, Counted
<1>4. CASE UnderWay' \subseteq UnderWay
  <2>1. Cardinality(UnderWay') <= Cardinality(UnderWay)
        /\ Cardinality(UnderWay') \in Nat
      BY <1>2, <1>3, <1>4
  <2> QED BY <1>1, <2>1 DEF Quiet
<1>5. ASSUME NEW o \in Jobs, UnderWay' \subseteq UnderWay \cup {o},
             Cardinality(Counted) < MaxConcurrency
      PROVE  Cardinality(UnderWay') <= MaxConcurrency
  <2>1. Cardinality(UnderWay \cup {o}) <= Cardinality(UnderWay) + 1
    <3>1. Cardinality(UnderWay \cup {o}) =
            IF o \in UnderWay THEN Cardinality(UnderWay) ELSE Cardinality(UnderWay) + 1
        BY <1>1, FS_AddElement
    <3> QED BY <1>1, <3>1
  <2>2. /\ Cardinality(UnderWay') <= Cardinality(UnderWay \cup {o})
        /\ Cardinality(UnderWay') \in Nat /\ Cardinality(UnderWay \cup {o}) \in Nat
      BY <1>2, <1>3, <1>5
  <2> QED BY <1>1, <1>5, <2>1, <2>2
<1> QED BY <1>4, <1>5 DEF RowsQuiet
LEMMA CalmStays ==
    ASSUME NEW r, Held(r), Calm(r, occ, over), RowsQuiet
    PROVE  Calm(r, occ', over')
<1>1. r.todo \subseteq Jobs /\ (r.pc \in Holding => r.at \in Jobs)
    BY DEF Held, ProcType
<1>2. \A o \in Jobs : Dispatched(o, occ, over) => Dispatched(o, occ', over')
    BY DEF RowsQuiet
<1> HIDE DEF Dispatched
<1> QED BY <1>1, <1>2 DEF Calm, Holding

LEMMA OneCalm ==
    ASSUME ProcsHeld, ProcsCalm, RowsQuiet, NEW p \in Procs, NEW r,
           Calm(r, occ', over'), proc' = [proc EXCEPT ![p] = r]
    PROVE  ProcsCalm'
<1>1. ASSUME NEW q \in Procs
      PROVE  Calm(proc[q], occ', over')
    BY <1>1, CalmStays DEF ProcsHeld, ProcsCalm
<1> QED BY <1>1 DEF ProcsCalm, ProcsHeld

LEMMA AllCalm ==
    ASSUME ProcsHeld, ProcsCalm, RowsQuiet, proc' = proc
    PROVE  ProcsCalm'
<1>1. ASSUME NEW q \in Procs
      PROVE  Calm(proc[q], occ', over')
    BY <1>1, CalmStays DEF ProcsHeld, ProcsCalm
<1> QED BY <1>1 DEF ProcsCalm

LEMMA LeaveCalm ==
    ASSUME ProcsHeld, ProcsCalm, RowsQuiet, NEW p \in Procs, Leave(p)
    PROVE  ProcsCalm'
<1>1. Calm(Idle, occ', over')
    BY DEF Calm, Idle
<1> QED BY <1>1, OneCalm DEF Leave

LEMMA GotoCalm ==
    ASSUME ProcsHeld, ProcsCalm, RowsQuiet, NEW p \in Procs,
           NEW pc \in {"grants", "submits", "releases", "finishes", "advances",
                       "enables"},
           pc \in {"submits", "releases", "finishes"} =>
               /\ proc[p].at \in Jobs
               /\ \/ Dispatched(proc[p].at, occ, over)
                  \/ Dispatched(proc[p].at, occ', over'),
           Goto(p, pc)
    PROVE  ProcsCalm'
<1>1. Calm(proc[p], occ', over')
    BY CalmStays DEF ProcsHeld, ProcsCalm
<1>2. pc \in {"submits", "releases", "finishes"} =>
        Dispatched(proc[p].at, occ', over')
    BY DEF RowsQuiet
<1>3. Calm([proc[p] EXCEPT !.pc = pc], occ', over')
    BY <1>1, <1>2 DEF Calm, ProcsHeld, Held, ProcType
<1> QED BY <1>3, OneCalm DEF Goto

LEMMA ContinueCalm ==
    ASSUME ProcsHeld, ProcsCalm, RowsQuiet, NEW p \in Procs,
           proc[p].pc \in InLoop, Continue(p)
    PROVE  ProcsCalm'
<1>1. CASE proc[p].in = "web"
    BY <1>1, LeaveCalm DEF Continue
<1>2. CASE proc[p].in = "due"
    BY <1>2, GotoCalm DEF Continue
<1>3. CASE proc[p].in \in {"syncing", "recovering"}
  <2>1. Calm(proc[p], occ', over')
      BY CalmStays DEF ProcsHeld, ProcsCalm
  <2>2. Calm(Loop(p), occ', over')
      BY <1>3, <2>1 DEF Calm, Loop, Idle
  <2> QED BY <1>3, <2>2, OneCalm DEF Continue
<1> QED BY <1>1, <1>2, <1>3 DEF ProcsHeld, Held, ProcType, InLoop

LEMMA CalmKept ==
    ASSUME SchedulesInv, Quiet, NoTrouble, NoTrouble', [Next]_vars
    PROVE  ProcsCalm'
<1>0. ProcsHeld /\ ProcsCalm /\ RowsQuiet /\ ProcsRecorded
    BY RowsStayQuiet DEF SchedulesInv, Quiet
<1> USE <1>0
<1>1. ASSUME NEW p \in Workers, BeginTick(p) PROVE ProcsCalm'
  <2>1. Calm([Idle EXCEPT !.pc = "syncing", !.in = "syncing",
                           !.todo = Followed], occ', over')
      BY <1>1 DEF BeginTick, Calm, Idle, Followed, Dispatched, ActiveOcc
  <2> QED BY <1>1, <2>1, OneCalm DEF BeginTick, Procs
<1>2. ASSUME NEW p \in Workers, Project(p) PROVE ProcsCalm'
  <2>1. p \in Procs /\ proc[p].pc = "projects"
      BY <1>2 DEF Project, At, Procs
  <2>2. CASE Goto(p, "grants")
      BY <2>1, <2>2, GotoCalm
  <2>3. CASE Continue(p)
      BY <2>1, <2>3, ContinueCalm DEF InLoop
  <2> QED BY <1>2, <2>2, <2>3 DEF Project
<1>3. ASSUME NEW p \in Workers, Grant(p) PROVE ProcsCalm'
    BY <1>3, ContinueCalm DEF Grant, At, InLoop, Procs
<1>4. ASSUME NEW p \in Workers, BeginRecovery(p) PROVE ProcsCalm'
  <2>1. Calm([proc[p] EXCEPT !.pc = "recovering", !.in = "recovering",
                           !.todo = Stranded], occ', over')
      BY <1>4 DEF BeginRecovery, At, Calm, Stranded, Dispatched, ActiveOcc,
          Procs, ProcsHeld, Held, ProcType
  <2>2. proc' = [proc EXCEPT ![p] = [proc[p] EXCEPT !.pc = "recovering",
                               !.in = "recovering", !.todo = Stranded]]
      BY <1>4 DEF BeginRecovery, Procs
  <2> QED BY <2>1, <2>2, OneCalm DEF Procs
<1>5. ASSUME NEW p \in Workers, ReadDue(p) PROVE ProcsCalm'
  <2>1. Calm([Idle EXCEPT !.pc = "loads", !.in = "due", !.at = state.next],
              occ', over')
      BY DEF Calm, Idle
  <2> QED BY <1>5, <2>1, OneCalm, LeaveCalm DEF ReadDue, Procs
<1>6. ASSUME NEW p \in Workers, Load(p) PROVE ProcsCalm'
  <2>1. Calm(proc[p], occ', over') /\ Held(proc[p]) /\ p \in Procs
      BY CalmStays DEF Procs, ProcsHeld, ProcsCalm
  <2>2. Calm([proc[p] EXCEPT !.pc = "creates", !.def = file], occ', over')
      BY <1>6, <2>1, FirstVersion DEF Calm, Held, ProcType
  <2> QED BY <1>6, <2>1, <2>2, OneCalm DEF Load
<1>7. ASSUME NEW p \in Workers, MarkAttention(p) PROVE ProcsCalm'
    BY <1>7, LeaveCalm DEF MarkAttention, Procs
<1>8. ASSUME NEW p \in Workers, Advance(p) PROVE ProcsCalm'
    BY <1>8, LeaveCalm DEF Advance, Procs
<1>9. ASSUME NEW p \in Workers, NEW o \in Jobs, ReadJob(p, o) PROVE ProcsCalm'
  <2>1. Calm(proc[p], occ', over') /\ Held(proc[p]) /\ p \in Procs
      BY CalmStays DEF Procs, ProcsHeld, ProcsCalm
  <2>2. o \in proc[p].todo /\ proc[p].pc = "syncing"
      BY <1>9 DEF ReadJob, At
  <2> DEFINE rest == [proc[p] EXCEPT !.todo = @ \ {o}]
             read == [rest EXCEPT !.pc = "projects", !.at = o,
                                  !.seen = child[o].status]
  <2>3. Calm(rest, occ', over')
      BY <2>1, <2>2 DEF Calm, Held, ProcType
  <2>4. Calm(read, occ', over')
      BY <2>1, <2>2 DEF Calm, Held, ProcType
  <2>5. proc' = [proc EXCEPT ![p] = IF Tells(child[o].status) THEN read ELSE rest]
      BY <1>9 DEF ReadJob
  <2> HIDE DEF read, rest
  <2> QED BY <2>1, <2>3, <2>4, <2>5, OneCalm
<1>10. ASSUME NEW p \in Workers, NEW o \in Jobs, LoadAgain(p, o) PROVE ProcsCalm'
  <2>1. Calm(proc[p], occ', over') /\ Held(proc[p]) /\ p \in Procs
      BY CalmStays DEF Procs, ProcsHeld, ProcsCalm
  <2>2. o \in proc[p].todo /\ occ[o].hash = file
    <3>1. o \in proc[p].todo
        BY <1>10 DEF LoadAgain
    <3>2. Exists(o)
        BY <2>1, <3>1 DEF ProcsRecorded, Recorded, Exists
    <3> QED BY <3>1, <3>2, FirstVersion DEF Quiet
  <2>3. Calm([proc[p] EXCEPT !.todo = @ \ {o}, !.at = o, !.pc = "submits"],
              occ', over')
      BY <2>1, <2>2 DEF Calm, Held, ProcType
  <2>4. proc' = [proc EXCEPT ![p] = [proc[p] EXCEPT !.todo = @ \ {o}, !.at = o,
                                                 !.pc = "submits"]]
      BY <1>10, <2>1, <2>2 DEF LoadAgain
  <2> QED BY <2>1, <2>3, <2>4, OneCalm
<1>11. ASSUME NEW p \in Procs, CreateOccurrence(p) PROVE ProcsCalm'
  <2>1. Calm(proc[p], occ', over') /\ Held(proc[p])
      BY CalmStays DEF ProcsHeld, ProcsCalm
  <2>2. ASSUME NEW pc \in {"claims", "advances"}, Handle(p, pc)
        PROVE  ProcsCalm'
    <3>1. Calm([proc[p] EXCEPT !.pc = pc, !.def = 0], occ', over')
        BY <2>1, <2>2 DEF Calm, Held, ProcType
    <3> QED BY <2>2, <3>1, OneCalm DEF Handle
  <2>3. Leave(p) \/ \E pc \in {"claims", "advances"} : Handle(p, pc)
      BY <1>11 DEF CreateOccurrence
  <2> QED BY <2>2, <2>3, LeaveCalm
<1>12. ASSUME NEW p \in Procs, ClaimDispatch(p) PROVE ProcsCalm'
  <2>1. proc[p].at \in Jobs /\ proc[p].pc = "claims"
      BY <1>12 DEF ClaimDispatch, At, Holding, ProcsHeld, Held
  <2>2. CASE occ[proc[p].at].status = "claimed"
    <3>1. Dispatched(proc[p].at, occ', over')
        BY <1>12, <2>1, <2>2, Finished DEF ClaimDispatch, Dispatched, ActiveOcc,
            SchedulesInv, RowTypes
    <3> QED BY <1>12, <2>1, <2>2, <3>1, GotoCalm DEF ClaimDispatch
  <2>3. CASE occ[proc[p].at].status # "claimed"
      BY <1>12, <2>1, <2>3, ContinueCalm DEF ClaimDispatch, InLoop
  <2> QED BY <2>2, <2>3
<1>13. ASSUME NEW p \in Procs, SubmitJob(p) PROVE ProcsCalm'
  <2>1. proc[p].at \in Jobs /\ Dispatched(proc[p].at, occ, over)
      BY <1>13 DEF SubmitJob, At, Holding, ProcsHeld, Held, ProcsCalm, Calm
  <2> QED BY <1>13, <2>1, GotoCalm DEF SubmitJob
<1>14. ASSUME NEW p \in Procs, ReleaseJob(p) PROVE ProcsCalm'
  <2>1. proc[p].at \in Jobs /\ Dispatched(proc[p].at, occ, over)
      BY <1>14 DEF ReleaseJob, At, Holding, ProcsHeld, Held, ProcsCalm, Calm
  <2> QED BY <1>14, <2>1, GotoCalm DEF ReleaseJob
<1>15. ASSUME NEW p \in Procs, RecordQueued(p) PROVE ProcsCalm'
    BY <1>15, ContinueCalm DEF RecordQueued, At, InLoop
<1>16. ASSUME NEW p \in Procs, RecordFailed(p) PROVE ProcsCalm'
    BY <1>16 DEF RecordFailed, At, ProcsCalm, Calm
<1>17. ASSUME NEW p \in Procs, SubmissionRaises(p) PROVE ProcsCalm'
    BY <1>17 DEF SubmissionRaises, NoTrouble, RowTypes, SchedulesInv
<1>18. ASSUME NEW p \in Procs, Crash(p) PROVE ProcsCalm'
    BY <1>18 DEF Crash, NoTrouble, RowTypes, SchedulesInv
<1>19. ASSUME NEW o \in Jobs, RunNow(o) PROVE ProcsCalm'
  <2>1. Calm([Idle EXCEPT !.pc = "creates", !.in = "web", !.at = o,
                           !.def = file], occ', over')
      BY FirstVersion DEF Calm, Idle
  <2> QED BY <1>19, <2>1, OneCalm DEF RunNow, Procs
<1>20. ASSUME NEW o \in Jobs, JobMoves(o) \/ JobTurns(o) PROVE ProcsCalm'
    BY <1>20, AllCalm DEF JobMoves, JobTurns
<1>21. CASE AskEnable
  <2>1. Calm([Idle EXCEPT !.pc = "checks", !.in = "web", !.def = file],
              occ', over')
      BY DEF Calm, Idle
  <2> QED BY <1>21, <2>1, OneCalm DEF AskEnable, Procs
<1>22. CASE CheckTested
  <2>1. CASE Leave("web")
      BY <2>1, LeaveCalm DEF Procs
  <2>2. CASE Goto("web", "enables")
      BY <2>2, GotoCalm DEF Procs
  <2> QED BY <1>22, <2>1, <2>2 DEF CheckTested
<1>23. CASE Enable
    BY <1>23, LeaveCalm DEF Enable, Procs
<1>24. CASE Pause
    BY <1>24 DEF Pause, NoTrouble, RowTypes, SchedulesInv
<1>25. CASE SaveFile
    BY <1>25 DEF SaveFile, NoTrouble, RowTypes, SchedulesInv
<1>26. CASE SaveState
    BY <1>26, AllCalm DEF SaveState
<1>27. CASE TimePasses
    BY <1>27, AllCalm DEF TimePasses
<1>28. CASE UNCHANGED vars
    BY <1>28, AllCalm DEF vars
<1> QED BY <1>1, <1>2, <1>3, <1>4, <1>5, <1>6, <1>7, <1>8, <1>9, <1>10, <1>11,
           <1>12, <1>13, <1>14, <1>15, <1>16, <1>17, <1>18, <1>19, <1>20,
           <1>21, <1>22, <1>23, <1>24, <1>25, <1>26, <1>27, <1>28
        DEF Next, TickStep, Execute, Procs

QuietInv == SchedulesInv /\ (NoTrouble => Quiet)

LEMMA QuietStep == QuietInv /\ [Next]_vars => QuietInv'
<1> SUFFICES ASSUME QuietInv, [Next]_vars PROVE QuietInv'
    OBVIOUS
<1>1. SchedulesInv'
    BY SchedulesStep DEF QuietInv
<1>2. ASSUME NoTrouble'
      PROVE  Quiet'
  <2>1. SchedulesInv /\ Quiet /\ NoTrouble
      BY <1>2, StillNoTrouble DEF QuietInv
  <2>2. RowsQuiet
      BY <2>1, RowsStayQuiet
  <2>3. ProcsCalm'
      BY <1>2, <2>1, CalmKept
  <2>4. Cardinality(UnderWay') <= MaxConcurrency
      BY <2>1, <2>2, CountStays
  <2>5. Cardinality(UnderWay)' = Cardinality(UnderWay')
      OBVIOUS
  <2> QED BY <2>2, <2>3, <2>4, <2>5 DEF Quiet, RowsQuiet, Exists
<1> QED BY <1>1, <1>2 DEF QuietInv

LEMMA QuietInitially == Init => QuietInv
<1> SUFFICES ASSUME Init PROVE Quiet
    BY SchedulesInitially DEF QuietInv
<1> USE DEF Init
<1>1. ProcsCalm
    BY DEF ProcsCalm, Calm, Idle
<1>2. \A o \in Jobs : ~Active(o) /\ ~Exists(o)
    BY DEF Active, Exists, ChildInit
<1>3. UnderWay = {}
    BY DEF UnderWay, Counted, ActiveOcc
<1>4. Cardinality(UnderWay) = 0
    BY <1>3, FS_EmptySet
<1> QED BY <1>1, <1>2, <1>4 DEF Quiet

(***************************************************************************)
(* No concurrent copies: the jobs under way that have not ended before are *)
(* within max_concurrency, as long as no submission fails, no process dies *)
(* and nobody edits.                                                       *)
(***************************************************************************)
THEOREM NoCopiesTheorem == Spec => []NoCopies
<1> DEFINE Running == {o \in Jobs : /\ Trigger[o] # "test"
                                   /\ Active(o) /\ o \notin over}
<1>1. QuietInv => NoCopies
  <2> SUFFICES ASSUME SchedulesInv, Quiet
               PROVE  Cardinality(Running) <= MaxConcurrency
      BY DEF QuietInv, NoCopies, NoTrouble
  <2>1. Running \subseteq UnderWay /\ UnderWay \subseteq Jobs
      BY DEF Quiet, UnderWay, Counted
  <2>2. IsFiniteSet(UnderWay)
      BY <2>1, FS_Subset
  <2>3. /\ Cardinality(Running) <= Cardinality(UnderWay)
        /\ Cardinality(Running) \in Nat /\ Cardinality(UnderWay) \in Nat
      BY <2>1, <2>2, FS_Subset, FS_CardinalityType
  <2> QED BY <2>3 DEF Quiet
<1> QED BY <1>1, QuietInitially, QuietStep, PTL DEF Spec
=============================================================================
