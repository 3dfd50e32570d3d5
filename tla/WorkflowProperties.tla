------------------------- MODULE WorkflowProperties -------------------------
(***************************************************************************)
(* What a workflow run is for: steps begin in order, within the limit, and *)
(* the run's end is the end of its work.                                   *)
(***************************************************************************)
EXTENDS Workflows

(***************************************************************************)
(* Types of the rows, of the work and of both processes.                   *)
(***************************************************************************)
WorkflowTypeOK ==
    /\ ChildTypeOK
    /\ run \in [status : RunStatus, cancel : BOOLEAN]
    /\ step \in [Steps -> StepStatus]
    /\ ref \in [Steps -> Nat]
    /\ requests \in Seq([action : {ActionOf[s] : s \in Steps},
                         status : {"pending", "approved", "denied", "expired"}])
    /\ batch \in [Steps -> Seq({"running", "succeeded", "failed"})]
    /\ proc \in [{"advance", "cancel"} -> Process]
    /\ due \in BOOLEAN
    /\ revived \subseteq Jobs
    /\ cancels \in 0 .. TroubleBound
    /\ mishaps \in 0 .. 2 * TroubleBound

\* Was the work of a step begun, and is it going on?
Begun(s) ==
    \/ Kind[s] = "agent" /\ child[s].status # "none"
    \/ Kind[s] = "approval" /\ ref[s] # 0
    \/ Kind[s] = "batch" /\ batch[s] # <<>>
    \/ Kind[s] = "local" /\ step[s] = "succeeded"

Working(s) ==
    \/ Kind[s] = "agent" /\ Active(s)
    \/ Kind[s] = "batch" /\ \E n \in DOMAIN batch[s] : batch[s][n] = "running"
    \/ /\ Kind[s] = "approval" /\ ref[s] # 0 /\ step[s] = "waiting_approval"
       /\ requests[ref[s]].status = "pending"

(***************************************************************************)
(* Steps begin in order: the work of a step begins when no job it depends  *)
(* on is under way, except one that was asked to stop, and, if the step is *)
(* for success, when those that ran succeeded - although advance() judges  *)
(* by rows it read before, while cancel() rewrites them.  Excepted are the *)
(* jobs that an operator or a late worker brought back from their end, and *)
(* those that depend on one: advance() may have begun one by the first end *)
(* and, if it died before it recorded the job, pass over it by the second. *)
(***************************************************************************)
Revised(d) == d \in revived \/ DependsOn[d] \cap revived # {}

BeginsInOrder ==
    [][\A s \in Steps : ~Begun(s) /\ Begun(s)' =>
         \A d \in DependsOn[s] \cap Jobs : ~Revised(d) =>
           /\ Active(d) => child[d].cancel
           /\ Condition[s] = "on_success" => child[d].status \in {"none", "succeeded"}]_vars

(***************************************************************************)
(* The run's max_concurrency bounds the work under way, not only the rows: *)
(* whatever happens to jobs and rows between two calls of advance(), as    *)
(* long as no process dies between beginning a step and recording it and   *)
(* no job comes back from its end.  cancel() marks the step of an arena or *)
(* evaluation without stopping it: in a canceled run those do not count.   *)
(***************************************************************************)
Counts(s) == Working(s) /\ ~(run.cancel /\ Kind[s] = "batch")

LimitKept ==
    mishaps = 0
      => Cardinality({s \in Steps : Counts(s)}) <= MaxConcurrency

(***************************************************************************)
(* A run that ended by itself left nothing behind that still works, under  *)
(* the same exceptions.                                                    *)
(***************************************************************************)
EndIsQuiet ==
    /\ mishaps = 0 /\ ~run.cancel
    /\ run.status \in {"succeeded", "failed"}
    => \A s \in Steps : ~Working(s)

(***************************************************************************)
(* A crash between beginning a child job and recording it does not lose    *)
(* the job: as long as the run goes on, a job that is not recorded belongs *)
(* to a step that is still to be begun (and will be found by its key), or  *)
(* is just being recorded, or the run was canceled in between.  The job is *)
(* lost when what it depends on came back and ended otherwise: its step is *)
(* skipped then.                                                           *)
(***************************************************************************)
JobFoundAgain ==
    \A s \in Jobs :
      child[s].status # "none" /\ ref[s] = 0 =>
        \/ step[s] = "pending" /\ run.status \notin {"succeeded", "failed"}
        \/ step[s] = "skipped" /\ DependsOn[s] \cap revived # {}
        \/ run.cancel

-----------------------------------------------------------------------------
(***************************************************************************)
(* Fairness: advance() and cancel() go on, a run is looked at as long as   *)
(* it is open in the UI, jobs and batches that work end, requests are      *)
(* decided.                                                                *)
(***************************************************************************)
Fairness ==
    /\ WF_vars(Enter) /\ WF_vars(AdvanceOn) /\ WF_vars(CancelOn("cancel"))
    /\ \A s \in Jobs : /\ WF_vars(QueueMoves(s))
                       /\ SF_vars(WorkerSettles(s) /\ HasEnded(s)')
    /\ \A s \in Steps : WF_vars(BatchEnds(s))
    /\ \A r \in 1 .. RequestBound : WF_vars(r \in DOMAIN requests /\ DecideRequest(r))

FairSpec == Spec /\ Fairness

\* The children whose end advance() cannot see or cannot use: the step waits
\* for the approval of its job's start, the job ended before its first
\* attempt, was canceled, or was left before its release.
Lost(s) ==
    \/ step[s] = "waiting_approval"
    \/ HasEnded(s) /\ ~child[s].ran
    \/ child[s].cancel
    \/ child[s].status \in {"canceled", "waiting_input"}

(***************************************************************************)
(* A run that somebody looks at comes to its end, whatever its children do *)
(* and across crashes of advance(), unless a child is lost for good.       *)
(***************************************************************************)
WatchedRunEnds ==
    <>(run.status \in EndedRun) \/ <>[](\E s \in Jobs : Lost(s))

-----------------------------------------------------------------------------
(***************************************************************************)
(* A statement of the documentation that the code refutes.                 *)
(***************************************************************************)

(***************************************************************************)
(* "Advance workflow DAGs by projecting durable child job state"           *)
(* (coordinator.py:65): once a child job has ended, its step ends, or the  *)
(* run, as long as somebody looks.  A step whose job waited for approval   *)
(* is taken for an approval step and never looks at the job again.         *)
(***************************************************************************)
StepFollowsJob ==
    \A s \in Jobs :
      HasEnded(s) ~> (step[s] \in EndedStep \/ ~HasEnded(s) \/ run.status \in EndedRun)
=============================================================================
