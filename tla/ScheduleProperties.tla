------------------------- MODULE ScheduleProperties -------------------------
(***************************************************************************)
(* What a schedule promises: every instant is accounted for, runs do not   *)
(* overlap, and only what was tested is enabled.                           *)
(***************************************************************************)
EXTENDS Schedules

PCs == {"idle", "syncing", "projects", "grants", "recovering", "loads",
        "creates", "claims", "submits", "releases", "finishes", "fails",
        "marks", "advances", "checks", "enables"}

(***************************************************************************)
(* Types of the rows and of the processes.                                 *)
(***************************************************************************)
ScheduleTypeOK ==
    /\ ChildTypeOK
    /\ occ \in [Jobs -> [status : ActiveOcc \cup EndedOcc \cup {"none"},
                         hash : Versions \cup {0}]]
    /\ state \in [hash : Versions, enabled : BOOLEAN,
                  tested : Versions \cup {0}, next : 1 .. SlotCount + 1]
    /\ file \in Versions
    /\ clock \in 0 .. SlotCount /\ left \subseteq Slots /\ late \subseteq Slots
    /\ won \subseteq over /\ over \subseteq Jobs
    /\ proc \in [Procs -> [pc : PCs, todo : SUBSET Jobs, at : Jobs \cup {0},
                           def : Versions \cup {0}, seen : ChildStatus,
                           in : {"none", "syncing", "recovering", "due", "web"}]]
    /\ edits \in 0 .. EditBound
    /\ {mishaps, turns} \subseteq 0 .. TroubleBound

(***************************************************************************)
(* No concurrent copies (docs/harness.md:554): the jobs under way are      *)
(* within max_concurrency, although the rows that are counted lag behind   *)
(* the jobs and several processes rewrite them unconditionally - as long   *)
(* as no submission fails, no process dies and nobody edits the definition *)
(* of a row that is being dispatched.  A job that comes back after it had  *)
(* ended (a late finish_attempt, the operator's retry) is excepted: its    *)
(* row has left the count and stays as it is, so it may overlap another.   *)
(***************************************************************************)
NoCopies ==
    mishaps = 0 /\ edits = 0
      => Cardinality({o \in Jobs : /\ Trigger[o] # "test"
                                 /\ Active(o) /\ o \notin over})
           <= MaxConcurrency

(***************************************************************************)
(* The grant of Test now is for the exact hash that was tested: it names   *)
(* the initial version or one whose test job has succeeded, whatever is    *)
(* edited while the test runs and whoever projects it.                     *)
(***************************************************************************)
GrantIsEarned ==
    state.tested \in Versions \ {1}
      => \E o \in Jobs : /\ Trigger[o] = "test"
                         /\ occ[o].hash = state.tested
                         /\ o \in won

(***************************************************************************)
(* next_run_at passes an instant only when a row accounts for it, and a    *)
(* row that is claimed and not yet dispatched does so only if a tick found *)
(* the instant beyond its grace; or when enable or an edit left the        *)
(* instant behind: through crashes, failures and ticks of several workers  *)
(* that overwrite each other, and that may take next_run_at back.          *)
(***************************************************************************)
Passed(slot) ==
    Exists(slot) /\ (occ[slot].status = "claimed" => slot \in late)

InstantsAreRecorded ==
    \A slot \in Slots : slot < state.next => Passed(slot) \/ slot \in left

(***************************************************************************)
(* Fairness: the processes take their next statement, an idle worker ticks *)
(* again (run_forever waits with a bound), and a request finishes.         *)
(***************************************************************************)
WorkerStep(p) == TickStep(p) \/ Execute(p)

ScheduleFairness ==
    /\ \A p \in Workers : WF_vars(WorkerStep(p))
    /\ WF_vars(Execute("web"))

ScheduleFairSpec == Spec /\ ScheduleFairness

(***************************************************************************)
(* Dispatch goes on after its process died: a row that is being dispatched *)
(* reaches the queue or an end.                                            *)
(***************************************************************************)
DispatchGoesOn ==
    \A o \in Jobs : occ[o].status = "dispatching" ~> occ[o].status # "dispatching"

(***************************************************************************)
(* The end of a job reaches its row, although a slow dispatcher may set    *)
(* the row back to queued after that, unless the job comes back first.     *)
(***************************************************************************)
ResultArrives ==
    \A o \in Jobs :
        (HasEnded(o) /\ occ[o].status \in {"dispatching", "queued", "running"})
          ~> occ[o].status \in EndedOcc \/ ~HasEnded(o)
=============================================================================
